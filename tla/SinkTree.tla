------------------------------ MODULE SinkTree ------------------------------
(***************************************************************************)
(* Trees of MediaSinks (media.py): a sink is constructed over existing     *)
(* sinks, each of which gets it as its parent, and cleanup closes a sink   *)
(* and then its children, depth first.  The cleanup of a leaf may raise,   *)
(* as those of FFmpegSink and FFmpegMuxSink do when FFmpeg fails, and the  *)
(* exception ends the whole walk.  A constructor that raises at its first  *)
(* destination leaves a sink nobody holds, and __del__ cleans it up; at a  *)
(* later one it leaves a sink that the destinations before it keep alive   *)
(* as their parent.  Sinks that the application lets go are left out.      *)
(***************************************************************************)
EXTENDS Naturals, Sequences, FiniteSets, SequencesExt

CONSTANTS
    Sinks,          \* sinks that may be constructed
    MaxCleanups     \* bound on calls of cleanup

NoSink == "none"

ASSUME SinkAssumption == IsFiniteSet(Sinks) /\ NoSink \notin Sinks /\ MaxCleanups \in Nat

VARIABLES
    made,           \* sinks that exist
    parent,         \* _parent, or NoSink
    children,       \* _children, in order
    sink_closed,    \* _closed
    failed,         \* history: leaves whose cleanup raised
    refused,        \* history: sinks whose constructor raised
    cleanups        \* calls of cleanup so far

treeVars == <<made, parent, children, sink_closed, failed, refused, cleanups>>

TreeInit ==
    /\ made = {} /\ cleanups = 0 /\ sink_closed = {} /\ failed = {} /\ refused = {}
    /\ parent = [s \in Sinks |-> NoSink]
    /\ children = [s \in Sinks |-> <<>>]

-----------------------------------------------------------------------------
\* A sink and everything below it, depth first, but nothing from the sinks in skip on
WalkBut(skip, kids, s) ==
    LET walk[n \in 0 .. Cardinality(Sinks)] ==
            [t \in Sinks |->
                IF t \in skip THEN <<>>
                ELSE IF n = 0 THEN <<t>>
                ELSE <<t>> \o FlattenSeq([i \in DOMAIN kids[t] |-> walk[n - 1][kids[t][i]]])]
    IN  walk[Cardinality(Sinks)][s]

\* walk_children(with_self=True)
Walk(kids, s) == WalkBut({}, kids, s)

Below(s) == ToSet(Walk(children, s))

\* The sinks that a cleanup of s closes one after another: it returns from closed ones
Visited(kids, s) == WalkBut(sink_closed, kids, s)

Leaf(kids, t) == kids[t] = <<>>

(* A mutation of CleanupEffect: only the first child of a sink is cleaned up. *)
CleanupEffectFirst(kids, s, bad) ==
    [closed |-> IF s \in sink_closed THEN {}
                ELSE {s} \cup (IF Leaf(kids, s) THEN {} ELSE {kids[s][1]}),
     failed |-> {}]

\* Effect of cleanup on s when the leaves in bad raise: the walk is closed up to
\* and with the first of them
CleanupEffect(kids, s, bad) ==
    LET seq == Visited(kids, s)
        hits == {i \in DOMAIN seq : seq[i] \in bad /\ Leaf(kids, seq[i])}
        end == IF hits = {} THEN Len(seq) ELSE CHOOSE i \in hits : \A j \in hits : i <= j
    IN  [closed |-> {seq[i] : i \in 1 .. end},
         failed |-> IF hits = {} THEN {} ELSE {seq[end]}]

\* _check_child: a sink must be new to the tree, without a parent, and open
CheckChild(kids, par, s, c) ==
    /\ c # s /\ par[c] = NoSink
    /\ c \notin ToSet(kids[s])
    /\ c \notin sink_closed

\* The destinations that the constructor registers before one is refused
Accepted(s, dests) ==
    LET ok(n) == \A i \in 1 .. n :
                    CheckChild([children EXCEPT ![s] = SubSeq(dests, 1, i - 1)],
                               [t \in Sinks |-> IF t \in ToSet(SubSeq(dests, 1, i - 1)) THEN s
                                                ELSE parent[t]], s, dests[i])
    IN  CHOOSE n \in 0 .. Len(dests) : ok(n) /\ (n = Len(dests) \/ ~ok(n + 1))

\* MediaSink.__init__ and MultiSink.__init__ with _register_child.  The exception
\* of a refused destination drops the last reference to s, unless a destination
\* before it has s as its parent
Construct(s, dests) ==
    LET n == Accepted(s, dests)
        kids == [children EXCEPT ![s] = SubSeq(dests, 1, n)]
    IN  /\ s \notin made
        /\ ToSet(dests) \subseteq made
        /\ made' = made \cup {s}
        /\ children' = kids
        /\ parent' = [t \in Sinks |-> IF t \in ToSet(kids[s]) THEN s ELSE parent[t]]
        /\ refused' = IF n < Len(dests) THEN refused \cup {s} ELSE refused
        /\ sink_closed' = IF n < Len(dests) /\ n = 0 THEN sink_closed \cup {s} ELSE sink_closed
        /\ UNCHANGED <<failed, cleanups>>

\* cleanup, by the application or by stop_listening on the root
Cleanup(s, bad) ==
    LET effect == CleanupEffect(children, s, bad) IN
    /\ s \in made /\ cleanups < MaxCleanups
    /\ bad \subseteq {t \in Below(s) : Leaf(children, t)}
    /\ cleanups' = cleanups + 1
    /\ sink_closed' = sink_closed \cup effect.closed
    /\ failed' = failed \cup effect.failed
    /\ UNCHANGED <<made, parent, children, refused>>

TreeNext ==
    \/ \E s \in Sinks :
        \/ Construct(s, <<>>)
        \/ \E c \in Sinks \ {s} : Construct(s, <<c>>)
        \/ \E c, d \in Sinks \ {s} : Construct(s, <<c, d>>)
    \/ \E s \in Sinks, bad \in SUBSET Sinks : Cleanup(s, bad)

TreeSpec == TreeInit /\ [][TreeNext]_treeVars

-----------------------------------------------------------------------------
\* The sinks form a forest whatever is constructed over what, also when a
\* constructor fails half way: a packet reaches no sink along two paths, and no
\* walk runs in a circle.
Forest ==
    \A s \in made :
        /\ \A c \in ToSet(children[s]) : parent[c] = s /\ s \notin Below(c)
        /\ Len(children[s]) = Cardinality(ToSet(children[s]))
        /\ parent[s] # NoSink => s \in ToSet(children[parent[s]])

\* "Close this sink and all child sinks": a child of a closed sink is open only
\* if a leaf at or below one of the children before it raised.  What comes first is
\* closed whatever raises later, and with no exception everything is.
CleanupReachesAll ==
    \A s \in made \cap sink_closed : \A i \in DOMAIN children[s] :
        children[s][i] \in sink_closed
            \/ \E j \in 1 .. i - 1 : failed \cap Below(children[s][j]) # {}

\* The sinks form a forest, and cleanup reaches all of a tree.
TreesAreCleaned == Forest /\ CleanupReachesAll

\* The docstring of MediaSink.cleanup taken literally.
CleanupClosesChildren == \A s \in made \cap sink_closed : Below(s) \subseteq sink_closed

\* A constructor that raises leaves the sinks it was given as they were.
RefusalsUndone == \A s \in refused : children[s] = <<>>
=============================================================================

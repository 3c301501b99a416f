---------------------------- MODULE SinkRouting -----------------------------
(***************************************************************************)
(* Which packets reach which sink (media.py).                              *)
(*                                                                         *)
(* First, chains: a packet is written to a sink only if wants_media says   *)
(* so, and each wrapper answers for the chain below it, under the codec it *)
(* will itself pass on.  Second, PerUserSink: children are made lazily per *)
(* user, or per SSRC while the user is unknown, on the dispatcher, while   *)
(* the event loop may clean the sink up.                                   *)
(***************************************************************************)
EXTENDS Naturals, Sequences, FiniteSets, SequencesExt

CONSTANTS
    MaxChain,         \* wrappers in a chain (bound)
    Users, Ssrcs,     \* senders and their streams
    MaxChildren       \* children the factory makes (bound)

ASSUME RoutingAssumption ==
    MaxChain \in Nat /\ MaxChildren \in Nat

VARIABLES
    chain, leaf,      \* wrappers from the root down, and the formats the leaf wants
    matches,          \* the predicates of the ConditionalFilters hold for the packet
    offered, arrived, \* the packet offered to the root, and what came to the leaf
    fallback_to_ssrc, \* the option of the PerUserSink
    by_key,           \* _children_by_key: pairs of key and child
    user_of,          \* _user_ids_by_ssrc, or 0
    made_children,    \* children made by the factory so far
    open_children,    \* those that have not been cleaned up
    got,              \* history: pairs of child and user ID of a packet it got
    pu_closed,        \* _closed of the PerUserSink
    pu_at,            \* where the dispatcher is in write
    pu_packet,        \* SSRC and user ID of the packet it writes
    pu_key,           \* what _packet_key returns
    popped,           \* the child popped from its SSRC, or 0
    pu_clean,         \* where cleanup is
    unclosed,         \* the children it has collected and not yet cleaned up
    found_at          \* history: where the dispatcher was when it collected them

chainVars == <<chain, leaf, matches, offered, arrived>>
writeVars == <<pu_at, pu_packet, pu_key, popped>>
cleanVars == <<pu_closed, pu_clean, unclosed, found_at>>
tableVars == <<fallback_to_ssrc, by_key, user_of, made_children, open_children, got>>
userVars == <<tableVars, writeVars, cleanVars>>
routingVars == <<chainVars, userVars>>

Formats == {"opus", "pcm", "video"}
Filters == [audio_filter |-> {"opus", "pcm"}, opus_filter |-> {"opus"}, pcm_filter |-> {"pcm"}]
Wrappers == {"decode", "volume", "silence", "multi", "conditional"} \cup DOMAIN Filters

-----------------------------------------------------------------------------
(* Chains.  Position i of the chain has everything from i + 1 on below it. *)

\* What wants_media of each wrapper answers for a format, when the sink below
\* wants the formats in below
Decoded(f) == IF f = "opus" THEN "pcm" ELSE f
MultiSinkWants(below, f) == TRUE
ConditionalFilterWants(below, f) == f \in below
MediaFilterWants(codecs, below, f) == f \in below /\ f \in codecs
PCMDecodeSinkWants(below, f) == Decoded(f) \in below
VolumeTransformerWants(below, f) == Decoded(f) \in below
SilenceFillSinkWants(below, f) == f \in below \/ (f # "video" /\ "pcm" \in below)

Answer(kind, below, f) ==
    CASE kind = "multi" -> MultiSinkWants(below, f)
      [] kind = "conditional" -> ConditionalFilterWants(below, f)
      [] kind = "decode" -> PCMDecodeSinkWants(below, f)
      [] kind = "volume" -> VolumeTransformerWants(below, f)
      [] kind = "silence" -> SilenceFillSinkWants(below, f)
      [] OTHER -> MediaFilterWants(Filters[kind], below, f)

\* wants_media of everything from position i on
Wants(ch, lf) ==
    LET w[i \in 0 .. Len(ch)] ==
            IF i = 0 THEN lf
            ELSE {f \in Formats : Answer(ch[Len(ch) + 1 - i], w[i - 1], f)}
    IN  [i \in 1 .. Len(ch) + 1 |-> w[Len(ch) + 1 - i]]

\* What write of each wrapper passes to the sink below of a packet it gets
MultiSinkWrite(below, f) == {f} \cap below
ConditionalFilterWrite(below, f) == IF matches THEN {f} ELSE {}
MediaFilterWrite(codecs, below, f) == {f} \cap codecs
PCMDecodeSinkWrite(below, f) == {Decoded(f)}
VolumeTransformerWrite(below, f) == {Decoded(f)}
SilenceFillSinkWrite(below, f) == IF f \in below THEN {f} ELSE {Decoded(f)} \cap below

Pass(kind, below, f) ==
    CASE kind = "multi" -> MultiSinkWrite(below, f)
      [] kind = "conditional" -> ConditionalFilterWrite(below, f)
      [] kind = "decode" -> PCMDecodeSinkWrite(below, f)
      [] kind = "volume" -> VolumeTransformerWrite(below, f)
      [] kind = "silence" -> SilenceFillSinkWrite(below, f)
      [] OTHER -> MediaFilterWrite(Filters[kind], below, f)

\* What arrives at the leaf of a packet written to the root
Arrives(ch, lf, f) ==
    LET wants == Wants(ch, lf)
        p[i \in 0 .. Len(ch)] ==
            IF i = 0 THEN {f}
            ELSE UNION {Pass(ch[i], wants[i + 1], g) : g \in p[i - 1]}
    IN  p[Len(ch)]

ChainInit ==
    /\ chain \in BoundedSeq(Wrappers, MaxChain)
    /\ leaf \in SUBSET Formats
    /\ matches \in (IF "conditional" \in ToSet(chain) THEN BOOLEAN ELSE {TRUE})
    /\ offered = "none" /\ arrived = {}

\* _dispatch_media_sink_packet: the root is asked before it is written to
Offer(f) ==
    /\ offered = "none"
    /\ f \in Wants(chain, leaf)[1]
    /\ offered' = f
    /\ arrived' = Arrives(chain, leaf, f)
    /\ UNCHANGED <<chain, leaf, matches, userVars>>

ChainNext == \E f \in Formats : Offer(f)

\* A leaf only ever gets packets of a format it has asked for, in whatever way
\* decoding, filtering, silence and fan-out sinks are stacked on it.
LeafGetsWanted == arrived \subseteq leaf

\* What the chain asks for it also delivers: a wrapper does not claim packets
\* that a sink below then drops (only a fan-out claims whatever it is offered,
\* and a predicate decides when the packet comes).
ClaimsAreKept ==
    offered # "none" /\ matches /\ "multi" \notin ToSet(chain) => Cardinality(arrived) = 1

-----------------------------------------------------------------------------
(* PerUserSink.  A packet has an SSRC and a user ID, 0 when it is unknown. *)
(* The dispatcher and the event loop, which cleans up, alternate between   *)
(* any two steps below.                                                    *)

NoUser == 0
NoChild == 0
UserKey(u) == <<"user", u>>
SsrcKey(s) == <<"ssrc", s>>

Child(k) == CHOOSE c \in 1 .. MaxChildren : <<k, c>> \in by_key
Known(k) == \E c \in 1 .. MaxChildren : <<k, c>> \in by_key

UserInit ==
    /\ fallback_to_ssrc \in BOOLEAN
    /\ by_key = {} /\ user_of = [s \in Ssrcs |-> NoUser]
    /\ made_children = 0 /\ open_children = {} /\ got = {}
    /\ pu_at = "idle" /\ pu_packet = <<>> /\ pu_key = <<>> /\ popped = NoChild
    /\ pu_closed = FALSE /\ pu_clean = "no" /\ unclosed = {} /\ found_at = "nowhere"

\* write returns
WriteReturns == pu_at' = "idle" /\ pu_packet' = <<>> /\ pu_key' = <<>> /\ popped' = NoChild

\* write: nothing is written to a closed sink
BeginUserWrite(s, u) ==
    /\ pu_at = "idle" /\ ~pu_closed
    /\ pu_at' = "key" /\ pu_packet' = <<s, u>>
    /\ UNCHANGED <<pu_key, popped, tableVars, cleanVars, chainVars>>

(* A mutation of Promotes: also when the user has a child already. *)
PromotesAlways(s, u) == Known(SsrcKey(s))

\* The child of an SSRC becomes the child of its user, if it has none
Promotes(s, u) == Known(SsrcKey(s)) /\ ~Known(UserKey(u))

\* _packet_key for a packet that names its user
KeyOfUser ==
    LET s == pu_packet[1]
        u == pu_packet[2]
    IN  /\ pu_at = "key" /\ u # NoUser
        /\ user_of' = [user_of EXCEPT ![s] = u]
        /\ pu_key' = UserKey(u)
        /\ pu_at' = IF Promotes(s, u) THEN "pop" ELSE "get"
        /\ UNCHANGED <<pu_packet, popped, by_key, made_children, open_children, got, fallback_to_ssrc>>
        /\ UNCHANGED <<cleanVars, chainVars>>

\* _packet_key for one that does not
KeyOfSsrc ==
    LET s == pu_packet[1] IN
    /\ pu_at = "key" /\ pu_packet[2] = NoUser
    /\ \/ /\ user_of[s] # NoUser
          /\ pu_key' = UserKey(user_of[s]) /\ pu_at' = "get"
          /\ UNCHANGED <<pu_packet, popped>>
       \/ /\ user_of[s] = NoUser /\ fallback_to_ssrc
          /\ pu_key' = SsrcKey(s) /\ pu_at' = "get"
          /\ UNCHANGED <<pu_packet, popped>>
       \/ /\ user_of[s] = NoUser /\ ~fallback_to_ssrc
          /\ WriteReturns
    /\ UNCHANGED <<tableVars, cleanVars, chainVars>>

\* The child leaves its SSRC; a KeyError if cleanup has cleared the table
PopChild ==
    LET from == SsrcKey(pu_packet[1]) IN
    /\ pu_at = "pop"
    /\ \/ /\ Known(from)
          /\ popped' = Child(from)
          /\ by_key' = by_key \ {<<from, Child(from)>>}
          /\ pu_at' = "set"
          /\ UNCHANGED <<pu_packet, pu_key>>
       \/ /\ ~Known(from)
          /\ WriteReturns
          /\ UNCHANGED by_key
    /\ UNCHANGED <<user_of, made_children, open_children, got, fallback_to_ssrc, cleanVars, chainVars>>

\* and is entered under its user
SetChild ==
    /\ pu_at = "set"
    /\ by_key' = {p \in by_key : p[1] # pu_key} \cup {<<pu_key, popped>>}
    /\ pu_at' = "get"
    /\ UNCHANGED <<pu_packet, pu_key, popped, user_of, made_children, open_children, got, fallback_to_ssrc>>
    /\ UNCHANGED <<cleanVars, chainVars>>

\* _get_child finds a child, which gets the packet unless it is closed
FindChild ==
    /\ pu_at = "get" /\ Known(pu_key)
    /\ got' = IF Child(pu_key) \in open_children THEN got \cup {<<Child(pu_key), pu_packet[2]>>} ELSE got
    /\ WriteReturns
    /\ UNCHANGED <<fallback_to_ssrc, by_key, user_of, made_children, open_children, cleanVars, chainVars>>

\* or finds none
MissChild ==
    /\ pu_at = "get" /\ ~Known(pu_key)
    /\ pu_at' = "make"
    /\ UNCHANGED <<pu_packet, pu_key, popped, tableVars, cleanVars, chainVars>>

\* and calls the factory, which may raise; the new child gets the packet
MakeChild ==
    LET c == made_children + 1 IN
    /\ pu_at = "make"
    /\ \/ /\ made_children < MaxChildren
          /\ made_children' = c
          /\ open_children' = open_children \cup {c}
          /\ by_key' = by_key \cup {<<pu_key, c>>}
          /\ got' = got \cup {<<c, pu_packet[2]>>}
       \/ UNCHANGED <<made_children, open_children, by_key, got>>
    /\ WriteReturns
    /\ UNCHANGED <<user_of, fallback_to_ssrc, cleanVars, chainVars>>

WriteNext ==
    \/ \E s \in Ssrcs, u \in Users \cup {NoUser} : BeginUserWrite(s, u)
    \/ KeyOfUser \/ KeyOfSsrc \/ PopChild \/ SetChild \/ FindChild \/ MissChild \/ MakeChild

\* cleanup: closed first
BeginUserCleanup ==
    /\ ~pu_closed
    /\ pu_closed' = TRUE /\ pu_clean' = "collect"
    /\ UNCHANGED <<unclosed, found_at, tableVars, writeVars, chainVars>>

\* then the children there are now are collected
CollectChildren ==
    /\ pu_clean = "collect"
    /\ pu_clean' = "close" /\ found_at' = pu_at
    /\ unclosed' = {p[2] : p \in by_key}
    /\ UNCHANGED <<pu_closed, tableVars, writeVars, chainVars>>

\* and cleaned up one by one; an exception of one ends it all
CleanupChild(c) ==
    /\ pu_clean = "close" /\ c \in unclosed
    /\ open_children' = open_children \ {c}
    /\ unclosed' = unclosed \ {c}
    /\ pu_clean' \in {"close", "raised"}
    /\ UNCHANGED <<pu_closed, found_at, fallback_to_ssrc, by_key, user_of, made_children, got, writeVars, chainVars>>

\* and the tables cleared
CleanupTables ==
    /\ pu_clean = "close" /\ unclosed = {}
    /\ pu_clean' = "done"
    /\ by_key' = {} /\ user_of' = [s \in Ssrcs |-> NoUser]
    /\ UNCHANGED <<pu_closed, unclosed, found_at, fallback_to_ssrc, made_children, open_children, got, writeVars, chainVars>>

CleanNext ==
    \/ BeginUserCleanup \/ CollectChildren \/ CleanupTables
    \/ \E c \in unclosed : CleanupChild(c)

UserNext == WriteNext \/ CleanNext

RoutingSpec == ChainInit /\ UserInit /\ [][ChainNext \/ UserNext]_routingVars

\* No recording mixes two users: the packets of a child that name a user all
\* name the same one, also when an SSRC passes from one user to another and when
\* its child is promoted while the sink is cleaned up.
OneUserPerChild ==
    \A p, q \in got : p[1] = q[1] /\ p[2] # NoUser /\ q[2] # NoUser => p[2] = q[2]

\* The packets that name a user stay together in one child; promotion never
\* replaces the child a user already has.
OneChildPerUser ==
    ~pu_closed => \A p, q \in got : p[2] = q[2] /\ p[2] # NoUser => p[1] = q[1]

\* A cleanup that finds no packet under way leaves no child open.  One that
\* falls into a write leaves at most the child that this write makes, and in
\* the midst of a promotion the promoted child as well.
ChildrenAreCleaned ==
    pu_clean = "done" /\ pu_at = "idle" =>
        Cardinality(open_children) <= CASE found_at = "idle" -> 0 [] found_at = "set" -> 2 [] OTHER -> 1

\* The docstring of MediaSink.cleanup, "Close this sink and all child sinks", for
\* the children of a PerUserSink.
ChildrenAllCleaned == pu_clean = "done" /\ pu_at = "idle" => open_children = {}

\* A packet reaches the sinks that want it, in a form they want, and a
\* PerUserSink keeps its users apart and closes their sinks.
PacketsAreRouted == LeafGetsWanted /\ ClaimsAreKept /\ OneUserPerChild /\ OneChildPerUser /\ ChildrenAreCleaned
=============================================================================

--------------------------- MODULE ReorderBuffer ---------------------------
(***************************************************************************)
(* _VideoReceiveReorderBuffer of rtp.py: one instance per (SSRC, codec)    *)
(* between the UDP dispatcher and the depacketizer.                        *)
(*                                                                         *)
(* A packet is its position in the sender's stream, an index 0, 1, 2, ...; *)
(* only Wire(index) reaches the receiver.  The network may lose, duplicate *)
(* and reorder packets at will, within the distance the 16-bit field can   *)
(* express.  The buffer is sequential code: push() runs to completion on   *)
(* the dispatcher thread, so it is one action.                             *)
(***************************************************************************)
EXTENDS RtpSequence, Sequences, FiniteSets

CONSTANTS
    MaxPackets,     \* max_packets: packets held back before a gap is skipped
    MaxDelay,       \* max_delay, in clock ticks
    FirstIndex,     \* the sender's first index: its 16-bit field is random
    LastIndex,      \* bound: the last index the sender emits
    MaxTime         \* bound: the last clock tick

ASSUME ReorderAssumption ==
    /\ MaxPackets \in Nat
    /\ MaxDelay \in Nat \ {0}
    /\ FirstIndex \in Nat
    /\ LastIndex \in Nat
    /\ MaxTime \in Nat

None == -1          \* Python's None, for the two optional fields

VARIABLES
    expected_sequence,  \* extended number of the next packet to hand over, or None
    blocked_at,         \* when the buffer first had nothing ready, or None
    packets,            \* held packets: extended number -> index of the packet
    clock,              \* time.perf_counter(), in ticks
    base,               \* history: index of a packet minus its extended number
    delivered,          \* history: the packets handed over, in order
    accepted,           \* history: every index ever put into the buffer
    starved_since,      \* history: first push since the last hand-over that
                        \*   was accepted and released nothing, or None
    last_push           \* history: time of the last push that was not too old

buffer == <<expected_sequence, blocked_at, packets>>
history == <<base, delivered, accepted, starved_since, last_push>>
vars == <<expected_sequence, blocked_at, packets, clock,
          base, delivered, accepted, starved_since, last_push>>

Init ==
    /\ expected_sequence = None
    /\ blocked_at = None
    /\ packets = <<>>
    /\ clock = 0
    /\ base = 0
    /\ delivered = <<>>
    /\ accepted = {}
    /\ starved_since = None
    /\ last_push = 0

-----------------------------------------------------------------------------
\* m is where the contiguous run of held packets that starts at e ends.
IsRunEnd(e, held, m) ==
    /\ e..(m - 1) \subseteq held
    /\ m \notin held

\* A mutation of ReadyRuns: the run is taken to end one packet early.
ReadyRunsShort(e, held) ==
    {m \in e..(e + Cardinality(held)) :
        \/ IsRunEnd(e, held, m) /\ m = e
        \/ IsRunEnd(e, held, m + 1)}

\* _pop_ready: the ends of the run that is popped (there is exactly one).
ReadyRuns(e, held) == {m \in e..(e + Cardinality(held)) : IsRunEnd(e, held, m)}

\* The packets numbered e..m-1, in order, as push() returns them.
Run(e, m, held) == [i \in 1..(m - e) |-> held[e + i - 1]]

\* A mutation of KeepWaiting: the buffer may grow one packet past its limit.
KeepWaitingOverfull(held, since, now) ==
    Cardinality(held) <= MaxPackets + 1 /\ now - since < MaxDelay

\* A mutation of KeepWaiting: only the size of the buffer ends the wait.
KeepWaitingForever(held, since, now) == Cardinality(held) <= MaxPackets

\* push(): a gap is waited for while the buffer is neither full nor overdue.
KeepWaiting(held, since, now) ==
    Cardinality(held) <= MaxPackets /\ now - since < MaxDelay

\* A mutation of TooOld: packets before the expected one are buffered too.
TooOldNever(unwrapped, expected) == FALSE

\* push(): a packet before the expected one is dropped.
TooOld(unwrapped, expected) == unwrapped < expected

IsLeast(k, held) == \A j \in held : k <= j

\* A mutation of HandOver: what lies beyond the next gap is dropped.
HandOverClears(e, m, held) ==
    /\ expected_sequence' = m
    /\ packets' = <<>>
    /\ blocked_at' = None
    /\ delivered' = delivered \o Run(e, m, held)
    /\ starved_since' = None

\* The packets e..m-1 leave the buffer and are handed over.
HandOver(e, m, held) ==
    /\ expected_sequence' = m
    /\ packets' = [k \in DOMAIN held \ (e..(m - 1)) |-> held[k]]
    /\ blocked_at' = None
    /\ delivered' = delivered \o Run(e, m, held)
    /\ starved_since' = None

\* push() for the packet with this index, received now.
Push(index, now) ==
    LET sequence  == Wire(index)
        first     == expected_sequence = None
        expected  == IF first THEN sequence ELSE expected_sequence
        unwrapped == IF first THEN sequence
                              ELSE UnwrapSequence(sequence, expected)
        held      == [k \in DOMAIN packets \cup {unwrapped} |->
                        IF k \in DOMAIN packets THEN packets[k] ELSE index]
        since     == IF blocked_at = None THEN now ELSE blocked_at
    IN  /\ base' = IF first THEN index - sequence ELSE base
        /\ \/ /\ TooOld(unwrapped, expected)
              /\ UNCHANGED <<buffer, delivered, accepted, starved_since, last_push>>
           \/ /\ ~TooOld(unwrapped, expected)
              /\ accepted' = accepted \cup {index}
              /\ last_push' = now
              /\ \E m \in ReadyRuns(expected, DOMAIN held) :
                   \/ /\ m > expected
                      /\ HandOver(expected, m, held)
                   \/ /\ m = expected
                      /\ KeepWaiting(DOMAIN held, since, now)
                      /\ expected_sequence' = expected
                      /\ packets' = held
                      /\ blocked_at' = since
                      /\ starved_since' = IF starved_since = None THEN now
                                                                  ELSE starved_since
                      /\ UNCHANGED delivered
                   \/ /\ m = expected
                      /\ ~KeepWaiting(DOMAIN held, since, now)
                      /\ \E least \in DOMAIN held :
                           /\ IsLeast(least, DOMAIN held)
                           /\ \E m2 \in ReadyRuns(least, DOMAIN held) :
                                HandOver(least, m2, held)

\* The index is within the half range that the field can tell apart from the
\* expected packet: the network holds no packet back for 2^15 others.
InWindow(index) ==
    expected_sequence # None =>
        /\ index - (expected_sequence + base) >= -Half
        /\ index - (expected_sequence + base) < Half

Receive(index) ==
    /\ InWindow(index)
    /\ Push(index, clock)
    /\ UNCHANGED clock

Tick ==
    /\ clock < MaxTime
    /\ clock' = clock + 1
    /\ UNCHANGED <<buffer, history>>

Next == (\E index \in FirstIndex..LastIndex : Receive(index)) \/ Tick

Spec == Init /\ [][Next]_vars

-----------------------------------------------------------------------------
\* The variables keep their types; extended numbers never become negative.
TypeOK ==
    /\ expected_sequence \in Nat \cup {None}
    /\ blocked_at \in Nat \cup {None}
    /\ DOMAIN packets \subseteq Nat
    /\ IsFiniteSet(DOMAIN packets)
    /\ packets = [k \in DOMAIN packets |-> packets[k]]
    /\ \A k \in DOMAIN packets : packets[k] \in Nat
    /\ clock \in Nat
    /\ base \in Int
    /\ delivered \in Seq(Nat)
    /\ accepted \in SUBSET Nat
    /\ starved_since \in Nat \cup {None}
    /\ last_push \in Nat

\* What push() returns over time never goes back in the sender's order and
\* never repeats a packet, whatever was lost, duplicated, reordered, skipped
\* or wrapped on the way: the depacketizer sees strictly increasing indices.
InOrder ==
    \A i, j \in DOMAIN delivered : i < j => delivered[i] < delivered[j]

\* push() leaves at most max_packets behind, although it inserts the new
\* packet before it looks at the limit.
BufferBounded == Cardinality(DOMAIN packets) <= MaxPackets

\* No held packet could be handed over: the packet that is expected next, and
\* everything before it, is never in the buffer between two pushes.
NothingReadyHeld == \A k \in DOMAIN packets : k > expected_sequence

\* A packet that entered the buffer is held or has been handed over: push()
\* loses nothing that it accepted, even when it skips a gap.
NothingLost ==
    accepted = {delivered[i] : i \in DOMAIN delivered}
               \cup {packets[k] : k \in DOMAIN packets}

\* A gap stalls the stream for less than max_delay: while packets that are not
\* too old keep arriving, no push as late as that returns nothing.
StallBounded == starved_since # None => last_push - starved_since < MaxDelay

\* What the buffer promises: see OrderedDelivery.
Ordered == INSTANCE OrderedDelivery WITH taken <- accepted, out <- delivered

\* Every push is a step of the promise: it takes at most its own packet, never
\* withdraws what it handed over, and appends packets it has taken, beyond all
\* earlier ones.  A packet once skipped is therefore never handed over late.
ImplementsOrderedDelivery == Ordered!Spec
=============================================================================

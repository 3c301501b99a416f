-------------------------- MODULE OrderedDelivery --------------------------
(***************************************************************************)
(* What the receive path of a video stream promises its depacketizer: some *)
(* of the packets that came in go out, each at most once, in the sender's  *)
(* order.  A packet may be given up for ever, never handed over late.      *)
(***************************************************************************)
EXTENDS Integers, Sequences

VARIABLES
    taken,      \* the packets taken in so far (indices in the sender's stream)
    out         \* the packets handed over, in order

Init == taken = {} /\ out = <<>>

\* The members of s, from position k on, ascend.
AscendsFrom(s, k) ==
    \A i, j \in DOMAIN s : k < j /\ i < j => s[i] < s[j]

\* At most one packet is taken, then a batch (perhaps empty) of taken packets
\* goes out, after everything that went out before.
Step ==
    /\ taken \subseteq taken'
    /\ \A p, q \in taken' \ taken : p = q
    /\ Len(out') >= Len(out)
    /\ \A i \in DOMAIN out : out'[i] = out[i]
    /\ \A i \in DOMAIN out' : out'[i] \in taken'
    /\ AscendsFrom(out', Len(out))

Spec == Init /\ [][Step]_<<taken, out>>
=============================================================================

---------------------------- MODULE RtpSequence ----------------------------
(***************************************************************************)
(* The sequence-number arithmetic of rtp.py.  RTP carries a sequence       *)
(* number modulo 2^16; the receive path extends it to an unbounded number  *)
(* relative to a reference.  SeqMod is 2^16 in the code; the models use a  *)
(* small even modulus so that wrap-around is reached, the theorems hold    *)
(* for every even one.                                                     *)
(***************************************************************************)
EXTENDS Integers

CONSTANT SeqMod     \* 0x10000

ASSUME SeqModAssumption == SeqMod \in Nat /\ SeqMod >= 2 /\ SeqMod % 2 = 0

\* 0x8000: a forward distance of Half or more is read as a step backwards.
Half == SeqMod \div 2

\* What the 16-bit field of a packet holds for the extended number n.
Wire(n) == n % SeqMod

\* _sequence_delta: the forward distance, in the field's width.
SequenceDelta(sequence, previous) == (sequence - previous) % SeqMod

\* A mutation of UnwrapSequence: the signed correction is forgotten, so that a
\* late packet is read as one almost a whole cycle ahead.
UnwrapForwardOnly(sequence, reference) ==
    reference + SequenceDelta(sequence, Wire(reference))

\* _unwrap_sequence: the extended number nearest to the reference.
UnwrapSequence(sequence, reference) ==
    LET delta == SequenceDelta(sequence, Wire(reference))
    IN  reference + (IF delta > Half - 1 THEN delta - SeqMod ELSE delta)
=============================================================================

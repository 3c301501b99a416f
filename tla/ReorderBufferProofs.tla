------------------------ MODULE ReorderBufferProofs ------------------------
(***************************************************************************)
(* The reorder buffer is correct for every modulus, limit and delay, and   *)
(* for streams and clocks of any length.                                   *)
(*                                                                         *)
(* The invariant that carries the proof is KeyedByNumber: the extended     *)
(* number under which a packet is held differs from its index by the same  *)
(* multiple of the modulus for every packet of the stream.  UnwrapCorrect  *)
(* shows that a push keeps it so.                                          *)
(***************************************************************************)
EXTENDS ReorderBuffer, RtpSequenceProofs, FiniteSetTheorems, SequenceTheorems

\* The extended numbers are the indices, shifted by whole cycles.
KeyedByNumber ==
    /\ \E c \in Int : base = SeqMod * c
    /\ \A k \in DOMAIN packets : packets[k] = k + base

\* Before the first packet nothing is held and nothing was handed over.
FreshStart ==
    expected_sequence = None =>
        DOMAIN packets = {} /\ delivered = <<>> /\ accepted = {}

\* Everything handed over lies before the expected packet.
DeliveredBeforeExpected ==
    \A i \in DOMAIN delivered : delivered[i] < expected_sequence + base

\* The history of the stall agrees with the buffer's own bookkeeping.
StallTracked ==
    /\ starved_since = blocked_at
    /\ last_push <= clock

IndInv ==
    /\ TypeOK
    /\ KeyedByNumber
    /\ FreshStart
    /\ DeliveredBeforeExpected
    /\ NothingReadyHeld
    /\ BufferBounded
    /\ InOrder
    /\ NothingLost
    /\ StallTracked
    /\ StallBounded

-----------------------------------------------------------------------------
\* The buffer starts empty.
LEMMA InitIndInv == Init => IndInv
<1> SUFFICES ASSUME Init PROVE IndInv
  OBVIOUS
<1>1. TypeOK
  BY FS_EmptySet DEF Init, TypeOK, None
<1>2. KeyedByNumber
  <2>1. base = SeqMod * 0
    BY HalfFacts, Z3 DEF Init
  <2> QED BY <2>1 DEF Init, KeyedByNumber
<1>3. BufferBounded
  BY FS_EmptySet, ReorderAssumption DEF Init, BufferBounded
<1> QED
  BY <1>1, <1>2, <1>3, ReorderAssumption
     DEF Init, IndInv, FreshStart, DeliveredBeforeExpected, NothingReadyHeld,
         InOrder, NothingLost, StallTracked, StallBounded, None

\* Arithmetic of the positions of an appended run.
LEMMA RunPosition ==
    ASSUME NEW e \in Int, NEW m \in Int, NEW i \in Int, NEW l \in Int,
           i >= l + 1, i <= l + (m - e)
    PROVE  (e + (i - l)) - 1 \in e..(m - 1)
  BY Z3

\* The indices of an appended run lie between its ends and ascend.
LEMMA RunAscends ==
    ASSUME NEW e \in Int, NEW m \in Int, NEW l \in Int, NEW b \in Int,
           NEW i \in (l + 1)..(l + (m - e)), NEW j \in (l + 1)..(l + (m - e))
    PROVE  /\ e + b <= ((e + (i - l)) - 1) + b
           /\ ((e + (i - l)) - 1) + b < m + b
           /\ i < j => ((e + (i - l)) - 1) + b < ((e + (j - l)) - 1) + b
  BY Z3

\* new is out followed by the indices of the run e..m-1.
Appended(out, new, held, e, m, b) ==
    /\ new \in Seq(Nat)
    /\ DOMAIN new = 1..(Len(out) + (m - e))
    /\ \A i \in 1..Len(out) : new[i] = out[i]
    /\ \A i \in (Len(out) + 1)..(Len(out) + (m - e)) :
         new[i] = ((e + (i - Len(out))) - 1) + b
    /\ {new[i] : i \in DOMAIN new} =
         {out[i] : i \in DOMAIN out} \cup {held[k] : k \in e..(m - 1)}

\* What push() returns for a run of a buffer keyed by number.
LEMMA AppendRun ==
    ASSUME NEW out \in Seq(Nat), NEW held, NEW e \in Nat, NEW m \in Nat, e <= m,
           NEW b \in Int,
           e..(m - 1) \subseteq DOMAIN held,
           \A k \in DOMAIN held : held[k] = k + b /\ held[k] \in Nat
    PROVE  Appended(out, out \o Run(e, m, held), held, e, m, b)
<1> DEFINE r == Run(e, m, held)
           new == out \o r
<1>1. r \in Seq(Nat) /\ Len(r) = m - e /\ \A i \in 1..(m - e) : r[i] = ((e + i) - 1) + b
  BY DEF Run
<1> HIDE DEF r
<1>2. /\ new \in Seq(Nat)
      /\ Len(new) = Len(out) + (m - e)
      /\ \A i \in 1..Len(out) : new[i] = out[i]
      /\ \A i \in (Len(out) + 1)..Len(new) : new[i] = r[i - Len(out)]
  <2>1. /\ new \in Seq(Nat)
        /\ Len(new) = Len(out) + Len(r)
        /\ \A i \in 1..(Len(out) + Len(r)) :
             new[i] = IF i <= Len(out) THEN out[i] ELSE r[i - Len(out)]
    BY <1>1, ConcatProperties, Zenon DEF r
  <2>2. Len(out) \in Nat
    OBVIOUS
  <2> HIDE DEF new
  <2>3. \A i \in 1..Len(out) : new[i] = out[i]
    <3> TAKE i \in 1..Len(out)
    <3>1. Len(r) \in Nat
      BY <1>1
    <3>2. i \in 1..(Len(out) + Len(r)) /\ i <= Len(out)
      BY <3>1, <2>2
    <3> QED BY <3>2, <2>1
  <2>4. \A i \in (Len(out) + 1)..Len(new) : new[i] = r[i - Len(out)]
    BY <1>1, <2>1, <2>2
  <2> QED BY <1>1, <2>1, <2>3, <2>4
<1> HIDE DEF new
<1>3. /\ DOMAIN new = 1..Len(new) /\ Len(new) \in Nat
      /\ DOMAIN out = 1..Len(out) /\ Len(out) \in Nat
  BY <1>2
<1>4. ASSUME NEW i \in (Len(out) + 1)..Len(new)
      PROVE  new[i] = ((e + (i - Len(out))) - 1) + b
  <2>1. i - Len(out) \in 1..(m - e)
    BY <1>2, <1>3
  <2> QED BY <2>1, <1>1, <1>2, <1>3
<1>5. {new[i] : i \in DOMAIN new} =
         {out[i] : i \in DOMAIN out} \cup {held[k] : k \in e..(m - 1)}
  <2>1. ASSUME NEW i \in DOMAIN new
        PROVE  new[i] \in {out[j] : j \in DOMAIN out} \cup {held[k] : k \in e..(m - 1)}
    <3>1. CASE i \in 1..Len(out)
      BY <3>1, <1>2, <1>3
    <3>2. CASE i \in (Len(out) + 1)..Len(new)
      <4>1. (e + (i - Len(out))) - 1 \in e..(m - 1)
        <5>1. Len(new) = Len(out) + (m - e)
          BY <1>2
        <5>2. i \in Int /\ Len(out) \in Int /\ i >= Len(out) + 1 /\ i <= Len(new)
          BY <3>2, <1>3
        <5> QED BY <5>1, <5>2, RunPosition, SMTT(30)
      <4>2. new[i] = held[(e + (i - Len(out))) - 1]
        BY <4>1, <1>4, <3>2
      <4> QED BY <4>1, <4>2
    <3> QED BY <3>1, <3>2, <1>2, <1>3
  <2>2. ASSUME NEW i \in DOMAIN out PROVE out[i] \in {new[j] : j \in DOMAIN new}
    <3>1. i \in DOMAIN new /\ new[i] = out[i]
      BY <1>2, <1>3
    <3> QED BY <3>1
  <2>3. ASSUME NEW k \in e..(m - 1) PROVE held[k] \in {new[j] : j \in DOMAIN new}
    <3> DEFINE i == ((k - e) + 1) + Len(out)
    <3>1. i \in (Len(out) + 1)..Len(new) /\ i \in DOMAIN new
      BY <1>2, <1>3
    <3>2. ((e + (i - Len(out))) - 1) + b = k + b
      BY <1>3
    <3> HIDE DEF i
    <3>3. new[i] = held[k]
      BY <3>1, <3>2, <1>4
    <3> QED BY <3>1, <3>3
  <2> QED BY <2>1, <2>2, <2>3
<1>6. Appended(out, new, held, e, m, b)
  BY <1>2, <1>3, <1>4, <1>5 DEF Appended
<1> QED BY <1>6 DEF new, r

-----------------------------------------------------------------------------
\* What was handed over stays handed over, and at most one packet is taken.
Grows ==
    /\ Len(delivered') >= Len(delivered)
    /\ \A i \in DOMAIN delivered : delivered'[i] = delivered[i]
    /\ \E p \in Nat : accepted' = accepted \/ accepted' = accepted \cup {p}

\* push() preserves the invariant: the whole handler, for one packet.
LEMMA PushIndInv ==
    ASSUME IndInv, NEW index \in Nat, InWindow(index), Push(index, clock),
           UNCHANGED clock
    PROVE  IndInv' /\ Grows
<1> DEFINE sequence  == Wire(index)
           first     == expected_sequence = None
           expected  == IF first THEN sequence ELSE expected_sequence
           unwrapped == IF first THEN sequence
                                 ELSE UnwrapSequence(sequence, expected)
           held      == [k \in DOMAIN packets \cup {unwrapped} |->
                           IF k \in DOMAIN packets THEN packets[k] ELSE index]
           since     == IF blocked_at = None THEN clock ELSE blocked_at
<1> USE DEF None
<1>0. /\ TypeOK /\ KeyedByNumber /\ FreshStart /\ DeliveredBeforeExpected
      /\ NothingReadyHeld /\ BufferBounded /\ InOrder /\ NothingLost
      /\ StallTracked /\ StallBounded
  BY DEF IndInv
<1>1. /\ base' \in Int
      /\ \E c \in Int : base' = SeqMod * c
      /\ expected \in Nat
      /\ unwrapped = index - base'
      /\ first => unwrapped = expected
      /\ ~first => base' = base
  <2>1. base' = IF first THEN index - sequence ELSE base
    BY DEF Push
  <2>2. sequence \in Nat
    BY WireType, HalfFacts
  <2>3. CASE first
    <3>1. index = (SeqMod * (index \div SeqMod)) + sequence /\ index \div SeqMod \in Int
      BY DivMod, HalfFacts DEF Wire
    <3>2. base' = index - sequence /\ expected = sequence /\ unwrapped = sequence
      BY <2>1, <2>3
    <3> HIDE DEF sequence, expected, unwrapped
    <3>3. base' = SeqMod * (index \div SeqMod)
      BY <3>1, <3>2, <2>2, HalfFacts, Z3
    <3> QED BY <2>2, <2>3, <3>1, <3>2, <3>3
  <2>4. CASE ~first
    <3>1. expected_sequence \in Nat /\ base \in Int
      BY <1>0, <2>4 DEF TypeOK
    <3>2. PICK c \in Int : base = SeqMod * c
      BY <1>0 DEF KeyedByNumber
    <3>3. /\ index - (expected_sequence + (SeqMod * c)) >= -Half
          /\ index - (expected_sequence + (SeqMod * c)) < Half
      BY <2>4, <3>2 DEF InWindow
    <3>4. UnwrapSequence(Wire(index), expected_sequence) = index - (SeqMod * c)
      BY <3>1, <3>3, UnwrapCorrect
    <3> QED BY <2>1, <2>4, <3>1, <3>2, <3>4
  <2> QED BY <2>3, <2>4
<1>2. \A i \in DOMAIN delivered : delivered[i] < expected + base'
  BY <1>0, <1>1 DEF FreshStart, DeliveredBeforeExpected
<1> HIDE DEF sequence, expected, unwrapped
<1>3. CASE TooOld(unwrapped, expected)
  <2>1. ~first
    BY <1>1, <1>3 DEF TooOld
  <2>2. UNCHANGED vars
    BY <1>3, <1>1, <2>1 DEF Push, vars, buffer, TooOld, expected, unwrapped, sequence
  <2> QED
    BY <1>0, <2>2, SMTT(30)
       DEF Grows, IndInv, vars, TypeOK, KeyedByNumber, FreshStart, DeliveredBeforeExpected,
           NothingReadyHeld, BufferBounded, InOrder, NothingLost, StallTracked,
           StallBounded
<1>4. CASE ~TooOld(unwrapped, expected)
  <2>1. unwrapped \in Nat /\ unwrapped >= expected
    BY <1>1, <1>4 DEF TooOld
  <2>2. /\ DOMAIN held = DOMAIN packets \cup {unwrapped}
        /\ DOMAIN held \subseteq Nat
        /\ IsFiniteSet(DOMAIN held)
        /\ Cardinality(DOMAIN held) <= MaxPackets + 1
    <3>1. Cardinality(DOMAIN packets) \in Nat /\ MaxPackets \in Nat
      BY <1>0, FS_CardinalityType, ReorderAssumption DEF TypeOK
    <3>2. /\ IsFiniteSet(DOMAIN packets \cup {unwrapped})
          /\ Cardinality(DOMAIN packets \cup {unwrapped}) <= Cardinality(DOMAIN packets) + 1
      <4>1. Cardinality(DOMAIN packets \cup {unwrapped}) =
              IF unwrapped \in DOMAIN packets THEN Cardinality(DOMAIN packets)
                                              ELSE Cardinality(DOMAIN packets) + 1
        BY <1>0, FS_AddElement DEF TypeOK
      <4> QED BY <4>1, <3>1, <1>0, FS_AddElement DEF TypeOK
    <3>3. DOMAIN held = DOMAIN packets \cup {unwrapped}
      OBVIOUS
    <3>4. Cardinality(DOMAIN packets \cup {unwrapped}) \in Nat
      BY <3>2, FS_CardinalityType
    <3>5. DOMAIN packets \subseteq Nat /\ Cardinality(DOMAIN packets) <= MaxPackets
      BY <1>0 DEF TypeOK, BufferBounded
    <3> HIDE DEF held
    <3> QED BY <3>1, <3>2, <3>3, <3>4, <3>5, <2>1
  <2>3. \A k \in DOMAIN held : held[k] = k + base' /\ held[k] \in Nat /\ k >= expected
    <3> TAKE k \in DOMAIN held
    <3>1. CASE k \in DOMAIN packets
      <4>1. ~first
        BY <3>1, <1>0 DEF FreshStart
      <4>2. expected = expected_sequence
        BY <4>1 DEF expected
      <4> QED BY <3>1, <4>1, <4>2, <1>0, <1>1 DEF KeyedByNumber, NothingReadyHeld, TypeOK
    <3>2. CASE k \notin DOMAIN packets
      BY <3>2, <1>1, <2>1
    <3> QED BY <3>1, <3>2
  <2>4. {held[k] : k \in DOMAIN held} = {packets[k] : k \in DOMAIN packets} \cup {index}
    <3>1. held[unwrapped] = index
      <4>1. held[unwrapped] = unwrapped + base'
        BY <2>3
      <4> QED BY <4>1, <1>1
    <3>2. \A k \in DOMAIN packets : held[k] = packets[k]
      OBVIOUS
    <3>3. unwrapped \in DOMAIN held
      OBVIOUS
    <3> HIDE DEF held
    <3> QED BY <3>1, <3>2, <3>3, <2>2
  <2>5. accepted' = accepted \cup {index} /\ last_push' = clock
    BY <1>4 DEF Push, TooOld, expected, unwrapped, sequence
  <2>6. clock' = clock /\ clock \in Nat
    BY <1>0 DEF TypeOK
  <2> HIDE DEF held
  <2>7. ASSUME NEW e \in Nat, NEW m \in Nat, e < m, e >= expected,
               \A k \in DOMAIN held : k >= e,
               IsRunEnd(e, DOMAIN held, m), HandOver(e, m, held)
        PROVE  IndInv' /\ Grows
    <3>1. /\ expected_sequence' = m
          /\ packets' = [k \in DOMAIN held \ (e..(m - 1)) |-> held[k]]
          /\ DOMAIN packets' = DOMAIN held \ (e..(m - 1))
          /\ blocked_at' = None
          /\ starved_since' = None
          /\ delivered' = delivered \o Run(e, m, held)
      BY <2>7 DEF HandOver
    <3>2. e..(m - 1) \subseteq DOMAIN held /\ m \notin DOMAIN held
      BY <2>7 DEF IsRunEnd
    <3>3. /\ delivered \in Seq(Nat) /\ Len(delivered) \in Nat
          /\ DOMAIN delivered = 1..Len(delivered)
      BY <1>0 DEF TypeOK
    <3>4. /\ delivered' \in Seq(Nat)
          /\ DOMAIN delivered' = 1..(Len(delivered) + (m - e))
          /\ \A i \in 1..Len(delivered) : delivered'[i] = delivered[i]
          /\ \A i \in (Len(delivered) + 1)..(Len(delivered) + (m - e)) :
               delivered'[i] = ((e + (i - Len(delivered))) - 1) + base'
          /\ {delivered'[i] : i \in DOMAIN delivered'} =
               {delivered[i] : i \in DOMAIN delivered} \cup {held[k] : k \in e..(m - 1)}
      <4>1. \A k \in DOMAIN held : held[k] = k + base' /\ held[k] \in Nat
        BY <2>3
      <4>2. e <= m
        BY <2>7
      <4>3. e..(m - 1) \subseteq DOMAIN held /\ delivered \in Seq(Nat) /\ base' \in Int
        BY <3>2, <3>3, <1>1
      <4>4. delivered' = delivered \o Run(e, m, held)
        BY <3>1
      <4>5. Appended(delivered, delivered', held, e, m, base')
        BY <4>1, <4>2, <4>3, <4>4, AppendRun, Zenon
      <4> QED BY <4>5 DEF Appended
    <3>5. /\ DOMAIN packets' \in SUBSET DOMAIN held
          /\ e \in Int /\ m \in Int /\ Len(delivered) \in Int /\ base' \in Int
      BY <3>1, <3>3, <1>1
    <3>6. /\ IsFiniteSet(DOMAIN packets')
          /\ Cardinality(DOMAIN packets') <= MaxPackets
      <4>1. e \in DOMAIN held /\ e \notin DOMAIN packets'
        BY <3>1, <3>2, <2>7
      <4>2. /\ IsFiniteSet(DOMAIN packets')
            /\ Cardinality(DOMAIN packets') <= Cardinality(DOMAIN held)
            /\ Cardinality(DOMAIN held) # Cardinality(DOMAIN packets')
        BY <4>1, <3>5, <2>2, FS_Subset
      <4>3. Cardinality(DOMAIN packets') \in Nat /\ Cardinality(DOMAIN held) \in Nat
        BY <4>2, <2>2, FS_CardinalityType
      <4> QED BY <4>2, <4>3, <2>2, ReorderAssumption
    <3>7. TypeOK'
      BY <3>1, <3>4, <3>5, <3>6, <2>2, <2>3, <2>5, <2>6, <1>0, <1>1 DEF TypeOK
    <3>8. KeyedByNumber'
      BY <3>1, <2>3, <1>1 DEF KeyedByNumber
    <3>9. \A i \in DOMAIN delivered' : delivered'[i] < m + base'
      <4> TAKE i \in DOMAIN delivered'
      <4>1. CASE i \in 1..Len(delivered)
        <5>1. delivered'[i] < expected + base' /\ delivered'[i] \in Nat
          BY <4>1, <1>2, <3>3, <3>4
        <5> QED BY <5>1, <1>1, <2>7
      <4>2. CASE i \in (Len(delivered) + 1)..(Len(delivered) + (m - e))
        <5>1. delivered'[i] = ((e + (i - Len(delivered))) - 1) + base'
          BY <4>2, <3>4
        <5>2. ((e + (i - Len(delivered))) - 1) + base' < m + base'
          BY <4>2, <3>5, RunAscends, Zenon
        <5> QED BY <5>1, <5>2
      <4> QED BY <4>1, <4>2, <3>3, <3>4
    <3>10. InOrder'
      <4> SUFFICES ASSUME NEW i \in DOMAIN delivered', NEW j \in DOMAIN delivered', i < j
                   PROVE  delivered'[i] < delivered'[j]
        BY DEF InOrder
      <4>1. CASE j \in 1..Len(delivered)
        <5>1. i \in 1..Len(delivered)
          BY <4>1, <3>3, <3>4
        <5> QED BY <4>1, <5>1, <3>3, <3>4, <1>0 DEF InOrder
      <4>2. CASE j \in (Len(delivered) + 1)..(Len(delivered) + (m - e))
        <5>1. delivered'[j] = ((e + (j - Len(delivered))) - 1) + base'
          BY <4>2, <3>4
        <5>2. CASE i \in 1..Len(delivered)
          <6>1. delivered'[i] < expected + base' /\ delivered'[i] \in Nat
            BY <5>2, <1>2, <3>3, <3>4, SMTT(30)
          <6>2. e + base' <= delivered'[j] /\ delivered'[j] \in Int
            <7>1. e + base' <= ((e + (j - Len(delivered))) - 1) + base'
              BY <4>2, <3>5, RunAscends, Zenon
            <7> QED BY <7>1, <5>1, <4>2, <3>5
          <6> QED BY <6>1, <6>2, <1>1, <2>7
        <5>3. CASE i \in (Len(delivered) + 1)..(Len(delivered) + (m - e))
          <6>1. delivered'[i] = ((e + (i - Len(delivered))) - 1) + base'
            BY <5>3, <3>4
          <6>2. ((e + (i - Len(delivered))) - 1) + base' < ((e + (j - Len(delivered))) - 1) + base'
            BY <5>3, <4>2, <3>5, RunAscends, Zenon
          <6> QED BY <5>1, <6>1, <6>2
        <5> QED BY <5>2, <5>3, <3>3, <3>4
      <4> QED BY <4>1, <4>2, <3>3, <3>4
    <3>11. NothingReadyHeld'
      BY <3>1, <3>2, <2>2, <2>7 DEF NothingReadyHeld
    <3>12. NothingLost'
      <4>1. {packets'[k] : k \in DOMAIN packets'} = {held[k] : k \in DOMAIN held \ (e..(m - 1))}
        BY <3>1
      <4>2. {held[k] : k \in DOMAIN held} =
              {held[k] : k \in e..(m - 1)} \cup {held[k] : k \in DOMAIN held \ (e..(m - 1))}
        BY <3>2
      <4> QED BY <4>1, <4>2, <3>4, <2>4, <2>5, <1>0 DEF NothingLost
    <3>13. Grows
      BY <3>3, <3>4, <2>5, <2>7 DEF Grows
    <3> QED
      BY <3>13, <3>1, <3>6, <3>7, <3>8, <3>9, <3>10, <3>11, <3>12, <2>5, <2>6, <2>7
         DEF IndInv, FreshStart, DeliveredBeforeExpected, BufferBounded,
             StallTracked, StallBounded
  <2>8. ASSUME KeepWaiting(DOMAIN held, since, clock),
               expected \notin DOMAIN held,
               expected_sequence' = expected, packets' = held,
               blocked_at' = since, delivered' = delivered,
               starved_since' = IF starved_since = None THEN clock ELSE starved_since
        PROVE  IndInv' /\ Grows
    <3>1. since \in Nat
      BY <1>0, <2>6 DEF TypeOK
    <3>2. TypeOK'
      BY <2>2, <2>3, <2>5, <2>6, <2>8, <3>1, <1>0, <1>1 DEF TypeOK, held
    <3>3. KeyedByNumber'
      BY <2>3, <2>8, <1>1 DEF KeyedByNumber
    <3>4. NothingReadyHeld'
      BY <2>2, <2>3, <2>8, <1>1 DEF NothingReadyHeld
    <3>5. BufferBounded'
      BY <2>8 DEF BufferBounded, KeepWaiting
    <3>6. NothingLost'
      BY <2>4, <2>5, <2>8, <1>0 DEF NothingLost
    <3>7. StallTracked' /\ StallBounded'
      BY <2>5, <2>6, <2>8, <1>0 DEF StallTracked, StallBounded, KeepWaiting, TypeOK
    <3>8. Grows
      BY <2>5, <2>8, <1>0 DEF Grows, TypeOK
    <3> QED
      BY <3>8, <3>2, <3>3, <3>4, <3>5, <3>6, <3>7, <1>0, <1>1, <1>2, <2>8
         DEF IndInv, FreshStart, DeliveredBeforeExpected, InOrder
  <2>9. PICK m \in ReadyRuns(expected, DOMAIN held) :
          \/ /\ m > expected
             /\ HandOver(expected, m, held)
          \/ /\ m = expected
             /\ KeepWaiting(DOMAIN held, since, clock)
             /\ expected_sequence' = expected
             /\ packets' = held
             /\ blocked_at' = since
             /\ starved_since' = IF starved_since = None THEN clock ELSE starved_since
             /\ UNCHANGED delivered
          \/ /\ m = expected
             /\ \E least \in DOMAIN held :
                  /\ IsLeast(least, DOMAIN held)
                  /\ \E m2 \in ReadyRuns(least, DOMAIN held) : HandOver(least, m2, held)
    BY <1>4, Zenon DEF Push, TooOld, expected, unwrapped, sequence, held
  <2>10. Cardinality(DOMAIN held) \in Nat
    BY <2>2, FS_CardinalityType
  <2>11. m \in Nat /\ IsRunEnd(expected, DOMAIN held, m)
    BY <2>9, <2>10, <1>1 DEF ReadyRuns
  <2>12. CASE m > expected /\ HandOver(expected, m, held)
    BY <2>12, <2>11, <2>3, <2>7, <1>1
  <2>13. CASE /\ m = expected
              /\ KeepWaiting(DOMAIN held, since, clock)
              /\ expected_sequence' = expected
              /\ packets' = held
              /\ blocked_at' = since
              /\ starved_since' = IF starved_since = None THEN clock ELSE starved_since
              /\ UNCHANGED delivered
    <3>1. expected \notin DOMAIN held
      BY <2>13, <2>11 DEF IsRunEnd
    <3> QED BY <2>13, <3>1, <2>8
  <2>14. CASE /\ m = expected
              /\ \E least \in DOMAIN held :
                   /\ IsLeast(least, DOMAIN held)
                   /\ \E m2 \in ReadyRuns(least, DOMAIN held) : HandOver(least, m2, held)
    <3>1. PICK least \in DOMAIN held :
             /\ IsLeast(least, DOMAIN held)
             /\ \E m2 \in ReadyRuns(least, DOMAIN held) : HandOver(least, m2, held)
      BY <2>14
    <3>2. PICK m2 \in ReadyRuns(least, DOMAIN held) : HandOver(least, m2, held)
      BY <3>1
    <3>3. least \in Nat /\ least >= expected /\ \A k \in DOMAIN held : k >= least
      BY <3>1, <2>2, <2>3, <1>1 DEF IsLeast
    <3>4. m2 \in Nat /\ m2 >= least /\ IsRunEnd(least, DOMAIN held, m2)
      BY <3>2, <3>3, <2>10 DEF ReadyRuns
    <3>5. m2 > least
      BY <3>4, <3>3 DEF IsRunEnd
    <3> QED BY <3>2, <3>3, <3>4, <3>5, <2>7
  <2> QED BY <2>9, <2>12, <2>13, <2>14
<1> QED BY <1>3, <1>4

\* Every step of the specification preserves the invariant.
LEMMA NextIndInv == IndInv /\ [Next]_vars => IndInv'
<1> SUFFICES ASSUME IndInv, [Next]_vars PROVE IndInv'
  OBVIOUS
<1>1. ASSUME NEW index \in FirstIndex..LastIndex, Receive(index) PROVE IndInv'
  <2>1. index \in Nat
    BY ReorderAssumption
  <2> QED BY <1>1, <2>1, PushIndInv DEF Receive
<1>2. CASE Tick \/ UNCHANGED vars
  <2>1. UNCHANGED <<buffer, history>>
    BY <1>2 DEF Tick, vars, buffer, history
  <2>2. UNCHANGED <<expected_sequence, blocked_at, packets, base, delivered,
                    accepted, starved_since, last_push>>
    BY <2>1 DEF buffer, history
  <2>3. clock \in Nat /\ clock' \in Nat /\ clock' >= clock /\ last_push \in Nat
    BY <1>2 DEF Tick, vars, IndInv, TypeOK
  <2>4. TypeOK'
    BY <2>2, <2>3 DEF IndInv, TypeOK
  <2>5. StallTracked'
    BY <2>2, <2>3 DEF IndInv, StallTracked
  <2>6. (KeyedByNumber /\ FreshStart /\ DeliveredBeforeExpected /\ NothingReadyHeld)'
    BY <2>2 DEF IndInv, KeyedByNumber, FreshStart, DeliveredBeforeExpected,
                NothingReadyHeld
  <2>7. (BufferBounded /\ InOrder /\ NothingLost /\ StallBounded)'
    BY <2>2 DEF IndInv, BufferBounded, InOrder, NothingLost, StallBounded
  <2> QED BY <2>4, <2>5, <2>6, <2>7 DEF IndInv
<1> QED BY <1>1, <1>2 DEF Next

\* The invariant holds throughout.
LEMMA SpecIndInv == Spec => []IndInv
  BY InitIndInv, NextIndInv, PTL DEF Spec

\* The reorder buffer's state stays well formed.
THEOREM TypeCorrect == Spec => []TypeOK
  BY SpecIndInv, PTL DEF IndInv

\* For every modulus and every limit: push() hands packets over in the sender's
\* order, each at most once.
THEOREM DeliversInOrder == Spec => []InOrder
  BY SpecIndInv, PTL DEF IndInv

\* push() never leaves more than max_packets behind.
THEOREM StaysBounded == Spec => []BufferBounded
  BY SpecIndInv, PTL DEF IndInv

\* push() leaves nothing behind that it could have handed over.
THEOREM HoldsNothingReady == Spec => []NothingReadyHeld
  BY SpecIndInv, PTL DEF IndInv

\* A packet that push() accepted is held or has been handed over.
THEOREM LosesNothing == Spec => []NothingLost
  BY SpecIndInv, PTL DEF IndInv

\* A gap stalls a flowing stream for less than max_delay.
THEOREM StallsBriefly == Spec => []StallBounded
  BY SpecIndInv, PTL DEF IndInv

\* A step of the buffer is a step of the promise, or changes nothing it speaks of.
LEMMA StepRefines ==
    IndInv /\ IndInv' /\ [Next]_vars => [Ordered!Step]_<<accepted, delivered>>
<1> SUFFICES ASSUME IndInv, IndInv', [Next]_vars
             PROVE  Ordered!Step \/ UNCHANGED <<accepted, delivered>>
  OBVIOUS
<1>1. ASSUME NEW index \in FirstIndex..LastIndex, Receive(index) PROVE Ordered!Step
  <2>1. index \in Nat
    BY ReorderAssumption
  <2>2. Grows
    BY <1>1, <2>1, PushIndInv DEF Receive
  <2>3. \A i \in DOMAIN delivered' : delivered'[i] \in accepted'
    BY DEF IndInv, NothingLost
  <2>4. Ordered!AscendsFrom(delivered', Len(delivered))
    BY DEF IndInv, InOrder, Ordered!AscendsFrom
  <2> QED BY <2>2, <2>3, <2>4 DEF Grows, Ordered!Step
<1>2. CASE Tick \/ UNCHANGED vars
  BY <1>2 DEF Tick, vars, history
<1> QED BY <1>1, <1>2 DEF Next

\* The reorder buffer implements OrderedDelivery for every value of its
\* constants: nothing is handed over twice, late or out of the sender's order.
THEOREM RefinesOrderedDelivery == Spec => ImplementsOrderedDelivery
<1>1. Init => Ordered!Init
  BY DEF Init, Ordered!Init
<1>2. IndInv /\ IndInv' /\ [Next]_vars => [Ordered!Step]_<<accepted, delivered>>
  BY StepRefines
<1> QED BY <1>1, <1>2, SpecIndInv, PTL DEF Spec, Ordered!Spec, ImplementsOrderedDelivery
=============================================================================

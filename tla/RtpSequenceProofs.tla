------------------------- MODULE RtpSequenceProofs -------------------------
(***************************************************************************)
(* What the sequence arithmetic computes, for every even modulus: the      *)
(* unwrapped number is the true one as long as the packet lies within half *)
(* a cycle of the reference.  The first lemmas give the prover the theory  *)
(* of division by a symbolic modulus.                                      *)
(***************************************************************************)
EXTENDS RtpSequence, TLAPS

\* Division with remainder, as % and \div are used by the sequence arithmetic.
LEMMA DivMod ==
    ASSUME NEW a \in Int, NEW m \in Nat, m > 0
    PROVE  /\ a = (m * (a \div m)) + (a % m)
           /\ a \div m \in Int
           /\ a % m \in 0..(m - 1)
  BY Z3

\* A positive multiple of m is at least m.
LEMMA ProductGap ==
    ASSUME NEW m \in Nat, m > 0, NEW q \in Int, q >= 1
    PROVE  m * q >= m
  BY Z3

\* The remainder is unique: how & 0xFFFF acts on a number given as a multiple
\* of the modulus plus a remainder.
LEMMA ModUnique ==
    ASSUME NEW m \in Nat, m > 0, NEW q \in Int, NEW r \in 0..(m - 1)
    PROVE  ((m * q) + r) % m = r
<1> DEFINE a == (m * q) + r
           p == a \div m
           s == a % m
<1>1. a \in Int
  BY Z3
<1>2. a = (m * p) + s /\ p \in Int /\ s \in 0..(m - 1)
  BY <1>1, DivMod
<1> HIDE DEF p, s
<1>3. m * (q - p) = s - r
  BY <1>2, Z3
<1>4. CASE q - p >= 1
  <2>1. m * (q - p) >= m
    BY <1>4, <1>2, ProductGap
  <2> QED BY <2>1, <1>3, <1>2, Z3
<1>5. CASE p - q >= 1
  <2>1. m * (p - q) >= m
    BY <1>5, <1>2, ProductGap
  <2>2. m * (p - q) = r - s
    BY <1>2, Z3
  <2> QED BY <2>1, <2>2, <1>2, Z3
<1>6. CASE p = q
  BY <1>6, <1>2, Z3 DEF s
<1> QED BY <1>2, <1>4, <1>5, <1>6, Z3

\* Half is the exact half of the cycle.
LEMMA HalfFacts == /\ SeqMod \in Nat /\ SeqMod > 0
                   /\ Half \in Nat /\ Half > 0 /\ SeqMod = Half + Half
  BY SeqModAssumption, Z3 DEF Half

\* The 16-bit field of a number is a number below the modulus.
LEMMA WireType == ASSUME NEW n \in Int PROVE Wire(n) \in 0..(SeqMod - 1)
  BY HalfFacts, DivMod DEF Wire

\* The distance of two wire numbers is the distance of the true ones, read in
\* the width of the field.
LEMMA WireDistance ==
    ASSUME NEW n \in Int, NEW reference \in Int, NEW c \in Int,
           NEW d \in Int, n = ((SeqMod * c) + reference) + d,
           NEW k \in Int, d + (SeqMod * k) \in 0..(SeqMod - 1)
    PROVE  SequenceDelta(Wire(n), Wire(reference)) = d + (SeqMod * k)
<1> DEFINE q1 == n \div SeqMod
           q2 == reference \div SeqMod
           r1 == Wire(n)
           r2 == Wire(reference)
           r  == d + (SeqMod * k)
<1>1. n = (SeqMod * q1) + r1 /\ q1 \in Int /\ r1 \in Int
  BY DivMod, HalfFacts DEF Wire
<1>2. reference = (SeqMod * q2) + r2 /\ q2 \in Int /\ r2 \in Int
  BY DivMod, HalfFacts DEF Wire
<1> HIDE DEF q1, q2, r1, r2
<1>3. r1 - r2 = (SeqMod * (((c + q2) - q1) - k)) + r
  BY <1>1, <1>2, HalfFacts, Z3
<1>4. ((SeqMod * (((c + q2) - q1) - k)) + r) % SeqMod = r
  <2> HIDE DEF r
  <2>1. ((c + q2) - q1) - k \in Int
    BY <1>1, <1>2, Z3
  <2>2. r \in 0..(SeqMod - 1)
    BY DEF r
  <2> QED BY <2>1, <2>2, HalfFacts, ModUnique
<1> QED BY <1>3, <1>4 DEF SequenceDelta, r1, r2

\* _unwrap_sequence returns the true number of a packet (its index less the
\* cycles that had passed when the stream was first seen) whenever the packet
\* is at most half a cycle behind and less than half a cycle ahead.
THEOREM UnwrapCorrect ==
    ASSUME NEW index \in Int, NEW reference \in Int, NEW c \in Int,
           index - (reference + (SeqMod * c)) >= -Half,
           index - (reference + (SeqMod * c)) < Half
    PROVE  UnwrapSequence(Wire(index), reference) = index - (SeqMod * c)
<1> DEFINE d == index - (reference + (SeqMod * c))
           delta == SequenceDelta(Wire(index), Wire(reference))
<1>1. d \in Int /\ index = ((SeqMod * c) + reference) + d
  BY HalfFacts, Z3
<1>2. CASE d >= 0
  <2>1. d + (SeqMod * 0) \in 0..(SeqMod - 1) /\ d + (SeqMod * 0) = d
    BY <1>1, <1>2, HalfFacts, Z3
  <2>2. delta = d
    <3> HIDE DEF d
    <3> QED BY <1>1, <2>1, WireDistance
  <2>3. ~(delta > Half - 1)
    BY <2>2, HalfFacts, Z3
  <2>4. UnwrapSequence(Wire(index), reference) = reference + delta
    BY <2>3 DEF UnwrapSequence
  <2> QED BY <2>4, <2>2, HalfFacts, Z3
<1>3. CASE d < 0
  <2>1. d + (SeqMod * 1) \in 0..(SeqMod - 1) /\ d + (SeqMod * 1) = d + SeqMod
    BY <1>1, <1>3, HalfFacts, Z3
  <2>2. delta = d + SeqMod
    <3> HIDE DEF d
    <3> QED BY <1>1, <2>1, WireDistance
  <2>3. delta > Half - 1
    BY <2>2, HalfFacts, Z3
  <2>4. UnwrapSequence(Wire(index), reference) = reference + (delta - SeqMod)
    BY <2>3 DEF UnwrapSequence
  <2> QED BY <2>4, <2>2, HalfFacts, Z3
<1> QED BY <1>1, <1>2, <1>3, Z3
=============================================================================

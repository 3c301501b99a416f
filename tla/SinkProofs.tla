----------------------------- MODULE SinkProofs -----------------------------
(***************************************************************************)
(* Proofs about the sinks (media.py): which packets reach which sink       *)
(* (SinkRouting), the trees they form and their cleanup (SinkTree), what   *)
(* their queues keep (QueueSinks), the silence that fills a pause          *)
(* (SilenceFill), where a packet is placed in a recording                  *)
(* (RecordingTimeline) and the sink that writes it with FFmpeg             *)
(* (MuxRecording); for every number of sinks, users, streams, writers,     *)
(* packets and wrappers, and for clocks of any width.                      *)
(*                                                                         *)
(* None of the properties is inductive.  A chain of wrappers is described  *)
(* from the leaf up and a tree from the leaves up, so their lemmas take a  *)
(* least position, or a sink of least rank, at which they would fail       *)
(* (LeastElement).  The other invariants add the facts on which an         *)
(* operation that is under way depends: the loss a writer still owes, the  *)
(* flush a recording owes, that a table of children is one to one.         *)
(***************************************************************************)
EXTENDS QueueSinks, MuxRecording, SilenceFill, RecordingTimeline, SinkRouting, SinkTree,
        WellFoundedInduction, SequenceTheorems, FiniteSetTheorems, TLAPS

-----------------------------------------------------------------------------
(****************************** the chains *********************************)

\* A set of numbers that is not empty has a least one.
LEMMA LeastElement ==
    ASSUME NEW T \in SUBSET Nat, T # {}
    PROVE  \E n \in T : \A m \in T : n <= m
<1>1. IsWellFoundedOn(OpToRel(<, Nat), Nat) BY NatLessThanWellFounded
<1>2. PICK n \in T : \A m \in T : <<m, n>> \notin OpToRel(<, Nat) BY <1>1, WFMin, Zenon
<1>3. \A m \in T : ~(m < n) BY <1>2 DEF OpToRel
<1> QED BY <1>3

StepsFrom(S, a, G, n, f) == f \in [0 .. n -> S] /\ f[0] = a /\ \A i \in 1 .. n : f[i] = G[<<i, f[i - 1]>>]

\* A function is defined by its value at 0 and by each next one from the one before
\* (wants_media from the leaf up, a packet from the root down).
LEMMA StepByStep ==
    ASSUME NEW S, NEW a \in S, NEW G \in [Nat \X S -> S], NEW n \in Nat
    PROVE  \E f : StepsFrom(S, a, G, n, f)
<1> DEFINE T == {m \in Nat : ~ \E f \in [0 .. m -> S] :
                                  /\ f[0] = a
                                  /\ \A i \in 1 .. m : f[i] = G[<<i, f[i - 1]>>]}
<1>1. ASSUME T # {} PROVE FALSE
  <2>1. PICK m \in T : \A k \in T : m <= k BY <1>1, LeastElement
  <2>2. m \in Nat /\ ~ \E f \in [0 .. m -> S] : /\ f[0] = a
                                               /\ \A i \in 1 .. m : f[i] = G[<<i, f[i - 1]>>]
    OBVIOUS
  <2>3. CASE m = 0
    <3> DEFINE f == [i \in 0 .. 0 |-> a]
    <3>1. f \in [0 .. m -> S] /\ f[0] = a /\ \A i \in 1 .. m : FALSE BY <2>3
    <3> QED BY <2>2, <3>1
  <2>4. CASE m # 0
    <3>1. m - 1 \in Nat /\ m - 1 \notin T BY <2>1, <2>2, <2>4
    <3>2. PICK g \in [0 .. m - 1 -> S] : g[0] = a /\ \A i \in 1 .. m - 1 : g[i] = G[<<i, g[i - 1]>>]
      BY <3>1
    <3> HIDE DEF T
    <3> DEFINE f == [i \in 0 .. m |-> IF i = m THEN G[<<m, g[m - 1]>>] ELSE g[i]]
    <3>3. g[m - 1] \in S BY <3>1
    <3>4. G[<<m, g[m - 1]>>] \in S BY <2>2, <3>3
    <3>5. \A i \in 0 .. m : i = m \/ i \in 0 .. m - 1 BY <2>2
    <3>6. f \in [0 .. m -> S]
      <4>1. \A i \in 0 .. m : (IF i = m THEN G[<<m, g[m - 1]>>] ELSE g[i]) \in S BY <3>4, <3>5
      <4> QED BY <4>1
    <3>7. f[0] = a BY <2>2, <2>4, <3>2
    <3>8. \A i \in 1 .. m : f[i] = G[<<i, f[i - 1]>>]
      <4>1. TAKE i \in 1 .. m
      <4>2. i - 1 \in 0 .. m /\ i - 1 # m /\ i \in 0 .. m BY <2>2
      <4>3. f[i - 1] = g[i - 1] BY <4>2
      <4>4. CASE i = m
        <5>1. f[i] = G[<<m, g[m - 1]>>] BY <4>2, <4>4
        <5> QED BY <4>3, <4>4, <5>1
      <4>5. CASE i # m
        <5>1. f[i] = g[i] /\ i \in 1 .. m - 1 BY <2>2, <4>2, <4>5
        <5> QED BY <3>2, <4>3, <5>1
      <4> QED BY <4>4, <4>5
    <3> HIDE DEF f
    <3> QED BY <2>2, <3>6, <3>7, <3>8
  <2> QED BY <2>3, <2>4
<1>2. \E f \in [0 .. n -> S] : f[0] = a /\ \A i \in 1 .. n : f[i] = G[<<i, f[i - 1]>>] BY <1>1
<1> QED BY <1>2 DEF StepsFrom

\* What everything from a position on wants follows from what the next one wants
\* (wants_media of each wrapper).
LEMMA WantsOf ==
    ASSUME NEW ch \in Seq(Wrappers), NEW lf \in SUBSET Formats
    PROVE  /\ Wants(ch, lf)[Len(ch) + 1] = lf
           /\ \A i \in 1 .. Len(ch) : Wants(ch, lf)[i] = {f \in Formats : Answer(ch[i], Wants(ch, lf)[i + 1], f)}
<1> DEFINE n == Len(ch)
           w == CHOOSE w : w = [i \in 0 .. n |-> IF i = 0 THEN lf
                                               ELSE {f \in Formats : Answer(ch[n + 1 - i], w[i - 1], f)}]
           W == Wants(ch, lf)
           S == SUBSET Formats
           G == [p \in Nat \X S |-> {f \in Formats : Answer(ch[n + 1 - p[1]], p[2], f)}]
<1>1. n \in Nat BY LenProperties
<1>2. W = [i \in 1 .. n + 1 |-> w[n + 1 - i]] BY Zenon DEF Wants
<1>3. G \in [Nat \X S -> S] OBVIOUS
<1>4. \A i \in Nat : \A v \in S : G[<<i, v>>] = {f \in Formats : Answer(ch[n + 1 - i], v, f)}
  <2>1. SUFFICES ASSUME NEW i \in Nat, NEW v \in S
                 PROVE  G[<<i, v>>] = {f \in Formats : Answer(ch[n + 1 - i], v, f)}
    OBVIOUS
  <2>2. <<i, v>> \in Nat \X S /\ <<i, v>>[1] = i /\ <<i, v>>[2] = v BY <2>1
  <2> QED BY <2>2
<1>0. lf \in S OBVIOUS
<1> HIDE DEF G, W, n, S, w
<1> PICK f : StepsFrom(S, lf, G, n, f)
  BY <1>0, <1>1, <1>3, StepByStep, Zenon
<1>5. f \in [0 .. n -> S] /\ f[0] = lf /\ \A i \in 1 .. n : f[i] = G[<<i, f[i - 1]>>]
  BY DEF StepsFrom
<1>6. f = [i \in 0 .. n |-> IF i = 0 THEN lf ELSE {g \in Formats : Answer(ch[n + 1 - i], f[i - 1], g)}]
  <2>1. f = [i \in 0 .. n |-> f[i]] BY <1>5
  <2>2. \A i \in 1 .. n : i \in Nat /\ f[i - 1] \in S BY <1>1, <1>5
  <2>3. \A i \in 1 .. n : f[i] = {g \in Formats : Answer(ch[n + 1 - i], f[i - 1], g)}
    BY <1>4, <1>5, <2>2, Zenon
  <2>4. \A i \in 0 .. n : i = 0 \/ i \in 1 .. n BY <1>1
  <2>5. \A i \in 0 .. n : f[i] = IF i = 0 THEN lf ELSE {g \in Formats : Answer(ch[n + 1 - i], f[i - 1], g)}
    BY <1>5, <2>3, <2>4, Zenon
  <2>6. [i \in 0 .. n |-> f[i]]
          = [i \in 0 .. n |-> IF i = 0 THEN lf ELSE {g \in Formats : Answer(ch[n + 1 - i], f[i - 1], g)}]
    BY <2>5, Zenon
  <2> QED BY <2>1, <2>6, Zenon
<1>7. w = [i \in 0 .. n |-> IF i = 0 THEN lf ELSE {g \in Formats : Answer(ch[n + 1 - i], w[i - 1], g)}]
  BY <1>6, Zenon DEF w
<1>8. w[0] = lf /\ \A i \in 1 .. n : w[i] = {g \in Formats : Answer(ch[n + 1 - i], w[i - 1], g)}
  <2>1. \A i \in 0 .. n : w[i] = IF i = 0 THEN lf ELSE {g \in Formats : Answer(ch[n + 1 - i], w[i - 1], g)}
    BY <1>7, Zenon
  <2>2. 0 \in 0 .. n /\ \A i \in 1 .. n : i \in 0 .. n /\ i # 0 BY <1>1
  <2> QED BY <2>1, <2>2, Zenon
<1>9. W[n + 1] = lf
  <2>1. n + 1 \in 1 .. n + 1 /\ n + 1 - (n + 1) = 0 BY <1>1
  <2>2. W[n + 1] = w[n + 1 - (n + 1)] BY <1>2, <2>1, Zenon
  <2>3. w[n + 1 - (n + 1)] = w[0] BY <2>1, Zenon
  <2> QED BY <1>8, <2>2, <2>3, Zenon
<1>10. \A i \in 1 .. n : W[i] = {f_1 \in Formats : Answer(ch[i], W[i + 1], f_1)}
  <2>1. TAKE i \in 1 .. n
  <2> DEFINE j == n + 1 - i
  <2>2. /\ i \in 1 .. n + 1 /\ i + 1 \in 1 .. n + 1 /\ j \in 1 .. n
        /\ n + 1 - j = i /\ n + 1 - (i + 1) = j - 1
    BY <1>1
  <2>3. W[i] = w[j] BY <1>2, <2>2, Zenon
  <2>4. W[i + 1] = w[n + 1 - (i + 1)] BY <1>2, <2>2, Zenon
  <2> HIDE DEF j
  <2>5. W[i + 1] = w[j - 1] BY <2>2, <2>4, Zenon
  <2>6. w[j] = {g \in Formats : Answer(ch[n + 1 - j], w[j - 1], g)} BY <1>8, <2>2, Zenon
  <2>7. {g \in Formats : Answer(ch[n + 1 - j], w[j - 1], g)} = {g \in Formats : Answer(ch[i], W[i + 1], g)}
    BY <2>2, <2>5, Zenon
  <2> QED BY <2>3, <2>6, <2>7, Zenon
<1> QED BY <1>9, <1>10 DEF W, n

\* What a wrapper passes on of a packet that the chain from it on wants (write): only what
\* is wanted below; and unless a predicate or a fan-out decides, just one packet.
LEMMA PassesWanted ==
    ASSUME NEW kind \in Wrappers, NEW below \in SUBSET Formats, NEW f \in Formats, Answer(kind, below, f)
    PROVE  /\ Pass(kind, below, f) \in SUBSET below
           /\ matches /\ kind # "multi" => \E g \in below : Pass(kind, below, f) = {g}
<1>1. kind \in {"decode", "volume", "silence", "multi", "conditional", "audio_filter", "opus_filter", "pcm_filter"}
  BY DEF Wrappers, Filters
<1>2. Decoded(f) \in Formats /\ (f # "opus" => Decoded(f) = f) /\ (f = "opus" => Decoded(f) = "pcm")
  BY DEF Decoded, Formats
<1>3. CASE kind = "multi" BY <1>3 DEF Pass, Answer, MultiSinkWrite
<1>4. CASE kind = "conditional"
  BY <1>4 DEF Pass, Answer, ConditionalFilterWrite, ConditionalFilterWants
<1>5. CASE kind = "decode"
  BY <1>5 DEF Pass, Answer, PCMDecodeSinkWrite, PCMDecodeSinkWants
<1>6. CASE kind = "volume"
  BY <1>6 DEF Pass, Answer, VolumeTransformerWrite, VolumeTransformerWants
<1>7. CASE kind = "silence"
  <2>1. f \in below \/ (f # "video" /\ "pcm" \in below)
    BY <1>7 DEF Answer, SilenceFillSinkWants
  <2>2. Pass(kind, below, f) = IF f \in below THEN {f} ELSE {Decoded(f)} \cap below
    BY <1>7 DEF Pass, SilenceFillSinkWrite
  <2>3. CASE f \in below BY <2>2, <2>3
  <2>4. CASE f \notin below
    <3>1. f \in {"opus", "pcm"} /\ "pcm" \in below BY <2>1, <2>4 DEF Formats
    <3>2. f = "opus" /\ Decoded(f) = "pcm" BY <1>2, <2>4, <3>1
    <3> QED BY <2>2, <2>4, <3>1, <3>2
  <2> QED BY <2>3, <2>4
<1>8. CASE kind \in {"audio_filter", "opus_filter", "pcm_filter"}
  <2>1. Pass(kind, below, f) = {f} \cap Filters[kind] BY <1>8 DEF Pass, MediaFilterWrite
  <2>2. f \in below /\ f \in Filters[kind] BY <1>8 DEF Answer, MediaFilterWants
  <2> QED BY <2>1, <2>2
<1> QED BY <1>1, <1>3, <1>4, <1>5, <1>6, <1>7, <1>8

\* What write of each wrapper makes of a packet reaches the leaf in a form it wants, and
\* there is one such packet unless a predicate or a fan-out decides.
Delivers(ch, lf, f) ==
    /\ Arrives(ch, lf, f) \subseteq lf
    /\ matches /\ (\A i \in 1 .. Len(ch) : ch[i] # "multi") => \E g : Arrives(ch, lf, f) = {g}

\* A packet comes to each position in the formats the sink there passes on (write of each
\* wrapper).
LEMMA ArrivesBy ==
    ASSUME NEW ch \in Seq(Wrappers), NEW lf \in SUBSET Formats, NEW f \in Wants(ch, lf)[1]
    PROVE  Delivers(ch, lf, f)
<1> DEFINE n == Len(ch)
           W == Wants(ch, lf)
           p == CHOOSE p : p = [i \in 0 .. n |-> IF i = 0 THEN {f}
                                               ELSE UNION {Pass(ch[i], W[i + 1], g) : g \in p[i - 1]}]
           S == SUBSET Formats
           Kept(i, v) == (UNION {Pass(ch[i], W[i + 1], g) : g \in v}) \cap Formats
           G == [q \in Nat \X S |-> Kept(q[1], q[2])]
<1>1. n \in Nat /\ \A i \in 1 .. n : ch[i] \in Wrappers BY LenProperties, ElementOfSeq
<1>2. Arrives(ch, lf, f) = p[n] BY Zenon DEF Arrives
<1>3. W[n + 1] = lf /\ \A i \in 1 .. n : W[i] = {g \in Formats : Answer(ch[i], W[i + 1], g)}
  BY WantsOf
<1>4. \A i \in 1 .. n + 1 : W[i] \in SUBSET Formats
  <2>1. \A i \in 1 .. n + 1 : i = n + 1 \/ i \in 1 .. n BY <1>1
  <2> QED BY <1>3, <2>1
<1>5. {f} \in S /\ f \in Formats
  <2>1. 1 \in 1 .. n + 1 BY <1>1
  <2> QED BY <1>4, <2>1
<1>6. G \in [Nat \X S -> S]
  <2>1. \A i, v : Kept(i, v) \in S
    <3>1. SUFFICES ASSUME NEW i, NEW v PROVE Kept(i, v) \in S
      OBVIOUS
    <3> DEFINE U == UNION {Pass(ch[i], W[i + 1], g) : g \in v}
    <3>2. Kept(i, v) = U \cap Formats OBVIOUS
    <3> HIDE DEF U, Kept
    <3> QED BY <3>2
  <2> HIDE DEF Kept, S
  <2> QED BY <2>1
<1>7. \A i \in Nat : \A v \in S : G[<<i, v>>] = Kept(i, v)
  <2>1. SUFFICES ASSUME NEW i \in Nat, NEW v \in S PROVE G[<<i, v>>] = Kept(i, v)
    OBVIOUS
  <2> HIDE DEF Kept
  <2>2. <<i, v>> \in Nat \X S /\ <<i, v>>[1] = i /\ <<i, v>>[2] = v BY <2>1
  <2> QED BY <2>2
<1> HIDE DEF G, W, n, S, p
<1> PICK h : StepsFrom(S, {f}, G, n, h)
  BY <1>1, <1>5, <1>6, StepByStep, Zenon
<1>8. h \in [0 .. n -> S] /\ h[0] = {f} /\ \A i \in 1 .. n : h[i] = G[<<i, h[i - 1]>>]
  BY DEF StepsFrom
<1> HIDE DEF Kept
<1>9. h[0] = {f} /\ \A i \in 1 .. n : h[i - 1] \in S /\ h[i] = Kept(i, h[i - 1])
  <2>1. h[0] = {f} BY <1>8
  <2>2. ASSUME NEW i \in 1 .. n PROVE h[i - 1] \in S /\ h[i] = Kept(i, h[i - 1])
    <3>1. i \in 0 .. n /\ i # 0 /\ i \in Nat /\ i - 1 \in 0 .. n BY <1>1
    <3>2. h[i] = G[<<i, h[i - 1]>>] BY <1>8, <3>1
    <3>3. h[i - 1] \in S BY <1>8, <3>1
    <3> QED BY <1>7, <3>1, <3>2, <3>3
  <2> QED BY <2>1, <2>2
<1>10. ASSUME NEW i \in 1 .. n, NEW v \in S, v \subseteq W[i]
       PROVE  /\ Kept(i, v) = UNION {Pass(ch[i], W[i + 1], g) : g \in v}
              /\ Kept(i, v) \subseteq W[i + 1]
              /\ matches /\ ch[i] # "multi" /\ (\E g : v = {g}) => \E g : Kept(i, v) = {g}
  <2>1. i + 1 \in 1 .. n + 1 BY <1>1
  <2>2. W[i + 1] \in SUBSET Formats BY <1>4, <2>1
  <2>3. \A g \in v : /\ Pass(ch[i], W[i + 1], g) \in SUBSET W[i + 1]
                     /\ matches /\ ch[i] # "multi" => \E e \in W[i + 1] : Pass(ch[i], W[i + 1], g) = {e}
    <3>1. SUFFICES ASSUME NEW g \in v
                   PROVE  /\ Pass(ch[i], W[i + 1], g) \in SUBSET W[i + 1]
                          /\ matches /\ ch[i] # "multi" => \E e \in W[i + 1] : Pass(ch[i], W[i + 1], g) = {e}
      OBVIOUS
    <3>2. g \in Formats /\ Answer(ch[i], W[i + 1], g) BY <1>3, <1>10
    <3> DEFINE k == ch[i]
               b == W[i + 1]
    <3> HIDE DEF k, b
    <3>3. k \in Wrappers /\ b \in SUBSET Formats /\ Answer(k, b, g) BY <1>1, <2>2, <3>2 DEF k, b
    <3>4. Pass(k, b, g) \in SUBSET b /\ (matches /\ k # "multi" => \E e \in b : Pass(k, b, g) = {e})
      BY <3>2, <3>3, PassesWanted
    <3> QED BY <3>4 DEF k, b
  <2> DEFINE Q(g) == Pass(ch[i], W[i + 1], g)
  <2> HIDE DEF Q
  <2>4. \A g \in v : /\ Q(g) \in SUBSET W[i + 1]
                     /\ matches /\ ch[i] # "multi" => \E e \in W[i + 1] : Q(g) = {e}
    BY <2>3, Zenon DEF Q
  <2>5. UNION {Q(g) : g \in v} \subseteq W[i + 1] BY <2>4
  <2>6. Kept(i, v) = (UNION {Q(g) : g \in v}) \cap Formats BY Zenon DEF Kept, Q
  <2>7. Kept(i, v) = UNION {Q(g) : g \in v}
    <3> DEFINE U == UNION {Q(g) : g \in v}
    <3> HIDE DEF U
    <3>1. U \subseteq W[i + 1] BY <2>5, Zenon DEF U
    <3>2. Kept(i, v) = U \cap Formats BY <2>6, Zenon DEF U
    <3>3. Kept(i, v) = U BY <2>2, <3>1, <3>2
    <3> QED BY <3>3, Zenon DEF U
  <2>8. ASSUME matches, ch[i] # "multi", NEW g, v = {g} PROVE \E e : Kept(i, v) = {e}
    <3>1. PICK e : Q(g) = {e} BY <2>4, <2>8
    <3>2. UNION {Q(x) : x \in v} = {e} BY <2>8, <3>1
    <3> QED BY <2>7, <3>2
  <2>9. UNION {Q(g) : g \in v} = UNION {Pass(ch[i], W[i + 1], g) : g \in v} BY Zenon DEF Q
  <2> QED BY <2>5, <2>7, <2>8, <2>9
<1>11. \A i \in 0 .. n : /\ h[i] \subseteq W[i + 1]
                         /\ matches /\ (\A k \in 1 .. n : ch[k] # "multi") => \E g : h[i] = {g}
  <2> DEFINE Good(i) == /\ h[i] \subseteq W[i + 1]
                        /\ matches /\ (\A k \in 1 .. n : ch[k] # "multi") => \E g : h[i] = {g}
             T == {i \in 0 .. n : ~Good(i)}
  <2>1. SUFFICES ASSUME T # {} PROVE FALSE
    <3>1. SUFFICES ASSUME NEW i \in 0 .. n PROVE Good(i)
      BY DEF Good
    <3> QED BY <2>1
  <2>2. T \in SUBSET Nat BY <1>1
  <2>3. PICK i \in T : \A k \in T : i <= k BY <2>1, <2>2, LeastElement
  <2>4. i \in 0 .. n /\ ~Good(i) BY <2>3
  <2> HIDE DEF Good
  <2>5. CASE i = 0
    <3>1. h[0] \subseteq W[0 + 1] BY <1>9 DEF W
    <3>2. \E g : h[0] = {g} BY <1>9
    <3>3. Good(0) BY <3>1, <3>2 DEF Good
    <3> QED BY <2>4, <2>5, <3>3
  <2>6. CASE i # 0
    <3>1. i \in 1 .. n /\ i - 1 \in 0 .. n /\ i - 1 < i /\ (i - 1) + 1 = i BY <1>1, <2>4, <2>6
    <3>2. i - 1 \notin T BY <1>1, <2>3, <2>4, <3>1
    <3>3. Good(i - 1) BY <3>1, <3>2
    <3> HIDE DEF T
    <3>4. /\ h[i - 1] \subseteq W[i]
          /\ matches /\ (\A k \in 1 .. n : ch[k] # "multi") => \E g : h[i - 1] = {g}
      BY <3>1, <3>3 DEF Good
    <3>5. h[i - 1] \in S /\ h[i] = Kept(i, h[i - 1]) BY <1>9, <3>1
    <3>6. /\ Kept(i, h[i - 1]) \subseteq W[i + 1]
          /\ matches /\ ch[i] # "multi" /\ (\E g : h[i - 1] = {g}) => \E g : Kept(i, h[i - 1]) = {g}
      BY <1>10, <3>1, <3>4, <3>5
    <3>7. Good(i) BY <3>1, <3>4, <3>5, <3>6 DEF Good
    <3> QED BY <2>4, <3>7
  <2> QED BY <2>5, <2>6
<1>12. \A i \in 1 .. n : h[i] = UNION {Pass(ch[i], W[i + 1], g) : g \in h[i - 1]}
  <2>1. TAKE i \in 1 .. n
  <2>2. i - 1 \in 0 .. n /\ (i - 1) + 1 = i BY <1>1
  <2>3. h[i - 1] \subseteq W[i] BY <1>11, <2>2
  <2> QED BY <1>9, <1>10, <2>3
<1>13. h = [i \in 0 .. n |-> IF i = 0 THEN {f} ELSE UNION {Pass(ch[i], W[i + 1], g) : g \in h[i - 1]}]
  <2>1. h = [i \in 0 .. n |-> h[i]] BY <1>8
  <2>2. \A i \in 0 .. n : i = 0 \/ i \in 1 .. n BY <1>1
  <2>3. \A i \in 0 .. n : h[i] = IF i = 0 THEN {f} ELSE UNION {Pass(ch[i], W[i + 1], g) : g \in h[i - 1]}
    BY <1>9, <1>12, <2>2, Zenon
  <2>4. [i \in 0 .. n |-> h[i]]
          = [i \in 0 .. n |-> IF i = 0 THEN {f} ELSE UNION {Pass(ch[i], W[i + 1], g) : g \in h[i - 1]}]
    BY <2>3, Zenon
  <2> QED BY <2>1, <2>4, Zenon
<1>14. p = [i \in 0 .. n |-> IF i = 0 THEN {f} ELSE UNION {Pass(ch[i], W[i + 1], g) : g \in p[i - 1]}]
  BY <1>13, Zenon DEF p
<1>15. \A i \in 0 .. n : p[i] = h[i]
  <2> DEFINE T == {i \in 0 .. n : p[i] # h[i]}
  <2>1. SUFFICES ASSUME T # {} PROVE FALSE
    OBVIOUS
  <2>2. T \in SUBSET Nat BY <1>1
  <2>3. PICK i \in T : \A k \in T : i <= k BY <2>1, <2>2, LeastElement
  <2>4. i \in 0 .. n /\ p[i] # h[i] BY <2>3
  <2>5. p[i] = IF i = 0 THEN {f} ELSE UNION {Pass(ch[i], W[i + 1], g) : g \in p[i - 1]} BY <1>14, <2>4, Zenon
  <2>6. CASE i = 0 BY <1>9, <2>4, <2>5, <2>6
  <2>7. CASE i # 0
    <3>1. i \in 1 .. n /\ i - 1 \in 0 .. n /\ ~(i <= i - 1) BY <1>1, <2>4, <2>7
    <3>2. p[i - 1] = h[i - 1] BY <2>3, <3>1
    <3>3. p[i] = UNION {Pass(ch[i], W[i + 1], g) : g \in h[i - 1]} BY <2>5, <2>7, <3>2, Zenon
    <3> QED BY <1>12, <2>4, <3>1, <3>3
  <2> QED BY <2>6, <2>7
<1>16. n \in 0 .. n BY <1>1
<1>17. p[n] = h[n] /\ h[n] \subseteq lf BY <1>3, <1>11, <1>15, <1>16
<1>18. matches /\ (\A i \in 1 .. n : ch[i] # "multi") => \E g : p[n] = {g} BY <1>11, <1>16, <1>17
<1> QED BY <1>2, <1>17, <1>18 DEF n, Delivers
-----------------------------------------------------------------------------
\* What came to the leaf of the packet that was offered.
ChainInv ==
    /\ chain \in Seq(Wrappers) /\ leaf \in SUBSET Formats
    /\ arrived \subseteq leaf
    /\ offered # "none" /\ matches /\ "multi" \notin ToSet(chain) => \E g : arrived = {g}

\* A packet is offered to a chain (_dispatch_media_sink_packet).
LEMMA ChainStep ==
    ASSUME ChainInv, NEW f \in Formats, Offer(f)
    PROVE  ChainInv'
<1>1. /\ f \in Wants(chain, leaf)[1] /\ arrived' = Arrives(chain, leaf, f)
      /\ UNCHANGED <<chain, leaf, matches>>
  BY DEF Offer
<1>2. chain \in Seq(Wrappers) /\ leaf \in SUBSET Formats BY DEF ChainInv
<1>3. /\ Arrives(chain, leaf, f) \subseteq leaf
      /\ matches /\ (\A i \in 1 .. Len(chain) : chain[i] # "multi") => \E g : Arrives(chain, leaf, f) = {g}
  <2>1. Delivers(chain, leaf, f) BY <1>1, <1>2, ArrivesBy, Zenon
  <2> QED BY <2>1, Zenon DEF Delivers
<1>4. "multi" \notin ToSet(chain) => \A i \in 1 .. Len(chain) : chain[i] # "multi"
  BY <1>2, LenProperties DEF ToSet
<1> HIDE DEF Formats
<1>5. arrived' \subseteq leaf' BY <1>1, <1>3
<1>6. matches' /\ "multi" \notin ToSet(chain)' => \E g : arrived' = {g}
  <2>1. "multi" \notin ToSet(chain)' => "multi" \notin ToSet(chain) BY <1>1 DEF ToSet
  <2> QED BY <1>1, <1>3, <1>4, <2>1
<1> QED BY <1>1, <1>2, <1>5, <1>6 DEF ChainInv

-----------------------------------------------------------------------------
(**************************** the PerUserSink ******************************)

ChildKeys == {<<"user", u>> : u \in Users} \cup {<<"ssrc", s>> : s \in Ssrcs}

UserTypes ==
    /\ made_children \in Nat /\ made_children <= MaxChildren
    /\ by_key \subseteq ChildKeys \X (1 .. made_children)
    /\ open_children \subseteq 1 .. made_children
    /\ got \subseteq (1 .. made_children) \X (Users \cup {NoUser})
    /\ user_of \in [Ssrcs -> Users \cup {NoUser}]

\* Keys and children belong together, one to one.
OneToOne ==
    \A p, q \in by_key : (p[1] = q[1] => p[2] = q[2]) /\ (p[2] = q[2] => p[1] = q[1])

NoUserYet(c) == \A p \in got : p[1] = c => p[2] = NoUser

\* What write holds at each of its steps: the key of its packet, and a child that is under
\* no key, while the key has no child, between the two steps of a promotion.
Writing ==
    /\ pu_at \in {"idle", "key", "pop", "set", "get", "make"}
    /\ pu_at # "idle" => pu_packet[1] \in Ssrcs /\ pu_packet[2] \in Users \cup {NoUser}
    /\ pu_at \in {"pop", "set", "get", "make"} =>
            pu_key \in ChildKeys /\ (pu_packet[2] # NoUser => pu_key = UserKey(pu_packet[2]))
    /\ pu_at \in {"pop", "set"} => pu_packet[2] # NoUser
    /\ pu_at \in {"pop", "set", "make"} => \A c : <<pu_key, c>> \notin by_key
    /\ pu_at = "set" => /\ popped \in 1 .. made_children
                        /\ \A k : <<k, popped>> \notin by_key
                        /\ NoUserYet(popped)

\* The child of an SSRC has got no packet that names a user.
SsrcChildren == \A s : \A c : <<SsrcKey(s), c>> \in by_key => NoUserYet(c)

\* An open child that got a packet of a user is the child of that user, until the last
\* write to a sink that has been cleaned up returns.
InPlace ==
    pu_clean # "done" \/ pu_at # "idle" =>
        \A p \in got : p[2] # NoUser /\ p[1] \in open_children => <<UserKey(p[2]), p[1]>> \in by_key

\* Until cleanup collects the children, they all are open and have a key, but for the one
\* that is being promoted.
Collectable ==
    /\ pu_clean = "no" <=> ~pu_closed
    /\ ~pu_closed => open_children = 1 .. made_children
    /\ pu_clean \in {"no", "collect"} =>
            \A c \in open_children : (\E k : <<k, c>> \in by_key) \/ (pu_at = "set" /\ c = popped)

Late == open_children \ unclosed

\* What cleanup has not collected: the child that was being promoted, and the one that the
\* write it fell into makes.
CleanedUp ==
    /\ pu_clean = "done" => unclosed = {}
    /\ pu_clean \in {"close", "done"} =>
        /\ found_at = "idle" => pu_at = "idle" /\ Late = {}
        /\ found_at = "set" =>
            /\ pu_at \in {"set", "get", "make", "idle"}
            /\ pu_at # "idle" => Late \subseteq {popped} /\ NoUserYet(popped)
            /\ pu_at = "idle" => \E a, b : Late \subseteq {a, b}
        /\ found_at \notin {"idle", "set"} =>
            /\ pu_at # "idle" => Late = {}
            /\ pu_at = "idle" => \E a : Late \subseteq {a}

UserInv ==
    /\ UserTypes /\ OneToOne /\ Writing /\ SsrcChildren /\ InPlace
    /\ Collectable /\ CleanedUp /\ OneUserPerChild

\* Keys tell users from streams.
LEMMA KeysDiffer ==
    /\ \A u \in Users : UserKey(u) \in ChildKeys
    /\ \A s \in Ssrcs : SsrcKey(s) \in ChildKeys
    /\ \A u, v : UserKey(u) = UserKey(v) => u = v
    /\ \A u, s : UserKey(u) # SsrcKey(s)
BY DEF UserKey, SsrcKey, ChildKeys

\* The child of a key that has one.
LEMMA ChildFound ==
    ASSUME NEW k, Known(k)
    PROVE  <<k, Child(k)>> \in by_key
BY DEF Known, Child

\* A key with a child in the table is known.
LEMMA KnownHere ==
    ASSUME UserTypes, NEW k, NEW c, <<k, c>> \in by_key
    PROVE  Known(k)
<1>1. c \in 1 .. made_children /\ made_children \in Nat /\ made_children <= MaxChildren /\ MaxChildren \in Nat
  BY RoutingAssumption DEF UserTypes, RoutingAssumption
<1>2. c \in 1 .. MaxChildren BY <1>1
<1> QED BY <1>2 DEF Known

\* A pair of the table is made of its parts.
LEMMA PairsOfKeys ==
    ASSUME UserTypes
    PROVE  /\ \A p \in by_key : p = <<p[1], p[2]>> /\ p[1] \in ChildKeys /\ p[2] \in 1 .. made_children
           /\ \A k, c : <<k, c>>[1] = k /\ <<k, c>>[2] = c
BY DEF UserTypes

\* A step of write that changes no child and no table.
LEMMA QuietStep ==
    ASSUME UserInv, UNCHANGED <<by_key, made_children, open_children, got>>, UNCHANGED cleanVars,
           user_of' \in [Ssrcs -> Users \cup {NoUser}], Writing',
           pu_at # "set", pu_at' # "set", pu_at \in {"get"} => pu_at' \in {"make", "idle"} /\ popped' = popped,
           pu_at = "idle" => ~pu_closed,
           pu_at \in {"make"} => pu_at' = "idle"
    PROVE  UserInv'
<1> USE DEF UserInv
<1>0. UNCHANGED <<pu_closed, pu_clean, unclosed, found_at>> BY DEF cleanVars
<1>1. UserTypes' /\ OneToOne' /\ OneUserPerChild' BY DEF UserTypes, OneToOne, OneUserPerChild
<1>2. SsrcChildren' BY DEF SsrcChildren, NoUserYet
<1>3. InPlace' BY <1>0 DEF InPlace, Collectable
<1>4. Collectable' BY <1>0 DEF Collectable
<1>5. Late' = Late BY <1>0 DEF Late
<1>6. CleanedUp'
  <2>1. SUFFICES ASSUME pu_clean \in {"close", "done"}
                 PROVE CleanedUp'
    BY <1>0 DEF CleanedUp
  <2>2. pu_closed /\ pu_at # "idle" BY <2>1 DEF Collectable
  <2>3. found_at # "idle" BY <2>1, <2>2 DEF CleanedUp
  <2>4. CASE found_at = "set"
    <3>1. pu_at \in {"get", "make"} /\ Late \subseteq {popped} /\ NoUserYet(popped) BY <2>1, <2>2, <2>4 DEF CleanedUp
    <3>2. Late' \subseteq {popped, popped} BY <1>5, <3>1
    <3>3. pu_at' # "idle" => Late' \subseteq {popped'} /\ NoUserYet(popped)' BY <1>5, <3>1 DEF NoUserYet
    <3> QED BY <1>0, <2>1, <2>4, <3>1, <3>2, <3>3 DEF CleanedUp
  <2>5. CASE found_at # "set"
    <3>1. Late' = {} BY <1>5, <2>1, <2>2, <2>3, <2>5 DEF CleanedUp
    <3> QED BY <1>0, <2>1, <2>3, <2>5, <3>1 DEF CleanedUp
  <2> QED BY <2>4, <2>5
<1> QED BY <1>1, <1>2, <1>3, <1>4, <1>6

\* A packet is taken up (write).
LEMMA BeginUserWriteStep ==
    ASSUME UserInv, NEW s \in Ssrcs, NEW u \in Users \cup {NoUser}, BeginUserWrite(s, u)
    PROVE  UserInv'
<1>1. /\ pu_at = "idle" /\ ~pu_closed /\ pu_at' = "key" /\ pu_packet' = <<s, u>>
      /\ UNCHANGED <<by_key, made_children, open_children, got, user_of>> /\ UNCHANGED cleanVars
  BY DEF BeginUserWrite, tableVars
<1>2. Writing' BY <1>1 DEF Writing
<1>3. user_of' \in [Ssrcs -> Users \cup {NoUser}] BY <1>1 DEF UserInv, UserTypes
<1> QED BY <1>1, <1>2, <1>3, QuietStep

\* The key of a packet that names its user (_packet_key).
LEMMA KeyOfUserStep ==
    ASSUME UserInv, KeyOfUser
    PROVE  UserInv'
<1> DEFINE s == pu_packet[1]
           u == pu_packet[2]
<1>1. /\ pu_at = "key" /\ u # NoUser /\ user_of' = [user_of EXCEPT ![s] = u] /\ pu_key' = UserKey(u)
      /\ pu_at' = IF Promotes(s, u) THEN "pop" ELSE "get"
      /\ UNCHANGED <<pu_packet, popped>>
      /\ UNCHANGED <<by_key, made_children, open_children, got>> /\ UNCHANGED cleanVars
  BY DEF KeyOfUser
<1>2. s \in Ssrcs /\ u \in Users BY <1>1 DEF UserInv, Writing
<1>3. user_of' \in [Ssrcs -> Users \cup {NoUser}] BY <1>1, <1>2 DEF UserInv, UserTypes
<1>4. Promotes(s, u) => \A c : <<UserKey(u), c>> \notin by_key
  BY KnownHere, Zenon DEF Promotes, UserInv
<1>5. pu_at' \in {"pop", "get"} /\ (pu_at' = "pop" => \A c : <<pu_key', c>> \notin by_key') BY <1>1, <1>4
<1>6. UserKey(u) \in ChildKeys BY <1>2, KeysDiffer
<1>7. pu_packet' = pu_packet /\ pu_key' = UserKey(u) /\ pu_key' \in ChildKeys BY <1>1, <1>6
<1>8. Writing' BY <1>1, <1>2, <1>5, <1>7 DEF Writing
<1> QED BY <1>1, <1>3, <1>5, <1>8, QuietStep

\* The key of a packet that does not (_packet_key).
LEMMA KeyOfSsrcStep ==
    ASSUME UserInv, KeyOfSsrc
    PROVE  UserInv'
<1> DEFINE s == pu_packet[1]
<1>1. /\ pu_at = "key" /\ pu_packet[2] = NoUser /\ s \in Ssrcs
      /\ UNCHANGED <<by_key, made_children, open_children, got, user_of>> /\ UNCHANGED cleanVars
  BY DEF KeyOfSsrc, tableVars, UserInv, Writing
<1>2. \/ user_of[s] # NoUser /\ pu_key' = UserKey(user_of[s]) /\ pu_at' = "get" /\ UNCHANGED pu_packet
      \/ pu_key' = SsrcKey(s) /\ pu_at' = "get" /\ UNCHANGED pu_packet
      \/ pu_at' = "idle"
  BY DEF KeyOfSsrc, WriteReturns
<1>3. pu_at' = "get" => pu_key' \in ChildKeys /\ pu_packet' = pu_packet
  BY <1>1, <1>2, KeysDiffer DEF UserInv, UserTypes
<1>4. Writing' BY <1>1, <1>2, <1>3 DEF Writing
<1>5. user_of' \in [Ssrcs -> Users \cup {NoUser}] BY <1>1 DEF UserInv, UserTypes
<1>6. pu_at' # "set" BY <1>2
<1> QED BY <1>1, <1>4, <1>5, <1>6, QuietStep

\* There is no child of the key (_get_child).
LEMMA MissChildStep ==
    ASSUME UserInv, MissChild
    PROVE  UserInv'
<1>1. /\ pu_at = "get" /\ ~Known(pu_key) /\ pu_at' = "make"
      /\ UNCHANGED <<pu_packet, pu_key, popped>>
      /\ UNCHANGED <<by_key, made_children, open_children, got, user_of>> /\ UNCHANGED cleanVars
  BY DEF MissChild, tableVars
<1>2. \A c : <<pu_key, c>> \notin by_key BY <1>1, KnownHere, Zenon DEF UserInv
<1>3. Writing' BY <1>1, <1>2 DEF Writing, UserInv
<1>4. user_of' \in [Ssrcs -> Users \cup {NoUser}] BY <1>1 DEF UserInv, UserTypes
<1> QED BY <1>1, <1>3, <1>4, QuietStep

\* The child leaves its SSRC (_packet_key).
LEMMA PopChildStep ==
    ASSUME UserInv, PopChild
    PROVE  UserInv'
<1> USE DEF UserInv
<1> DEFINE from == SsrcKey(pu_packet[1])
           c == Child(from)
<1>1. /\ pu_at = "pop"
      /\ UNCHANGED <<user_of, made_children, open_children, got>>
      /\ UNCHANGED <<pu_closed, pu_clean, unclosed, found_at>>
  BY DEF PopChild, cleanVars
<1>2. \/ /\ Known(from) /\ popped' = c /\ by_key' = by_key \ {<<from, c>>} /\ pu_at' = "set"
         /\ UNCHANGED <<pu_packet, pu_key>>
      \/ pu_at' = "idle" /\ by_key' = by_key
  BY Zenon DEF PopChild, WriteReturns
<1>3. by_key' \subseteq by_key /\ pu_at' \in {"set", "idle"} BY <1>2
<1>4. Known(from) => <<from, c>> \in by_key BY ChildFound, Zenon
<1>5. /\ pu_packet[1] \in Ssrcs /\ pu_packet[2] \in Users \cup {NoUser} /\ pu_packet[2] # NoUser
      /\ pu_key = UserKey(pu_packet[2])
  BY <1>1 DEF Writing
<1>6. \A p : UserKey(p) # from BY KeysDiffer
<1>7. Known(from) => NoUserYet(c) BY <1>4 DEF SsrcChildren
<1>8. Known(from) => c \in 1 .. made_children BY <1>4 DEF UserTypes
<1> HIDE DEF c, from
<1>9. Known(from) => \A k : <<k, c>> \notin by_key \ {<<from, c>>}
  <2>1. SUFFICES ASSUME Known(from), NEW k, <<k, c>> \in by_key PROVE k = from
    OBVIOUS
  <2>2. <<k, c>>[1] = <<from, c>>[1] BY <1>4, <2>1 DEF OneToOne
  <2> QED BY <2>2
<1>10. UserTypes' /\ OneToOne' /\ OneUserPerChild' BY <1>1, <1>3 DEF UserTypes, OneToOne, OneUserPerChild
<1>11. SsrcChildren' BY <1>1, <1>3 DEF SsrcChildren, NoUserYet
<1>12. InPlace'
  <2>1. SUFFICES ASSUME NEW p \in got, p[2] # NoUser, p[1] \in open_children
                 PROVE  <<UserKey(p[2]), p[1]>> \in by_key'
    BY <1>1 DEF InPlace
  <2>2. <<UserKey(p[2]), p[1]>> \in by_key BY <1>1, <2>1 DEF InPlace
  <2>3. UserKey(p[2]) # from BY <1>6
  <2> QED BY <1>2, <2>2, <2>3
<1>13. Writing'
  <2>1. CASE pu_at' = "idle" BY <2>1 DEF Writing
  <2>2. CASE pu_at' = "set"
    <3>1. Known(from) /\ popped' = c /\ by_key' = by_key \ {<<from, c>>} /\ UNCHANGED <<pu_packet, pu_key>>
      BY <1>2, <2>2
    <3>2. \A d : <<pu_key, d>> \notin by_key' BY <1>1, <1>3 DEF Writing
    <3>3. popped' \in 1 .. made_children' BY <1>1, <1>8, <3>1
    <3>4. \A k : <<k, popped'>> \notin by_key' BY <1>9, <3>1
    <3>5. NoUserYet(popped)' BY <1>1, <1>7, <3>1 DEF NoUserYet
    <3>6. pu_key' \in ChildKeys /\ pu_packet'[2] # NoUser /\ pu_key' = UserKey(pu_packet'[2])
      BY <1>1, <1>5, <3>1 DEF Writing
    <3>7. pu_packet'[1] \in Ssrcs /\ pu_packet'[2] \in Users \cup {NoUser} BY <1>5, <3>1
    <3>8. \A d : <<pu_key', d>> \notin by_key' BY <3>1, <3>2
    <3> QED BY <2>2, <3>3, <3>4, <3>5, <3>6, <3>7, <3>8 DEF Writing
  <2> QED BY <1>3, <2>1, <2>2
<1>14. Collectable'
  <2>1. SUFFICES ASSUME pu_clean \in {"no", "collect"}, NEW d \in open_children
                 PROVE  (\E k : <<k, d>> \in by_key') \/ (pu_at' = "set" /\ d = popped')
    BY <1>1 DEF Collectable
  <2>2. PICK k : <<k, d>> \in by_key BY <1>1, <2>1 DEF Collectable
  <2>3. <<k, d>> = <<from, c>> => d = c OBVIOUS
  <2> QED BY <1>2, <2>2, <2>3
<1>15. CleanedUp'
  <2>1. SUFFICES ASSUME pu_clean \in {"close", "done"} PROVE CleanedUp'
    BY <1>1 DEF CleanedUp
  <2>2. found_at \notin {"idle", "set"} /\ Late = {} BY <1>1, <2>1 DEF CleanedUp
  <2>3. Late' = {} BY <1>1, <2>2 DEF Late
  <2> QED BY <1>1, <2>1, <2>2, <2>3 DEF CleanedUp
<1> QED BY <1>10, <1>11, <1>12, <1>13, <1>14, <1>15

\* The child is entered under its user (_packet_key).
LEMMA SetChildStep ==
    ASSUME UserInv, SetChild
    PROVE  UserInv'
<1> USE DEF UserInv
<1>1. /\ pu_at = "set" /\ by_key' = {p \in by_key : p[1] # pu_key} \cup {<<pu_key, popped>>} /\ pu_at' = "get"
      /\ UNCHANGED <<pu_packet, pu_key, popped, user_of, made_children, open_children, got>>
      /\ UNCHANGED <<pu_closed, pu_clean, unclosed, found_at>>
  BY DEF SetChild, cleanVars
<1>2. /\ pu_key \in ChildKeys /\ pu_packet[1] \in Ssrcs /\ pu_packet[2] \in Users
      /\ pu_key = UserKey(pu_packet[2]) /\ popped \in 1 .. made_children
      /\ \A d : <<pu_key, d>> \notin by_key
      /\ \A k : <<k, popped>> \notin by_key
      /\ NoUserYet(popped)
  BY <1>1 DEF Writing
<1>3. \A p \in by_key : p[1] # pu_key /\ p[2] # popped
  <2>1. TAKE p \in by_key
  <2>2. p = <<p[1], p[2]>> BY PairsOfKeys
  <2> QED BY <1>2, <2>2
<1>4. by_key' = by_key \cup {<<pu_key, popped>>} BY <1>1, <1>3
<1>5. <<pu_key, popped>>[1] = pu_key /\ <<pu_key, popped>>[2] = popped OBVIOUS
<1>6. UserTypes' BY <1>1, <1>2, <1>4 DEF UserTypes
<1>7. OneToOne'
  <2>1. SUFFICES ASSUME NEW p \in by_key', NEW q \in by_key'
                 PROVE  (p[1] = q[1] => p[2] = q[2]) /\ (p[2] = q[2] => p[1] = q[1])
    BY DEF OneToOne
  <2>2. (p \in by_key \/ p = <<pu_key, popped>>) /\ (q \in by_key \/ q = <<pu_key, popped>>) BY <1>4
  <2>3. CASE p \in by_key /\ q \in by_key BY <2>3 DEF OneToOne
  <2>4. CASE p \in by_key /\ q = <<pu_key, popped>> BY <1>3, <1>5, <2>4
  <2>5. CASE p = <<pu_key, popped>> /\ q \in by_key BY <1>3, <1>5, <2>5
  <2>6. CASE p = <<pu_key, popped>> /\ q = <<pu_key, popped>> BY <2>6
  <2> QED BY <2>2, <2>3, <2>4, <2>5, <2>6
<1>8. Writing' BY <1>1, <1>2 DEF Writing
<1>9. SsrcChildren'
  <2>1. SUFFICES ASSUME NEW s, NEW c, <<SsrcKey(s), c>> \in by_key' PROVE NoUserYet(c)'
    BY DEF SsrcChildren
  <2>2. <<SsrcKey(s), c>> # <<pu_key, popped>> BY <1>2, KeysDiffer
  <2>3. <<SsrcKey(s), c>> \in by_key BY <1>4, <2>1, <2>2
  <2> QED BY <1>1, <2>3 DEF SsrcChildren, NoUserYet
<1>10. InPlace' BY <1>1, <1>4 DEF InPlace
<1>11. Collectable' BY <1>1, <1>4 DEF Collectable
<1>12. CleanedUp'
  <2>1. SUFFICES ASSUME pu_clean \in {"close", "done"} PROVE CleanedUp'
    BY <1>1 DEF CleanedUp
  <2>2. Late' = Late /\ NoUserYet(popped)' BY <1>1, <1>2 DEF Late, NoUserYet
  <2> QED BY <1>1, <2>1, <2>2 DEF CleanedUp
<1>13. OneUserPerChild' BY <1>1 DEF OneUserPerChild
<1> QED BY <1>6, <1>7, <1>8, <1>9, <1>10, <1>11, <1>12, <1>13

\* The child of the key gets the packet (_get_child, write).
LEMMA FindChildStep ==
    ASSUME UserInv, FindChild
    PROVE  UserInv'
<1> USE DEF UserInv
<1> DEFINE c == Child(pu_key)
           u == pu_packet[2]
<1>1. /\ pu_at = "get" /\ Known(pu_key) /\ pu_at' = "idle"
      /\ got' = IF c \in open_children THEN got \cup {<<c, u>>} ELSE got
      /\ UNCHANGED <<by_key, user_of, made_children, open_children>>
      /\ UNCHANGED <<pu_closed, pu_clean, unclosed, found_at>>
  BY DEF FindChild, WriteReturns, cleanVars
<1>2. <<pu_key, c>> \in by_key BY <1>1, ChildFound, Zenon
<1>3. u \in Users \cup {NoUser} /\ (u # NoUser => pu_key = UserKey(u)) BY <1>1 DEF Writing
<1>4. c \in 1 .. made_children BY <1>2 DEF UserTypes
<1> HIDE DEF c, u
<1>5. <<c, u>>[1] = c /\ <<c, u>>[2] = u OBVIOUS
<1>6. \A p \in got' : p \in got \/ (p = <<c, u>> /\ c \in open_children) BY <1>1
<1>7. u # NoUser => <<UserKey(u), c>> \in by_key BY <1>2, <1>3
<1>8. UserTypes'
  <2>1. <<c, u>> \in (1 .. made_children) \X (Users \cup {NoUser}) BY <1>3, <1>4
  <2>2. got' \subseteq (1 .. made_children) \X (Users \cup {NoUser}) BY <1>6, <2>1 DEF UserTypes
  <2> QED BY <1>1, <2>2 DEF UserTypes
<1>9. OneToOne' BY <1>1 DEF OneToOne
<1>10. Writing' BY <1>1 DEF Writing
<1>11. SsrcChildren'
  <2>1. SUFFICES ASSUME NEW s, NEW d, <<SsrcKey(s), d>> \in by_key, NEW p \in got', p[1] = d PROVE p[2] = NoUser
    BY <1>1 DEF SsrcChildren, NoUserYet
  <2>2. CASE p \in got BY <2>1, <2>2 DEF SsrcChildren, NoUserYet
  <2>3. CASE p = <<c, u>>
    <3>1. d = c /\ p[2] = u BY <1>5, <2>1, <2>3
    <3>2. ASSUME u # NoUser PROVE FALSE
      <4>1. <<UserKey(u), c>> \in by_key /\ <<SsrcKey(s), c>> \in by_key BY <1>7, <2>1, <3>1, <3>2
      <4>2. <<UserKey(u), c>>[1] = <<SsrcKey(s), c>>[1] BY <4>1 DEF OneToOne
      <4>3. UserKey(u) = SsrcKey(s) BY <4>2
      <4> QED BY <4>3, KeysDiffer
    <3> QED BY <3>1, <3>2
  <2> QED BY <1>6, <2>2, <2>3
<1>12. InPlace'
  <2>1. SUFFICES ASSUME pu_clean # "done", NEW p \in got', p[2] # NoUser, p[1] \in open_children
                 PROVE  <<UserKey(p[2]), p[1]>> \in by_key
    BY <1>1 DEF InPlace
  <2>2. CASE p \in got BY <2>1, <2>2 DEF InPlace
  <2>3. CASE p = <<c, u>>
    <3>1. p[1] = c /\ p[2] = u BY <1>5, <2>3
    <3> QED BY <1>7, <2>1, <3>1
  <2> QED BY <1>6, <2>2, <2>3
<1>13. Collectable' BY <1>1 DEF Collectable
<1>14. CleanedUp'
  <2>1. SUFFICES ASSUME pu_clean \in {"close", "done"} PROVE CleanedUp'
    BY <1>1 DEF CleanedUp
  <2>2. Late' = Late BY <1>1 DEF Late
  <2>3. found_at # "idle" BY <1>1, <2>1 DEF CleanedUp
  <2>4. CASE found_at = "set"
    <3>1. Late' \subseteq {popped, popped} BY <1>1, <2>1, <2>2, <2>4 DEF CleanedUp
    <3> QED BY <1>1, <2>1, <2>4, <3>1 DEF CleanedUp
  <2>5. CASE found_at # "set"
    <3>1. Late' = {} BY <1>1, <2>1, <2>2, <2>3, <2>5 DEF CleanedUp
    <3> QED BY <1>1, <2>1, <2>3, <2>5, <3>1 DEF CleanedUp
  <2> QED BY <2>4, <2>5
<1>15. OneUserPerChild'
  <2>1. SUFFICES ASSUME NEW p \in got', NEW q \in got', p[1] = q[1], p[2] # NoUser, q[2] # NoUser
                 PROVE  p[2] = q[2]
    BY DEF OneUserPerChild
  <2>2. ASSUME NEW a \in got, a[1] = c, a[2] # NoUser, u # NoUser, c \in open_children PROVE a[2] = u
    <3>1. <<UserKey(a[2]), c>> \in by_key BY <1>1, <2>2 DEF InPlace
    <3>2. <<UserKey(a[2]), c>>[1] = <<UserKey(u), c>>[1] BY <1>7, <2>2, <3>1 DEF OneToOne
    <3>3. UserKey(a[2]) = UserKey(u) BY <3>2
    <3> QED BY <3>3, KeysDiffer, Zenon
  <2>3. CASE p \in got /\ q \in got BY <2>1, <2>3 DEF OneUserPerChild
  <2>4. CASE p \in got /\ q = <<c, u>> /\ c \in open_children BY <1>5, <2>1, <2>2, <2>4
  <2>5. CASE p = <<c, u>> /\ q \in got /\ c \in open_children BY <1>5, <2>1, <2>2, <2>5
  <2>6. CASE p = <<c, u>> /\ q = <<c, u>> BY <2>6
  <2> QED BY <1>6, <2>3, <2>4, <2>5, <2>6
<1> QED BY <1>8, <1>9, <1>10, <1>11, <1>12, <1>13, <1>14, <1>15

\* A child is made and gets the packet, or the factory raises (_get_child).
LEMMA MakeChildStep ==
    ASSUME UserInv, MakeChild
    PROVE  UserInv'
<1> USE DEF UserInv
<1> DEFINE c == made_children + 1
           k == pu_key
           u == pu_packet[2]
<1>1. /\ pu_at = "make" /\ pu_at' = "idle" /\ UNCHANGED <<user_of, pu_closed, pu_clean, unclosed, found_at>>
  BY DEF MakeChild, WriteReturns, cleanVars
<1>2. \/ /\ made_children < MaxChildren /\ made_children' = c /\ open_children' = open_children \cup {c}
         /\ by_key' = by_key \cup {<<k, c>>} /\ got' = got \cup {<<c, u>>}
      \/ UNCHANGED <<by_key, made_children, open_children, got>>
  BY Zenon DEF MakeChild
<1>3. CASE UNCHANGED <<by_key, made_children, open_children, got>>
  <2>1. Writing' BY <1>1 DEF Writing
  <2>2. user_of' \in [Ssrcs -> Users \cup {NoUser}] BY <1>1 DEF UserTypes
  <2>3. UNCHANGED cleanVars BY <1>1 DEF cleanVars
  <2> QED BY <1>1, <1>3, <2>1, <2>2, <2>3, QuietStep
<1>4. CASE /\ made_children < MaxChildren /\ made_children' = c /\ open_children' = open_children \cup {c}
           /\ by_key' = by_key \cup {<<k, c>>} /\ got' = got \cup {<<c, u>>}
  <2>1. /\ made_children \in Nat /\ c \in Nat /\ c <= MaxChildren /\ c \in 1 .. c /\ c \notin 1 .. made_children
        /\ 1 .. made_children \subseteq 1 .. c /\ 1 .. c = (1 .. made_children) \cup {c}
    BY <1>4, RoutingAssumption DEF UserTypes, RoutingAssumption
  <2>2. /\ k \in ChildKeys /\ u \in Users \cup {NoUser} /\ (u # NoUser => k = UserKey(u))
        /\ \A d : <<k, d>> \notin by_key
    BY <1>1 DEF Writing
  <2> HIDE DEF c, k, u
  <2>3. <<k, c>>[1] = k /\ <<k, c>>[2] = c /\ <<c, u>>[1] = c /\ <<c, u>>[2] = u OBVIOUS
  <2>4. \A p \in by_key : p[1] # k /\ p[2] # c
    <3>1. TAKE p \in by_key
    <3>2. p = <<p[1], p[2]>> /\ p[2] \in 1 .. made_children BY PairsOfKeys
    <3> QED BY <2>1, <2>2, <3>2
  <2>5. \A p \in got : p[1] # c
    <3>1. TAKE p \in got
    <3>2. p[1] \in 1 .. made_children BY DEF UserTypes
    <3> QED BY <2>1, <3>2
  <2>6. c \notin open_children BY <2>1 DEF UserTypes
  <2>7. UserTypes'
    <3>1. made_children' \in Nat /\ made_children' <= MaxChildren BY <1>4, <2>1
    <3>2. by_key' \subseteq ChildKeys \X (1 .. made_children') BY <1>4, <2>1, <2>2 DEF UserTypes
    <3>3. open_children' \subseteq 1 .. made_children' BY <1>4, <2>1 DEF UserTypes
    <3>4. got' \subseteq (1 .. made_children') \X (Users \cup {NoUser}) BY <1>4, <2>1, <2>2 DEF UserTypes
    <3> QED BY <1>1, <3>1, <3>2, <3>3, <3>4 DEF UserTypes
  <2>8. OneToOne'
    <3>1. SUFFICES ASSUME NEW p \in by_key', NEW q \in by_key'
                   PROVE  (p[1] = q[1] => p[2] = q[2]) /\ (p[2] = q[2] => p[1] = q[1])
      BY DEF OneToOne
    <3>2. (p \in by_key \/ p = <<k, c>>) /\ (q \in by_key \/ q = <<k, c>>) BY <1>4
    <3>3. CASE p \in by_key /\ q \in by_key BY <3>3 DEF OneToOne
    <3>4. CASE p \in by_key /\ q = <<k, c>> BY <2>3, <2>4, <3>4
    <3>5. CASE p = <<k, c>> /\ q \in by_key BY <2>3, <2>4, <3>5
    <3>6. CASE p = <<k, c>> /\ q = <<k, c>> BY <3>6
    <3> QED BY <3>2, <3>3, <3>4, <3>5, <3>6
  <2>9. Writing' BY <1>1 DEF Writing
  <2>10. \A p \in got' : p \in got \/ p = <<c, u>> BY <1>4
  <2>11. SsrcChildren'
    <3>1. SUFFICES ASSUME NEW s, NEW d, <<SsrcKey(s), d>> \in by_key', NEW p \in got', p[1] = d PROVE p[2] = NoUser
      BY DEF SsrcChildren, NoUserYet
    <3>2. CASE <<SsrcKey(s), d>> \in by_key
      <4>1. <<SsrcKey(s), d>>[2] # c BY <2>4, <3>2
      <4>2. p \in got BY <2>3, <2>10, <3>1, <4>1
      <4> QED BY <3>1, <3>2, <4>2 DEF SsrcChildren, NoUserYet
    <3>3. CASE <<SsrcKey(s), d>> = <<k, c>>
      <4>1. d = c /\ k = SsrcKey(s) BY <3>3
      <4>2. u = NoUser BY <2>2, <4>1, KeysDiffer
      <4>3. p = <<c, u>> BY <2>5, <2>10, <3>1, <4>1
      <4> QED BY <2>3, <4>2, <4>3
    <3> QED BY <1>4, <3>1, <3>2, <3>3
  <2>12. InPlace'
    <3>1. SUFFICES ASSUME pu_clean # "done", NEW p \in got', p[2] # NoUser, p[1] \in open_children'
                   PROVE  <<UserKey(p[2]), p[1]>> \in by_key'
      BY <1>1 DEF InPlace
    <3>2. CASE p \in got
      <4>1. p[1] \in open_children BY <1>4, <2>5, <3>1, <3>2
      <4> QED BY <1>4, <3>1, <3>2, <4>1 DEF InPlace
    <3>3. CASE p = <<c, u>>
      <4>1. p[1] = c /\ p[2] = u BY <2>3, <3>3
      <4>2. k = UserKey(u) BY <2>2, <3>1, <4>1
      <4> QED BY <1>4, <4>1, <4>2
    <3> QED BY <2>10, <3>2, <3>3
  <2>13. Collectable'
    <3>1. ~pu_closed => open_children' = 1 .. made_children' BY <1>4, <2>1 DEF Collectable
    <3>2. ASSUME pu_clean \in {"no", "collect"}, NEW d \in open_children' PROVE \E x : <<x, d>> \in by_key'
      <4>1. CASE d \in open_children BY <1>1, <1>4, <3>2, <4>1 DEF Collectable
      <4>2. CASE d = c BY <1>4, <4>2
      <4> QED BY <1>4, <3>2, <4>1, <4>2
    <3> QED BY <1>1, <3>1, <3>2 DEF Collectable
  <2>14. CleanedUp'
    <3>1. SUFFICES ASSUME pu_clean \in {"close", "done"} PROVE CleanedUp'
      BY <1>1 DEF CleanedUp
    <3>2. Late' \subseteq Late \cup {c} BY <1>1, <1>4 DEF Late
    <3>3. found_at # "idle" BY <1>1, <3>1 DEF CleanedUp
    <3>4. CASE found_at = "set"
      <4>1. Late \subseteq {popped} BY <1>1, <3>1, <3>4 DEF CleanedUp
      <4>2. Late' \subseteq {popped, c} BY <3>2, <4>1
      <4> QED BY <1>1, <3>1, <3>4, <4>2 DEF CleanedUp
    <3>5. CASE found_at # "set"
      <4>1. Late = {} BY <1>1, <3>1, <3>3, <3>5 DEF CleanedUp
      <4>2. Late' \subseteq {c} BY <3>2, <4>1
      <4> QED BY <1>1, <3>1, <3>3, <3>5, <4>2 DEF CleanedUp
    <3> QED BY <3>4, <3>5
  <2>15. OneUserPerChild'
    <3>1. SUFFICES ASSUME NEW p \in got', NEW q \in got', p[1] = q[1], p[2] # NoUser, q[2] # NoUser
                   PROVE  p[2] = q[2]
      BY DEF OneUserPerChild
    <3>2. CASE p \in got /\ q \in got BY <3>1, <3>2 DEF OneUserPerChild
    <3>3. CASE p \in got /\ q = <<c, u>> BY <2>3, <2>5, <3>1, <3>3
    <3>4. CASE p = <<c, u>> /\ q \in got BY <2>3, <2>5, <3>1, <3>4
    <3>5. CASE p = <<c, u>> /\ q = <<c, u>> BY <3>5
    <3> QED BY <2>10, <3>2, <3>3, <3>4, <3>5
  <2> QED BY <2>7, <2>8, <2>9, <2>11, <2>12, <2>13, <2>14, <2>15
<1> QED BY <1>2, <1>3, <1>4

\* The sink is closed (cleanup).
LEMMA BeginUserCleanupStep ==
    ASSUME UserInv, BeginUserCleanup
    PROVE  UserInv'
<1> USE DEF UserInv
<1>1. /\ ~pu_closed /\ pu_closed' = TRUE /\ pu_clean' = "collect"
      /\ UNCHANGED <<unclosed, found_at, by_key, user_of, made_children, open_children, got>>
      /\ UNCHANGED <<pu_at, pu_packet, pu_key, popped>>
  BY DEF BeginUserCleanup, tableVars, writeVars
<1>2. pu_clean = "no" BY <1>1 DEF Collectable
<1>3. UserTypes' /\ OneToOne' /\ OneUserPerChild' BY <1>1 DEF UserTypes, OneToOne, OneUserPerChild
<1>4. Writing' /\ SsrcChildren' BY <1>1 DEF Writing, SsrcChildren, NoUserYet
<1>5. InPlace' BY <1>1, <1>2 DEF InPlace
<1>6. Collectable' BY <1>1, <1>2 DEF Collectable
<1>7. CleanedUp' BY <1>1 DEF CleanedUp
<1> QED BY <1>3, <1>4, <1>5, <1>6, <1>7

\* The children there are are collected (cleanup).
LEMMA CollectChildrenStep ==
    ASSUME UserInv, CollectChildren
    PROVE  UserInv'
<1> USE DEF UserInv
<1>1. /\ pu_clean = "collect" /\ pu_clean' = "close" /\ found_at' = pu_at /\ unclosed' = {p[2] : p \in by_key}
      /\ UNCHANGED <<pu_closed, by_key, user_of, made_children, open_children, got>>
      /\ UNCHANGED <<pu_at, pu_packet, pu_key, popped>>
  BY DEF CollectChildren, tableVars, writeVars
<1>2. UserTypes' /\ OneToOne' /\ OneUserPerChild' BY <1>1 DEF UserTypes, OneToOne, OneUserPerChild
<1>3. Writing' /\ SsrcChildren' BY <1>1 DEF Writing, SsrcChildren, NoUserYet
<1>4. InPlace' BY <1>1 DEF InPlace
<1>5. Collectable' BY <1>1 DEF Collectable
<1>6. ASSUME NEW c \in Late' PROVE pu_at = "set" /\ c = popped
  <2>1. c \in open_children /\ c \notin {p[2] : p \in by_key} BY <1>1, <1>6 DEF Late
  <2>2. \A k : <<k, c>>[2] = c OBVIOUS
  <2>3. \A k : <<k, c>> \notin by_key BY <2>1, <2>2
  <2> QED BY <1>1, <2>1, <2>3 DEF Collectable
<1>7. CleanedUp'
  <2>1. pu_at # "set" => Late' = {} BY <1>6
  <2>2. Late' \subseteq {popped} BY <1>6
  <2>3. pu_at = "set" => NoUserYet(popped)' BY <1>1 DEF Writing, NoUserYet
  <2>4. popped' = popped /\ pu_at' = pu_at /\ found_at' = pu_at /\ pu_clean' = "close" BY <1>1
  <2> HIDE DEF Late, NoUserYet, UserInv
  <2>5. CASE pu_at = "set" BY <2>2, <2>3, <2>4, <2>5 DEF CleanedUp
  <2>6. CASE pu_at # "set" BY <2>1, <2>4, <2>6 DEF CleanedUp
  <2> QED BY <2>5, <2>6
<1> QED BY <1>2, <1>3, <1>4, <1>5, <1>7

\* One of them is cleaned up (cleanup).
LEMMA CleanupChildStep ==
    ASSUME UserInv, NEW c \in unclosed, CleanupChild(c)
    PROVE  UserInv'
<1> USE DEF UserInv
<1>1. /\ pu_clean = "close" /\ pu_clean' \in {"close", "raised"}
      /\ open_children' = open_children \ {c} /\ unclosed' = unclosed \ {c}
      /\ UNCHANGED <<pu_closed, found_at, by_key, user_of, made_children, got>>
      /\ UNCHANGED <<pu_at, pu_packet, pu_key, popped>>
  BY DEF CleanupChild, writeVars
<1>2. UserTypes' /\ OneToOne' /\ OneUserPerChild' BY <1>1 DEF UserTypes, OneToOne, OneUserPerChild
<1>3. Writing' /\ SsrcChildren' BY <1>1 DEF Writing, SsrcChildren, NoUserYet
<1>4. InPlace' BY <1>1 DEF InPlace
<1>5. Collectable' BY <1>1 DEF Collectable
<1>6. Late' = Late BY <1>1 DEF Late
<1>7. CleanedUp'
  <2>1. NoUserYet(popped)' = NoUserYet(popped) BY <1>1 DEF NoUserYet
  <2>2. CASE pu_clean' = "raised" BY <2>2 DEF CleanedUp
  <2>3. CASE pu_clean' = "close"
    <3>1. popped' = popped /\ pu_at' = pu_at /\ found_at' = found_at /\ pu_clean = "close" BY <1>1
    <3>2. CleanedUp OBVIOUS
    <3> HIDE DEF Late, NoUserYet, UserInv
    <3> QED BY <1>6, <2>1, <2>3, <3>1, <3>2 DEF CleanedUp
  <2> QED BY <1>1, <2>2, <2>3
<1> QED BY <1>2, <1>3, <1>4, <1>5, <1>7

\* The tables are cleared (cleanup).
LEMMA CleanupTablesStep ==
    ASSUME UserInv, CleanupTables
    PROVE  UserInv'
<1> USE DEF UserInv
<1>1. /\ pu_clean = "close" /\ unclosed = {} /\ pu_clean' = "done" /\ by_key' = {}
      /\ user_of' = [s \in Ssrcs |-> NoUser]
      /\ UNCHANGED <<pu_closed, unclosed, found_at, made_children, open_children, got>>
      /\ UNCHANGED <<pu_at, pu_packet, pu_key, popped>>
  BY DEF CleanupTables, writeVars
<1>2. UserTypes' /\ OneToOne' /\ OneUserPerChild' BY <1>1 DEF UserTypes, OneToOne, OneUserPerChild
<1>3. Writing' /\ SsrcChildren' BY <1>1 DEF Writing, SsrcChildren, NoUserYet
<1>4. Collectable' BY <1>1 DEF Collectable
<1>5. Late = open_children /\ Late' = Late BY <1>1 DEF Late
<1>6. InPlace'
  <2>1. SUFFICES ASSUME pu_at # "idle", NEW p \in got, p[2] # NoUser, p[1] \in open_children PROVE FALSE
    BY <1>1 DEF InPlace
  <2>2. found_at # "idle" BY <1>1, <2>1 DEF CleanedUp
  <2>3. CASE found_at = "set"
    <3>1. open_children \subseteq {popped} /\ NoUserYet(popped) BY <1>1, <1>5, <2>1, <2>3 DEF CleanedUp
    <3> QED BY <2>1, <3>1 DEF NoUserYet
  <2>4. CASE found_at # "set"
    <3>1. open_children = {} BY <1>1, <1>5, <2>1, <2>2, <2>4 DEF CleanedUp
    <3> QED BY <2>1, <3>1
  <2> QED BY <2>3, <2>4
<1>7. CleanedUp'
  <2>1. NoUserYet(popped)' = NoUserYet(popped) BY <1>1 DEF NoUserYet
  <2>2. popped' = popped /\ pu_at' = pu_at /\ found_at' = found_at /\ pu_clean = "close" /\ pu_clean' = "done"
        /\ unclosed' = {}
    BY <1>1
  <2>3. CleanedUp OBVIOUS
  <2> HIDE DEF Late, NoUserYet, UserInv
  <2> QED BY <1>5, <2>1, <2>2, <2>3 DEF CleanedUp
<1> QED BY <1>2, <1>3, <1>4, <1>6, <1>7

\* Nothing of the PerUserSink changes.
LEMMA UserStutter ==
    ASSUME UserInv, UNCHANGED userVars
    PROVE  UserInv'
<1>1. /\ UNCHANGED <<by_key, user_of, made_children, open_children, got>>
      /\ UNCHANGED <<pu_at, pu_packet, pu_key, popped>>
      /\ UNCHANGED <<pu_closed, pu_clean, unclosed, found_at>>
  BY DEF userVars, tableVars, writeVars, cleanVars
<1>2. UserTypes' /\ OneToOne' /\ OneUserPerChild' BY <1>1 DEF UserInv, UserTypes, OneToOne, OneUserPerChild
<1>3. Writing' /\ SsrcChildren' BY <1>1 DEF UserInv, Writing, SsrcChildren, NoUserYet
<1>4. InPlace' /\ Collectable' /\ CleanedUp'
  BY <1>1 DEF UserInv, InPlace, Collectable, CleanedUp, Late, NoUserYet
<1> QED BY <1>2, <1>3, <1>4 DEF UserInv

\* What is known of the PerUserSink is kept by every step of a write (write) and of a
\* cleanup (cleanup).
LEMMA UserStep ==
    ASSUME UserInv, UserNext
    PROVE  UserInv'
<1>1. ASSUME NEW s \in Ssrcs, NEW u \in Users \cup {NoUser}, BeginUserWrite(s, u) PROVE UserInv'
  BY <1>1, BeginUserWriteStep
<1>2. ASSUME NEW c \in unclosed, CleanupChild(c) PROVE UserInv'
  BY <1>2, CleanupChildStep
<1>3. CASE KeyOfUser BY <1>3, KeyOfUserStep
<1>4. CASE KeyOfSsrc BY <1>4, KeyOfSsrcStep
<1>5. CASE PopChild BY <1>5, PopChildStep
<1>6. CASE SetChild BY <1>6, SetChildStep
<1>7. CASE FindChild BY <1>7, FindChildStep
<1>8. CASE MissChild BY <1>8, MissChildStep
<1>9. CASE MakeChild BY <1>9, MakeChildStep
<1>10. CASE BeginUserCleanup BY <1>10, BeginUserCleanupStep
<1>11. CASE CollectChildren BY <1>11, CollectChildrenStep
<1>12. CASE CleanupTables BY <1>12, CleanupTablesStep
<1> QED BY <1>1, <1>2, <1>3, <1>4, <1>5, <1>6, <1>7, <1>8, <1>9, <1>10, <1>11, <1>12, Zenon
   DEF UserNext, WriteNext, CleanNext

\* Two children are at most two.
LEMMA AtMostTwo ==
    ASSUME NEW S, NEW a, NEW b, S \subseteq {a, b}
    PROVE  Cardinality(S) \in 0 .. 2 /\ (S = {} => Cardinality(S) = 0) /\ (S \subseteq {a} => Cardinality(S) <= 1)
<1>1. S \in {{}, {a}, {b}, {a, b}} BY Zenon
<1>2. Cardinality({}) = 0 /\ Cardinality({a}) = 1 /\ Cardinality({b}) = 1 BY FS_EmptySet, FS_Singleton, Zenon
<1>3. Cardinality({a, b}) \in {1, 2}
  <2>1. CASE a = b
    <3>1. {a, b} = {a} BY <2>1
    <3> QED BY <1>2, <3>1
  <2>2. CASE a # b
    <3>1. IsFiniteSet({a}) BY FS_Singleton, Zenon
    <3>2. Cardinality({a} \cup {b}) = Cardinality({a}) + 1 BY <2>2, <3>1, FS_AddElement
    <3>3. {a} \cup {b} = {a, b} OBVIOUS
    <3> QED BY <1>2, <3>2, <3>3
  <2> QED BY <2>1, <2>2
<1>4. Cardinality(S) \in 0 .. 2 BY <1>1, <1>2, <1>3
<1>5. S \subseteq {a} => S = {} \/ S = {a} OBVIOUS
<1> QED BY <1>2, <1>4, <1>5

\* What the invariant says of the children that are left open (cleanup).
LEMMA LeftOpen ==
    ASSUME UserInv
    PROVE  ChildrenAreCleaned
<1> USE DEF UserInv
<1>1. SUFFICES ASSUME pu_clean = "done", pu_at = "idle"
               PROVE Cardinality(open_children)
                        <= CASE found_at = "idle" -> 0 [] found_at = "set" -> 2 [] OTHER -> 1
  BY DEF ChildrenAreCleaned
<1>2. open_children = Late BY <1>1 DEF CleanedUp, Late
<1>3. CASE found_at = "idle"
  <2>1. open_children = {} BY <1>1, <1>2, <1>3 DEF CleanedUp
  <2>2. Cardinality(open_children) = 0 BY <2>1, FS_EmptySet, Zenon
  <2> QED BY <1>3, <2>2
<1>4. CASE found_at = "set"
  <2>1. \E a, b : open_children \subseteq {a, b} BY <1>1, <1>2, <1>4 DEF CleanedUp
  <2>2. Cardinality(open_children) \in 0 .. 2 BY <2>1, AtMostTwo
  <2> QED BY <1>4, <2>2
<1>5. CASE found_at \notin {"idle", "set"}
  <2>1. PICK a : open_children \subseteq {a} BY <1>1, <1>2, <1>5 DEF CleanedUp
  <2>2. open_children \subseteq {a, a} BY <2>1
  <2>3. Cardinality(open_children) <= 1 BY <2>1, <2>2, AtMostTwo
  <2> QED BY <1>5, <2>3
<1> QED BY <1>3, <1>4, <1>5

\* The packets of a user are all in the child of that user while the sink is open.
LEMMA OneChild ==
    ASSUME UserInv
    PROVE  OneChildPerUser
<1> USE DEF UserInv
<1>1. SUFFICES ASSUME ~pu_closed, NEW p \in got, NEW q \in got, p[2] = q[2], p[2] # NoUser PROVE p[1] = q[1]
  BY DEF OneChildPerUser
<1>2. pu_clean = "no" /\ p[1] \in open_children /\ q[1] \in open_children BY <1>1 DEF Collectable, UserTypes
<1>3. <<UserKey(p[2]), p[1]>> \in by_key /\ <<UserKey(q[2]), q[1]>> \in by_key BY <1>1, <1>2 DEF InPlace
<1>4. <<UserKey(p[2]), p[1]>>[2] = <<UserKey(q[2]), q[1]>>[2] BY <1>1, <1>3 DEF OneToOne
<1> QED BY <1>4

\* A packet that wants a sink is written to it in the form it wants; a PerUserSink keeps
\* one child per user and one user per child, and leaves no child open but those of a
\* write that its cleanup fell into (wants_media and write of the wrappers, PerUserSink).
THEOREM PacketsReachTheirSinks == RoutingSpec => []PacketsAreRouted
<1>1. ChainInit /\ UserInit => ChainInv /\ UserInv
  <2>1. SUFFICES ASSUME ChainInit, UserInit PROVE ChainInv /\ UserInv
    OBVIOUS
  <2>2. chain \in Seq(Wrappers)
    <3>1. chain \in UNION {[1 .. m -> Wrappers] : m \in 0 .. MaxChain}
      BY <2>1, Zenon DEF ChainInit, BoundedSeq, SeqOf
    <3>2. PICK m \in 0 .. MaxChain : chain \in [1 .. m -> Wrappers] BY <3>1, Zenon
    <3>3. m \in Nat BY RoutingAssumption DEF RoutingAssumption
    <3>4. chain \in UNION {[1 .. k -> Wrappers] : k \in Nat}
      <4>1. [1 .. m -> Wrappers] \in {[1 .. k -> Wrappers] : k \in Nat} BY <3>3, Zenon
      <4> QED BY <3>2, <4>1, Zenon
    <3> QED BY <3>4, SeqDef, Zenon
  <2>3. ChainInv BY <2>1, <2>2 DEF ChainInit, ChainInv
  <2>4. UserInv
    <3>1. Late = {} BY <2>1 DEF UserInit, Late
    <3>2. UserTypes /\ OneToOne /\ OneUserPerChild
      BY <2>1, RoutingAssumption DEF UserInit, UserTypes, OneToOne, OneUserPerChild, RoutingAssumption
    <3>3. Writing /\ SsrcChildren /\ InPlace BY <2>1 DEF UserInit, Writing, SsrcChildren, InPlace
    <3>4. Collectable /\ CleanedUp BY <2>1, <3>1 DEF UserInit, Collectable, CleanedUp
    <3> QED BY <3>2, <3>3, <3>4 DEF UserInv
  <2> QED BY <2>3, <2>4
<1>2. ChainInv /\ UserInv /\ [ChainNext \/ UserNext]_routingVars => ChainInv' /\ UserInv'
  <2>1. SUFFICES ASSUME ChainInv, UserInv, [ChainNext \/ UserNext]_routingVars PROVE ChainInv' /\ UserInv'
    OBVIOUS
  <2>2. ASSUME UNCHANGED chainVars PROVE ChainInv'
    <3>1. UNCHANGED <<chain, leaf, matches, offered, arrived>> BY <2>2 DEF chainVars
    <3>2. "multi" \notin ToSet(chain)' => "multi" \notin ToSet(chain) BY <3>1 DEF ToSet
    <3> HIDE DEF Formats
    <3> QED BY <2>1, <3>1, <3>2 DEF ChainInv
  <2>3. ASSUME NEW f \in Formats, Offer(f) PROVE ChainInv' /\ UserInv'
    <3>1. UNCHANGED userVars BY <2>3 DEF Offer
    <3> QED BY <2>1, <2>3, <3>1, ChainStep, UserStutter
  <2>4. ASSUME UserNext PROVE ChainInv' /\ UserInv'
    <3>1. UNCHANGED chainVars
      BY <2>4, Zenon DEF UserNext, WriteNext, CleanNext, BeginUserWrite, KeyOfUser, KeyOfSsrc, PopChild, SetChild,
         FindChild, MissChild, MakeChild, BeginUserCleanup, CollectChildren, CleanupChild, CleanupTables
    <3> QED BY <2>1, <2>2, <2>4, <3>1, UserStep
  <2>5. CASE UNCHANGED routingVars BY <2>1, <2>2, <2>5, UserStutter DEF routingVars
  <2> QED BY <2>1, <2>3, <2>4, <2>5 DEF ChainNext
<1>3. ChainInv /\ UserInv => PacketsAreRouted
  <2>1. SUFFICES ASSUME ChainInv, UserInv PROVE PacketsAreRouted
    OBVIOUS
  <2>2. ClaimsAreKept
    <3>1. SUFFICES ASSUME offered # "none", matches, "multi" \notin ToSet(chain) PROVE Cardinality(arrived) = 1
      BY DEF ClaimsAreKept
    <3>2. PICK g : arrived = {g} BY <2>1, <3>1 DEF ChainInv
    <3> QED BY <3>2, FS_Singleton, Zenon
  <2>3. OneChildPerUser /\ ChildrenAreCleaned BY <2>1, OneChild, LeftOpen
  <2> QED BY <2>1, <2>2, <2>3 DEF PacketsAreRouted, LeafGetsWanted, ChainInv, UserInv
<1> QED BY <1>1, <1>2, <1>3, PTL DEF RoutingSpec

-----------------------------------------------------------------------------
(******************************** the trees ********************************)

\* What is in two sequences put together.
LEMMA ConcatMembers ==
    ASSUME NEW S, NEW s \in Seq(S), NEW t \in Seq(S)
    PROVE  ToSet(s \o t) = ToSet(s) \cup ToSet(t)
<1>1. /\ s \o t \in Seq(S) /\ Len(s \o t) = Len(s) + Len(t) /\ Len(s) \in Nat /\ Len(t) \in Nat
      /\ \A i \in 1 .. Len(s) + Len(t) : (s \o t)[i] = IF i <= Len(s) THEN s[i] ELSE t[i - Len(s)]
  BY ConcatProperties, LenProperties
<1>2. DOMAIN s = 1 .. Len(s) /\ DOMAIN t = 1 .. Len(t) /\ DOMAIN (s \o t) = 1 .. Len(s) + Len(t)
  BY <1>1, LenProperties
<1> DEFINE u == s \o t
           k == Len(s)
           l == Len(t)
<1>3. /\ k \in Nat /\ l \in Nat /\ DOMAIN s = 1 .. k /\ DOMAIN t = 1 .. l /\ DOMAIN u = 1 .. k + l
      /\ \A i \in 1 .. k + l : u[i] = IF i <= k THEN s[i] ELSE t[i - k]
  BY <1>1, <1>2
<1> HIDE DEF u, k, l
<1>4. \A i \in DOMAIN u : u[i] \in ToSet(s) \cup ToSet(t)
  <2>1. SUFFICES ASSUME NEW i \in DOMAIN u PROVE u[i] \in ToSet(s) \/ u[i] \in ToSet(t)
    OBVIOUS
  <2>2. CASE i <= k
    <3>1. i \in DOMAIN s /\ u[i] = s[i] BY <1>3, <2>2
    <3> QED BY <3>1 DEF ToSet
  <2>3. CASE ~(i <= k)
    <3>1. i - k \in DOMAIN t /\ u[i] = t[i - k] BY <1>3, <2>3
    <3> QED BY <3>1 DEF ToSet
  <2> QED BY <2>2, <2>3
<1>5. \A i \in DOMAIN s : s[i] \in ToSet(u)
  <2>1. SUFFICES ASSUME NEW i \in DOMAIN s PROVE s[i] \in ToSet(u)
    OBVIOUS
  <2>2. i \in DOMAIN u /\ u[i] = s[i] BY <1>3
  <2> QED BY <2>2 DEF ToSet
<1>6. \A i \in DOMAIN t : t[i] \in ToSet(u)
  <2>1. SUFFICES ASSUME NEW i \in DOMAIN t PROVE t[i] \in ToSet(u)
    OBVIOUS
  <2>2. i + k \in DOMAIN u /\ u[i + k] = t[(i + k) - k] /\ (i + k) - k = i BY <1>3
  <2> QED BY <2>2 DEF ToSet
<1>7. ToSet(u) \subseteq ToSet(s) \cup ToSet(t) BY <1>4 DEF ToSet
<1>8. ToSet(s) \subseteq ToSet(u) BY <1>5 DEF ToSet
<1>9. ToSet(t) \subseteq ToSet(u) BY <1>6 DEF ToSet
<1>10. ToSet(u) = ToSet(s) \cup ToSet(t) BY <1>7, <1>8, <1>9
<1> QED BY <1>10 DEF u

\* The sequences up to an index, put together.
JoinsUp(ss, f, S) ==
    f \in [0 .. Len(ss) -> Seq(S)] /\ f[0] = <<>> /\ \A i \in 1 .. Len(ss) : f[i] = f[i - 1] \o ss[i]

\* FlattenSeq puts sequences together one after another.
LEMMA Flattened ==
    ASSUME NEW S, NEW ss \in Seq(Seq(S))
    PROVE  \E f : JoinsUp(ss, f, S) /\ FlattenSeq(ss) = f[Len(ss)]
<1> DEFINE n == Len(ss)
           Q == Seq(S)
           G == [p \in Nat \X Q |-> IF p[1] \in 1 .. n THEN p[2] \o ss[p[1]] ELSE p[2]]
<1>1. n \in Nat /\ \A i \in 1 .. n : ss[i] \in Q BY LenProperties, ElementOfSeq
<1>2. <<>> \in Q OBVIOUS
<1>3. \A v \in Q : \A i \in 1 .. n : v \o ss[i] \in Q BY <1>1, ConcatProperties
<1>4. G \in [Nat \X Q -> Q]
  <2> HIDE DEF n, Q
  <2>1. SUFFICES ASSUME NEW p \in Nat \X Q PROVE (IF p[1] \in 1 .. n THEN p[2] \o ss[p[1]] ELSE p[2]) \in Q
    OBVIOUS
  <2> QED BY <1>3
<1>5. \A i \in 1 .. n : \A v \in Q : G[<<i, v>>] = v \o ss[i]
  <2> HIDE DEF n, Q
  <2>1. SUFFICES ASSUME NEW i \in 1 .. n, NEW v \in Q PROVE G[<<i, v>>] = v \o ss[i]
    OBVIOUS
  <2>2. <<i, v>> \in Nat \X Q /\ <<i, v>>[1] = i /\ <<i, v>>[2] = v BY <1>1
  <2> QED BY <2>2
<1> HIDE DEF G, Q
<1>6. PICK f : StepsFrom(Q, <<>>, G, n, f) BY <1>1, <1>2, <1>4, StepByStep, Zenon
<1>7. f \in [0 .. n -> Q] /\ f[0] = <<>> /\ \A i \in 1 .. n : f[i] = f[i - 1] \o ss[i]
  <2>1. f \in [0 .. n -> Q] /\ f[0] = <<>> /\ \A i \in 1 .. n : f[i] = G[<<i, f[i - 1]>>]
    BY <1>6, Zenon DEF StepsFrom
  <2>2. \A i \in 1 .. n : f[i - 1] \in Q
    <3>1. \A i \in 1 .. n : i - 1 \in 0 .. n BY <1>1
    <3> QED BY <2>1, <3>1
  <2> QED BY <1>5, <2>1, <2>2, Zenon
<1>8. JoinsUp(ss, f, S) BY <1>7, Zenon DEF JoinsUp, Q, n
<1>9. CASE n = 0
  <2>1. ss = <<>> BY <1>9, EmptySeq DEF n
  <2>2. FlattenSeq(ss) = ss BY <1>9, Zenon DEF FlattenSeq, n
  <2> QED BY <1>7, <1>8, <1>9, <2>1, <2>2, Zenon DEF n
<1>10. CASE n # 0
  <2> DEFINE g == CHOOSE g : g = [i \in 1 .. n |-> IF i = 1 THEN ss[i] ELSE g[i - 1] \o ss[i]]
  <2>1. FlattenSeq(ss) = g[n] BY <1>10, Zenon DEF FlattenSeq, n
  <2> HIDE DEF g
  <2>2. \A i \in 1 .. n : f[i] = IF i = 1 THEN ss[i] ELSE f[i - 1] \o ss[i]
    <3>1. SUFFICES ASSUME NEW i \in 1 .. n PROVE f[i] = IF i = 1 THEN ss[i] ELSE f[i - 1] \o ss[i]
      BY Zenon
    <3>2. CASE i = 1
      <4>0. 1 \in 1 .. n BY <3>2, Zenon
      <4>4. f[1] = f[1 - 1] \o ss[1] BY <1>7, <4>0, Zenon
      <4>5. 1 - 1 = 0 OBVIOUS
      <4>1. f[1] = f[0] \o ss[1] BY <4>4, <4>5, Zenon
      <4>2. ss[1] \in Seq(S) BY <1>1, <3>2, Zenon DEF Q
      <4>3. <<>> \o ss[1] = ss[1] BY <4>2, ConcatEmptySeq, Zenon
      <4> QED BY <1>7, <3>2, <4>1, <4>3, Zenon
    <3>3. CASE i # 1 BY <1>7, <3>3, Zenon
    <3> QED BY <3>2, <3>3
  <2> DEFINE h == [i \in 1 .. n |-> f[i]]
  <2>3. h = [i \in 1 .. n |-> IF i = 1 THEN ss[i] ELSE h[i - 1] \o ss[i]]
    <3>1. \A i \in 1 .. n : i # 1 => i - 1 \in 1 .. n BY <1>1
    <3>2. \A i \in 1 .. n : i # 1 => h[i - 1] = f[i - 1] BY <3>1, Zenon
    <3> HIDE DEF h
    <3>3. \A i \in 1 .. n : f[i] = IF i = 1 THEN ss[i] ELSE h[i - 1] \o ss[i] BY <2>2, <3>2, Zenon
    <3>4. [i \in 1 .. n |-> f[i]] = [i \in 1 .. n |-> IF i = 1 THEN ss[i] ELSE h[i - 1] \o ss[i]]
      BY <3>3, Zenon
    <3> QED BY <3>4, Zenon DEF h
  <2> HIDE DEF h
  <2>4. g = [i \in 1 .. n |-> IF i = 1 THEN ss[i] ELSE g[i - 1] \o ss[i]] BY <2>3, Zenon DEF g
  <2>5. \A i \in 1 .. n : g[i] = f[i]
    <3> DEFINE T == {i \in 1 .. n : g[i] # f[i]}
    <3>1. SUFFICES ASSUME T # {} PROVE FALSE
      OBVIOUS
    <3>2. T \in SUBSET Nat OBVIOUS
    <3>3. PICK i \in T : \A k \in T : i <= k BY <3>1, <3>2, LeastElement
    <3>4. i \in 1 .. n /\ g[i] # f[i] BY <3>3
    <3>5. g[i] = IF i = 1 THEN ss[i] ELSE g[i - 1] \o ss[i] BY <2>4, <3>4, Zenon
    <3>6. CASE i = 1 BY <2>2, <3>4, <3>5, <3>6, Zenon
    <3>7. CASE i # 1
      <4>1. i - 1 \in 1 .. n /\ ~(i <= i - 1) BY <1>1, <3>4, <3>7
      <4>2. g[i - 1] = f[i - 1] BY <3>3, <4>1
      <4> QED BY <2>2, <3>4, <3>5, <3>7, <4>2, Zenon
    <3> QED BY <3>6, <3>7
  <2>6. n \in 1 .. n BY <1>1, <1>10
  <2> QED BY <1>8, <2>1, <2>5, <2>6, Zenon DEF n
<1> QED BY <1>9, <1>10

\* What is put together is what is in one of the sequences.
LEMMA FlattenedMembers ==
    ASSUME NEW S, NEW ss \in Seq(Seq(S))
    PROVE  /\ FlattenSeq(ss) \in Seq(S)
           /\ \A x : x \in ToSet(FlattenSeq(ss)) <=> \E i \in 1 .. Len(ss) : x \in ToSet(ss[i])
<1>1. PICK f : JoinsUp(ss, f, S) /\ FlattenSeq(ss) = f[Len(ss)] BY Flattened
<1> DEFINE n == Len(ss)
<1>2. n \in Nat /\ \A i \in 1 .. n : ss[i] \in Seq(S) BY LenProperties, ElementOfSeq
<1>3. f \in [0 .. n -> Seq(S)] /\ f[0] = <<>> /\ \A i \in 1 .. n : f[i] = f[i - 1] \o ss[i]
  BY <1>1 DEF JoinsUp
<1> HIDE DEF n
<1>4. n \in 0 .. n BY <1>2
<1>5. f[n] \in Seq(S) BY <1>3, <1>4
<1>6. \A m \in 0 .. n : \A x : x \in ToSet(f[m]) <=> \E i \in 1 .. m : x \in ToSet(ss[i])
  <2> DEFINE Good(m) == \A x : x \in ToSet(f[m]) <=> \E i \in 1 .. m : x \in ToSet(ss[i])
             T == {m \in 0 .. n : ~Good(m)}
  <2>1. SUFFICES ASSUME T # {} PROVE FALSE
    <3> SUFFICES ASSUME NEW m \in 0 .. n PROVE Good(m)
      OBVIOUS
    <3> HIDE DEF Good
    <3> QED BY <2>1
  <2> HIDE DEF Good
  <2>2. T \in SUBSET Nat BY <1>2
  <2>3. PICK m \in T : \A k \in T : m <= k BY <2>1, <2>2, LeastElement
  <2>4. m \in 0 .. n /\ ~Good(m) BY <2>3
  <2>5. CASE m = 0
    <3>1. ToSet(f[0]) = {} BY <1>3 DEF ToSet
    <3>2. \A i : i \notin 1 .. 0 OBVIOUS
    <3> QED BY <2>4, <2>5, <3>1, <3>2 DEF Good
  <2>6. CASE m # 0
    <3>1. m \in 1 .. n /\ m - 1 \in 0 .. n /\ ~(m <= m - 1) BY <1>2, <2>4, <2>6
    <3>2. Good(m - 1) BY <2>3, <3>1
    <3>3. ToSet(f[m]) = ToSet(f[m - 1]) \cup ToSet(ss[m])
      <4>1. f[m] = f[m - 1] \o ss[m] /\ f[m - 1] \in Seq(S) /\ ss[m] \in Seq(S) BY <1>2, <1>3, <3>1
      <4>2. ToSet(f[m - 1] \o ss[m]) = ToSet(f[m - 1]) \cup ToSet(ss[m]) BY <4>1, ConcatMembers
      <4> QED BY <4>1, <4>2, Zenon
    <3>4. \A i : i \in 1 .. m <=> i \in 1 .. m - 1 \/ i = m BY <3>1
    <3> QED BY <2>4, <3>2, <3>3, <3>4, Zenon DEF Good
  <2> QED BY <2>5, <2>6
<1> QED BY <1>1, <1>4, <1>5, <1>6, Zenon DEF n

\* Every sink has a rank above those of its children.
Ranked(kids, rank) ==
    /\ kids \in [Sinks -> Seq(Sinks)] /\ rank \in [Sinks -> Nat]
    /\ \A t \in Sinks : rank[t] < Cardinality(Sinks)
    /\ \A t \in Sinks : \A i \in 1 .. Len(kids[t]) : rank[kids[t][i]] < rank[t]

\* One level of a walk, over the walks from the children on.
Level(skip, kids, w, t) ==
    IF t \in skip THEN <<>> ELSE <<t>> \o FlattenSeq([i \in DOMAIN kids[t] |-> w[kids[t][i]]])

\* The walk from a leaf.
Alone(skip, t) == IF t \in skip THEN <<>> ELSE <<t>>

Unfolds(skip, kids, w) ==
    w \in [Sinks -> Seq(Sinks)] /\ \A t \in Sinks : w[t] = Level(skip, kids, w, t)

\* The walks from the children of a sink, and one level above them.
LEMMA LevelOf ==
    ASSUME NEW kids \in [Sinks -> Seq(Sinks)], NEW w \in [Sinks -> Seq(Sinks)], NEW t \in Sinks, NEW skip
    PROVE  /\ [i \in DOMAIN kids[t] |-> w[kids[t][i]]] \in Seq(Seq(Sinks))
           /\ Len([i \in DOMAIN kids[t] |-> w[kids[t][i]]]) = Len(kids[t])
           /\ Level(skip, kids, w, t) \in Seq(Sinks)
           /\ Len(kids[t]) = 0 => Level(skip, kids, w, t) = Alone(skip, t)
<1> DEFINE k == kids[t]
           ss == [i \in DOMAIN k |-> w[k[i]]]
<1>1. k \in Seq(Sinks) /\ Len(k) \in Nat /\ DOMAIN k = 1 .. Len(k) /\ \A i \in 1 .. Len(k) : k[i] \in Sinks
  BY LenProperties, ElementOfSeq
<1> HIDE DEF k
<1>2. ss = [i \in 1 .. Len(k) |-> w[k[i]]] BY <1>1, Zenon
<1>3. \A i \in 1 .. Len(k) : w[k[i]] \in Seq(Sinks) BY <1>1
<1>4. [i \in 1 .. Len(k) |-> w[k[i]]] \in Seq(Seq(Sinks)) BY <1>1, <1>3, IsASeq
<1>5. ss \in Seq(Seq(Sinks)) BY <1>2, <1>4, Zenon
<1>6. DOMAIN ss = 1 .. Len(k) BY <1>1
<1> HIDE DEF ss
<1>7. Len(ss) = Len(k) BY <1>1, <1>5, <1>6, LenProperties
<1>8. FlattenSeq(ss) \in Seq(Sinks) BY <1>5, FlattenedMembers
<1>9. <<t>> \in Seq(Sinks) OBVIOUS
<1>10. <<t>> \o FlattenSeq(ss) \in Seq(Sinks) BY <1>8, <1>9, ConcatProperties
<1>11. Level(skip, kids, w, t) = IF t \in skip THEN <<>> ELSE <<t>> \o FlattenSeq(ss)
  BY Zenon DEF Level, ss, k
<1>12. Level(skip, kids, w, t) \in Seq(Sinks) BY <1>10, <1>11
<1>13. ASSUME Len(k) = 0 PROVE FlattenSeq(ss) = <<>>
  <2>1. Len(ss) = 0 BY <1>7, <1>13
  <2>2. ss = <<>> BY <1>5, <2>1, EmptySeq
  <2>3. FlattenSeq(ss) = ss BY <2>1, Zenon DEF FlattenSeq
  <2> QED BY <2>2, <2>3
<1>14. <<t>> \o <<>> = <<t>> BY <1>9, ConcatEmptySeq
<1>15. Len(k) = 0 => Level(skip, kids, w, t) = Alone(skip, t)
  BY <1>11, <1>13, <1>14, Zenon DEF Alone
<1> QED BY <1>5, <1>7, <1>12, <1>15 DEF ss, k

\* From a leaf there is nothing to walk but the leaf.
LeafIsAlone(skip, kids, t) == \A w \in [Sinks -> Seq(Sinks)] : Level(skip, kids, w, t) = Alone(skip, t)

\* A level above a leaf is the leaf alone.
LEMMA LeafLevel ==
    ASSUME NEW kids \in [Sinks -> Seq(Sinks)], NEW t \in Sinks, Len(kids[t]) = 0, NEW skip
    PROVE  LeafIsAlone(skip, kids, t)
<1>1. SUFFICES ASSUME NEW w \in [Sinks -> Seq(Sinks)] PROVE Level(skip, kids, w, t) = Alone(skip, t)
  BY Zenon DEF LeafIsAlone
<1>2. Len(kids[t]) = 0 => Level(skip, kids, w, t) = Alone(skip, t) BY LevelOf
<1> QED BY <1>2, Zenon

IsWalk(skip, kids, w) == Unfolds(skip, kids, w) /\ \A s \in Sinks : WalkBut(skip, kids, s) = w[s]

\* The walk over a forest is a walk over the children and the sink itself: the
\* depth to which it is defined is enough (walk_children, cleanup).
LEMMA WalkUnfolds ==
    ASSUME NEW kids, NEW rank, Ranked(kids, rank), NEW skip
    PROVE  \E w : IsWalk(skip, kids, w)
<1> DEFINE N == Cardinality(Sinks)
           Q == [Sinks -> Seq(Sinks)]
           a == [t \in Sinks |-> IF t \in skip THEN <<>> ELSE <<t>>]
           G == [p \in Nat \X Q |-> [t \in Sinks |-> Level(skip, kids, p[2], t)]]
           walk == CHOOSE walk : walk = [n \in 0 .. N |->
                      [t \in Sinks |->
                          IF t \in skip THEN <<>>
                          ELSE IF n = 0 THEN <<t>>
                          ELSE <<t>> \o FlattenSeq([i \in DOMAIN kids[t] |-> walk[n - 1][kids[t][i]]])]]
<1>1. N \in Nat BY SinkAssumption, FS_CardinalityType DEF SinkAssumption
<1>2. kids \in [Sinks -> Seq(Sinks)] BY DEF Ranked
<1>3. a \in Q
  <2>1. \A t \in Sinks : (IF t \in skip THEN <<>> ELSE <<t>>) \in Seq(Sinks) OBVIOUS
  <2> QED BY <2>1
<1>4. G \in [Nat \X Q -> Q]
  <2>1. \A w \in Q : \A t \in Sinks : Level(skip, kids, w, t) \in Seq(Sinks) BY <1>2, LevelOf
  <2> HIDE DEF N, a, walk
  <2>2. \A w \in Q : [t \in Sinks |-> Level(skip, kids, w, t)] \in Q BY <2>1
  <2> QED BY <2>2
<1>5. \A i \in Nat : \A w \in Q : G[<<i, w>>] = [t \in Sinks |-> Level(skip, kids, w, t)]
  <2>1. SUFFICES ASSUME NEW i \in Nat, NEW w \in Q PROVE G[<<i, w>>] = [t \in Sinks |-> Level(skip, kids, w, t)]
    OBVIOUS
  <2> HIDE DEF Q, N, a, walk
  <2>2. <<i, w>> \in Nat \X Q /\ <<i, w>>[1] = i /\ <<i, w>>[2] = w BY <2>1
  <2> QED BY <2>2, Zenon
<1>6. \A s \in Sinks : WalkBut(skip, kids, s) = walk[N][s] BY Zenon DEF WalkBut
<1> HIDE DEF N, Q, G, walk
<1>7. PICK f : StepsFrom(Q, a, G, N, f) BY <1>1, <1>3, <1>4, StepByStep, Zenon
<1>8. f \in [0 .. N -> Q] /\ f[0] = a /\ \A n \in 1 .. N : f[n] = [t \in Sinks |-> Level(skip, kids, f[n - 1], t)]
  <2>1. f \in [0 .. N -> Q] /\ f[0] = a /\ \A n \in 1 .. N : f[n] = G[<<n, f[n - 1]>>]
    BY <1>7, Zenon DEF StepsFrom
  <2>2. \A n \in 1 .. N : n \in Nat /\ f[n - 1] \in Q
    <3>1. \A n \in 1 .. N : n \in Nat /\ n - 1 \in 0 .. N BY <1>1
    <3> QED BY <2>1, <3>1
  <2> HIDE DEF a
  <2>3. \A n \in 1 .. N : f[n] = [t \in Sinks |-> Level(skip, kids, f[n - 1], t)]
    <3>1. TAKE n \in 1 .. N
    <3>2. f[n] = G[<<n, f[n - 1]>>] BY <2>1, Zenon
    <3>3. G[<<n, f[n - 1]>>] = [t \in Sinks |-> Level(skip, kids, f[n - 1], t)] BY <1>5, <2>2, Zenon
    <3> QED BY <3>2, <3>3, Zenon
  <2> QED BY <2>1, <2>3, Zenon
<1> DEFINE One(w, n) == [t \in Sinks |->
                          IF t \in skip THEN <<>>
                          ELSE IF n = 0 THEN <<t>>
                          ELSE <<t>> \o FlattenSeq([i \in DOMAIN kids[t] |-> w[n - 1][kids[t][i]]])]
<1>9. \A n \in 0 .. N : f[n] = One(f, n)
  <2>1. SUFFICES ASSUME NEW n \in 0 .. N PROVE f[n] = One(f, n)
    BY Zenon
  <2>2. CASE n = 0 BY <1>8, <2>2, Zenon
  <2>3. CASE n # 0
    <3>1. n \in 1 .. N BY <1>1, <2>3
    <3>2. f[n] = [t \in Sinks |-> Level(skip, kids, f[n - 1], t)] BY <1>8, <3>1, Zenon
    <3>3. \A t \in Sinks : Level(skip, kids, f[n - 1], t)
            = IF t \in skip THEN <<>>
              ELSE IF n = 0 THEN <<t>>
              ELSE <<t>> \o FlattenSeq([i \in DOMAIN kids[t] |-> f[n - 1][kids[t][i]]])
      BY <2>3, Zenon DEF Level
    <3> QED BY <3>2, <3>3, Zenon
  <2> QED BY <2>2, <2>3
<1> DEFINE h == [n \in 0 .. N |-> f[n]]
<1>10. f = [n \in 0 .. N |-> One(f, n)]
  <2>1. f = [n \in 0 .. N |-> f[n]] BY <1>8
  <2>2. [n \in 0 .. N |-> f[n]] = [n \in 0 .. N |-> One(f, n)] BY <1>9, Zenon
  <2> QED BY <2>1, <2>2, Zenon
<1>11. walk = [n \in 0 .. N |-> One(walk, n)] BY <1>10, Zenon DEF walk
<1>12. \A n \in 0 .. N : walk[n] = f[n]
  <2> DEFINE T == {n \in 0 .. N : walk[n] # f[n]}
  <2>1. SUFFICES ASSUME T # {} PROVE FALSE
    OBVIOUS
  <2> HIDE DEF One, a, h
  <2>2. T \in SUBSET Nat BY <1>1
  <2>3. PICK n \in T : \A k \in T : n <= k BY <2>1, <2>2, LeastElement
  <2>4. n \in 0 .. N /\ walk[n] # f[n] BY <2>3
  <2>5. walk[n] = One(walk, n) /\ f[n] = One(f, n) BY <1>9, <1>11, <2>4, Zenon
  <2>6. CASE n = 0
    <3>1. One(walk, 0) = One(f, 0) BY Zenon DEF One
    <3> QED BY <2>4, <2>5, <2>6, <3>1, Zenon
  <2>7. CASE n # 0
    <3>1. n - 1 \in 0 .. N /\ ~(n <= n - 1) BY <1>1, <2>4, <2>7
    <3>2. walk[n - 1] = f[n - 1] BY <2>3, <3>1
    <3>3. One(walk, n) = One(f, n) BY <3>2, Zenon DEF One
    <3> QED BY <2>4, <2>5, <3>3, Zenon
  <2> QED BY <2>6, <2>7
<1> HIDE DEF One, h
<1>13. \A n \in 0 .. N : n + 1 <= N => \A t \in Sinks : rank[t] <= n => f[n][t] = f[n + 1][t]
  <2> DEFINE Good(n) == n + 1 <= N => \A t \in Sinks : rank[t] <= n => f[n][t] = f[n + 1][t]
             T == {n \in 0 .. N : ~Good(n)}
  <2>1. SUFFICES ASSUME T # {} PROVE FALSE
    <3> SUFFICES ASSUME NEW n \in 0 .. N PROVE Good(n)
      OBVIOUS
    <3> HIDE DEF Good
    <3> QED BY <2>1
  <2> HIDE DEF Good, a
  <2>2. T \in SUBSET Nat BY <1>1
  <2>3. PICK n \in T : \A k \in T : n <= k BY <2>1, <2>2, LeastElement
  <2>4. n \in 0 .. N /\ ~Good(n) BY <2>3
  <2>5. SUFFICES ASSUME n + 1 <= N, NEW t \in Sinks, rank[t] <= n PROVE f[n][t] = f[n + 1][t]
    BY <2>4 DEF Good
  <2>6. /\ n + 1 \in 1 .. N /\ (n + 1) - 1 = n BY <1>1, <2>4, <2>5
  <2>7. f[n + 1][t] = Level(skip, kids, f[n], t)
    <3>1. f[n + 1] = [u \in Sinks |-> Level(skip, kids, f[n], u)] BY <1>8, <2>6, Zenon
    <3> QED BY <3>1, Zenon
  <2>8. \A i \in 1 .. Len(kids[t]) : kids[t][i] \in Sinks /\ rank[kids[t][i]] \in Nat /\ rank[kids[t][i]] < rank[t]
    <3>1. kids[t] \in Seq(Sinks) BY <1>2
    <3>2. \A i \in 1 .. Len(kids[t]) : kids[t][i] \in Sinks BY <3>1, ElementOfSeq
    <3> QED BY <3>2 DEF Ranked
  <2>9. kids[t] \in Seq(Sinks) /\ Len(kids[t]) \in Nat /\ DOMAIN kids[t] = 1 .. Len(kids[t]) /\ rank[t] \in Nat
    <3>1. kids[t] \in Seq(Sinks) BY <1>2
    <3> QED BY <3>1, LenProperties DEF Ranked
  <2>10. CASE n = 0
    <3>1. Len(kids[t]) = 0
      <4>1. SUFFICES ASSUME 1 \in 1 .. Len(kids[t]) PROVE FALSE
        BY <2>9
      <4> QED BY <2>5, <2>8, <2>9, <2>10, <4>1
    <3>2. f[0] \in Q /\ f[0] = a
      <4>1. 0 \in 0 .. N BY <1>1
      <4> QED BY <1>8, <4>1
    <3>3. Level(skip, kids, f[0], t) = Alone(skip, t)
      <4>1. f[0] \in [Sinks -> Seq(Sinks)] BY <3>2, Zenon DEF Q
      <4>2. LeafIsAlone(skip, kids, t) BY <1>2, <3>1, LeafLevel, Zenon
      <4> QED BY <4>1, <4>2, Zenon DEF LeafIsAlone
    <3>4. f[0][t] = Alone(skip, t) BY <3>2, Zenon DEF a, Alone
    <3> QED BY <2>7, <2>10, <3>3, <3>4, Zenon
  <2>11. CASE n # 0
    <3>1. n - 1 \in 0 .. N /\ ~(n <= n - 1) /\ (n - 1) + 1 = n /\ n \in 1 .. N BY <1>1, <2>4, <2>11
    <3>2. Good(n - 1) BY <2>3, <3>1
    <3>3. \A u \in Sinks : rank[u] <= n - 1 => f[n - 1][u] = f[n][u] BY <1>1, <2>4, <3>1, <3>2 DEF Good
    <3>4. \A i \in 1 .. Len(kids[t]) : f[n - 1][kids[t][i]] = f[n][kids[t][i]]
      <4>1. TAKE i \in 1 .. Len(kids[t])
      <4>2. kids[t][i] \in Sinks /\ rank[kids[t][i]] <= n - 1
        <5>1. n \in Nat BY <2>4
        <5> QED BY <2>5, <2>8, <2>9, <4>1, <5>1
      <4> QED BY <3>3, <4>2, Zenon
    <3>5. [i \in DOMAIN kids[t] |-> f[n - 1][kids[t][i]]] = [i \in DOMAIN kids[t] |-> f[n][kids[t][i]]]
      BY <2>9, <3>4, Zenon
    <3>6. f[n][t] = Level(skip, kids, f[n - 1], t)
      <4>1. f[n] = [u \in Sinks |-> Level(skip, kids, f[n - 1], u)] BY <1>8, <3>1, Zenon
      <4> QED BY <4>1, Zenon
    <3>7. Level(skip, kids, f[n - 1], t) = Level(skip, kids, f[n], t) BY <3>5, Zenon DEF Level
    <3> QED BY <2>7, <3>6, <3>7, Zenon
  <2> QED BY <2>10, <2>11
<1>14. N \in 0 .. N /\ f[N] \in Q
  <2>1. N \in 0 .. N BY <1>1
  <2> QED BY <1>8, <2>1
<1>15. \A t \in Sinks : f[N][t] = Level(skip, kids, f[N], t)
  <2>1. SUFFICES ASSUME NEW t \in Sinks PROVE f[N][t] = Level(skip, kids, f[N], t)
    BY Zenon
  <2>2. rank[t] < N /\ rank[t] \in Nat BY DEF Ranked, N
  <2>3. N \in 1 .. N /\ N - 1 \in 0 .. N /\ (N - 1) + 1 <= N /\ (N - 1) + 1 = N BY <1>1, <2>2
  <2>4. f[N][t] = Level(skip, kids, f[N - 1], t)
    <3>1. f[N] = [u \in Sinks |-> Level(skip, kids, f[N - 1], u)] BY <1>8, <2>3, Zenon
    <3> QED BY <3>1, Zenon
  <2>5. kids[t] \in Seq(Sinks) BY <1>2
  <2>6. DOMAIN kids[t] = 1 .. Len(kids[t]) /\ \A i \in 1 .. Len(kids[t]) : kids[t][i] \in Sinks
    BY <2>5, LenProperties, ElementOfSeq
  <2>7. \A i \in 1 .. Len(kids[t]) : f[N - 1][kids[t][i]] = f[N][kids[t][i]]
    <3>1. TAKE i \in 1 .. Len(kids[t])
    <3>2. kids[t][i] \in Sinks /\ rank[kids[t][i]] < rank[t] /\ rank[kids[t][i]] \in Nat BY <2>6 DEF Ranked
    <3>3. rank[kids[t][i]] <= N - 1 BY <1>1, <2>2, <3>2
    <3>4. f[N - 1][kids[t][i]] = f[(N - 1) + 1][kids[t][i]] BY <1>13, <2>3, <3>2, <3>3, Zenon
    <3> QED BY <2>3, <3>4, Zenon
  <2>8. [i \in DOMAIN kids[t] |-> f[N - 1][kids[t][i]]] = [i \in DOMAIN kids[t] |-> f[N][kids[t][i]]]
    BY <2>6, <2>7, Zenon
  <2>9. Level(skip, kids, f[N - 1], t) = Level(skip, kids, f[N], t) BY <2>8, Zenon DEF Level
  <2> QED BY <2>4, <2>9, Zenon
<1>16. Unfolds(skip, kids, f[N]) BY <1>14, <1>15, Zenon DEF Unfolds, Q
<1>17. \A s \in Sinks : WalkBut(skip, kids, s) = f[N][s] BY <1>6, <1>12, <1>14, Zenon
<1> QED BY <1>16, <1>17, Zenon DEF IsWalk

\* The children of a sink are sinks of a lower rank.
LEMMA ChildrenOf ==
    ASSUME NEW kids, NEW rank, Ranked(kids, rank), NEW t \in Sinks
    PROVE  /\ kids[t] \in Seq(Sinks) /\ ToSet(kids[t]) \subseteq Sinks
           /\ \A c \in ToSet(kids[t]) : rank[c] \in Nat /\ rank[c] < rank[t]
           /\ \A c : c \in ToSet(kids[t]) <=> \E i \in 1 .. Len(kids[t]) : c = kids[t][i]
<1> DEFINE k == kids[t]
<1>1. k \in Seq(Sinks) /\ \A i \in 1 .. Len(k) : rank[k[i]] < rank[t] BY DEF Ranked
<1>2. Len(k) \in Nat /\ DOMAIN k = 1 .. Len(k) /\ \A i \in 1 .. Len(k) : k[i] \in Sinks
  <2> HIDE DEF k
  <2> QED BY <1>1, LenProperties, ElementOfSeq
<1>3. \A x \in Sinks : rank[x] \in Nat BY DEF Ranked
<1> HIDE DEF k
<1>4. \A c : c \in ToSet(k) <=> \E i \in 1 .. Len(k) : c = k[i]
  BY <1>2, Zenon DEF ToSet
<1>5. \A c \in ToSet(k) : c \in Sinks /\ rank[c] \in Nat /\ rank[c] < rank[t]
  BY <1>1, <1>2, <1>3, <1>4, Zenon
<1>6. ToSet(k) \subseteq Sinks BY <1>5, Zenon
<1> QED BY <1>1, <1>4, <1>5, <1>6, Zenon DEF k

\* What holds of a sink whenever it holds of its children holds of every sink.
LEMMA FromTheLeaves ==
    ASSUME NEW kids, NEW rank, Ranked(kids, rank), NEW good,
           \A t \in Sinks : ToSet(kids[t]) \subseteq good => t \in good
    PROVE  \A t \in Sinks : t \in good
<1>1. SUFFICES ASSUME NEW bad \in Sinks, bad \notin good PROVE FALSE
  OBVIOUS
<1> DEFINE T == {rank[t] : t \in Sinks \ good}
<1>2. \A t \in Sinks : rank[t] \in Nat BY DEF Ranked
<1>3. T \in SUBSET Nat BY <1>2
<1>4. rank[bad] \in T BY <1>1
<1>5. PICK n \in T : \A m \in T : n <= m BY <1>3, <1>4, LeastElement
<1>6. PICK t \in Sinks \ good : n = rank[t] BY <1>5
<1>7. PICK c \in ToSet(kids[t]) : c \notin good BY <1>6
<1>8. c \in Sinks /\ rank[c] \in Nat /\ rank[c] < rank[t] BY <1>6, ChildrenOf
<1>9. rank[c] \in T BY <1>7, <1>8
<1> QED BY <1>2, <1>5, <1>6, <1>8, <1>9

\* The sinks that a walk reaches from each sink.
Reach(skip, kids, A) ==
    /\ A \in [Sinks -> SUBSET Sinks]
    /\ \A t \in Sinks : t \in skip => A[t] = {}
    /\ \A t \in Sinks : t \notin skip =>
           \A x : x \in A[t] <=> x = t \/ \E c \in ToSet(kids[t]) : x \in A[c]

Members(w) == [t \in Sinks |-> ToSet(w[t])]

\* A walk reaches the sink, unless it is skipped, and what its children reach.
LEMMA WalkReaches ==
    ASSUME NEW kids, NEW rank, Ranked(kids, rank), NEW skip, NEW w, Unfolds(skip, kids, w)
    PROVE  Reach(skip, kids, Members(w))
<1>1. kids \in [Sinks -> Seq(Sinks)] BY DEF Ranked
<1>2. w \in [Sinks -> Seq(Sinks)] /\ \A t \in Sinks : w[t] = Level(skip, kids, w, t) BY DEF Unfolds
<1>3. \A t \in Sinks : ToSet(w[t]) \subseteq Sinks
  <2>1. SUFFICES ASSUME NEW t \in Sinks PROVE ToSet(w[t]) \subseteq Sinks
    OBVIOUS
  <2>2. w[t] \in Seq(Sinks) BY <1>2
  <2>3. DOMAIN w[t] = 1 .. Len(w[t]) /\ \A i \in 1 .. Len(w[t]) : w[t][i] \in Sinks
    BY <2>2, LenProperties, ElementOfSeq
  <2> QED BY <2>3, Zenon DEF ToSet
<1>4. Members(w) \in [Sinks -> SUBSET Sinks] BY <1>3 DEF Members
<1>5. \A t \in Sinks : Members(w)[t] = ToSet(w[t]) BY Zenon DEF Members
<1>6. ASSUME NEW t \in Sinks, t \in skip PROVE Members(w)[t] = {}
  <2>1. w[t] = <<>> BY <1>2, <1>6, Zenon DEF Level
  <2>2. ToSet(<<>>) = {} BY DEF ToSet
  <2> QED BY <1>5, <2>1, <2>2, Zenon
<1>7. ASSUME NEW t \in Sinks, t \notin skip
      PROVE  \A x : x \in Members(w)[t] <=> x = t \/ \E c \in ToSet(kids[t]) : x \in Members(w)[c]
  <2> DEFINE ss == [i \in DOMAIN kids[t] |-> w[kids[t][i]]]
  <2>1. w[t] = <<t>> \o FlattenSeq(ss) BY <1>2, <1>7, Zenon DEF Level
  <2>2. ss \in Seq(Seq(Sinks)) /\ Len(ss) = Len(kids[t]) BY <1>1, <1>2, LevelOf, Zenon
  <2>3. DOMAIN kids[t] = 1 .. Len(kids[t]) /\ \A i \in 1 .. Len(kids[t]) : kids[t][i] \in Sinks
    <3>1. kids[t] \in Seq(Sinks) BY <1>1
    <3> QED BY <3>1, LenProperties, ElementOfSeq
  <2>4. \A i \in 1 .. Len(kids[t]) : ss[i] = w[kids[t][i]] BY <2>3, Zenon
  <2> HIDE DEF ss
  <2>5. /\ FlattenSeq(ss) \in Seq(Sinks)
        /\ \A x : x \in ToSet(FlattenSeq(ss)) <=> \E i \in 1 .. Len(ss) : x \in ToSet(ss[i])
    BY <2>2, FlattenedMembers
  <2>6. \A x : x \in ToSet(FlattenSeq(ss)) <=> \E c \in ToSet(kids[t]) : x \in Members(w)[c]
    <3>1. \A c : c \in ToSet(kids[t]) <=> \E i \in 1 .. Len(kids[t]) : c = kids[t][i] BY ChildrenOf, Zenon
    <3>2. \A i \in 1 .. Len(kids[t]) : Members(w)[kids[t][i]] = ToSet(ss[i]) BY <1>5, <2>3, <2>4, Zenon
    <3>3. \A x : x \in ToSet(FlattenSeq(ss)) <=> \E i \in 1 .. Len(kids[t]) : x \in ToSet(ss[i])
      BY <2>2, <2>5, Zenon
    <3>4. \A x : x \in ToSet(FlattenSeq(ss)) => \E c \in ToSet(kids[t]) : x \in Members(w)[c]
      <4>1. SUFFICES ASSUME NEW x, NEW i \in 1 .. Len(kids[t]), x \in ToSet(ss[i])
                     PROVE  \E c \in ToSet(kids[t]) : x \in Members(w)[c]
        BY <3>3, Zenon
      <4> QED BY <3>1, <3>2, <4>1, Zenon
    <3>5. ASSUME NEW x, NEW c \in ToSet(kids[t]), x \in Members(w)[c] PROVE x \in ToSet(FlattenSeq(ss))
      <4>1. PICK i \in 1 .. Len(kids[t]) : c = kids[t][i] BY <3>1, Zenon
      <4>2. x \in ToSet(ss[i]) BY <3>2, <3>5, <4>1, Zenon
      <4> QED BY <3>3, <4>2, Zenon
    <3> QED BY <3>4, <3>5, Zenon
  <2>7. <<t>> \in Seq(Sinks) OBVIOUS
  <2>8. ToSet(<<t>>) = {t} BY DEF ToSet
  <2>9. ToSet(w[t]) = {t} \cup ToSet(FlattenSeq(ss))
    <3>1. ToSet(<<t>> \o FlattenSeq(ss)) = ToSet(<<t>>) \cup ToSet(FlattenSeq(ss))
      <4> DEFINE a == <<t>>
                 b == FlattenSeq(ss)
      <4>1. a \in Seq(Sinks) /\ b \in Seq(Sinks) BY <2>5, <2>7
      <4> HIDE DEF a, b
      <4>2. ToSet(a \o b) = ToSet(a) \cup ToSet(b) BY <4>1, ConcatMembers
      <4> QED BY <4>2 DEF a, b
    <3> QED BY <2>1, <2>8, <3>1, Zenon
  <2>10. \A x : x \in Members(w)[t] <=> x = t \/ x \in ToSet(FlattenSeq(ss)) BY <1>5, <2>9, Zenon
  <2> QED BY <2>6, <2>10, Zenon
<1> QED BY <1>4, <1>6, <1>7, Zenon DEF Reach

-----------------------------------------------------------------------------
\* What is below a sink is below what is above it, and of no higher rank.
LEMMA BelowIsOrdered ==
    ASSUME NEW kids, NEW rank, Ranked(kids, rank), NEW B, Reach({}, kids, B)
    PROVE  \A t \in Sinks : t \in B[t] /\ \A x \in B[t] : x \in Sinks /\ B[x] \subseteq B[t] /\ rank[x] <= rank[t]
<1> DEFINE Fine(t) == \A x \in B[t] : x \in Sinks /\ B[x] \subseteq B[t] /\ rank[x] <= rank[t]
           good == {t \in Sinks : Fine(t)}
<1>1. B \in [Sinks -> SUBSET Sinks] BY DEF Reach
<1>2. \A t \in Sinks : \A x : x \in B[t] <=> x = t \/ \E c \in ToSet(kids[t]) : x \in B[c]
  <2>1. \A t : t \notin {} OBVIOUS
  <2> QED BY <2>1, Zenon DEF Reach
<1>3. \A t \in Sinks : rank[t] \in Nat BY DEF Ranked
<1>4. ASSUME NEW t \in Sinks, ToSet(kids[t]) \subseteq good PROVE Fine(t)
  <2>1. SUFFICES ASSUME NEW x \in B[t] PROVE x \in Sinks /\ B[x] \subseteq B[t] /\ rank[x] <= rank[t]
    OBVIOUS
  <2>2. CASE x = t BY <1>3, <2>2
  <2>3. CASE x # t
    <3>1. PICK c \in ToSet(kids[t]) : x \in B[c] BY <1>2, <2>3, Zenon
    <3>2. c \in Sinks /\ Fine(c) BY <1>4
    <3>3. x \in Sinks /\ B[x] \subseteq B[c] /\ rank[x] <= rank[c] BY <3>1, <3>2
    <3>4. B[c] \subseteq B[t] BY <1>2, Zenon
    <3>5. rank[c] \in Nat /\ rank[c] < rank[t] BY ChildrenOf, Zenon
    <3> QED BY <1>3, <3>3, <3>4, <3>5
  <2> QED BY <2>2, <2>3
<1> HIDE DEF Fine
<1>5. \A t \in Sinks : ToSet(kids[t]) \subseteq good => t \in good BY <1>4
<1> HIDE DEF good
<1>6. \A t \in Sinks : t \in good BY <1>5, FromTheLeaves, Zenon
<1>7. \A t \in Sinks : Fine(t) BY <1>6 DEF good
<1>8. \A t \in Sinks : t \in B[t] BY <1>2, Zenon
<1> QED BY <1>7, <1>8, Zenon DEF Fine

\* What a walk from t reaches is below t, and leaves out what is below skipped sinks.
ReachedFrom(skip, A, B, t) ==
    /\ A[t] \subseteq B[t]
    /\ \A x \in A[t] : x \notin skip /\ A[x] \subseteq A[t]
    /\ \A x \in B[t] : x \in A[t] \/ \E u \in skip : u \in B[t] /\ x \in B[u]

\* A walk that skips sinks reaches what is below, but for the skipped and what is below
\* them.
LEMMA SkippingReaches ==
    ASSUME NEW kids, NEW rank, Ranked(kids, rank), NEW B, Reach({}, kids, B), NEW skip, NEW A, Reach(skip, kids, A)
    PROVE  \A t \in Sinks : ReachedFrom(skip, A, B, t)
<1> DEFINE Fine(t) == /\ A[t] \subseteq B[t]
                      /\ \A x \in A[t] : x \notin skip /\ A[x] \subseteq A[t]
                      /\ \A x \in B[t] : x \in A[t] \/ \E u \in skip : u \in B[t] /\ x \in B[u]
           good == {t \in Sinks : Fine(t)}
<1>1. B \in [Sinks -> SUBSET Sinks] /\ A \in [Sinks -> SUBSET Sinks] BY DEF Reach
<1>2. \A t \in Sinks : \A x : x \in B[t] <=> x = t \/ \E c \in ToSet(kids[t]) : x \in B[c]
  <2>1. \A t : t \notin {} OBVIOUS
  <2> QED BY <2>1, Zenon DEF Reach
<1>3. \A t \in Sinks : t \notin skip => \A x : x \in A[t] <=> x = t \/ \E c \in ToSet(kids[t]) : x \in A[c]
  BY DEF Reach
<1>4. \A t \in Sinks : t \in skip => A[t] = {} BY DEF Reach
<1>5. ASSUME NEW t \in Sinks, ToSet(kids[t]) \subseteq good PROVE Fine(t)
  <2>1. CASE t \in skip
    <3>1. A[t] = {} BY <1>4, <2>1
    <3>2. t \in B[t] BY <1>2
    <3> QED BY <2>1, <3>1, <3>2
  <2>2. CASE t \notin skip
    <3>1. \A c \in ToSet(kids[t]) : c \in Sinks /\ Fine(c) BY <1>5
    <3>2. \A x : x \in A[t] <=> x = t \/ \E c \in ToSet(kids[t]) : x \in A[c] BY <1>3, <2>2, Zenon
    <3>3. \A x : x \in B[t] <=> x = t \/ \E c \in ToSet(kids[t]) : x \in B[c] BY <1>2, Zenon
    <3> HIDE DEF good
    <3>4. A[t] \subseteq B[t] BY <3>1, <3>2, <3>3, Zenon
    <3>5. ASSUME NEW x \in A[t] PROVE x \notin skip /\ A[x] \subseteq A[t]
      <4>1. CASE x = t BY <2>2, <4>1
      <4>2. CASE x # t
        <5>1. PICK c \in ToSet(kids[t]) : x \in A[c] BY <3>2, <3>5, <4>2, Zenon
        <5>2. x \notin skip /\ A[x] \subseteq A[c] BY <3>1, <5>1, Zenon
        <5>3. A[c] \subseteq A[t] BY <3>2, Zenon
        <5> QED BY <5>2, <5>3, Zenon
      <4> QED BY <4>1, <4>2
    <3>6. ASSUME NEW x \in B[t] PROVE x \in A[t] \/ \E u \in skip : u \in B[t] /\ x \in B[u]
      <4>1. CASE x = t BY <3>2, <4>1, Zenon
      <4>2. CASE x # t
        <5>1. PICK c \in ToSet(kids[t]) : x \in B[c] BY <3>3, <3>6, <4>2, Zenon
        <5>2. x \in A[c] \/ \E u \in skip : u \in B[c] /\ x \in B[u] BY <3>1, <5>1, Zenon
        <5> QED BY <3>2, <3>3, <5>2, Zenon
      <4> QED BY <4>1, <4>2
    <3> QED BY <3>4, <3>5, <3>6, Zenon
  <2> QED BY <2>1, <2>2
<1> HIDE DEF Fine
<1>6. \A t \in Sinks : ToSet(kids[t]) \subseteq good => t \in good BY <1>5
<1> HIDE DEF good
<1>7. \A t \in Sinks : t \in good BY <1>6, FromTheLeaves, Zenon
<1>8. \A t \in Sinks : Fine(t) BY <1>7 DEF good
<1> QED BY <1>8, Zenon DEF Fine, ReachedFrom

\* Each sink is a child of one sink at most, and once.
OneParent(kids, par) ==
    \A t \in Sinks : /\ \A c \in ToSet(kids[t]) : par[c] = t
                     /\ \A i, j \in 1 .. Len(kids[t]) : kids[t][i] = kids[t][j] => i = j

\* With a sink, its parent is below another one, unless it is that one.
LEMMA ParentIsBelow ==
    ASSUME NEW kids, NEW rank, Ranked(kids, rank), NEW B, Reach({}, kids, B), NEW par, OneParent(kids, par)
    PROVE  \A t \in Sinks : \A x \in B[t] : x = t \/ par[x] \in B[t]
<1> DEFINE Fine(t) == \A x \in B[t] : x = t \/ par[x] \in B[t]
           good == {t \in Sinks : Fine(t)}
<1>1. \A t \in Sinks : \A x : x \in B[t] <=> x = t \/ \E c \in ToSet(kids[t]) : x \in B[c]
  <2>1. \A t : t \notin {} OBVIOUS
  <2> QED BY <2>1, Zenon DEF Reach
<1>2. ASSUME NEW t \in Sinks, ToSet(kids[t]) \subseteq good PROVE Fine(t)
  <2>1. SUFFICES ASSUME NEW x \in B[t], x # t PROVE par[x] \in B[t]
    OBVIOUS
  <2>2. PICK c \in ToSet(kids[t]) : x \in B[c] BY <1>1, <2>1, Zenon
  <2>3. Fine(c) /\ par[c] = t /\ t \in B[t] BY <1>1, <1>2 DEF OneParent
  <2>4. CASE x = c BY <2>3, <2>4, Zenon
  <2>5. CASE x # c
    <3>1. par[x] \in B[c] BY <2>2, <2>3, <2>5, Zenon
    <3> QED BY <1>1, <3>1, Zenon
  <2> QED BY <2>4, <2>5
<1> HIDE DEF Fine
<1>3. \A t \in Sinks : ToSet(kids[t]) \subseteq good => t \in good BY <1>2
<1> HIDE DEF good
<1>4. \A t \in Sinks : t \in good BY <1>3, FromTheLeaves, Zenon
<1> QED BY <1>4 DEF good, Fine

\* Nothing is below two children of a sink.
LEMMA SiblingsApart ==
    ASSUME NEW kids, NEW rank, Ranked(kids, rank), NEW B, Reach({}, kids, B), NEW par, OneParent(kids, par)
    PROVE  \A t \in Sinks : \A c, d \in ToSet(kids[t]) : c # d => \A x : ~(x \in B[c] /\ x \in B[d])
<1>1. \A t \in Sinks : \A x : x \in B[t] <=> x = t \/ \E c \in ToSet(kids[t]) : x \in B[c]
  <2>1. \A t : t \notin {} OBVIOUS
  <2> QED BY <2>1, Zenon DEF Reach
<1>2. \A t \in Sinks : t \in B[t] /\ \A x \in B[t] : x \in Sinks /\ B[x] \subseteq B[t] /\ rank[x] <= rank[t]
  BY BelowIsOrdered, Zenon
<1>3. \A t \in Sinks : \A x \in B[t] : x = t \/ par[x] \in B[t] BY ParentIsBelow, Zenon
<1>4. \A t \in Sinks : \A c \in ToSet(kids[t]) : par[c] = t BY Zenon DEF OneParent
<1>5. ASSUME NEW d \in Sinks
      PROVE  \A t \in Sinks : \A x : x \in B[t] /\ x \in B[d] => t \in B[d] \/ d \in B[t]
  <2> DEFINE Fine(t) == \A x : x \in B[t] /\ x \in B[d] => t \in B[d] \/ d \in B[t]
             good == {t \in Sinks : Fine(t)}
  <2>1. ASSUME NEW t \in Sinks, ToSet(kids[t]) \subseteq good PROVE Fine(t)
    <3>1. SUFFICES ASSUME NEW x, x \in B[t], x \in B[d] PROVE t \in B[d] \/ d \in B[t]
      OBVIOUS
    <3>2. CASE x = t BY <3>1, <3>2
    <3>3. CASE x # t
      <4>1. PICK c \in ToSet(kids[t]) : x \in B[c] BY <1>1, <3>1, <3>3, Zenon
      <4>2. c \in B[d] \/ d \in B[c] BY <2>1, <3>1, <4>1
      <4>3. d \in B[c] => d \in B[t] BY <1>1, Zenon
      <4>4. CASE c \in B[d]
        <5>1. c = d \/ t \in B[d] BY <1>3, <1>4, <4>4, Zenon
        <5>2. c = d => d \in B[t] BY <4>3, <4>4, Zenon
        <5> QED BY <5>1, <5>2
      <4> QED BY <4>2, <4>3, <4>4
    <3> QED BY <3>2, <3>3
  <2> HIDE DEF Fine
  <2>2. \A t \in Sinks : ToSet(kids[t]) \subseteq good => t \in good BY <2>1
  <2> HIDE DEF good
  <2>3. \A t \in Sinks : t \in good BY <2>2, FromTheLeaves, Zenon
  <2> QED BY <2>3 DEF good, Fine
<1>6. \A t \in Sinks : \A c \in ToSet(kids[t]) : c \in Sinks /\ ~(rank[t] <= rank[c])
  <2>1. SUFFICES ASSUME NEW t \in Sinks, NEW c \in ToSet(kids[t]) PROVE c \in Sinks /\ ~(rank[t] <= rank[c])
    BY Zenon
  <2>2. c \in Sinks /\ rank[c] \in Nat /\ rank[c] < rank[t] BY ChildrenOf
  <2>3. rank[t] \in Nat BY DEF Ranked
  <2> QED BY <2>2, <2>3
<1>7. ASSUME NEW t \in Sinks, NEW c \in ToSet(kids[t]), NEW d \in ToSet(kids[t]), c # d
      PROVE  c \notin B[d]
  <2>1. SUFFICES ASSUME c \in B[d] PROVE FALSE
    OBVIOUS
  <2>2. t \in B[d] BY <1>3, <1>4, <1>6, <1>7, <2>1, Zenon
  <2> QED BY <1>2, <1>6, <2>2, Zenon
<1> QED BY <1>5, <1>6, <1>7, Zenon

-----------------------------------------------------------------------------
\* What comes between a sink and one below it is below that sink, too.
Contiguous(B, q) ==
    \A i, k \in 1 .. Len(q) : q[k] \in B[q[i]] => \A e \in i .. k : q[e] \in B[q[i]]

\* Two such sequences put together, of which the second has nothing below the first.
LEMMA ContiguousConcat ==
    ASSUME NEW B, NEW q \in Seq(Sinks), NEW r \in Seq(Sinks), Contiguous(B, q), Contiguous(B, r),
           \A x \in ToSet(q), y \in ToSet(r) : y \notin B[x]
    PROVE  Contiguous(B, q \o r)
<1> DEFINE u == q \o r
           n == Len(q)
           m == Len(r)
<1>1. /\ n \in Nat /\ m \in Nat /\ Len(u) = n + m
      /\ \A i \in 1 .. n + m : u[i] = IF i <= n THEN q[i] ELSE r[i - n]
  BY ConcatProperties, LenProperties
<1>2. DOMAIN q = 1 .. n /\ DOMAIN r = 1 .. m BY LenProperties
<1>3. \A x \in 1 .. n : \A y \in 1 .. m : r[y] \notin B[q[x]] BY <1>2, Zenon DEF ToSet
<1>4. \A x, z \in 1 .. n : q[z] \in B[q[x]] => \A e \in x .. z : q[e] \in B[q[x]] BY Zenon DEF Contiguous
<1>5. \A x, z \in 1 .. m : r[z] \in B[r[x]] => \A e \in x .. z : r[e] \in B[r[x]] BY Zenon DEF Contiguous
<1> HIDE DEF u, n, m
<1>6. ASSUME NEW i \in 1 .. n + m, NEW k \in 1 .. n + m, u[k] \in B[u[i]], NEW e \in i .. k
      PROVE  u[e] \in B[u[i]]
  <2>1. i \in Int /\ k \in Int /\ e \in Int /\ e \in 1 .. n + m /\ i <= k BY <1>1
  <2>2. CASE k <= n
    <3>1. i \in 1 .. n /\ k \in 1 .. n /\ e \in 1 .. n /\ i <= n /\ e <= n BY <1>1, <2>1, <2>2
    <3>2. u[i] = q[i] /\ u[k] = q[k] /\ u[e] = q[e] BY <1>1, <2>1, <2>2, <3>1
    <3>3. q[k] \in B[q[i]] BY <1>6, <3>2, Zenon
    <3>4. q[e] \in B[q[i]] BY <1>4, <1>6, <3>1, <3>3, Zenon
    <3> QED BY <3>2, <3>4, Zenon
  <2>3. CASE ~(k <= n) /\ i <= n
    <3>1. i \in 1 .. n /\ k - n \in 1 .. m BY <1>1, <2>1, <2>3
    <3>2. u[i] = q[i] /\ u[k] = r[k - n] BY <1>1, <2>1, <2>3
    <3> QED BY <1>3, <1>6, <3>1, <3>2, Zenon
  <2>4. CASE ~(i <= n)
    <3>1. /\ i - n \in 1 .. m /\ k - n \in 1 .. m /\ e - n \in (i - n) .. (k - n)
          /\ ~(k <= n) /\ ~(e <= n)
      BY <1>1, <2>1, <2>4
    <3>2. u[i] = r[i - n] /\ u[k] = r[k - n] /\ u[e] = r[e - n] BY <1>1, <2>1, <2>4, <3>1
    <3>3. r[k - n] \in B[r[i - n]] BY <1>6, <3>2, Zenon
    <3>4. r[e - n] \in B[r[i - n]] BY <1>5, <3>1, <3>3, Zenon
    <3> QED BY <3>2, <3>4, Zenon
  <2> QED BY <2>2, <2>3, <2>4
<1>7. Len(u) = n + m BY <1>1
<1>8. Contiguous(B, u) BY <1>6, <1>7, Zenon DEF Contiguous
<1> QED BY <1>8 DEF u

\* Such a sequence below a sink, after the sink itself.
LEMMA ContiguousHead ==
    ASSUME NEW B, NEW q \in Seq(Sinks), NEW t \in Sinks, Contiguous(B, q), t \in B[t],
           \A x \in ToSet(q) : x \in B[t]
    PROVE  Contiguous(B, <<t>> \o q)
<1> DEFINE u == <<t>> \o q
           n == Len(q)
<1>0. n \in Nat /\ DOMAIN q = 1 .. n BY LenProperties
<1>1. Len(u) = n + 1 /\ u[1] = t /\ \A i \in 2 .. n + 1 : u[i] = q[i - 1]
  <2> DEFINE a == <<t>>
  <2>1. a \in Seq(Sinks) /\ Len(a) = 1 /\ a[1] = t OBVIOUS
  <2> HIDE DEF a, n
  <2>2. /\ Len(a \o q) = Len(a) + Len(q)
        /\ \A i \in 1 .. Len(a) + Len(q) : (a \o q)[i] = IF i <= Len(a) THEN a[i] ELSE q[i - Len(a)]
    BY <2>1, ConcatProperties
  <2>3. Len(a \o q) = 1 + n BY <2>1, <2>2 DEF n
  <2>4. \A i \in 1 .. n + 1 : (a \o q)[i] = IF i <= 1 THEN a[i] ELSE q[i - 1] BY <1>0, <2>1, <2>2 DEF n
  <2> DEFINE v == a \o q
  <2>5. Len(v) = 1 + n /\ \A i \in 1 .. n + 1 : v[i] = IF i <= 1 THEN a[i] ELSE q[i - 1] BY <2>3, <2>4
  <2> HIDE DEF v
  <2>6. Len(v) = n + 1 /\ v[1] = t /\ \A i \in 2 .. n + 1 : v[i] = q[i - 1]
    BY <1>0, <2>1, <2>5
  <2> QED BY <2>6 DEF v, a
<1>2. \A i \in 1 .. n : q[i] \in B[t] BY <1>0, Zenon DEF ToSet
<1>3. \A x, z \in 1 .. n : q[z] \in B[q[x]] => \A e \in x .. z : q[e] \in B[q[x]] BY Zenon DEF Contiguous
<1> HIDE DEF u, n
<1>4. ASSUME NEW i \in 1 .. n + 1, NEW k \in 1 .. n + 1, u[k] \in B[u[i]], NEW e \in i .. k
      PROVE  u[e] \in B[u[i]]
  <2>1. i \in Int /\ k \in Int /\ e \in Int /\ e \in 1 .. n + 1 /\ i <= k BY <1>0
  <2>2. CASE i = 1
    <3>1. CASE e = 1 BY <1>1, <2>2, <3>1, Zenon
    <3>2. CASE e # 1
      <4>1. e \in 2 .. n + 1 /\ e - 1 \in 1 .. n BY <1>0, <2>1, <3>2
      <4> QED BY <1>1, <1>2, <2>2, <4>1, Zenon
    <3> QED BY <3>1, <3>2
  <2>3. CASE i # 1
    <3>1. /\ i - 1 \in 1 .. n /\ k - 1 \in 1 .. n /\ e - 1 \in (i - 1) .. (k - 1)
          /\ i \in 2 .. n + 1 /\ k \in 2 .. n + 1 /\ e \in 2 .. n + 1
      BY <1>0, <2>1, <2>3
    <3>2. u[i] = q[i - 1] /\ u[k] = q[k - 1] /\ u[e] = q[e - 1] BY <1>1, <3>1, Zenon
    <3>3. q[k - 1] \in B[q[i - 1]] BY <1>4, <3>2, Zenon
    <3>4. q[e - 1] \in B[q[i - 1]] BY <1>3, <3>1, <3>3, Zenon
    <3> QED BY <3>2, <3>4, Zenon
  <2> QED BY <2>2, <2>3
<1>5. Len(u) = n + 1 BY <1>1
<1>6. Contiguous(B, u) BY <1>4, <1>5, Zenon DEF Contiguous
<1> QED BY <1>6 DEF u

\* Such sequences put together, of which none has anything below another one.
LEMMA ContiguousFlat ==
    ASSUME NEW B, NEW ss \in Seq(Seq(Sinks)), \A i \in 1 .. Len(ss) : Contiguous(B, ss[i]),
           \A i, j \in 1 .. Len(ss) : i # j => \A x \in ToSet(ss[i]), y \in ToSet(ss[j]) : y \notin B[x]
    PROVE  Contiguous(B, FlattenSeq(ss))
<1>1. PICK f : JoinsUp(ss, f, Sinks) /\ FlattenSeq(ss) = f[Len(ss)] BY Flattened
<1> DEFINE n == Len(ss)
<1>2. n \in Nat /\ \A i \in 1 .. n : ss[i] \in Seq(Sinks) BY LenProperties, ElementOfSeq
<1>3. f \in [0 .. n -> Seq(Sinks)] /\ f[0] = <<>> /\ \A i \in 1 .. n : f[i] = f[i - 1] \o ss[i]
  BY <1>1 DEF JoinsUp
<1> HIDE DEF n
<1> DEFINE Good(m) == Contiguous(B, f[m]) /\ \A x \in ToSet(f[m]) : \E i \in 1 .. m : x \in ToSet(ss[i])
<1>4. \A m \in 0 .. n : Good(m)
  <2> DEFINE T == {m \in 0 .. n : ~Good(m)}
  <2>1. SUFFICES ASSUME T # {} PROVE FALSE
    <3> SUFFICES ASSUME NEW m \in 0 .. n PROVE Good(m)
      OBVIOUS
    <3> HIDE DEF Good
    <3> QED BY <2>1
  <2> HIDE DEF Good
  <2>2. T \in SUBSET Nat BY <1>2
  <2>3. PICK m \in T : \A k \in T : m <= k BY <2>1, <2>2, LeastElement
  <2>4. m \in 0 .. n /\ ~Good(m) BY <2>3
  <2>5. CASE m = 0
    <3>1. ToSet(f[0]) = {} /\ Len(f[0]) = 0 BY <1>3 DEF ToSet
    <3>2. Contiguous(B, f[0]) BY <3>1 DEF Contiguous
    <3> QED BY <2>4, <2>5, <3>1, <3>2 DEF Good
  <2>6. CASE m # 0
    <3>1. m \in 1 .. n /\ m - 1 \in 0 .. n /\ ~(m <= m - 1) BY <1>2, <2>4, <2>6
    <3>2. Good(m - 1) BY <2>3, <3>1
    <3>3. f[m] = f[m - 1] \o ss[m] /\ f[m - 1] \in Seq(Sinks) /\ ss[m] \in Seq(Sinks) BY <1>2, <1>3, <3>1
    <3>4. \A i \in 1 .. m - 1 : i \in 1 .. n /\ i # m /\ i \in 1 .. m BY <1>2, <3>1
    <3>5. \A x \in ToSet(f[m - 1]), y \in ToSet(ss[m]) : y \notin B[x]
      <4>1. SUFFICES ASSUME NEW x \in ToSet(f[m - 1]), NEW y \in ToSet(ss[m]) PROVE y \notin B[x]
        BY Zenon
      <4>2. PICK i \in 1 .. m - 1 : x \in ToSet(ss[i]) BY <3>2, Zenon DEF Good
      <4>3. i \in 1 .. n /\ i # m BY <3>4
      <4> QED BY <3>1, <4>2, <4>3, Zenon DEF n
    <3>6. Contiguous(B, f[m - 1]) /\ Contiguous(B, ss[m]) BY <3>1, <3>2, Zenon DEF Good, n
    <3>7. Contiguous(B, f[m - 1] \o ss[m]) BY <3>3, <3>5, <3>6, ContiguousConcat
    <3>8. ToSet(f[m]) = ToSet(f[m - 1]) \cup ToSet(ss[m])
      <4>1. ToSet(f[m - 1] \o ss[m]) = ToSet(f[m - 1]) \cup ToSet(ss[m]) BY <3>3, ConcatMembers
      <4> QED BY <3>3, <4>1, Zenon
    <3>9. m \in 1 .. m BY <3>1
    <3>10. \A x \in ToSet(f[m]) : \E i \in 1 .. m : x \in ToSet(ss[i])
      BY <3>2, <3>4, <3>8, <3>9, Zenon DEF Good
    <3> QED BY <2>4, <3>3, <3>7, <3>10, Zenon DEF Good
  <2> QED BY <2>5, <2>6
<1>5. n \in 0 .. n BY <1>2
<1>6. Contiguous(B, f[n]) BY <1>4, <1>5, Zenon
<1> QED BY <1>1, <1>6, Zenon DEF n

\* In a walk over a forest, what is below a sink follows it in one piece.
LEMMA WalkIsContiguous ==
    ASSUME NEW kids, NEW rank, Ranked(kids, rank), NEW B, Reach({}, kids, B), NEW par, OneParent(kids, par),
           NEW skip, NEW v, Unfolds(skip, kids, v)
    PROVE  \A t \in Sinks : Contiguous(B, v[t])
<1> DEFINE good == {t \in Sinks : Contiguous(B, v[t])}
<1>1. kids \in [Sinks -> Seq(Sinks)] BY DEF Ranked
<1>2. v \in [Sinks -> Seq(Sinks)] /\ \A t \in Sinks : v[t] = Level(skip, kids, v, t) BY DEF Unfolds
<1>3. \A t \in Sinks : t \in B[t] /\ \A x \in B[t] : x \in Sinks /\ B[x] \subseteq B[t] /\ rank[x] <= rank[t]
  BY BelowIsOrdered, Zenon
<1>4. \A t \in Sinks : ToSet(v[t]) \subseteq B[t]
  <2>1. Reach(skip, kids, Members(v)) BY WalkReaches, Zenon
  <2>3. \A t \in Sinks : ReachedFrom(skip, Members(v), B, t) BY <2>1, SkippingReaches, Zenon
  <2>2. \A t \in Sinks : Members(v)[t] \subseteq B[t] BY <2>3, Zenon DEF ReachedFrom
  <2> QED BY <2>2, Zenon DEF Members
<1>5. \A t \in Sinks : \A c, d \in ToSet(kids[t]) : c # d => \A x : ~(x \in B[c] /\ x \in B[d])
  BY SiblingsApart, Zenon
<1>6. \A t \in Sinks : \A x : x \in B[t] <=> x = t \/ \E c \in ToSet(kids[t]) : x \in B[c]
  <2>1. \A t : t \notin {} OBVIOUS
  <2> QED BY <2>1, Zenon DEF Reach
<1>7. ASSUME NEW t \in Sinks, ToSet(kids[t]) \subseteq good PROVE Contiguous(B, v[t])
  <2>1. CASE t \in skip
    <3>1. v[t] = <<>> BY <1>2, <2>1, Zenon DEF Level
    <3>2. Len(v[t]) = 0 BY <3>1
    <3> QED BY <3>2 DEF Contiguous
  <2>2. CASE t \notin skip
    <3> DEFINE ss == [i \in DOMAIN kids[t] |-> v[kids[t][i]]]
               n == Len(kids[t])
    <3>1. v[t] = <<t>> \o FlattenSeq(ss) BY <1>2, <2>2, Zenon DEF Level
    <3>2. ss \in Seq(Seq(Sinks)) /\ Len(ss) = n BY <1>1, <1>2, LevelOf, Zenon
    <3>3. DOMAIN kids[t] = 1 .. n
      <4>1. kids[t] \in Seq(Sinks) BY <1>1
      <4> QED BY <4>1, LenProperties
    <3>4. \A i \in 1 .. n : ss[i] = v[kids[t][i]] BY <3>3, Zenon
    <3>5. \A i \in 1 .. n : kids[t][i] \in ToSet(kids[t]) BY <3>3, Zenon DEF ToSet
    <3>6. \A c \in ToSet(kids[t]) : c \in Sinks /\ Contiguous(B, v[c]) BY <1>7
    <3> HIDE DEF ss, n
    <3>7. \A i \in 1 .. n : Contiguous(B, ss[i]) BY <3>4, <3>5, <3>6, Zenon
    <3>8. \A i \in 1 .. n : ToSet(ss[i]) \subseteq B[kids[t][i]] BY <1>4, <3>4, <3>5, <3>6, Zenon
    <3>9. ASSUME NEW i \in 1 .. n, NEW j \in 1 .. n, i # j
          PROVE  \A x \in ToSet(ss[i]), y \in ToSet(ss[j]) : y \notin B[x]
      <4>1. kids[t][i] # kids[t][j] BY <3>9, Zenon DEF OneParent, n
      <4>2. SUFFICES ASSUME NEW x \in ToSet(ss[i]), NEW y \in ToSet(ss[j]), y \in B[x] PROVE FALSE
        BY Zenon
      <4>3. x \in B[kids[t][i]] /\ y \in B[kids[t][j]] BY <3>8, Zenon
      <4>4. B[x] \subseteq B[kids[t][i]] BY <1>3, <3>5, <3>6, <4>3, Zenon
      <4>5. y \in B[kids[t][i]] BY <4>2, <4>4, Zenon
      <4> QED BY <1>5, <3>5, <4>1, <4>3, <4>5, Zenon
    <3>10. Contiguous(B, FlattenSeq(ss)) BY <3>2, <3>7, <3>9, ContiguousFlat, Zenon
    <3>11. /\ FlattenSeq(ss) \in Seq(Sinks)
           /\ \A x : x \in ToSet(FlattenSeq(ss)) <=> \E i \in 1 .. Len(ss) : x \in ToSet(ss[i])
      BY <3>2, FlattenedMembers
    <3>12. \A x \in ToSet(FlattenSeq(ss)) : x \in B[t]
      <4>1. SUFFICES ASSUME NEW x \in ToSet(FlattenSeq(ss)) PROVE x \in B[t]
        BY Zenon
      <4>2. PICK i \in 1 .. n : x \in ToSet(ss[i]) BY <3>2, <3>11, Zenon
      <4>3. x \in B[kids[t][i]] BY <3>8, <4>2, Zenon
      <4> QED BY <1>6, <3>5, <4>3, Zenon
    <3>13. t \in B[t] BY <1>3, Zenon
    <3>14. Contiguous(B, <<t>> \o FlattenSeq(ss)) BY <3>10, <3>11, <3>12, <3>13, ContiguousHead, Zenon
    <3> QED BY <3>1, <3>14, Zenon
  <2> QED BY <2>1, <2>2
<1>8. \A t \in Sinks : ToSet(kids[t]) \subseteq good => t \in good BY <1>7
<1> HIDE DEF good
<1>9. \A t \in Sinks : t \in good BY <1>8, FromTheLeaves, Zenon
<1> QED BY <1>9 DEF good

\* Of two sinks in the sequence the former and the latter are a pair of the relation.
Sorted(R, q) == \A k \in 1 .. Len(q) : \A i \in 1 .. k - 1 : <<q[i], q[k]>> \in R

\* Two such sequences put together, with a pair of every sink of one and one of the other.
LEMMA SortedConcat ==
    ASSUME NEW R, NEW q \in Seq(Sinks), NEW r \in Seq(Sinks), Sorted(R, q), Sorted(R, r),
           \A x \in ToSet(q), y \in ToSet(r) : <<x, y>> \in R
    PROVE  Sorted(R, q \o r)
<1> DEFINE u == q \o r
           n == Len(q)
           m == Len(r)
<1>1. /\ n \in Nat /\ m \in Nat /\ Len(u) = n + m
      /\ \A i \in 1 .. n + m : u[i] = IF i <= n THEN q[i] ELSE r[i - n]
  BY ConcatProperties, LenProperties
<1>2. DOMAIN q = 1 .. n /\ DOMAIN r = 1 .. m BY LenProperties
<1>3. \A x \in 1 .. n : \A y \in 1 .. m : <<q[x], r[y]>> \in R BY <1>2, Zenon DEF ToSet
<1>4. \A z \in 1 .. n : \A x \in 1 .. z - 1 : <<q[x], q[z]>> \in R BY Zenon DEF Sorted
<1>5. \A z \in 1 .. m : \A x \in 1 .. z - 1 : <<r[x], r[z]>> \in R BY Zenon DEF Sorted
<1> HIDE DEF u, n, m
<1>6. ASSUME NEW k \in 1 .. n + m, NEW i \in 1 .. k - 1 PROVE <<u[i], u[k]>> \in R
  <2>1. i \in Int /\ k \in Int /\ i \in 1 .. n + m BY <1>1
  <2>2. CASE k <= n
    <3>1. k \in 1 .. n /\ i <= n BY <1>1, <2>1, <2>2
    <3>2. u[i] = q[i] /\ u[k] = q[k] BY <1>1, <2>1, <2>2, <3>1
    <3> QED BY <1>4, <1>6, <3>1, <3>2, Zenon
  <2>3. CASE ~(k <= n) /\ i <= n
    <3>1. i \in 1 .. n /\ k - n \in 1 .. m BY <1>1, <2>1, <2>3
    <3>2. u[i] = q[i] /\ u[k] = r[k - n] BY <1>1, <2>1, <2>3
    <3> QED BY <1>3, <3>1, <3>2, Zenon
  <2>4. CASE ~(i <= n)
    <3>1. k - n \in 1 .. m /\ i - n \in 1 .. (k - n) - 1 /\ ~(k <= n) BY <1>1, <2>1, <2>4
    <3>2. u[i] = r[i - n] /\ u[k] = r[k - n] BY <1>1, <2>1, <2>4, <3>1
    <3> QED BY <1>5, <3>1, <3>2, Zenon
  <2> QED BY <2>2, <2>3, <2>4, <1>1, <2>1
<1>7. Len(u) = n + m BY <1>1
<1>8. Sorted(R, u) BY <1>6, <1>7, Zenon DEF Sorted
<1> QED BY <1>8 DEF u

\* Such sequences put together, with a pair of every sink of one and one of a later one.
LEMMA SortedFlat ==
    ASSUME NEW R, NEW ss \in Seq(Seq(Sinks)), \A i \in 1 .. Len(ss) : Sorted(R, ss[i]),
           \A j \in 1 .. Len(ss) : \A i \in 1 .. j - 1 :
               \A x \in ToSet(ss[i]), y \in ToSet(ss[j]) : <<x, y>> \in R
    PROVE  Sorted(R, FlattenSeq(ss))
<1>1. PICK f : JoinsUp(ss, f, Sinks) /\ FlattenSeq(ss) = f[Len(ss)] BY Flattened
<1> DEFINE n == Len(ss)
<1>2. n \in Nat /\ \A i \in 1 .. n : ss[i] \in Seq(Sinks) BY LenProperties, ElementOfSeq
<1>3. f \in [0 .. n -> Seq(Sinks)] /\ f[0] = <<>> /\ \A i \in 1 .. n : f[i] = f[i - 1] \o ss[i]
  BY <1>1 DEF JoinsUp
<1> HIDE DEF n
<1> DEFINE Good(m) == Sorted(R, f[m]) /\ \A x \in ToSet(f[m]) : \E i \in 1 .. m : x \in ToSet(ss[i])
<1>4. \A m \in 0 .. n : Good(m)
  <2> DEFINE T == {m \in 0 .. n : ~Good(m)}
  <2>1. SUFFICES ASSUME T # {} PROVE FALSE
    <3> SUFFICES ASSUME NEW m \in 0 .. n PROVE Good(m)
      OBVIOUS
    <3> HIDE DEF Good
    <3> QED BY <2>1
  <2> HIDE DEF Good
  <2>2. T \in SUBSET Nat BY <1>2
  <2>3. PICK m \in T : \A k \in T : m <= k BY <2>1, <2>2, LeastElement
  <2>4. m \in 0 .. n /\ ~Good(m) BY <2>3
  <2>5. CASE m = 0
    <3>1. ToSet(f[0]) = {} /\ Len(f[0]) = 0 BY <1>3 DEF ToSet
    <3>2. Sorted(R, f[0]) BY <3>1 DEF Sorted
    <3> QED BY <2>4, <2>5, <3>1, <3>2 DEF Good
  <2>6. CASE m # 0
    <3>1. m \in 1 .. n /\ m - 1 \in 0 .. n /\ ~(m <= m - 1) BY <1>2, <2>4, <2>6
    <3>2. Good(m - 1) BY <2>3, <3>1
    <3>3. f[m] = f[m - 1] \o ss[m] /\ f[m - 1] \in Seq(Sinks) /\ ss[m] \in Seq(Sinks) BY <1>2, <1>3, <3>1
    <3>4. \A i \in 1 .. m - 1 : i \in 1 .. m BY <1>2, <3>1
    <3>5. \A x \in ToSet(f[m - 1]), y \in ToSet(ss[m]) : <<x, y>> \in R
      <4>1. SUFFICES ASSUME NEW x \in ToSet(f[m - 1]), NEW y \in ToSet(ss[m]) PROVE <<x, y>> \in R
        BY Zenon
      <4>2. PICK i \in 1 .. m - 1 : x \in ToSet(ss[i]) BY <3>2, Zenon DEF Good
      <4> QED BY <3>1, <4>2, Zenon DEF n
    <3>6. Sorted(R, f[m - 1]) /\ Sorted(R, ss[m]) BY <3>1, <3>2, Zenon DEF Good, n
    <3>7. Sorted(R, f[m - 1] \o ss[m]) BY <3>3, <3>5, <3>6, SortedConcat
    <3>8. ToSet(f[m]) = ToSet(f[m - 1]) \cup ToSet(ss[m])
      <4>1. ToSet(f[m - 1] \o ss[m]) = ToSet(f[m - 1]) \cup ToSet(ss[m]) BY <3>3, ConcatMembers
      <4> QED BY <3>3, <4>1, Zenon
    <3>9. m \in 1 .. m BY <3>1
    <3>10. \A x \in ToSet(f[m]) : \E i \in 1 .. m : x \in ToSet(ss[i])
      BY <3>2, <3>4, <3>8, <3>9, Zenon DEF Good
    <3> QED BY <2>4, <3>3, <3>7, <3>10, Zenon DEF Good
  <2> QED BY <2>5, <2>6
<1>5. n \in 0 .. n BY <1>2
<1>6. Sorted(R, f[n]) BY <1>4, <1>5, Zenon
<1> QED BY <1>1, <1>6, Zenon DEF n

\* Of two sinks under one parent, what is at or below the former comes before the latter.
InOrder(kids, B) ==
    {p \in Sinks \X Sinks :
        \A x \in Sinks : \A i, j \in 1 .. Len(kids[x]) :
            p[2] = kids[x][i] /\ p[1] \in B[kids[x][j]] => j < i}

\* In a walk over a forest siblings come in order, each with what is below it.
LEMMA WalkIsSorted ==
    ASSUME NEW kids, NEW rank, Ranked(kids, rank), NEW B, Reach({}, kids, B), NEW par, OneParent(kids, par),
           NEW skip, NEW v, Unfolds(skip, kids, v)
    PROVE  \A t \in Sinks : Sorted(InOrder(kids, B), v[t])
<1> DEFINE R == InOrder(kids, B)
           good == {t \in Sinks : Sorted(R, v[t])}
<1>0. \A t \in Sinks : \A i \in 1 .. Len(kids[t]) : kids[t][i] \in ToSet(kids[t])
  BY ChildrenOf, Zenon
<1>1. kids \in [Sinks -> Seq(Sinks)] BY DEF Ranked
<1>2. v \in [Sinks -> Seq(Sinks)] /\ \A t \in Sinks : v[t] = Level(skip, kids, v, t) BY DEF Unfolds
<1>3. \A t \in Sinks : t \in B[t] /\ \A x \in B[t] : x \in Sinks /\ B[x] \subseteq B[t] /\ rank[x] <= rank[t]
  BY BelowIsOrdered, Zenon
<1>4. \A t \in Sinks : ToSet(v[t]) \subseteq B[t]
  <2>1. Reach(skip, kids, Members(v)) BY WalkReaches, Zenon
  <2>3. \A t \in Sinks : ReachedFrom(skip, Members(v), B, t) BY <2>1, SkippingReaches, Zenon
  <2>2. \A t \in Sinks : Members(v)[t] \subseteq B[t] BY <2>3, Zenon DEF ReachedFrom
  <2> QED BY <2>2, Zenon DEF Members
<1>5. \A t \in Sinks : \A c, d \in ToSet(kids[t]) : c # d => \A x : ~(x \in B[c] /\ x \in B[d])
  BY SiblingsApart, Zenon
<1>6. \A t \in Sinks : \A x : x \in B[t] <=> x = t \/ \E c \in ToSet(kids[t]) : x \in B[c]
  <2>1. \A t : t \notin {} OBVIOUS
  <2> QED BY <2>1, Zenon DEF Reach
<1>7. \A t \in Sinks : \A x \in B[t] : x = t \/ par[x] \in B[t] BY ParentIsBelow, Zenon
<1>8. \A t \in Sinks : /\ \A c \in ToSet(kids[t]) : par[c] = t
                       /\ \A i, j \in 1 .. Len(kids[t]) : kids[t][i] = kids[t][j] => i = j
  BY Zenon DEF OneParent
<1>9. \A t \in Sinks : \A c \in ToSet(kids[t]) : c \in Sinks /\ rank[c] \in Nat /\ rank[c] < rank[t]
  BY ChildrenOf, Zenon
<1>10. \A t \in Sinks : rank[t] \in Nat BY DEF Ranked
<1>11. ASSUME NEW t \in Sinks, NEW m \in Sinks, NEW c \in ToSet(kids[t]), m \in B[c] PROVE <<t, m>> \in R
  <2>1. SUFFICES ASSUME NEW x \in Sinks, NEW i \in 1 .. Len(kids[x]), NEW j \in 1 .. Len(kids[x]),
                        m = kids[x][i], t \in B[kids[x][j]]
                 PROVE  FALSE
    BY DEF InOrder
  <2>2. par[m] = x /\ kids[x][j] \in Sinks /\ rank[kids[x][j]] < rank[x]
    BY <1>0, <1>8, <1>9, <2>1, Zenon
  <2>3. rank[t] <= rank[kids[x][j]] BY <1>3, <2>1, <2>2, Zenon
  <2>4. rank[m] <= rank[c] /\ rank[c] \in Nat /\ rank[c] < rank[t] BY <1>3, <1>9, <1>11, Zenon
  <2>5. m # t BY <1>10, <2>4
  <2>6. m \in B[t] BY <1>6, <1>11, Zenon
  <2>7. x \in B[t] BY <1>7, <2>2, <2>5, <2>6, Zenon
  <2>8. rank[x] <= rank[t] BY <1>3, <2>7, Zenon
  <2> QED BY <1>10, <2>2, <2>3, <2>8
<1>12. ASSUME NEW t \in Sinks, NEW l1 \in 1 .. Len(kids[t]), NEW l2 \in 1 .. Len(kids[t]), l1 < l2,
              NEW e \in Sinks, NEW m \in Sinks, e \in B[kids[t][l1]], m \in B[kids[t][l2]]
       PROVE  <<e, m>> \in R
  <2>1. SUFFICES ASSUME NEW x \in Sinks, NEW i \in 1 .. Len(kids[x]), NEW j \in 1 .. Len(kids[x]),
                        m = kids[x][i], e \in B[kids[x][j]]
                 PROVE  j < i
    BY DEF InOrder
  <2>2. par[m] = x /\ kids[x][j] \in ToSet(kids[x]) BY <1>0, <1>8, <2>1, Zenon
  <2>3. /\ kids[t][l1] \in ToSet(kids[t]) /\ kids[t][l2] \in ToSet(kids[t])
        /\ kids[t][l2] \in Sinks /\ par[kids[t][l2]] = t
    BY <1>0, <1>8, <1>9, Zenon
  <2>4. CASE m = kids[t][l2]
    <3>1. x = t BY <2>2, <2>3, <2>4, Zenon
    <3>2. i = l2 BY <1>8, <2>1, <2>4, <3>1, Zenon
    <3>3. kids[t][j] = kids[t][l1] BY <1>5, <1>12, <2>1, <2>2, <2>3, <3>1, Zenon
    <3>4. j = l1 BY <1>8, <3>1, <3>3, Zenon
    <3> QED BY <1>12, <3>2, <3>4
  <2>5. CASE m # kids[t][l2]
    <3>1. x \in B[kids[t][l2]] BY <1>7, <1>12, <2>2, <2>3, <2>5, Zenon
    <3>2. e \in B[x] BY <1>6, <2>1, <2>2, Zenon
    <3>3. e \in B[kids[t][l2]] BY <1>3, <2>3, <3>1, <3>2, Zenon
    <3>4. l1 # l2 BY <1>12
    <3>5. kids[t][l1] # kids[t][l2] BY <1>8, <3>4, Zenon
    <3> QED BY <1>5, <1>12, <2>3, <3>3, <3>5, Zenon
  <2> QED BY <2>4, <2>5
<1>13. ASSUME NEW t \in Sinks, ToSet(kids[t]) \subseteq good PROVE Sorted(R, v[t])
  <2>1. CASE t \in skip
    <3>1. v[t] = <<>> BY <1>2, <2>1, Zenon DEF Level
    <3>2. Len(v[t]) = 0 BY <3>1
    <3> QED BY <3>2 DEF Sorted
  <2>2. CASE t \notin skip
    <3> DEFINE ss == [i \in DOMAIN kids[t] |-> v[kids[t][i]]]
               n == Len(kids[t])
    <3>1. v[t] = <<t>> \o FlattenSeq(ss) BY <1>2, <2>2, Zenon DEF Level
    <3>2. ss \in Seq(Seq(Sinks)) /\ Len(ss) = n BY <1>1, <1>2, LevelOf, Zenon
    <3>3. DOMAIN kids[t] = 1 .. n /\ n \in Nat
      <4>1. kids[t] \in Seq(Sinks) BY <1>1
      <4> QED BY <4>1, LenProperties
    <3>4. \A i \in 1 .. n : ss[i] = v[kids[t][i]] BY <3>3, Zenon
    <3>5. \A i \in 1 .. n : kids[t][i] \in ToSet(kids[t]) BY <3>3, Zenon DEF ToSet
    <3>6. \A c \in ToSet(kids[t]) : c \in Sinks /\ Sorted(R, v[c]) BY <1>13
    <3> HIDE DEF ss, R
    <3>7. \A i \in 1 .. n : Sorted(R, ss[i]) BY <3>4, <3>5, <3>6, Zenon
    <3>8. \A i \in 1 .. n : ToSet(ss[i]) \subseteq B[kids[t][i]] BY <1>4, <3>4, <3>5, <3>6, Zenon
    <3>9. ASSUME NEW j \in 1 .. n, NEW i \in 1 .. j - 1
          PROVE  \A x \in ToSet(ss[i]), y \in ToSet(ss[j]) : <<x, y>> \in R
      <4>1. i \in 1 .. n /\ i < j BY <3>3
      <4>2. SUFFICES ASSUME NEW x \in ToSet(ss[i]), NEW y \in ToSet(ss[j]) PROVE <<x, y>> \in R
        BY Zenon
      <4>3. x \in B[kids[t][i]] /\ y \in B[kids[t][j]] BY <3>8, <4>1, Zenon
      <4>4. x \in Sinks /\ y \in Sinks BY <1>3, <3>5, <3>6, <4>1, <4>3, Zenon
      <4> QED BY <1>12, <4>1, <4>3, <4>4, Zenon DEF n
    <3>10. Sorted(R, FlattenSeq(ss)) BY <3>2, <3>7, <3>9, SortedFlat, Zenon
    <3>11. /\ FlattenSeq(ss) \in Seq(Sinks)
           /\ \A x : x \in ToSet(FlattenSeq(ss)) <=> \E i \in 1 .. Len(ss) : x \in ToSet(ss[i])
      BY <3>2, FlattenedMembers
    <3>12. \A x \in ToSet(FlattenSeq(ss)) : <<t, x>> \in R
      <4>1. SUFFICES ASSUME NEW x \in ToSet(FlattenSeq(ss)) PROVE <<t, x>> \in R
        BY Zenon
      <4>2. PICK i \in 1 .. n : x \in ToSet(ss[i]) BY <3>2, <3>11, Zenon
      <4>3. x \in B[kids[t][i]] BY <3>8, <4>2, Zenon
      <4>4. x \in Sinks BY <1>3, <3>5, <3>6, <4>3, Zenon
      <4> QED BY <1>11, <3>5, <4>3, <4>4, Zenon
    <3> DEFINE a == <<t>>
               b == FlattenSeq(ss)
    <3>13. a \in Seq(Sinks) /\ Len(a) = 1 /\ ToSet(a) = {t} BY DEF ToSet
    <3>14. b \in Seq(Sinks) /\ Sorted(R, b) /\ \A x \in ToSet(b) : <<t, x>> \in R
      BY <3>10, <3>11, <3>12, Zenon
    <3>15. v[t] = a \o b BY <3>1, Zenon
    <3> HIDE DEF a, b
    <3>16. Sorted(R, a) BY <3>13 DEF Sorted
    <3>17. \A x \in ToSet(a), y \in ToSet(b) : <<x, y>> \in R BY <3>13, <3>14
    <3>18. Sorted(R, a \o b) BY <3>13, <3>14, <3>16, <3>17, SortedConcat, Zenon
    <3> QED BY <3>15, <3>18, Zenon
  <2> QED BY <2>1, <2>2
<1> HIDE DEF R
<1>14. \A t \in Sinks : ToSet(kids[t]) \subseteq good => t \in good BY <1>13
<1> HIDE DEF good
<1>15. \A t \in Sinks : t \in good BY <1>14, FromTheLeaves, Zenon
<1> QED BY <1>15 DEF good, R

\* A child of a closed sink is closed, or a leaf at or below a child before it raised.
ClosedInOrder(kids, B, closed, fails) ==
    \A x \in closed : \A i \in 1 .. Len(kids[x]) :
        \/ kids[x][i] \in closed
        \/ \E j \in 1 .. i - 1 : \E f \in fails : f \in B[kids[x][j]]

\* A walk ends with its last sink or with a leaf that raises.
StopsAt(kids, q, end, fails) ==
    end = Len(q) \/ (end \in 1 .. Len(q) /\ kids[q[end]] = <<>> /\ q[end] \in fails)

UpTo(q, end) == {q[i] : i \in 1 .. end}

\* A walk closes what it visits up to its end, or up to a leaf that raises: what it
\* leaves open comes after that leaf (cleanup).
LEMMA CleansUp ==
    ASSUME NEW kids, NEW rank, Ranked(kids, rank), NEW B, Reach({}, kids, B), NEW par, OneParent(kids, par),
           NEW closed \in SUBSET Sinks, NEW v, Unfolds(closed, kids, v), NEW fails,
           ClosedInOrder(kids, B, closed, fails),
           NEW s \in Sinks, NEW end, end \in 0 .. Len(v[s]), NEW more, StopsAt(kids, v[s], end, more)
    PROVE  ClosedInOrder(kids, B, closed \cup UpTo(v[s], end), fails \cup more)
<1> DEFINE q == v[s]
           A == Members(v)
           new == {q[i] : i \in 1 .. end}
<1>1. q \in Seq(Sinks) /\ A \in [Sinks -> SUBSET Sinks] /\ Reach(closed, kids, A)
  <2>1. v \in [Sinks -> Seq(Sinks)] BY DEF Unfolds
  <2>2. q \in Seq(Sinks) BY <2>1
  <2>3. Reach(closed, kids, A) BY WalkReaches, Zenon
  <2>4. A \in [Sinks -> SUBSET Sinks] BY <2>3, Zenon DEF Reach
  <2> QED BY <2>2, <2>3, <2>4
<1>2. Len(q) \in Nat /\ DOMAIN q = 1 .. Len(q) /\ \A i \in 1 .. Len(q) : q[i] \in Sinks
  BY <1>1, LenProperties, ElementOfSeq
<1>3. A[s] = ToSet(q) BY Zenon DEF Members
<1>4. Contiguous(B, q) /\ Sorted(InOrder(kids, B), q) BY WalkIsContiguous, WalkIsSorted, Zenon
<1>5. \A t \in Sinks : \A x : x \in B[t] <=> x = t \/ \E c \in ToSet(kids[t]) : x \in B[c]
  <2>1. \A t : t \notin {} OBVIOUS
  <2> QED BY <2>1, Zenon DEF Reach
<1>6. \A t \in Sinks : /\ A[t] \subseteq B[t]
                       /\ \A x \in A[t] : x \notin closed /\ A[x] \subseteq A[t]
  <2>1. \A t \in Sinks : ReachedFrom(closed, A, B, t) BY <1>1, SkippingReaches, Zenon
  <2> QED BY <2>1, Zenon DEF ReachedFrom
<1>7. \A t \in Sinks : t \notin closed => \A x : x \in A[t] <=> x = t \/ \E c \in ToSet(kids[t]) : x \in A[c]
  BY <1>1, Zenon DEF Reach
<1> HIDE DEF A, q
<1>8. SUFFICES ASSUME NEW x \in closed \cup new, NEW i \in 1 .. Len(kids[x]),
                      kids[x][i] \notin closed, kids[x][i] \notin new
               PROVE  \E j \in 1 .. i - 1 : \E f \in fails \cup more : f \in B[kids[x][j]]
  BY Zenon DEF ClosedInOrder, UpTo, q
<1>9. CASE x \in closed
  <2>1. \E j \in 1 .. i - 1 : \E f \in fails : f \in B[kids[x][j]]
    BY <1>8, <1>9, Zenon DEF ClosedInOrder
  <2> QED BY <2>1, Zenon
<1>10. CASE x \in new /\ x \notin closed
  <2> DEFINE c == kids[x][i]
  <2>1. PICK k \in 1 .. end : x = q[k] BY <1>10, Zenon
  <2>2. end \in 0 .. Len(q) /\ k \in 1 .. Len(q)
    <3>1. end \in 0 .. Len(q) BY DEF q
    <3> QED BY <1>2, <3>1
  <2>3. x \in Sinks BY <1>2, <2>1, <2>2, Zenon
  <2>4. c \in ToSet(kids[x]) /\ c \in Sinks
    <3>1. \A d : d \in ToSet(kids[x]) <=> \E l \in 1 .. Len(kids[x]) : d = kids[x][l]
      BY <2>3, ChildrenOf, Zenon
    <3>2. c \in ToSet(kids[x]) BY <3>1, Zenon
    <3>3. ToSet(kids[x]) \subseteq Sinks BY <2>3, ChildrenOf, Zenon
    <3> QED BY <3>2, <3>3
  <2>5. c \in A[x]
    <3>1. c \in A[c] BY <1>7, <1>8, <2>4, Zenon
    <3> QED BY <1>7, <1>10, <2>3, <2>4, <3>1, Zenon
  <2>6. c \in ToSet(q)
    <3>1. x \in A[s] BY <1>2, <1>3, <2>1, <2>2, Zenon DEF ToSet
    <3>2. A[x] \subseteq A[s] BY <1>6, <3>1, Zenon
    <3> QED BY <1>3, <2>5, <3>2, Zenon
  <2>7. PICK m \in 1 .. Len(q) : c = q[m] BY <1>2, <2>6, Zenon DEF ToSet
  <2>8. ~(m <= end)
    <3>1. m \in 1 .. end => c \in new BY <2>7, Zenon
    <3>2. m <= end => m \in 1 .. end BY <2>2
    <3> QED BY <1>8, <3>1, <3>2
  <2>9. end \in k .. m /\ end \in 1 .. m - 1 /\ end # Len(q)
    <3> DEFINE n == Len(q)
    <3>1. n \in Nat /\ end \in 0 .. n /\ k \in 1 .. end /\ m \in 1 .. n /\ ~(m <= end)
      BY <1>2, <2>2, <2>8, Zenon
    <3> HIDE DEF n
    <3>2. end \in k .. m /\ end \in 1 .. m - 1 /\ end # n BY <3>1
    <3> QED BY <3>2 DEF n
  <2> DEFINE f == q[end]
  <2>10. end \in 1 .. Len(q) /\ kids[f] = <<>> /\ f \in more BY <2>9, Zenon DEF q, StopsAt
  <2>11. f \in B[x]
    <3>1. c \in B[x] BY <1>6, <2>3, <2>5, Zenon
    <3> QED BY <1>4, <2>1, <2>2, <2>7, <2>9, <3>1, Zenon DEF Contiguous
  <2>12. f # x
    <3>1. SUFFICES ASSUME f = x PROVE FALSE
      OBVIOUS
    <3>2. kids[x] = <<>> BY <2>10, <3>1, Zenon
    <3>3. ToSet(<<>>) = {} BY DEF ToSet
    <3> QED BY <2>4, <3>2, <3>3, Zenon
  <2>13. <<f, c>> \in InOrder(kids, B) BY <1>4, <2>7, <2>9, Zenon DEF Sorted
  <2>14. PICK d \in ToSet(kids[x]) : f \in B[d] BY <1>5, <2>3, <2>11, <2>12, Zenon
  <2>15. PICK j \in 1 .. Len(kids[x]) : d = kids[x][j]
    <3>1. \A y : y \in ToSet(kids[x]) <=> \E l \in 1 .. Len(kids[x]) : y = kids[x][l]
      BY <2>3, ChildrenOf, Zenon
    <3> QED BY <2>14, <3>1, Zenon
  <2>16. j < i
    <3> DEFINE p == <<f, c>>
    <3>1. p[1] = f /\ p[2] = c OBVIOUS
    <3>2. p \in InOrder(kids, B) BY <2>13
    <3> HIDE DEF p, f
    <3>3. p[2] = kids[x][i] /\ p[1] \in B[kids[x][j]] => j < i
      BY <2>3, <3>2, Zenon DEF InOrder
    <3> QED BY <2>14, <2>15, <3>1, <3>3, Zenon
  <2>17. j \in 1 .. i - 1
    <3>1. i \in Int /\ j \in Int /\ 1 <= j BY <1>8
    <3> QED BY <2>16, <3>1
  <2> HIDE DEF f
  <2> QED BY <2>10, <2>14, <2>15, <2>17, Zenon
<1> QED BY <1>8, <1>9, <1>10

-----------------------------------------------------------------------------
Lower(kids) == [t \in Sinks |-> ToSet(Walk(kids, t))]

\* What a whole walk reaches, in a forest.
LEMMA LowerReaches ==
    ASSUME NEW kids, NEW rank, Ranked(kids, rank)
    PROVE  Reach({}, kids, Lower(kids))
<1>0. PICK w : IsWalk({}, kids, w) BY WalkUnfolds, Zenon
<1>1. Unfolds({}, kids, w) /\ \A s \in Sinks : WalkBut({}, kids, s) = w[s] BY <1>0, Zenon DEF IsWalk
<1>2. Reach({}, kids, Members(w)) BY <1>1, WalkReaches, Zenon
<1>3. \A t \in Sinks : ToSet(Walk(kids, t)) = ToSet(w[t]) BY <1>1, Zenon DEF Walk
<1>4. [t \in Sinks |-> ToSet(Walk(kids, t))] = [t \in Sinks |-> ToSet(w[t])] BY <1>3, Zenon
<1>5. Lower(kids) = Members(w) BY <1>4, Zenon DEF Lower, Members
<1> QED BY <1>2, <1>5, Zenon

AgreeOn(S, B, B2) == \A t \in Sinks : t \in S => B2[t] = B[t]

Keeps(S, kids, kids2) == \A t \in Sinks : t \in S => kids2[t] = kids[t] /\ ToSet(kids[t]) \subseteq S

\* Where the children do not change, neither does what is below.
LEMMA SameBelow ==
    ASSUME NEW kids, NEW rank, Ranked(kids, rank), NEW B, Reach({}, kids, B),
           NEW kids2, NEW B2, Reach({}, kids2, B2), NEW S, Keeps(S, kids, kids2)
    PROVE  AgreeOn(S, B, B2)
<1> DEFINE Fine(t) == t \in S => B2[t] = B[t]
           good == {t \in Sinks : Fine(t)}
<1>0. \A t : t \notin {} OBVIOUS
<1>1. \A t \in Sinks : \A x : x \in B[t] <=> x = t \/ \E c \in ToSet(kids[t]) : x \in B[c]
  BY <1>0, Zenon DEF Reach
<1>2. \A t \in Sinks : \A x : x \in B2[t] <=> x = t \/ \E c \in ToSet(kids2[t]) : x \in B2[c]
  BY <1>0, Zenon DEF Reach
<1>3. ASSUME NEW t \in Sinks, ToSet(kids[t]) \subseteq good, t \in S PROVE B2[t] = B[t]
  <2>0. kids2[t] = kids[t] /\ ToSet(kids[t]) \subseteq S BY <1>3, Zenon DEF Keeps
  <2>1. kids2[t] = kids[t] /\ \A c \in ToSet(kids[t]) : B2[c] = B[c] BY <1>3, <2>0
  <2>2. \A x : x \in B2[t] <=> x \in B[t] BY <1>1, <1>2, <2>1, Zenon
  <2>3. B \in [Sinks -> SUBSET Sinks] /\ B2 \in [Sinks -> SUBSET Sinks] BY Zenon DEF Reach
  <2> QED BY <2>2, <2>3
<1>4. \A t \in Sinks : ToSet(kids[t]) \subseteq good => Fine(t) BY <1>3
<1> HIDE DEF Fine
<1>5. \A t \in Sinks : ToSet(kids[t]) \subseteq good => t \in good BY <1>4
<1> HIDE DEF good
<1>6. \A t \in Sinks : t \in good BY <1>5, FromTheLeaves, Zenon
<1>7. \A t \in Sinks : t \in S => B2[t] = B[t] BY <1>6 DEF good, Fine
<1> QED BY <1>7, Zenon DEF AgreeOn

\* The trees: who is made, whose children they are, and how high they stand.
Shape(md, kids, par, rank) ==
    /\ Ranked(kids, rank)
    /\ OneParent(kids, par)
    /\ md \subseteq Sinks
    /\ par \in [Sinks -> Sinks \cup {NoSink}]
    /\ \A t \in Sinks : ToSet(kids[t]) \subseteq md
    /\ \A t \in Sinks : t \in md => rank[t] < Cardinality(md)
    /\ \A t \in Sinks : t \notin md => kids[t] = <<>>
    /\ \A t \in Sinks : par[t] # NoSink => t \in ToSet(kids[par[t]])

\* What is below a sink that was made was made.
LEMMA BelowIsMade ==
    ASSUME NEW md, NEW kids, NEW par, NEW rank, Shape(md, kids, par, rank), NEW s \in Sinks, s \in md
    PROVE  Lower(kids)[s] \subseteq md
<1> DEFINE B == Lower(kids)
<1>1. Ranked(kids, rank) /\ OneParent(kids, par) BY DEF Shape
<1>2. Reach({}, kids, B) BY <1>1, LowerReaches, Zenon
<1> HIDE DEF B
<1>3. \A t \in Sinks : \A x \in B[t] : x = t \/ par[x] \in B[t] BY <1>1, <1>2, ParentIsBelow, Zenon
<1>4. B \in [Sinks -> SUBSET Sinks] BY <1>2, Zenon DEF Reach
<1>5. ASSUME NEW x \in B[s], x # s PROVE x \in md
  <2>1. par[x] \in Sinks /\ x \in Sinks BY <1>3, <1>4, <1>5
  <2>2. par[x] # NoSink BY <2>1, SinkAssumption DEF SinkAssumption
  <2>3. x \in ToSet(kids[par[x]]) /\ ToSet(kids[par[x]]) \subseteq md BY <2>1, <2>2, Zenon DEF Shape
  <2> QED BY <2>3
<1> QED BY <1>5 DEF B

\* Whatever raises, a cleanup closes the children of a sink in order, up to a failure
\* (cleanup).
LEMMA EffectReaches ==
    ASSUME NEW kids, NEW rank, Ranked(kids, rank), NEW par, OneParent(kids, par), sink_closed \subseteq Sinks,
           NEW fails, ClosedInOrder(kids, Lower(kids), sink_closed, fails), NEW s \in Sinks, NEW bad,
           NEW effect, effect = CleanupEffect(kids, s, bad)
    PROVE  /\ ClosedInOrder(kids, Lower(kids), sink_closed \cup effect.closed, fails \cup effect.failed)
           /\ effect.closed \subseteq Lower(kids)[s]
<1> DEFINE B == Lower(kids)
           seq == Visited(kids, s)
           hits == {i \in DOMAIN seq : seq[i] \in bad /\ Leaf(kids, seq[i])}
           end == IF hits = {} THEN Len(seq) ELSE CHOOSE i \in hits : \A j \in hits : i <= j
           more == IF hits = {} THEN {} ELSE {seq[end]}
<1>1. effect.closed = UpTo(seq, end) /\ effect.failed = more
  <2>1. effect = [closed |-> UpTo(seq, end), failed |-> more] BY Zenon DEF CleanupEffect, UpTo
  <2> HIDE DEF end, more, seq
  <2> QED BY <2>1
<1>0. PICK v : IsWalk(sink_closed, kids, v) BY WalkUnfolds, Zenon
<1>2. Unfolds(sink_closed, kids, v) /\ \A x \in Sinks : WalkBut(sink_closed, kids, x) = v[x]
  BY <1>0, Zenon DEF IsWalk
<1>3. seq = v[s] BY <1>2, Zenon DEF Visited
<1>4. Reach({}, kids, B) BY LowerReaches, Zenon
<1>6. Len(seq) \in Nat /\ DOMAIN seq = 1 .. Len(seq) /\ ToSet(seq) \subseteq B[s]
  <2>1. v \in [Sinks -> Seq(Sinks)] BY <1>2, Zenon DEF Unfolds
  <2>2. v[s] \in Seq(Sinks) BY <2>1
  <2>3. seq \in Seq(Sinks) BY <1>3, <2>2, Zenon
  <2>4. Reach(sink_closed, kids, Members(v)) BY <1>2, WalkReaches, Zenon
  <2> HIDE DEF B, seq
  <2>5. \A t \in Sinks : ReachedFrom(sink_closed, Members(v), B, t) BY <1>4, <2>4, SkippingReaches, Zenon
  <2>6. ToSet(v[s]) \subseteq B[s] BY <2>5, Zenon DEF ReachedFrom, Members
  <2>7. Len(seq) \in Nat /\ DOMAIN seq = 1 .. Len(seq) BY <2>3, LenProperties
  <2> QED BY <1>3, <2>6, <2>7, Zenon
<1> HIDE DEF B, seq
<1>7. hits = {} \/ \E i \in hits : \A j \in hits : i <= j
  <2>1. hits \subseteq Nat BY <1>6
  <2> HIDE DEF hits
  <2> QED BY <2>1, LeastElement
<1>8. \/ hits = {} /\ end = Len(seq)
      \/ end \in hits /\ more = {seq[end]}
  <2> HIDE DEF hits
  <2>1. CASE hits = {} BY <2>1, Zenon
  <2>2. CASE hits # {}
    <3>1. end = CHOOSE i \in hits : \A j \in hits : i <= j BY <2>2, Zenon
    <3>2. end \in hits BY <1>7, <2>2, <3>1, Zenon
    <3>3. more = {seq[end]} BY <2>2, Zenon
    <3> QED BY <3>2, <3>3
  <2> QED BY <2>1, <2>2
<1>9. end \in hits => end \in 1 .. Len(seq) /\ kids[seq[end]] = <<>> BY <1>6, Zenon DEF Leaf
<1> HIDE DEF hits, end, more
<1>11. end \in 0 .. Len(seq) BY <1>6, <1>8, <1>9
<1>12. StopsAt(kids, seq, end, more) BY <1>8, <1>9 DEF StopsAt
<1>13. ClosedInOrder(kids, B, sink_closed, fails) BY Zenon DEF B
<1>14. ClosedInOrder(kids, B, sink_closed \cup UpTo(seq, end), fails \cup more)
  <2>1. end \in 0 .. Len(v[s]) BY <1>3, <1>11, Zenon
  <2>2. StopsAt(kids, v[s], end, more) BY <1>3, <1>12, Zenon
  <2>3. sink_closed \in SUBSET Sinks OBVIOUS
  <2>4. ClosedInOrder(kids, B, sink_closed \cup UpTo(v[s], end), fails \cup more)
    BY <1>2, <1>4, <1>13, <2>1, <2>2, <2>3, CleansUp, Zenon
  <2> QED BY <1>3, <2>4, Zenon
<1>15. UpTo(seq, end) \subseteq B[s]
  <2>1. \A i \in 1 .. end : i \in DOMAIN seq BY <1>6, <1>11
  <2>2. \A i \in 1 .. end : seq[i] \in ToSet(seq) BY <2>1, Zenon DEF ToSet
  <2> QED BY <1>6, <2>2, Zenon DEF UpTo
<1> QED BY <1>1, <1>14, <1>15, Zenon DEF B

-----------------------------------------------------------------------------
\* The beginning of a sequence.
LEMMA Beginning ==
    ASSUME NEW S, NEW d \in Seq(S), NEW n \in 0 .. Len(d)
    PROVE  /\ SubSeq(d, 1, n) \in Seq(S) /\ Len(SubSeq(d, 1, n)) = n
           /\ \A i \in 1 .. n : i \in 1 .. Len(d) /\ SubSeq(d, 1, n)[i] = d[i]
           /\ \A x : x \in ToSet(SubSeq(d, 1, n)) <=> \E i \in 1 .. n : x = d[i]
<1> DEFINE b == SubSeq(d, 1, n)
<1>1. Len(d) \in Nat /\ n \in Nat /\ \A i \in 1 .. Len(d) : d[i] \in S BY LenProperties, ElementOfSeq
<1>2. 1 \in Int /\ n \in Int /\ \A i \in 1 .. n : i \in 1 .. Len(d) /\ d[i] \in S BY <1>1
<1>3. /\ b \in Seq(S) /\ Len(b) = (IF 1 <= n THEN n - 1 + 1 ELSE 0)
      /\ \A i \in 1 .. n - 1 + 1 : b[i] = d[1 + i - 1]
  <2> DEFINE one == 1
  <2>1. one \in Int /\ \A i \in one .. n : d[i] \in S BY <1>2
  <2> HIDE DEF one
  <2>2. /\ SubSeq(d, one, n) \in Seq(S) /\ Len(SubSeq(d, one, n)) = (IF one <= n THEN n - one + 1 ELSE 0)
        /\ \A i \in 1 .. n - one + 1 : SubSeq(d, one, n)[i] = d[one + i - 1]
    BY <1>2, <2>1, SubSeqProperties
  <2> QED BY <2>2 DEF one
<1> HIDE DEF b
<1>4. Len(b) = n BY <1>1, <1>3
<1>5. \A i \in 1 .. n : b[i] = d[i] BY <1>1, <1>3
<1>6. DOMAIN b = 1 .. n BY <1>3, <1>4, LenProperties
<1>7. \A x : x \in ToSet(b) <=> \E i \in 1 .. n : x = d[i] BY <1>5, <1>6, Zenon DEF ToSet
<1> QED BY <1>2, <1>3, <1>4, <1>5, <1>7 DEF b

\* The destinations that a constructor accepts are open sinks without a parent, each
\* other than those before it (_check_child).
LEMMA AcceptedAreNew ==
    ASSUME NEW s \in Sinks, NEW dests \in Seq(Sinks)
    PROVE  /\ Accepted(s, dests) \in 0 .. Len(dests)
           /\ \A i \in 1 .. Accepted(s, dests) :
                 /\ dests[i] # s /\ parent[dests[i]] = NoSink /\ dests[i] \notin sink_closed
                 /\ \A j \in 1 .. i - 1 : dests[j] # dests[i]
<1> DEFINE early(i) == ToSet(SubSeq(dests, 1, i - 1))
           check(i) == CheckChild([children EXCEPT ![s] = SubSeq(dests, 1, i - 1)],
                                  [t \in Sinks |-> IF t \in early(i) THEN s ELSE parent[t]], s, dests[i])
           ok(n) == \A i \in 1 .. n : check(i)
           n == Accepted(s, dests)
           T == {m \in 0 .. Len(dests) : m = Len(dests) \/ ~ok(m + 1)}
<1>1. Len(dests) \in Nat /\ \A i \in 1 .. Len(dests) : dests[i] \in Sinks BY LenProperties, ElementOfSeq
<1>2. n = CHOOSE m \in 0 .. Len(dests) : ok(m) /\ (m = Len(dests) \/ ~ok(m + 1)) BY Zenon DEF Accepted
<1>3. \E m \in 0 .. Len(dests) : ok(m) /\ (m = Len(dests) \/ ~ok(m + 1))
  <2> HIDE DEF ok
  <2>1. T \in SUBSET Nat /\ Len(dests) \in T BY <1>1
  <2>2. PICK m \in T : \A k \in T : m <= k BY <2>1, LeastElement
  <2>3. m \in 0 .. Len(dests) /\ (m = Len(dests) \/ ~ok(m + 1)) BY <2>2
  <2>4. ok(m)
    <3>1. CASE m = 0
      <4>1. 1 .. 0 = {} OBVIOUS
      <4> QED BY <3>1, <4>1 DEF ok
    <3>2. CASE m # 0
      <4>1. m - 1 \in 0 .. Len(dests) /\ ~(m <= m - 1) /\ m - 1 # Len(dests) /\ (m - 1) + 1 = m
        BY <1>1, <2>3, <3>2
      <4>2. m - 1 \notin T BY <2>2, <4>1
      <4>3. ok((m - 1) + 1) BY <4>1, <4>2
      <4> QED BY <4>1, <4>3
    <3> QED BY <3>1, <3>2
  <2> QED BY <2>3, <2>4
<1>4. n \in 0 .. Len(dests) /\ ok(n)
  <2> HIDE DEF ok, n
  <2> QED BY <1>2, <1>3
<1> HIDE DEF n, early
<1>5. ASSUME NEW i \in 1 .. n
      PROVE  /\ dests[i] # s /\ parent[dests[i]] = NoSink /\ dests[i] \notin sink_closed
             /\ \A j \in 1 .. i - 1 : dests[j] # dests[i]
  <2>1. check(i) BY <1>4, Zenon
  <2>2. i \in 1 .. Len(dests) /\ i - 1 \in 0 .. Len(dests) BY <1>1, <1>4
  <2>3. dests[i] \in Sinks BY <1>1, <2>2
  <2>4. /\ dests[i] # s /\ dests[i] \notin sink_closed
        /\ [t \in Sinks |-> IF t \in early(i) THEN s ELSE parent[t]][dests[i]] = NoSink
    BY <2>1, Zenon DEF CheckChild
  <2>5. (IF dests[i] \in early(i) THEN s ELSE parent[dests[i]]) = NoSink BY <2>3, <2>4, Zenon
  <2>6. s # NoSink BY SinkAssumption DEF SinkAssumption
  <2>7. dests[i] \notin early(i) /\ parent[dests[i]] = NoSink BY <2>5, <2>6, Zenon
  <2>8. \A j \in 1 .. i - 1 : dests[j] \in early(i)
    <3> DEFINE m == i - 1
    <3>1. m \in 0 .. Len(dests) BY <2>2
    <3> HIDE DEF m
    <3>2. \A x : x \in ToSet(SubSeq(dests, 1, m)) <=> \E j \in 1 .. m : x = dests[j] BY <3>1, Beginning
    <3> QED BY <3>2, Zenon DEF m, early
  <2> QED BY <2>4, <2>7, <2>8, Zenon
<1> QED BY <1>4, <1>5 DEF n

\* A new sink stands above its children, which had no parent (MediaSink.__init__).
LEMMA ConstructShape ==
    ASSUME NEW rank, Shape(made, children, parent, rank), NEW s \in Sinks, NEW dests \in Seq(Sinks),
           Construct(s, dests)
    PROVE  \E rank2 : Shape(made', children', parent', rank2)
<1> DEFINE n == Accepted(s, dests)
           k == SubSeq(dests, 1, n)
           h == Cardinality(made)
           rank2 == [t \in Sinks |-> IF t = s THEN h ELSE rank[t]]
<1>1. /\ s \notin made /\ ToSet(dests) \subseteq made /\ made' = made \cup {s}
      /\ children' = [children EXCEPT ![s] = k]
  BY Zenon DEF Construct
<1>2. parent' = [t \in Sinks |-> IF t \in ToSet([children EXCEPT ![s] = k][s]) THEN s ELSE parent[t]]
  BY Zenon DEF Construct
<1>3. /\ n \in 0 .. Len(dests)
      /\ \A i \in 1 .. n : dests[i] # s /\ parent[dests[i]] = NoSink /\ \A j \in 1 .. i - 1 : dests[j] # dests[i]
  BY AcceptedAreNew
<1>4. /\ children \in [Sinks -> Seq(Sinks)] /\ rank \in [Sinks -> Nat] /\ made \subseteq Sinks
      /\ \A t \in Sinks : rank[t] < Cardinality(Sinks)
      /\ \A t \in Sinks : \A i \in 1 .. Len(children[t]) : rank[children[t][i]] < rank[t]
      /\ parent \in [Sinks -> Sinks \cup {NoSink}]
      /\ \A t \in Sinks : ToSet(children[t]) \subseteq made
      /\ \A t \in Sinks : t \in made => rank[t] < h
      /\ \A t \in Sinks : t \notin made => children[t] = <<>>
      /\ \A t \in Sinks : parent[t] # NoSink => t \in ToSet(children[parent[t]])
  BY Zenon DEF Shape, Ranked
<1>5. /\ k \in Seq(Sinks) /\ Len(k) = n /\ \A i \in 1 .. n : i \in 1 .. Len(dests) /\ k[i] = dests[i]
      /\ \A x : x \in ToSet(k) <=> \E i \in 1 .. n : x = dests[i]
  <2> HIDE DEF n
  <2> QED BY <1>3, Beginning
<1>6. h \in Nat /\ Cardinality(made') = h + 1 /\ h < Cardinality(Sinks) /\ made' \subseteq Sinks
  <2>1. IsFiniteSet(Sinks) /\ IsFiniteSet(made) BY <1>4, SinkAssumption, FS_Subset DEF SinkAssumption
  <2>2. IsFiniteSet(made') /\ Cardinality(made') = h + 1 BY <1>1, <2>1, FS_AddElement
  <2>3. made' \subseteq Sinks BY <1>1, <1>4
  <2>4. Cardinality(made') <= Cardinality(Sinks) BY <2>1, <2>3, FS_Subset
  <2>5. h \in Nat /\ Cardinality(Sinks) \in Nat BY <2>1, FS_CardinalityType
  <2> QED BY <2>2, <2>3, <2>4, <2>5
<1> HIDE DEF n, k, h
<1>7. children'[s] = k /\ \A t \in Sinks : t # s => children'[t] = children[t] BY <1>1, <1>4
<1>8. children' \in [Sinks -> Seq(Sinks)] BY <1>1, <1>4, <1>5
<1>9. [children EXCEPT ![s] = k][s] = k BY <1>4
<1>10. parent' = [t \in Sinks |-> IF t \in ToSet(k) THEN s ELSE parent[t]] BY <1>2, <1>9, Zenon
<1>11. \A x \in ToSet(k) : x \in made /\ x # s /\ parent[x] = NoSink
  <2>1. SUFFICES ASSUME NEW x \in ToSet(k) PROVE x \in made /\ x # s /\ parent[x] = NoSink
    BY Zenon
  <2>2. PICK i \in 1 .. n : x = dests[i] BY <1>5, Zenon
  <2>3. i \in DOMAIN dests
    <3>1. DOMAIN dests = 1 .. Len(dests) BY LenProperties
    <3> QED BY <1>5, <3>1
  <2>4. x \in ToSet(dests) BY <2>2, <2>3, Zenon DEF ToSet
  <2> QED BY <1>1, <1>3, <2>2, <2>4, Zenon
<1>12. s # NoSink /\ \A t \in Sinks : t # NoSink BY SinkAssumption DEF SinkAssumption
<1>13. \A t \in Sinks : \A c \in ToSet(children[t]) : parent[c] = t BY Zenon DEF Shape, OneParent
<1>14. Ranked(children', rank2)
  <2>1. rank2 \in [Sinks -> Nat] /\ \A t \in Sinks : rank2[t] < Cardinality(Sinks) BY <1>4, <1>6
  <2>2. rank2[s] = h /\ \A t \in Sinks : t # s => rank2[t] = rank[t] OBVIOUS
  <2> HIDE DEF rank2
  <2>3. ASSUME NEW t \in Sinks, NEW i \in 1 .. Len(children'[t]) PROVE rank2[children'[t][i]] < rank2[t]
    <3>1. CASE t = s
      <4>1. i \in 1 .. n BY <1>5, <1>7, <2>3, <3>1, Zenon
      <4>2. k[i] \in ToSet(k) BY <1>5, <4>1, Zenon
      <4>3. k[i] \in made /\ k[i] # s /\ k[i] \in Sinks BY <1>4, <1>11, <4>2
      <4>4. rank2[k[i]] = rank[k[i]] /\ rank[k[i]] < h BY <1>4, <2>2, <4>3, Zenon
      <4> QED BY <1>7, <2>2, <3>1, <4>4, Zenon
    <3>2. CASE t # s
      <4>1. children'[t] = children[t] /\ rank2[t] = rank[t] BY <1>7, <2>2, <3>2, Zenon
      <4>2. children[t][i] \in ToSet(children[t])
        <5>1. children[t] \in Seq(Sinks) BY <1>4
        <5>2. i \in DOMAIN children[t] BY <2>3, <4>1, <5>1, LenProperties
        <5> QED BY <5>2, Zenon DEF ToSet
      <4>3. children[t][i] \in made /\ children[t][i] \in Sinks BY <1>4, <4>2
      <4>4. rank2[children[t][i]] = rank[children[t][i]] BY <1>1, <2>2, <4>3, Zenon
      <4>5. rank[children[t][i]] < rank[t] BY <1>4, <2>3, <4>1, Zenon
      <4> QED BY <4>1, <4>4, <4>5, Zenon
    <3> QED BY <3>1, <3>2
  <2> QED BY <1>8, <2>1, <2>3, Zenon DEF Ranked
<1>15. \A t \in Sinks : t \in made' => rank2[t] < Cardinality(made')
  <2>1. \A t \in Sinks : t \in made => rank[t] \in Nat /\ rank[t] < h BY <1>4
  <2> QED BY <1>1, <1>6, <2>1
<1> HIDE DEF rank2
<1>16. OneParent(children', parent')
  <2>1. ASSUME NEW t \in Sinks
        PROVE  /\ \A c \in ToSet(children'[t]) : parent'[c] = t
               /\ \A i, j \in 1 .. Len(children'[t]) : children'[t][i] = children'[t][j] => i = j
    <3>1. CASE t = s
      <4>1. \A c \in ToSet(k) : parent'[c] = s
        <5>1. \A c \in ToSet(k) : c \in Sinks BY <1>4, <1>11
        <5> QED BY <1>10, <5>1, Zenon
      <4>2. ASSUME NEW i \in 1 .. n, NEW j \in 1 .. n, k[i] = k[j] PROVE i = j
        <5>1. dests[i] = dests[j] BY <1>5, <4>2, Zenon
        <5>2. ~(j \in 1 .. i - 1) /\ ~(i \in 1 .. j - 1) BY <1>3, <5>1, Zenon
        <5> QED BY <1>3, <5>2
      <4> QED BY <1>5, <1>7, <3>1, <4>1, <4>2, Zenon
    <3>2. CASE t # s
      <4>1. children'[t] = children[t] BY <1>7, <3>2, Zenon
      <4>2. ASSUME NEW c \in ToSet(children[t]) PROVE parent'[c] = t
        <5>1. c \in Sinks BY <1>4
        <5>2. parent[c] = t /\ parent[c] # NoSink BY <1>12, <1>13, Zenon
        <5>3. c \notin ToSet(k) BY <1>11, <5>2, Zenon
        <5> QED BY <1>10, <5>1, <5>2, <5>3, Zenon
      <4>3. \A i, j \in 1 .. Len(children[t]) : children[t][i] = children[t][j] => i = j
        BY Zenon DEF Shape, OneParent
      <4> QED BY <4>1, <4>2, <4>3, Zenon
    <3> QED BY <3>1, <3>2
  <2> QED BY <2>1, Zenon DEF OneParent
<1>17. parent' \in [Sinks -> Sinks \cup {NoSink}] BY <1>4, <1>10
<1>18. \A t \in Sinks : ToSet(children'[t]) \subseteq made'
  <2>1. \A t \in Sinks : t # s => ToSet(children'[t]) \subseteq made BY <1>4, <1>7, Zenon
  <2>2. ToSet(children'[s]) \subseteq made BY <1>7, <1>11, Zenon
  <2>3. made \subseteq made' BY <1>1
  <2> QED BY <2>1, <2>2, <2>3, Zenon
<1>19. \A t \in Sinks : t \notin made' => children'[t] = <<>>
  <2>1. \A t \in Sinks : t \notin made' => t # s /\ t \notin made BY <1>1
  <2> QED BY <1>4, <1>7, <2>1, Zenon
<1>20. ASSUME NEW t \in Sinks, parent'[t] # NoSink PROVE t \in ToSet(children'[parent'[t]])
  <2>1. CASE t \in ToSet(k) BY <1>7, <1>10, <2>1, Zenon
  <2>2. CASE t \notin ToSet(k)
    <3>1. parent'[t] = parent[t] BY <1>10, <2>2, Zenon
    <3>2. t \in ToSet(children[parent[t]]) BY <1>4, <1>20, <3>1, Zenon
    <3>3. parent[t] \in Sinks BY <1>4, <1>20, <3>1
    <3>4. parent[t] # s
      <4>1. children[s] = <<>> BY <1>1, <1>4, Zenon
      <4>2. ToSet(<<>>) = {} BY DEF ToSet
      <4> QED BY <3>2, <4>1, <4>2
    <3> QED BY <1>7, <3>1, <3>2, <3>3, <3>4, Zenon
  <2> QED BY <2>1, <2>2
<1>21. Shape(made', children', parent', rank2)
  BY <1>6, <1>14, <1>15, <1>16, <1>17, <1>18, <1>19, <1>20, Zenon DEF Shape
<1> QED BY <1>21

-----------------------------------------------------------------------------
\* The trees are well formed, and children are closed in order, up to a failure.
TreeInv ==
    /\ \E rank : Shape(made, children, parent, rank)
    /\ sink_closed \subseteq made
    /\ ClosedInOrder(children, Lower(children), sink_closed, failed)

\* A sink is constructed, with all its destinations or with those before one that is
\* refused (MediaSink.__init__, __del__).
LEMMA ConstructStep ==
    ASSUME TreeInv, NEW s \in Sinks, NEW dests \in Seq(Sinks), Construct(s, dests)
    PROVE  TreeInv'
<1>1. PICK rank : Shape(made, children, parent, rank) BY Zenon DEF TreeInv
<1>2. PICK rank2 : Shape(made', children', parent', rank2) BY <1>1, ConstructShape, Zenon
<1>3. sink_closed \subseteq made /\ ClosedInOrder(children, Lower(children), sink_closed, failed)
  BY Zenon DEF TreeInv
<1>4. /\ Ranked(children, rank) /\ made \subseteq Sinks /\ \A t \in Sinks : ToSet(children[t]) \subseteq made
      /\ children \in [Sinks -> Seq(Sinks)]
  BY <1>1, Zenon DEF Shape, Ranked
<1>5. Ranked(children', rank2) /\ OneParent(children', parent') BY <1>2, Zenon DEF Shape
<1> DEFINE n == Accepted(s, dests)
           k == SubSeq(dests, 1, n)
<1>6. s \notin made /\ made' = made \cup {s} /\ children' = [children EXCEPT ![s] = k]
  BY Zenon DEF Construct
<1>7. sink_closed' = (IF n < Len(dests) /\ n = 0 THEN sink_closed \cup {s} ELSE sink_closed) /\ failed' = failed
  BY Zenon DEF Construct
<1>8. n = 0 => Len(children'[s]) = 0
  <2>1. n \in 0 .. Len(dests) BY AcceptedAreNew, Zenon
  <2>2. Len(k) = n
    <3> HIDE DEF n
    <3> QED BY <2>1, Beginning
  <2>3. children'[s] = k
    <3> HIDE DEF k
    <3> QED BY <1>4, <1>6
  <2> QED BY <2>2, <2>3, Zenon
<1> HIDE DEF k, n
<1>9. \A t \in Sinks : t \in made => children'[t] = children[t] BY <1>4, <1>6
<1> DEFINE B == Lower(children)
           B2 == Lower(children')
<1>10. Reach({}, children, B) /\ Reach({}, children', B2) BY <1>4, <1>5, LowerReaches, Zenon
<1>11. \A t \in Sinks : t \in made => B2[t] = B[t]
  <2> HIDE DEF B, B2
  <2>1. Keeps(made, children, children') BY <1>4, <1>9, Zenon DEF Keeps
  <2>2. AgreeOn(made, B, B2) BY <1>4, <1>10, <2>1, SameBelow, Zenon
  <2> QED BY <2>2, Zenon DEF AgreeOn
<1>12. sink_closed \subseteq sink_closed' /\ sink_closed' \subseteq made' BY <1>3, <1>6, <1>7
<1>13. ASSUME NEW x \in sink_closed', x \notin sink_closed PROVE 1 .. Len(children'[x]) = {}
  <2>1. x = s /\ n = 0 BY <1>7, <1>13
  <2>2. Len(children'[x]) = 0 BY <1>8, <2>1
  <2> QED BY <2>2
<1>14. ClosedInOrder(children', B2, sink_closed', failed')
  <2>1. ClosedInOrder(children, B, sink_closed, failed) BY <1>3, Zenon
  <2> HIDE DEF B, B2
  <2>2. SUFFICES ASSUME NEW x \in sink_closed', NEW i \in 1 .. Len(children'[x])
                 PROVE  \/ children'[x][i] \in sink_closed'
                        \/ \E j \in 1 .. i - 1 : \E f \in failed' : f \in B2[children'[x][j]]
    BY Zenon DEF ClosedInOrder
  <2>3. x \in sink_closed BY <1>13, <2>2
  <2>4. x \in Sinks /\ x \in made BY <1>3, <1>4, <2>3
  <2>5. children'[x] = children[x] BY <1>9, <2>4, Zenon
  <2>6. \/ children[x][i] \in sink_closed
        \/ \E j \in 1 .. i - 1 : \E f \in failed : f \in B[children[x][j]]
    BY <2>1, <2>2, <2>3, <2>5, Zenon DEF ClosedInOrder
  <2>7. CASE children[x][i] \in sink_closed BY <1>12, <2>5, <2>7, Zenon
  <2>8. CASE \E j \in 1 .. i - 1 : \E f \in failed : f \in B[children[x][j]]
    <3>1. PICK j \in 1 .. i - 1 : \E f \in failed : f \in B[children[x][j]] BY <2>8
    <3>2. j \in 1 .. Len(children[x])
      <4>1. Len(children[x]) \in Nat BY <1>4, <2>4, LenProperties
      <4>2. i \in 1 .. Len(children[x]) BY <2>2, <2>5, Zenon
      <4> QED BY <4>1, <4>2
    <3>3. children[x][j] \in ToSet(children[x]) BY <1>4, <2>4, <3>2, ChildrenOf, Zenon
    <3>4. children[x][j] \in made /\ children[x][j] \in Sinks BY <1>4, <2>4, <3>3
    <3>5. B2[children'[x][j]] = B[children[x][j]] BY <1>11, <2>5, <3>4, Zenon
    <3> QED BY <1>7, <3>1, <3>5, Zenon
  <2> QED BY <2>6, <2>7, <2>8
<1> QED BY <1>2, <1>12, <1>14, Zenon DEF TreeInv

\* A sink is cleaned up, and leaves may raise (MediaSink.cleanup).
LEMMA CleanupStep ==
    ASSUME TreeInv, NEW s \in Sinks, NEW bad, Cleanup(s, bad)
    PROVE  TreeInv'
<1>1. PICK rank : Shape(made, children, parent, rank) BY Zenon DEF TreeInv
<1>2. sink_closed \subseteq made /\ ClosedInOrder(children, Lower(children), sink_closed, failed)
  BY Zenon DEF TreeInv
<1>3. Ranked(children, rank) /\ OneParent(children, parent) /\ made \subseteq Sinks BY <1>1, Zenon DEF Shape
<1> DEFINE effect == CleanupEffect(children, s, bad)
<1>4. effect = CleanupEffect(children, s, bad) OBVIOUS
<1>5. /\ s \in made /\ sink_closed' = sink_closed \cup effect.closed
      /\ failed' = failed \cup effect.failed /\ UNCHANGED <<made, parent, children>>
  BY Zenon DEF Cleanup
<1> HIDE DEF effect
<1>6. sink_closed \subseteq Sinks BY <1>2, <1>3
<1>7. /\ ClosedInOrder(children, Lower(children), sink_closed \cup effect.closed, failed \cup effect.failed)
      /\ effect.closed \subseteq Lower(children)[s]
  BY <1>2, <1>3, <1>4, <1>6, EffectReaches, Zenon
<1>8. Lower(children)[s] \subseteq made BY <1>1, <1>5, BelowIsMade, Zenon
<1>9. made' = made /\ parent' = parent /\ children' = children BY <1>5
<1>10. Shape(made', children', parent', rank) BY <1>1, <1>9, Zenon
<1>11. sink_closed' \subseteq made' BY <1>2, <1>5, <1>7, <1>8, <1>9, Zenon
<1>12. ClosedInOrder(children', Lower(children'), sink_closed', failed') BY <1>5, <1>7, <1>9, Zenon
<1> QED BY <1>10, <1>11, <1>12, Zenon DEF TreeInv

\* A sequence without repetitions is as long as the set of its elements.
LEMMA NoRepetition ==
    ASSUME NEW S, NEW d \in Seq(S), \A i, j \in 1 .. Len(d) : d[i] = d[j] => i = j
    PROVE  Len(d) = Cardinality(ToSet(d))
<1> DEFINE n == Len(d)
           T == ToSet(d)
<1>1. n \in Nat /\ DOMAIN d = 1 .. n /\ d \in [1 .. n -> S] BY LenProperties
<1>2. \A x : x \in T <=> \E i \in 1 .. n : x = d[i] BY <1>1, Zenon DEF ToSet
<1>3. \A i, j \in 1 .. n : d[i] = d[j] => i = j OBVIOUS
<1>4. d \in [1 .. n -> T] BY <1>1, <1>2
<1> HIDE DEF n, T
<1>5. \A t \in T : \E i \in 1 .. n : d[i] = t BY <1>2
<1>6. d \in Injection(1 .. n, T) BY <1>3, <1>4 DEF Injection, IsInjective
<1>7. d \in Surjection(1 .. n, T) BY <1>4, <1>5 DEF Surjection
<1>8. ExistsBijection(1 .. n, T) BY <1>6, <1>7 DEF ExistsBijection, Bijection
<1>9. Cardinality(T) = n BY <1>1, <1>8, FS_CountingElements
<1> QED BY <1>9 DEF n, T

\* The invariant says what is promised.
LEMMA TreesFollow == TreeInv => TreesAreCleaned
<1> SUFFICES ASSUME TreeInv PROVE TreesAreCleaned
  OBVIOUS
<1>1. PICK rank : Shape(made, children, parent, rank) BY Zenon DEF TreeInv
<1>2. sink_closed \subseteq made /\ ClosedInOrder(children, Lower(children), sink_closed, failed)
  BY Zenon DEF TreeInv
<1>3. Ranked(children, rank) /\ OneParent(children, parent) /\ made \subseteq Sinks BY <1>1, Zenon DEF Shape
<1>4. \A t \in Sinks : Below(t) = Lower(children)[t] BY Zenon DEF Below, Lower
<1>5. Reach({}, children, Lower(children)) BY <1>3, LowerReaches, Zenon
<1>6. CleanupReachesAll
  <2>1. SUFFICES ASSUME NEW s \in made \cap sink_closed, NEW i \in DOMAIN children[s],
                        children[s][i] \notin sink_closed
                 PROVE  \E j \in 1 .. i - 1 : failed \cap Below(children[s][j]) # {}
    BY Zenon DEF CleanupReachesAll
  <2>2. s \in Sinks /\ s \in sink_closed BY <1>3, <2>1
  <2>3. children[s] \in Seq(Sinks) BY <1>3, <2>2 DEF Ranked
  <2>4. Len(children[s]) \in Nat /\ i \in 1 .. Len(children[s]) BY <2>1, <2>3, LenProperties
  <2>5. PICK j \in 1 .. i - 1 : \E f \in failed : f \in Lower(children)[children[s][j]]
    BY <1>2, <2>1, <2>2, <2>4, Zenon DEF ClosedInOrder
  <2>6. j \in 1 .. Len(children[s]) BY <2>4
  <2>7. children[s][j] \in Sinks BY <2>3, <2>6, ElementOfSeq
  <2>8. \E f \in failed : f \in Below(children[s][j]) BY <1>4, <2>5, <2>7, Zenon
  <2>9. failed \cap Below(children[s][j]) # {} BY <2>8
  <2> QED BY <2>9
<1>7. Forest
  <2>1. SUFFICES ASSUME NEW s \in made
                 PROVE  /\ \A c \in ToSet(children[s]) : parent[c] = s /\ s \notin Below(c)
                        /\ Len(children[s]) = Cardinality(ToSet(children[s]))
                        /\ parent[s] # NoSink => s \in ToSet(children[parent[s]])
    BY Zenon DEF Forest
  <2>2. s \in Sinks BY <1>3
  <2>3. ASSUME NEW c \in ToSet(children[s]) PROVE parent[c] = s /\ s \notin Below(c)
    <3>1. parent[c] = s BY <1>3, <2>2, Zenon DEF OneParent
    <3>2. c \in Sinks /\ rank[c] \in Nat /\ rank[c] < rank[s] BY <1>3, <2>2, ChildrenOf
    <3>3. rank[s] \in Nat BY <1>3, <2>2 DEF Ranked
    <3>4. ASSUME s \in Lower(children)[c] PROVE FALSE
      <4> DEFINE B == Lower(children)
      <4>1. Reach({}, children, B) BY <1>5, Zenon
      <4>2. s \in B[c] BY <3>4, Zenon
      <4> HIDE DEF B
      <4>3. rank[s] <= rank[c] BY <1>3, <3>2, <4>1, <4>2, BelowIsOrdered, Zenon
      <4> QED BY <3>2, <3>3, <4>3
    <3> QED BY <1>4, <3>1, <3>2, <3>4, Zenon
  <2>4. Len(children[s]) = Cardinality(ToSet(children[s]))
    <3>1. children[s] \in Seq(Sinks) BY <1>3, <2>2 DEF Ranked
    <3>2. \A i, j \in 1 .. Len(children[s]) : children[s][i] = children[s][j] => i = j
      BY <1>3, <2>2, Zenon DEF OneParent
    <3> QED BY <3>1, <3>2, NoRepetition
  <2>5. parent[s] # NoSink => s \in ToSet(children[parent[s]]) BY <1>1, <2>2, Zenon DEF Shape
  <2> QED BY <2>3, <2>4, <2>5
<1> QED BY <1>6, <1>7 DEF TreesAreCleaned

\* Sinks form a forest whatever is constructed over what, also when a constructor fails
\* half way; and a cleanup closes the children of a sink in order, up to one that holds a
\* leaf whose cleanup raises (MediaSink.cleanup, _check_child).
THEOREM CleanupReachesTheTree == TreeSpec => []TreesAreCleaned
<1>1. TreeInit => TreeInv
  <2> SUFFICES ASSUME TreeInit PROVE TreeInv
    OBVIOUS
  <2> USE DEF TreeInit
  <2> DEFINE rank == [t \in Sinks |-> 0]
  <2>1. \A t \in Sinks : 0 < Cardinality(Sinks)
    <3>1. IsFiniteSet(Sinks) BY SinkAssumption DEF SinkAssumption
    <3>2. Cardinality(Sinks) \in Nat /\ (Cardinality(Sinks) = 0 <=> Sinks = {})
      BY <3>1, FS_CardinalityType, FS_EmptySet
    <3> QED BY <3>2
  <2>2. <<>> \in Seq(Sinks) /\ Len(<<>>) = 0 /\ 1 .. 0 = {} OBVIOUS
  <2>3. ToSet(<<>>) = {} BY DEF ToSet
  <2>4. \A t \in Sinks : children[t] = <<>> /\ parent[t] = NoSink /\ rank[t] = 0 OBVIOUS
  <2>5. children \in [Sinks -> Seq(Sinks)] /\ rank \in [Sinks -> Nat]
        /\ parent \in [Sinks -> Sinks \cup {NoSink}]
    OBVIOUS
  <2> HIDE DEF rank
  <2>6. \A t \in Sinks : Len(children[t]) = 0 /\ ToSet(children[t]) = {} BY <2>2, <2>3, <2>4, Zenon
  <2>7. Ranked(children, rank) BY <2>1, <2>2, <2>4, <2>5, <2>6 DEF Ranked
  <2>8. OneParent(children, parent) BY <2>2, <2>6 DEF OneParent
  <2>9. Shape(made, children, parent, rank) BY <2>4, <2>5, <2>6, <2>7, <2>8 DEF Shape
  <2>10. ClosedInOrder(children, Lower(children), sink_closed, failed) BY DEF ClosedInOrder
  <2> QED BY <2>9, <2>10 DEF TreeInv
<1>2. TreeInv /\ [TreeNext]_treeVars => TreeInv'
  <2> SUFFICES ASSUME TreeInv, [TreeNext]_treeVars PROVE TreeInv'
    OBVIOUS
  <2>1. ASSUME NEW s \in Sinks, Construct(s, <<>>) PROVE TreeInv'
    <3>1. <<>> \in Seq(Sinks) OBVIOUS
    <3> QED BY <2>1, <3>1, ConstructStep, Zenon
  <2>2. ASSUME NEW s \in Sinks, NEW c \in Sinks, Construct(s, <<c>>) PROVE TreeInv'
    <3>1. <<c>> \in Seq(Sinks) OBVIOUS
    <3> QED BY <2>2, <3>1, ConstructStep, Zenon
  <2>3. ASSUME NEW s \in Sinks, NEW c \in Sinks, NEW d \in Sinks, Construct(s, <<c, d>>) PROVE TreeInv'
    <3>1. <<c, d>> \in Seq(Sinks) OBVIOUS
    <3> QED BY <2>3, <3>1, ConstructStep, Zenon
  <2>4. ASSUME NEW s \in Sinks, NEW bad \in SUBSET Sinks, Cleanup(s, bad) PROVE TreeInv'
    BY <2>4, CleanupStep, Zenon
  <2>5. CASE UNCHANGED treeVars
    <3>1. /\ made' = made /\ parent' = parent /\ children' = children
          /\ sink_closed' = sink_closed /\ failed' = failed
      BY <2>5 DEF treeVars
    <3> QED BY <3>1, Zenon DEF TreeInv
  <2> QED BY <2>1, <2>2, <2>3, <2>4, <2>5, Zenon DEF TreeNext
<1> QED BY <1>1, <1>2, TreesFollow, PTL DEF TreeSpec

-----------------------------------------------------------------------------
(****************************** the queues *********************************)

Packets == Writers \X (Nat \ {0})
Distinct(s) == \A i, j \in DOMAIN s : s[i] = s[j] => i = j

\* put_nowait of a packet that is not in the queue.
LEMMA Appended ==
    ASSUME NEW S, NEW s \in Seq(S), NEW p \in S, NEW t, t = Append(s, p)
    PROVE  /\ t \in Seq(S) /\ Len(t) = Len(s) + 1
           /\ \A x : x \in Range1(t) <=> x \in Range1(s) \cup {p}
           /\ Distinct(s) /\ p \notin Range1(s) => Distinct(t)
<1>1. t \in Seq(S) /\ Len(t) = Len(s) + 1 /\ DOMAIN t = 1 .. Len(s) + 1 /\ DOMAIN s = 1 .. Len(s) /\ Len(s) \in Nat
  BY AppendProperties
<1>2. t[Len(s) + 1] = p /\ \A i \in DOMAIN s : t[i] = s[i]
  BY AppendProperties
<1>3. Range1(t) = Range1(s) \cup {p}
  <2>1. ASSUME NEW x \in Range1(t) PROVE x \in Range1(s) \cup {p}
    <3>1. PICK i \in 1 .. Len(s) + 1 : x = t[i] BY <1>1 DEF Range1
    <3>2. CASE i = Len(s) + 1 BY <1>2, <3>1, <3>2
    <3>3. CASE i # Len(s) + 1
      <4>1. i \in DOMAIN s BY <1>1, <3>1, <3>3
      <4> QED BY <1>2, <3>1, <4>1 DEF Range1
    <3> QED BY <3>2, <3>3
  <2>2. ASSUME NEW x \in Range1(s) PROVE x \in Range1(t)
    <3>1. PICK i \in DOMAIN s : x = s[i] BY DEF Range1
    <3>2. i \in DOMAIN t BY <1>1
    <3> QED BY <1>2, <3>1, <3>2 DEF Range1
  <2>3. Len(s) + 1 \in DOMAIN t BY <1>1
  <2>4. p \in Range1(t) BY <1>2, <2>3 DEF Range1
  <2> QED BY <2>1, <2>2, <2>4
<1>4. ASSUME Distinct(s), p \notin Range1(s), NEW i \in DOMAIN t, NEW j \in DOMAIN t, t[i] = t[j]
      PROVE  i = j
  <2>1. \A k \in DOMAIN s : s[k] # p BY <1>4 DEF Range1
  <2>2. i \in DOMAIN s \/ i = Len(s) + 1 BY <1>1
  <2>3. j \in DOMAIN s \/ j = Len(s) + 1 BY <1>1
  <2> QED BY <1>2, <1>4, <2>1, <2>2, <2>3 DEF Distinct
<1> QED BY <1>1, <1>3, <1>4 DEF Distinct

\* Taking out the oldest packet of a queue.
LEMMA HeadTaken ==
    ASSUME NEW S, NEW s \in Seq(S), s # <<>>
    PROVE  /\ Head(s) \in S /\ Tail(s) \in Seq(S) /\ Len(Tail(s)) = Len(s) - 1 /\ Len(s) \in Nat \ {0}
           /\ \A x : x \in Range1(s) <=> x \in Range1(Tail(s)) \cup {Head(s)}
           /\ Distinct(s) => Distinct(Tail(s)) /\ Head(s) \notin Range1(Tail(s))
<1> DEFINE t == Tail(s)
<1>1. /\ Head(s) \in S /\ t \in Seq(S) /\ Len(t) = Len(s) - 1 /\ Len(s) \in Nat \ {0} /\ Head(s) = s[1]
      /\ DOMAIN s = 1 .. Len(s) /\ DOMAIN t = 1 .. Len(s) - 1
  BY HeadTailProperties
<1>2. \A i \in DOMAIN t : t[i] = s[i + 1]
  BY <1>1, HeadTailProperties
<1> HIDE DEF t
<1>3. Range1(s) = Range1(t) \cup {Head(s)}
  <2>1. ASSUME NEW x \in Range1(s) PROVE x \in Range1(t) \cup {Head(s)}
    <3>1. PICK i \in DOMAIN s : x = s[i] BY DEF Range1
    <3>2. CASE i = 1 BY <1>1, <3>1, <3>2
    <3>3. CASE i # 1
      <4>1. i - 1 \in DOMAIN t /\ (i - 1) + 1 = i BY <1>1, <3>3
      <4>2. t[i - 1] = x BY <1>2, <3>1, <4>1
      <4> QED BY <4>1, <4>2 DEF Range1
    <3> QED BY <3>2, <3>3
  <2>2. ASSUME NEW x \in Range1(t) PROVE x \in Range1(s)
    <3>1. PICK i \in DOMAIN t : x = t[i] BY DEF Range1
    <3>2. i + 1 \in DOMAIN s BY <1>1
    <3> QED BY <1>2, <3>1, <3>2 DEF Range1
  <2>3. 1 \in DOMAIN s BY <1>1
  <2>4. Head(s) \in Range1(s) BY <1>1, <2>3 DEF Range1
  <2> QED BY <2>1, <2>2, <2>4
<1>4. ASSUME Distinct(s) PROVE Distinct(t) /\ Head(s) \notin Range1(t)
  <2>1. \A i \in DOMAIN t : i + 1 \in DOMAIN s /\ i + 1 # 1 /\ i \in Nat BY <1>1
  <2>2. 1 \in DOMAIN s BY <1>1
  <2>3. ASSUME NEW i \in DOMAIN t, NEW j \in DOMAIN t, t[i] = t[j] PROVE i = j
    <3>1. s[i + 1] = s[j + 1] BY <1>2, <2>3
    <3>2. i + 1 = j + 1 BY <1>4, <2>1, <3>1 DEF Distinct
    <3> QED BY <2>1, <3>2
  <2>4. ASSUME NEW i \in DOMAIN t, t[i] = Head(s) PROVE FALSE
    <3>1. s[i + 1] = s[1] BY <1>1, <1>2, <2>4
    <3> QED BY <1>4, <2>1, <2>2, <3>1 DEF Distinct
  <2> QED BY <2>3, <2>4 DEF Distinct, Range1
<1> QED BY <1>1, <1>3, <1>4 DEF t

-----------------------------------------------------------------------------

Getting == {w \in Writers : writing[w] = "got"}
Owing == {w \in Writers : writing[w] \in {"got", "retry"}}

QueueTypes ==
    /\ queue \in Seq(Packets) /\ Len(queue) <= MaxSize
    /\ unfinished \in Nat /\ dropped \in Nat
    /\ taken \subseteq Packets /\ IsFiniteSet(taken)
    /\ IsFiniteSet(lost)
    /\ writing \in [Writers -> {"idle", "full", "got", "retry"}]
    /\ written \in [Writers -> Nat]

\* A packet is in the queue or with the application only once, and not before it is
\* written.
Numbered ==
    /\ Distinct(queue) /\ Range1(queue) \cap taken = {}
    /\ \A p \in Range1(queue) \cup taken : p[2] <= written[p[1]]

\* A writer that has made room has yet to count a packet; a single one keeps the room.
LossesOwed ==
    /\ Cardinality(Writers) # 1 =>
         Cardinality(lost) <= 2 * dropped + Cardinality(Owing)
    /\ Cardinality(Writers) = 1 =>
         /\ Cardinality(lost) <= dropped + Cardinality(Owing)
         /\ \A w \in Writers : writing[w] \in {"got", "retry"} => Len(queue) < MaxSize

QueueInv == QueueTypes /\ Numbered /\ UnfinishedExact /\ LossesOwed

\* The packet being written is new.
LEMMA NewPacket ==
    ASSUME QueueTypes, Numbered, NEW w \in Writers
    PROVE  Packet(w) \in Packets /\ Packet(w) \notin Range1(queue) \cup taken
<1>1. written[w] \in Nat BY DEF QueueTypes
<1> QED BY <1>1 DEF Packet, Packets, Numbered

\* Where a writer is decides whether it counts in a set of writers.
LEMMA WriterMoves ==
    ASSUME NEW w \in Writers, writing \in [Writers -> {"idle", "full", "got", "retry"}], NEW at,
           writing' = [writing EXCEPT ![w] = at], NEW places
    PROVE  /\ Cardinality({v \in Writers : writing[v] \in places}) \in Nat
           /\ Cardinality({v \in Writers : writing'[v] \in places}) \in Nat
           /\ Cardinality({v \in Writers : writing'[v] \in places}) =
                Cardinality({v \in Writers : writing[v] \in places})
                    + (IF at \in places THEN 1 ELSE 0) - (IF writing[w] \in places THEN 1 ELSE 0)
<1> DEFINE A == {v \in Writers : writing[v] \in places}
           B == {v \in Writers : writing'[v] \in places}
<1>1. IsFiniteSet(A) /\ Cardinality(A) \in Nat /\ IsFiniteSet(B) /\ Cardinality(B) \in Nat
  BY QueueAssumption, FS_Subset, FS_CardinalityType DEF QueueAssumption
<1>2. w \in A <=> writing[w] \in places
  OBVIOUS
<1>3. B = IF at \in places THEN A \cup {w} ELSE A \ {w}
  OBVIOUS
<1> HIDE DEF A, B
<1>4. Cardinality(A \cup {w}) = IF w \in A THEN Cardinality(A) ELSE Cardinality(A) + 1
  BY <1>1, FS_AddElement
<1>5. Cardinality(A \ {w}) = IF w \in A THEN Cardinality(A) - 1 ELSE Cardinality(A)
  BY <1>1, FS_RemoveElement
<1>6. at \in places => Cardinality(B) = Cardinality(A \cup {w})
  BY <1>3, Zenon
<1>7. at \notin places => Cardinality(B) = Cardinality(A \ {w})
  BY <1>3, Zenon
<1>8. /\ Cardinality(A) \in Nat /\ Cardinality(B) \in Nat
      /\ Cardinality(B) = Cardinality(A) + (IF at \in places THEN 1 ELSE 0)
                                        - (IF writing[w] \in places THEN 1 ELSE 0)
  BY <1>1, <1>2, <1>4, <1>5, <1>6, <1>7
<1> QED BY <1>8, Zenon DEF A, B

\* The same of the writers that have a packet to mark done, and of those that have one to
\* count.
LEMMA WritersMove ==
    ASSUME NEW w \in Writers, writing \in [Writers -> {"idle", "full", "got", "retry"}], NEW at,
           writing' = [writing EXCEPT ![w] = at]
    PROVE  /\ Cardinality(Getting) \in Nat /\ Cardinality(Getting') \in Nat
           /\ Cardinality(Owing) \in Nat /\ Cardinality(Owing') \in Nat
           /\ Cardinality(Getting') = Cardinality(Getting) + (IF at = "got" THEN 1 ELSE 0)
                                                           - (IF writing[w] = "got" THEN 1 ELSE 0)
           /\ Cardinality(Owing') = Cardinality(Owing) + (IF at \in {"got", "retry"} THEN 1 ELSE 0)
                                                       - (IF writing[w] \in {"got", "retry"} THEN 1 ELSE 0)
<1>1. Getting = {v \in Writers : writing[v] \in {"got"}} /\ Getting' = {v \in Writers : writing'[v] \in {"got"}}
  BY DEF Getting
<1>2. Owing = {v \in Writers : writing[v] \in {"got", "retry"}}
      /\ Owing' = {v \in Writers : writing'[v] \in {"got", "retry"}}
  BY DEF Owing
<1>3. \A places :
         /\ Cardinality({v \in Writers : writing[v] \in places}) \in Nat
         /\ Cardinality({v \in Writers : writing'[v] \in places}) \in Nat
         /\ Cardinality({v \in Writers : writing'[v] \in places}) =
              Cardinality({v \in Writers : writing[v] \in places})
                  + (IF at \in places THEN 1 ELSE 0) - (IF writing[w] \in places THEN 1 ELSE 0)
  BY WriterMoves, Zenon
<1>4. /\ Cardinality(Getting) \in Nat /\ Cardinality(Getting') \in Nat
      /\ Cardinality(Getting') = Cardinality(Getting) + (IF at \in {"got"} THEN 1 ELSE 0)
                                                      - (IF writing[w] \in {"got"} THEN 1 ELSE 0)
  BY <1>1, <1>3, Zenon
<1>5. /\ Cardinality(Owing) \in Nat /\ Cardinality(Owing') \in Nat
      /\ Cardinality(Owing') = Cardinality(Owing) + (IF at \in {"got", "retry"} THEN 1 ELSE 0)
                                                  - (IF writing[w] \in {"got", "retry"} THEN 1 ELSE 0)
  BY <1>2, <1>3, Zenon
<1> QED BY <1>4, <1>5

\* What was got and is about to be marked done counts as the definition says.
LEMMA GotIsWriting == UnfinishedExact <=> unfinished = Len(queue) + Cardinality(taken) + Cardinality(Getting)
BY DEF UnfinishedExact, Getting

\* Where a step of a writer leaves the types of its position.
LEMMA Finished ==
    ASSUME QueueTypes, NEW w \in Writers, NEW at \in {"idle", "full", "got", "retry"}, Finish(w, at)
    PROVE  /\ writing' = [writing EXCEPT ![w] = at]
           /\ writing' \in [Writers -> {"idle", "full", "got", "retry"}]
           /\ written' \in [Writers -> Nat]
           /\ \A v \in Writers : written[v] <= written'[v]
           /\ at = "idle" => Packet(w)[2] <= written'[Packet(w)[1]]
<1>1. writing' = [writing EXCEPT ![w] = at] BY DEF Finish
<1>2. writing' \in [Writers -> {"idle", "full", "got", "retry"}] BY <1>1 DEF QueueTypes
<1>3. written' = IF at = "idle" THEN [written EXCEPT ![w] = written[w] + 1] ELSE written BY DEF Finish
<1>4. \A v \in Writers : written[v] \in Nat BY DEF QueueTypes
<1>5. written' \in [Writers -> Nat] BY <1>3, <1>4 DEF QueueTypes
<1>6. \A v \in Writers : written[v] <= written'[v] BY <1>3, <1>4 DEF QueueTypes
<1>7. at = "idle" => written'[w] = written[w] + 1 BY <1>3 DEF QueueTypes
<1>8. Packet(w)[1] = w /\ Packet(w)[2] = written[w] + 1 BY DEF Packet
<1>9. at = "idle" => Packet(w)[2] <= written'[Packet(w)[1]] BY <1>4, <1>7, <1>8
<1> QED BY <1>1, <1>2, <1>5, <1>6, <1>9

\* put_nowait of a new packet, in what the queue and its count are then.
LEMMA Put ==
    ASSUME QueueTypes, Numbered, NEW w \in Writers, PutNowait(Packet(w)), UNCHANGED taken,
           Finish(w, "idle")
    PROVE  /\ queue' \in Seq(Packets) /\ Len(queue') <= MaxSize /\ Len(queue') = Len(queue) + 1
           /\ Numbered' /\ unfinished' = unfinished + 1
<1>1. queue \in Seq(Packets) /\ Len(queue) \in Nat BY DEF QueueTypes
<1>2. queue' = Append(queue, Packet(w)) /\ Len(queue) < MaxSize /\ unfinished' = unfinished + 1
  BY DEF PutNowait
<1>3. Packet(w) \in Packets /\ Packet(w) \notin Range1(queue) \cup taken BY NewPacket
<1>4. /\ queue' \in Seq(Packets) /\ Len(queue') = Len(queue) + 1
      /\ Range1(queue') = Range1(queue) \cup {Packet(w)} /\ Distinct(queue')
  <2>1. Distinct(queue) /\ Packet(w) \notin Range1(queue) BY <1>3 DEF Numbered
  <2> QED BY <1>1, <1>2, <1>3, <2>1, Appended DEF Range1, Distinct
<1>5. Len(queue') <= MaxSize BY <1>1, <1>2, <1>4, QueueAssumption DEF QueueAssumption
<1>6. Range1(queue)' = Range1(queue) \cup {Packet(w)} /\ Distinct(queue)' BY <1>4 DEF Range1, Distinct
<1>7. (Range1(queue) \cap taken)' = {} BY <1>3, <1>6 DEF Numbered
<1>8. ASSUME NEW p \in (Range1(queue) \cup taken)' PROVE p[2] <= written'[p[1]]
  <2>1. CASE p = Packet(w) BY <2>1, Finished
  <2>2. CASE p # Packet(w)
    <3>1. p \in Range1(queue) \cup taken BY <1>6, <1>8, <2>2
    <3>2. p \in Packets BY <3>1, <1>1 DEF QueueTypes, Range1
    <3>3. p[1] \in Writers /\ p[2] \in Nat BY <3>2 DEF Packets
    <3>4. p[2] <= written[p[1]] BY <3>1 DEF Numbered
    <3>5. written[p[1]] <= written'[p[1]] BY <3>3, Finished
    <3>6. written[p[1]] \in Nat /\ written'[p[1]] \in Nat BY <3>3, Finished DEF QueueTypes
    <3> QED BY <3>3, <3>4, <3>5, <3>6
  <2> QED BY <2>1, <2>2
<1>9. Numbered' BY <1>6, <1>7, <1>8 DEF Numbered
<1> QED BY <1>2, <1>4, <1>5, <1>9

\* Packets that stay are still numbered when a writer goes on.
LEMMA NumbersStay ==
    ASSUME QueueTypes, Numbered, Distinct(queue)', Range1(queue)' \cap taken' = {},
           (Range1(queue) \cup taken)' \subseteq Range1(queue) \cup taken,
           \A v \in Writers : written[v] <= written'[v] /\ written'[v] \in Nat
    PROVE  Numbered'
<1>1. ASSUME NEW p \in (Range1(queue) \cup taken)' PROVE p[2] <= written'[p[1]]
  <2>1. p \in Range1(queue) \cup taken /\ queue \in Seq(Packets) BY DEF QueueTypes
  <2>2. p \in Packets BY <2>1 DEF QueueTypes, Range1
  <2>3. p[1] \in Writers /\ p[2] \in Nat BY <2>2 DEF Packets
  <2>4. p[2] <= written[p[1]] BY <2>1 DEF Numbered
  <2>5. written[p[1]] \in Nat BY <2>3 DEF QueueTypes
  <2> QED BY <2>3, <2>4, <2>5
<1>2. Distinct(queue)' /\ (Range1(queue) \cap taken)' = {} OBVIOUS
<1> QED BY <1>1, <1>2 DEF Numbered, Distinct, Range1

\* Losing a packet, in the number lost.
LEMMA OneLost ==
    ASSUME QueueTypes, NEW p, NEW l, l = lost \cup {p}
    PROVE  IsFiniteSet(l) /\ Cardinality(l) <= Cardinality(lost) + 1 /\ Cardinality(l) \in Nat /\ Cardinality(lost) \in Nat
<1>1. IsFiniteSet(lost) BY DEF QueueTypes
<1>2. /\ IsFiniteSet(lost \cup {p})
      /\ Cardinality(lost \cup {p}) = IF p \in lost THEN Cardinality(lost) ELSE Cardinality(lost) + 1
  BY <1>1, FS_AddElement
<1>3. IsFiniteSet(l) /\ Cardinality(l) = Cardinality(lost \cup {p}) BY <1>2, Zenon
<1>4. Cardinality(lost) \in Nat /\ Cardinality(l) \in Nat BY <1>1, <1>3, FS_CardinalityType
<1> QED BY <1>2, <1>3, <1>4

\* A step of a writer that keeps the counts right keeps the invariant.
LEMMA WriterCounts ==
    ASSUME QueueInv, NEW w \in Writers, NEW at \in {"idle", "full", "got", "retry"}, Finish(w, at),
           UNCHANGED taken, queue' \in Seq(Packets), Len(queue') <= MaxSize, Numbered',
           unfinished' \in Nat, unfinished' = Len(queue') + Cardinality(taken) + Cardinality(Getting'),
           dropped' \in Nat, IsFiniteSet(lost'),
           Cardinality(Writers) = 1 => Cardinality(lost') <= dropped' + Cardinality(Owing'),
           Cardinality(Writers) # 1 => Cardinality(lost') <= 2 * dropped' + Cardinality(Owing'),
           Cardinality(Writers) = 1 /\ at \in {"got", "retry"} => Len(queue') < MaxSize
    PROVE  QueueInv'
<1> USE DEF QueueInv
<1>1. writing' = [writing EXCEPT ![w] = at] /\ writing \in [Writers -> {"idle", "full", "got", "retry"}]
  BY Finished DEF QueueTypes
<1>2. UnfinishedExact'
  <2>1. Cardinality(taken') = Cardinality(taken) BY Zenon
  <2>2. Getting' = {v \in Writers : writing'[v] = "got"} BY DEF Getting
  <2>3. unfinished' = Len(queue') + Cardinality(taken') + Cardinality(Getting') BY <2>1
  <2> QED BY <2>2, <2>3 DEF UnfinishedExact
<1>3. QueueTypes'
  BY Finished DEF QueueTypes
<1>4. LossesOwed'
  <2>1. CASE Cardinality(Writers) = 1
    <3>1. PICK x : Writers = {x} BY <2>1, FS_Singleton, QueueAssumption DEF QueueAssumption
    <3>2. writing'[w] = at BY <1>1
    <3>3. \A v \in Writers : writing'[v] \in {"got", "retry"} => Len(queue') < MaxSize
      BY <2>1, <3>1, <3>2
    <3> QED BY <2>1, <3>3 DEF LossesOwed
  <2>2. CASE Cardinality(Writers) # 1
    BY <2>2 DEF LossesOwed
  <2> QED BY <2>1, <2>2
<1> QED BY <1>2, <1>3, <1>4

\* What holds of the counts before a step of a writer.
LEMMA CountsBefore ==
    ASSUME QueueInv
    PROVE  /\ queue \in Seq(Packets) /\ Len(queue) \in Nat /\ Len(queue) <= MaxSize /\ dropped \in Nat
           /\ unfinished \in Nat /\ MaxSize \in Nat \ {0} /\ IsFiniteSet(lost) /\ Cardinality(lost) \in Nat
           /\ Cardinality(taken) \in Nat
           /\ Cardinality(Getting) \in Nat /\ Cardinality(Owing) \in Nat
           /\ unfinished = Len(queue) + Cardinality(taken) + Cardinality(Getting)
           /\ Cardinality(Writers) = 1 => Cardinality(lost) <= dropped + Cardinality(Owing)
           /\ Cardinality(Writers) # 1 => Cardinality(lost) <= 2 * dropped + Cardinality(Owing)
<1> USE DEF QueueInv
<1>1. /\ queue \in Seq(Packets) /\ Len(queue) \in Nat /\ Len(queue) <= MaxSize /\ dropped \in Nat
      /\ unfinished \in Nat /\ MaxSize \in Nat \ {0} /\ IsFiniteSet(lost) /\ Cardinality(lost) \in Nat
      /\ Cardinality(taken) \in Nat
  BY QueueAssumption, FS_CardinalityType DEF QueueTypes, QueueAssumption
<1>2. Cardinality(Getting) \in Nat
  BY QueueAssumption, FS_Subset, FS_CardinalityType DEF Getting, QueueAssumption
<1>3. Cardinality(Owing) \in Nat
  BY QueueAssumption, FS_Subset, FS_CardinalityType DEF Owing, QueueAssumption
<1>4. unfinished = Len(queue) + Cardinality(taken) + Cardinality(Getting)
  BY GotIsWriting
<1>5. /\ Cardinality(Writers) = 1 => Cardinality(lost) <= dropped + Cardinality(Owing)
      /\ Cardinality(Writers) # 1 => Cardinality(lost) <= 2 * dropped + Cardinality(Owing)
  BY DEF LossesOwed
<1> QED BY <1>1, <1>2, <1>3, <1>4, <1>5

\* What the counts add up to, before a step of a writer.
LEMMA SumsBefore ==
    ASSUME QueueInv
    PROVE  /\ Len(queue) \in Nat /\ dropped \in Nat /\ unfinished \in Nat /\ Cardinality(taken) \in Nat
           /\ Cardinality(lost) \in Nat /\ Cardinality(Getting) \in Nat /\ Cardinality(Owing) \in Nat
           /\ unfinished = Len(queue) + Cardinality(taken) + Cardinality(Getting)
           /\ Cardinality(Writers) = 1 => Cardinality(lost) <= dropped + Cardinality(Owing)
           /\ Cardinality(Writers) # 1 => Cardinality(lost) <= 2 * dropped + Cardinality(Owing)
BY CountsBefore, Zenon

\* Where the writers count before and after.
LEMMA CountsAfter ==
    ASSUME QueueInv, NEW w \in Writers, NEW at \in {"idle", "full", "got", "retry"}, Finish(w, at)
    PROVE  /\ Cardinality(Getting') \in Nat /\ Cardinality(Owing') \in Nat
           /\ writing[w] = "idle" /\ at \in {"idle", "full"} =>
                Cardinality(Getting') = Cardinality(Getting) /\ Cardinality(Owing') = Cardinality(Owing)
           /\ writing[w] = "full" /\ at = "retry" =>
                Cardinality(Getting') = Cardinality(Getting) /\ Cardinality(Owing') = Cardinality(Owing) + 1
           /\ writing[w] = "full" /\ at = "got" =>
                Cardinality(Getting') = Cardinality(Getting) + 1 /\ Cardinality(Owing') = Cardinality(Owing) + 1
           /\ writing[w] = "got" /\ at = "retry" =>
                Cardinality(Getting') = Cardinality(Getting) - 1 /\ Cardinality(Owing') = Cardinality(Owing)
           /\ writing[w] = "retry" /\ at = "idle" =>
                Cardinality(Getting') = Cardinality(Getting) /\ Cardinality(Owing') = Cardinality(Owing) - 1
<1>1. writing' = [writing EXCEPT ![w] = at] /\ writing \in [Writers -> {"idle", "full", "got", "retry"}]
  BY Finished DEF QueueInv, QueueTypes
<1>2. /\ Cardinality(Getting) \in Nat /\ Cardinality(Getting') \in Nat
      /\ Cardinality(Owing) \in Nat /\ Cardinality(Owing') \in Nat
      /\ Cardinality(Getting') = Cardinality(Getting) + (IF at = "got" THEN 1 ELSE 0)
                                                      - (IF writing[w] = "got" THEN 1 ELSE 0)
      /\ Cardinality(Owing') = Cardinality(Owing) + (IF at \in {"got", "retry"} THEN 1 ELSE 0)
                                                  - (IF writing[w] \in {"got", "retry"} THEN 1 ELSE 0)
  BY <1>1, WritersMove
<1> QED BY <1>2

\* A put_nowait of the packet that is written, which is then counted or was not full.
LEMMA PutCounts ==
    ASSUME QueueInv, NEW w \in Writers, PutNowait(Packet(w)), UNCHANGED <<taken, lost>>, Finish(w, "idle"),
           \/ writing[w] = "idle" /\ dropped' = dropped
           \/ writing[w] = "retry" /\ dropped' = dropped + 1
    PROVE  QueueInv'
<1>1. /\ queue' \in Seq(Packets) /\ Len(queue') <= MaxSize /\ Len(queue') = Len(queue) + 1
      /\ Numbered' /\ unfinished' = unfinished + 1
  BY Put DEF QueueInv
<1>2. IsFiniteSet(lost') /\ Cardinality(lost') = Cardinality(lost)
  BY CountsBefore, Zenon
<1>3. CASE writing[w] = "idle" /\ dropped' = dropped
  <2>1. /\ Cardinality(Getting') = Cardinality(Getting) /\ Cardinality(Owing') = Cardinality(Owing)
    BY <1>3, CountsAfter
  <2>2. unfinished' \in Nat /\ unfinished' = Len(queue') + Cardinality(taken) + Cardinality(Getting')
    <3>1. /\ unfinished \in Nat /\ Len(queue) \in Nat /\ Cardinality(taken) \in Nat /\ Cardinality(Getting) \in Nat
          /\ unfinished = Len(queue) + Cardinality(taken) + Cardinality(Getting)
      BY SumsBefore, Zenon
    <3> QED BY <1>1, <2>1, <3>1
  <2>3. /\ Cardinality(Writers) = 1 => Cardinality(lost') <= dropped' + Cardinality(Owing')
        /\ Cardinality(Writers) # 1 => Cardinality(lost') <= 2 * dropped' + Cardinality(Owing')
    <3>1. /\ dropped \in Nat /\ Cardinality(lost) \in Nat /\ Cardinality(Owing) \in Nat
          /\ Cardinality(Writers) = 1 => Cardinality(lost) <= dropped + Cardinality(Owing)
          /\ Cardinality(Writers) # 1 => Cardinality(lost) <= 2 * dropped + Cardinality(Owing)
      BY SumsBefore, Zenon
    <3> QED BY <1>2, <1>3, <2>1, <3>1
  <2>4. dropped' \in Nat BY <1>3, SumsBefore
  <2> QED BY <1>1, <1>2, <2>2, <2>3, <2>4, WriterCounts
<1>4. CASE writing[w] = "retry" /\ dropped' = dropped + 1
  <2>1. /\ Cardinality(Getting') = Cardinality(Getting) /\ Cardinality(Owing') = Cardinality(Owing) - 1
    BY <1>4, CountsAfter
  <2>2. unfinished' \in Nat /\ unfinished' = Len(queue') + Cardinality(taken) + Cardinality(Getting')
    <3>1. /\ unfinished \in Nat /\ Len(queue) \in Nat /\ Cardinality(taken) \in Nat /\ Cardinality(Getting) \in Nat
          /\ unfinished = Len(queue) + Cardinality(taken) + Cardinality(Getting)
      BY SumsBefore, Zenon
    <3> QED BY <1>1, <2>1, <3>1
  <2>3. /\ Cardinality(Writers) = 1 => Cardinality(lost') <= dropped' + Cardinality(Owing')
        /\ Cardinality(Writers) # 1 => Cardinality(lost') <= 2 * dropped' + Cardinality(Owing')
    <3>1. /\ dropped \in Nat /\ Cardinality(lost) \in Nat /\ Cardinality(Owing) \in Nat
          /\ Cardinality(Writers) = 1 => Cardinality(lost) <= dropped + Cardinality(Owing)
          /\ Cardinality(Writers) # 1 => Cardinality(lost) <= 2 * dropped + Cardinality(Owing)
      BY SumsBefore, Zenon
    <3> QED BY <1>2, <1>4, <2>1, <3>1
  <2>4. dropped' \in Nat BY <1>4, SumsBefore
  <2> QED BY <1>1, <1>2, <2>2, <2>3, <2>4, WriterCounts
<1> QED BY <1>3, <1>4

\* A queue that stays as it is keeps its packets and their numbers.
LEMMA QueueStays ==
    ASSUME QueueInv, NEW w \in Writers, NEW at \in {"idle", "full", "got", "retry"}, Finish(w, at),
           UNCHANGED <<queue, taken>>
    PROVE  queue' \in Seq(Packets) /\ Len(queue') <= MaxSize /\ Numbered' /\ Len(queue') = Len(queue)
<1> USE DEF QueueInv
<1>1. \A v \in Writers : written[v] <= written'[v] /\ written'[v] \in Nat BY Finished
<1>2. /\ Distinct(queue)' /\ Range1(queue)' \cap taken' = {}
      /\ (Range1(queue) \cup taken)' \subseteq Range1(queue) \cup taken
  BY DEF Numbered, Distinct, Range1
<1>3. Numbered' BY <1>1, <1>2, NumbersStay
<1> QED BY <1>3, CountsBefore

\* Every step of a writer keeps the invariant (QueueSink.write).
LEMMA QueueWriterStep ==
    ASSUME QueueInv, NEW w \in Writers, Write(w) \/ TakeOldest(w) \/ MarkOldestDone(w) \/ PutAgain(w)
    PROVE  QueueInv'
<1>1. CASE Write(w)
  <2>1. writing[w] = "idle" /\ UNCHANGED taken BY <1>1 DEF Write
  <2>2. CASE PutNowait(Packet(w)) /\ Finish(w, "idle") /\ UNCHANGED <<dropped, lost>>
    BY <2>1, <2>2, PutCounts
  <2>3. CASE /\ dropped' = dropped + 1 /\ lost' = lost \cup {Packet(w)} /\ Finish(w, "idle")
             /\ UNCHANGED <<queue, unfinished>>
    <3>1. IsFiniteSet(lost') /\ Cardinality(lost') <= Cardinality(lost) + 1 /\ Cardinality(lost') \in Nat
      BY <2>3, OneLost DEF QueueInv
    <3>2. queue' \in Seq(Packets) /\ Len(queue') <= MaxSize /\ Numbered' /\ Len(queue') = Len(queue)
      BY <2>1, <2>3, QueueStays
    <3>3. Cardinality(Getting') = Cardinality(Getting) /\ Cardinality(Owing') = Cardinality(Owing)
      BY <2>1, <2>3, CountsAfter
    <3>4. unfinished' \in Nat /\ unfinished' = Len(queue') + Cardinality(taken) + Cardinality(Getting')
      <4>1. /\ unfinished \in Nat /\ Len(queue) \in Nat /\ Cardinality(taken) \in Nat /\ Cardinality(Getting) \in Nat
            /\ unfinished = Len(queue) + Cardinality(taken) + Cardinality(Getting)
        BY SumsBefore, Zenon
      <4> QED BY <2>3, <3>2, <3>3, <4>1
    <3>5. /\ Cardinality(Writers) = 1 => Cardinality(lost') <= dropped' + Cardinality(Owing')
          /\ Cardinality(Writers) # 1 => Cardinality(lost') <= 2 * dropped' + Cardinality(Owing')
      <4>1. dropped' = dropped + 1 BY <2>3
      <4>2. /\ dropped \in Nat /\ Cardinality(lost) \in Nat /\ Cardinality(Owing) \in Nat
            /\ Cardinality(Writers) = 1 => Cardinality(lost) <= dropped + Cardinality(Owing)
            /\ Cardinality(Writers) # 1 => Cardinality(lost) <= 2 * dropped + Cardinality(Owing)
        BY SumsBefore
      <4> QED BY <3>1, <3>3, <4>1, <4>2
    <3>6. dropped' \in Nat BY <2>3, SumsBefore
    <3> QED BY <2>1, <2>3, <3>1, <3>2, <3>4, <3>5, <3>6, WriterCounts
  <2>4. CASE Finish(w, "full") /\ UNCHANGED <<queue, unfinished, dropped, lost>>
    <3>1. IsFiniteSet(lost') /\ Cardinality(lost') = Cardinality(lost)
      BY <2>4, CountsBefore, Zenon
    <3>2. queue' \in Seq(Packets) /\ Len(queue') <= MaxSize /\ Numbered' /\ Len(queue') = Len(queue)
      BY <2>1, <2>4, QueueStays
    <3>3. Cardinality(Getting') = Cardinality(Getting) /\ Cardinality(Owing') = Cardinality(Owing)
      BY <2>1, <2>4, CountsAfter
    <3>4. unfinished' \in Nat /\ unfinished' = Len(queue') + Cardinality(taken) + Cardinality(Getting')
      <4>1. /\ unfinished \in Nat /\ Len(queue) \in Nat /\ Cardinality(taken) \in Nat /\ Cardinality(Getting) \in Nat
            /\ unfinished = Len(queue) + Cardinality(taken) + Cardinality(Getting)
        BY SumsBefore, Zenon
      <4> QED BY <2>4, <3>2, <3>3, <4>1
    <3>5. /\ Cardinality(Writers) = 1 => Cardinality(lost') <= dropped' + Cardinality(Owing')
          /\ Cardinality(Writers) # 1 => Cardinality(lost') <= 2 * dropped' + Cardinality(Owing')
      <4>1. /\ dropped \in Nat /\ Cardinality(lost) \in Nat /\ Cardinality(Owing) \in Nat
            /\ Cardinality(Writers) = 1 => Cardinality(lost) <= dropped + Cardinality(Owing)
            /\ Cardinality(Writers) # 1 => Cardinality(lost) <= 2 * dropped + Cardinality(Owing)
        BY SumsBefore, Zenon
      <4> QED BY <2>4, <3>1, <3>3, <4>1
    <3>6. dropped' \in Nat BY <2>4, SumsBefore
    <3> QED BY <2>1, <2>4, <3>1, <3>2, <3>4, <3>5, <3>6, WriterCounts
  <2> QED BY <1>1, <2>2, <2>3, <2>4 DEF Write
<1>2. CASE TakeOldest(w)
  <2>1. writing[w] = "full" /\ UNCHANGED <<unfinished, taken, dropped>> BY <1>2 DEF TakeOldest
  <2>2. CASE queue = <<>>
    <3>1. Finish(w, "retry") /\ UNCHANGED <<queue, lost>> BY <1>2, <2>2 DEF TakeOldest
    <3>2. IsFiniteSet(lost') /\ Cardinality(lost') = Cardinality(lost)
      BY <3>1, CountsBefore, Zenon
    <3>3. queue' \in Seq(Packets) /\ Len(queue') <= MaxSize /\ Numbered' /\ Len(queue') = Len(queue)
      BY <2>1, <3>1, QueueStays
    <3>4. Cardinality(Getting') = Cardinality(Getting) /\ Cardinality(Owing') = Cardinality(Owing) + 1
      BY <2>1, <3>1, CountsAfter
    <3>5. unfinished' \in Nat /\ unfinished' = Len(queue') + Cardinality(taken) + Cardinality(Getting')
      <4>1. /\ unfinished \in Nat /\ Len(queue) \in Nat /\ Cardinality(taken) \in Nat /\ Cardinality(Getting) \in Nat
            /\ unfinished = Len(queue) + Cardinality(taken) + Cardinality(Getting)
        BY SumsBefore, Zenon
      <4> QED BY <2>1, <3>3, <3>4, <4>1
    <3>6. /\ Cardinality(Writers) = 1 => Cardinality(lost') <= dropped' + Cardinality(Owing')
          /\ Cardinality(Writers) # 1 => Cardinality(lost') <= 2 * dropped' + Cardinality(Owing')
      <4>1. /\ dropped \in Nat /\ Cardinality(lost) \in Nat /\ Cardinality(Owing) \in Nat
            /\ Cardinality(Writers) = 1 => Cardinality(lost) <= dropped + Cardinality(Owing)
            /\ Cardinality(Writers) # 1 => Cardinality(lost) <= 2 * dropped + Cardinality(Owing)
        BY SumsBefore, Zenon
      <4> QED BY <2>1, <3>2, <3>4, <4>1
    <3>7. Len(queue') < MaxSize BY <2>2, <3>1, CountsBefore
    <3>8. dropped' \in Nat BY <2>1, SumsBefore
    <3> QED BY <2>1, <3>1, <3>2, <3>3, <3>5, <3>6, <3>7, <3>8, WriterCounts
  <2>3. CASE queue # <<>>
    <3>1. queue' = Tail(queue) /\ lost' = lost \cup {Head(queue)} /\ Finish(w, "got")
      BY <1>2, <2>3 DEF TakeOldest
    <3>2. queue' \in Seq(Packets) /\ Len(queue') = Len(queue) - 1 /\ Len(queue) \in Nat \ {0}
      BY <2>3, <3>1, HeadTaken, CountsBefore
    <3>3. Distinct(queue)' /\ Range1(queue)' \subseteq Range1(queue)
      <4>1. queue \in Seq(Packets) /\ Distinct(queue) BY CountsBefore DEF QueueInv, Numbered
      <4>2. Distinct(Tail(queue)) /\ \A x : x \in Range1(Tail(queue)) => x \in Range1(queue)
        BY <2>3, <4>1, HeadTaken DEF Range1, Distinct
      <4>3. Distinct(queue)' BY <3>1, <4>2, Zenon DEF Distinct
      <4>4. Range1(queue)' = Range1(Tail(queue)) BY <3>1, Zenon DEF Range1
      <4> QED BY <4>2, <4>3, <4>4
    <3>4. Numbered'
      <4>1. \A v \in Writers : written[v] <= written'[v] /\ written'[v] \in Nat BY <3>1, Finished DEF QueueInv
      <4>2. /\ Range1(queue)' \cap taken' = {}
            /\ (Range1(queue) \cup taken)' \subseteq Range1(queue) \cup taken
        BY <2>1, <3>3 DEF QueueInv, Numbered
      <4> QED BY <3>3, <4>1, <4>2, NumbersStay DEF QueueInv
    <3>5. IsFiniteSet(lost') /\ Cardinality(lost') <= Cardinality(lost) + 1 /\ Cardinality(lost') \in Nat
      BY <3>1, OneLost DEF QueueInv
    <3>6. Cardinality(Getting') = Cardinality(Getting) + 1 /\ Cardinality(Owing') = Cardinality(Owing) + 1
      BY <2>1, <3>1, CountsAfter
    <3>7. unfinished' \in Nat /\ unfinished' = Len(queue') + Cardinality(taken) + Cardinality(Getting')
      <4>1. /\ unfinished \in Nat /\ Len(queue) \in Nat /\ Cardinality(taken) \in Nat /\ Cardinality(Getting) \in Nat
            /\ unfinished = Len(queue) + Cardinality(taken) + Cardinality(Getting)
        BY SumsBefore, Zenon
      <4> QED BY <2>1, <3>2, <3>6, <4>1
    <3>8. /\ Cardinality(Writers) = 1 => Cardinality(lost') <= dropped' + Cardinality(Owing')
          /\ Cardinality(Writers) # 1 => Cardinality(lost') <= 2 * dropped' + Cardinality(Owing')
      <4>1. dropped' = dropped BY <2>1
      <4>2. /\ dropped \in Nat /\ Cardinality(lost) \in Nat /\ Cardinality(Owing) \in Nat
            /\ Cardinality(Writers) = 1 => Cardinality(lost) <= dropped + Cardinality(Owing)
            /\ Cardinality(Writers) # 1 => Cardinality(lost) <= 2 * dropped + Cardinality(Owing)
        BY SumsBefore
      <4> QED BY <3>5, <3>6, <4>1, <4>2
    <3>9. Len(queue') < MaxSize BY <3>2, CountsBefore
    <3>10. dropped' \in Nat /\ Len(queue') <= MaxSize BY <2>1, <3>2, CountsBefore
    <3> QED BY <2>1, <3>1, <3>2, <3>4, <3>5, <3>7, <3>8, <3>9, <3>10, WriterCounts
  <2> QED BY <2>2, <2>3
<1>3. CASE MarkOldestDone(w)
  <2>1. writing[w] = "got" /\ Finish(w, "retry") /\ UNCHANGED <<queue, taken, dropped, lost>> /\ TaskDone
    BY <1>3 DEF MarkOldestDone
  <2>2. Cardinality(Getting') = Cardinality(Getting) - 1 /\ Cardinality(Owing') = Cardinality(Owing)
        /\ Cardinality(Getting') \in Nat
    BY <2>1, CountsAfter
  <2>3. unfinished' = unfinished - 1 BY <2>1, <2>2, CountsBefore DEF TaskDone
  <2>4. IsFiniteSet(lost') /\ Cardinality(lost') = Cardinality(lost)
    BY <2>1, CountsBefore, Zenon
  <2>5. queue' \in Seq(Packets) /\ Len(queue') <= MaxSize /\ Numbered' /\ Len(queue') = Len(queue)
    BY <2>1, QueueStays
  <2>6. unfinished' \in Nat /\ unfinished' = Len(queue') + Cardinality(taken) + Cardinality(Getting')
    <3>1. /\ unfinished \in Nat /\ Len(queue) \in Nat /\ Cardinality(taken) \in Nat /\ Cardinality(Getting) \in Nat
          /\ unfinished = Len(queue) + Cardinality(taken) + Cardinality(Getting)
      BY SumsBefore, Zenon
    <3> QED BY <2>2, <2>3, <2>5, <3>1
  <2>7. /\ Cardinality(Writers) = 1 => Cardinality(lost') <= dropped' + Cardinality(Owing')
        /\ Cardinality(Writers) # 1 => Cardinality(lost') <= 2 * dropped' + Cardinality(Owing')
    <3>1. /\ dropped \in Nat /\ Cardinality(lost) \in Nat /\ Cardinality(Owing) \in Nat
          /\ Cardinality(Writers) = 1 => Cardinality(lost) <= dropped + Cardinality(Owing)
          /\ Cardinality(Writers) # 1 => Cardinality(lost) <= 2 * dropped + Cardinality(Owing)
      BY SumsBefore, Zenon
    <3> QED BY <2>1, <2>2, <2>4, <3>1
  <2>8. Cardinality(Writers) = 1 => Len(queue') < MaxSize BY <2>1 DEF QueueInv, LossesOwed
  <2>9. dropped' \in Nat BY <2>1, SumsBefore
  <2> QED BY <2>1, <2>4, <2>5, <2>6, <2>7, <2>8, <2>9, WriterCounts
<1>4. CASE PutAgain(w)
  <2>1. writing[w] = "retry" /\ dropped' = dropped + 1 /\ Finish(w, "idle") /\ UNCHANGED taken
    BY <1>4 DEF PutAgain
  <2>2. CASE PutNowait(Packet(w)) /\ UNCHANGED lost
    BY <2>1, <2>2, PutCounts
  <2>3. CASE /\ Len(queue) = MaxSize /\ lost' = lost \cup {Packet(w)}
             /\ UNCHANGED <<queue, unfinished>>
    <3>1. IsFiniteSet(lost') /\ Cardinality(lost') <= Cardinality(lost) + 1 /\ Cardinality(lost') \in Nat
      BY <2>3, OneLost DEF QueueInv
    <3>2. queue' \in Seq(Packets) /\ Len(queue') <= MaxSize /\ Numbered' /\ Len(queue') = Len(queue)
      BY <2>1, <2>3, QueueStays
    <3>3. Cardinality(Getting') = Cardinality(Getting) /\ Cardinality(Owing') = Cardinality(Owing) - 1
      BY <2>1, CountsAfter
    <3>4. unfinished' \in Nat /\ unfinished' = Len(queue') + Cardinality(taken) + Cardinality(Getting')
      <4>1. /\ unfinished \in Nat /\ Len(queue) \in Nat /\ Cardinality(taken) \in Nat /\ Cardinality(Getting) \in Nat
            /\ unfinished = Len(queue) + Cardinality(taken) + Cardinality(Getting)
        BY SumsBefore, Zenon
      <4> QED BY <2>3, <3>2, <3>3, <4>1
    <3>5. Cardinality(Writers) # 1
      <4>1. MaxSize \in Nat /\ ~(Len(queue) < MaxSize) BY <2>3, CountsBefore
      <4> QED BY <2>1, <4>1 DEF QueueInv, LossesOwed
    <3>6. Cardinality(lost') <= 2 * dropped' + Cardinality(Owing')
      <4>1. dropped' = dropped + 1 BY <2>1
      <4>2. /\ dropped \in Nat /\ Cardinality(lost) \in Nat /\ Cardinality(Owing) \in Nat
            /\ Cardinality(lost) <= 2 * dropped + Cardinality(Owing)
        BY <3>5, CountsBefore
      <4> QED BY <3>1, <3>3, <4>1, <4>2
    <3>7. dropped' \in Nat BY <2>1, SumsBefore
    <3> QED BY <2>1, <3>1, <3>2, <3>4, <3>5, <3>6, <3>7, WriterCounts
  <2> QED BY <1>4, <2>2, <2>3 DEF PutAgain
<1> QED BY <1>1, <1>2, <1>3, <1>4

\* The application gets packets and marks them done (queue.Queue.get and task_done).
LEMMA QueueConsumerStep ==
    ASSUME QueueInv, Get \/ ConsumerDone \/ UNCHANGED <<queue, unfinished, taken, dropped, writing, written, lost>>
    PROVE  QueueInv'
<1> USE DEF QueueInv
<1>1. /\ queue \in Seq(Packets) /\ Len(queue) \in Nat /\ unfinished \in Nat /\ IsFiniteSet(taken)
      /\ Cardinality(taken) \in Nat /\ taken \subseteq Packets
  BY FS_CardinalityType DEF QueueTypes
<1>2. \A v \in Writers : written[v] \in Nat BY DEF QueueTypes
<1>3. Cardinality(Getting) \in Nat
  BY QueueAssumption, FS_Subset, FS_CardinalityType DEF Getting, QueueAssumption
<1>4. ASSUME UNCHANGED <<dropped, writing, lost>>, Len(queue') <= Len(queue), Len(queue') \in Nat,
             queue' \in Seq(Packets), taken' \subseteq Packets, IsFiniteSet(taken'), unfinished' \in Nat
      PROVE  LossesOwed' /\ (UNCHANGED written => QueueTypes') /\ Getting' = Getting
  <2>1. Owing' = Owing /\ Getting' = Getting BY <1>4 DEF Owing, Getting
  <2>2. Cardinality(Owing') = Cardinality(Owing) BY <2>1, Zenon
  <2>3. LossesOwed'
    <3>1. MaxSize \in Nat BY QueueAssumption DEF QueueAssumption
    <3>2. Cardinality(lost') = Cardinality(lost) BY <1>4, Zenon
    <3>3. \A n \in Nat : n < MaxSize => Len(queue') < MaxSize \/ n < Len(queue')
      BY <1>4, <3>1
    <3>4. Cardinality(Writers) = 1 => \A w \in Writers : writing'[w] \in {"got", "retry"} => Len(queue') < MaxSize
      <4>1. SUFFICES ASSUME Cardinality(Writers) = 1, NEW w \in Writers, writing'[w] \in {"got", "retry"}
                     PROVE  Len(queue') < MaxSize
        OBVIOUS
      <4>2. writing[w] \in {"got", "retry"} BY <1>4, <4>1
      <4>3. Len(queue) < MaxSize BY <4>1, <4>2 DEF LossesOwed
      <4> QED BY <1>1, <1>4, <3>1, <4>3
    <3> QED BY <1>4, <2>2, <3>2, <3>4 DEF LossesOwed
  <2>4. UNCHANGED written => QueueTypes'
    <3>1. MaxSize \in Nat BY QueueAssumption DEF QueueAssumption
    <3>2. Len(queue) <= MaxSize BY DEF QueueTypes
    <3>3. Len(queue') <= MaxSize BY <1>1, <1>4, <3>1, <3>2
    <3> QED BY <1>4, <3>3 DEF QueueTypes
  <2> QED BY <2>1, <2>3, <2>4
<1>5. CASE Get
  <2> DEFINE p == Head(queue)
  <2>1. queue # <<>> /\ taken' = taken \cup {p} /\ queue' = Tail(queue)
        /\ UNCHANGED <<unfinished, dropped, writing, written, lost>>
    BY <1>5 DEF Get
  <2>2. p \in Packets /\ queue' \in Seq(Packets) /\ Len(queue') = Len(queue) - 1
    BY <1>1, <2>1, HeadTaken
  <2>3. Distinct(queue') /\ p \notin Range1(queue') /\ p \in Range1(queue) /\ Range1(queue') \subseteq Range1(queue)
    <3>1. Distinct(Tail(queue)) /\ p \notin Range1(Tail(queue))
      BY <1>1, <2>1, HeadTaken DEF Numbered, Distinct, Range1
    <3>2. p \in Range1(queue) /\ Range1(Tail(queue)) \subseteq Range1(queue)
      BY <1>1, <2>1, HeadTaken DEF Range1
    <3> QED BY <2>1, <3>1, <3>2, Zenon
  <2> HIDE DEF p
  <2>4. p \notin taken BY <2>3 DEF Numbered
  <2>5. IsFiniteSet(taken') /\ Cardinality(taken') = Cardinality(taken) + 1
    <3>1. IsFiniteSet(taken \cup {p}) /\ Cardinality(taken \cup {p}) = Cardinality(taken) + 1
      BY <1>1, <2>4, FS_AddElement
    <3> QED BY <2>1, <3>1, Zenon
  <2>6. LossesOwed' /\ QueueTypes' /\ Getting' = Getting
    <3>1. taken' \subseteq Packets BY <1>1, <2>1, <2>2
    <3>2. Len(queue') \in Nat /\ Len(queue') <= Len(queue) BY <1>1, <2>2
    <3> QED BY <1>1, <1>4, <2>1, <2>2, <2>5, <3>1, <3>2
  <2>7. Numbered'
    <3>1. Distinct(queue)' BY <2>3 DEF Distinct
    <3>2. Range1(queue)' \cap taken' = {} BY <2>1, <2>3 DEF Numbered, Range1
    <3>3. (Range1(queue) \cup taken)' \subseteq Range1(queue) \cup taken BY <2>1, <2>3 DEF Range1
    <3>4. \A v \in Writers : written[v] <= written'[v] /\ written'[v] \in Nat BY <1>2, <2>1
    <3> QED BY <3>1, <3>2, <3>3, <3>4, NumbersStay
  <2>8. UnfinishedExact'
    <3>1. Cardinality(Getting') = Cardinality(Getting) BY <2>6, Zenon
    <3>2. unfinished' = Len(queue') + Cardinality(taken') + Cardinality(Getting')
      <4>1. unfinished = Len(queue) + Cardinality(taken) + Cardinality(Getting) BY GotIsWriting
      <4>2. unfinished' = unfinished BY <2>1
      <4> QED BY <1>1, <1>3, <2>2, <2>5, <3>1, <4>1, <4>2
    <3> QED BY <3>2 DEF UnfinishedExact, Getting
  <2> QED BY <2>6, <2>7, <2>8
<1>6. CASE ConsumerDone
  <2> PICK p \in taken : taken' = taken \ {p} BY <1>6 DEF ConsumerDone
  <2>1. TaskDone /\ UNCHANGED <<queue, dropped, writing, written, lost>> BY <1>6 DEF ConsumerDone
  <2>2. IsFiniteSet(taken') /\ Cardinality(taken') = Cardinality(taken) - 1
    <3>1. IsFiniteSet(taken \ {p}) /\ Cardinality(taken \ {p}) = Cardinality(taken) - 1
      BY <1>1, FS_RemoveElement
    <3> QED BY <3>1, Zenon
  <2>3. Cardinality(taken') \in Nat BY <2>2, FS_CardinalityType
  <2>4. unfinished' = unfinished - 1 /\ unfinished' \in Nat
    BY <1>1, <1>3, <2>1, <2>2, <2>3, GotIsWriting DEF TaskDone
  <2>5. LossesOwed' /\ QueueTypes' /\ Getting' = Getting BY <1>1, <1>4, <2>1, <2>2, <2>4
  <2>6. Numbered'
    <3>1. Distinct(queue)' /\ Range1(queue)' \cap taken' = {} BY <2>1 DEF Numbered, Distinct, Range1
    <3>2. (Range1(queue) \cup taken)' \subseteq Range1(queue) \cup taken BY <2>1 DEF Range1
    <3>3. \A v \in Writers : written[v] <= written'[v] /\ written'[v] \in Nat BY <1>2, <2>1
    <3> QED BY <3>1, <3>2, <3>3, NumbersStay
  <2>7. UnfinishedExact'
    <3>1. Cardinality(Getting') = Cardinality(Getting) BY <2>5, Zenon
    <3>2. unfinished' = Len(queue') + Cardinality(taken') + Cardinality(Getting')
      BY <1>1, <1>3, <2>1, <2>2, <2>4, <3>1, GotIsWriting
    <3> QED BY <3>2 DEF UnfinishedExact, Getting
  <2> QED BY <2>5, <2>6, <2>7
<1>7. CASE UNCHANGED <<queue, unfinished, taken, dropped, writing, written, lost>>
  BY <1>7 DEF QueueTypes, Numbered, Distinct, Range1, UnfinishedExact, LossesOwed, Owing
<1> QED BY <1>5, <1>6, <1>7
-----------------------------------------------------------------------------
(************************** the queue of asyncio ****************************)

OnLoop == Range1(scheduled)
InQueue == Range1(aqueue)
Accounted == OnLoop \cup InQueue \cup aconsumed \cup alost

AsyncTypes ==
    /\ scheduled \in Seq(Packets)
    /\ aqueue \in Seq(Packets) /\ Len(aqueue) <= MaxSize
    /\ awritten \in [Writers -> Nat]
    /\ aconsumed \subseteq Packets /\ alost \subseteq Packets /\ IsFiniteSet(alost)

LoopOnce == Distinct(scheduled)
QueueOnce == Distinct(aqueue)

\* A packet is in one place only, once, and not before it is written.
InOnePlace ==
    /\ LoopOnce /\ QueueOnce
    /\ OnLoop \cap (InQueue \cup aconsumed \cup alost) = {}
    /\ InQueue \cap (aconsumed \cup alost) = {}
    /\ aconsumed \cap alost = {}
    /\ \A p \in Accounted : p[2] <= awritten[p[1]]

\* While the sink is open, what is written is somewhere.
NoneDisappears ==
    a_closed \/ \A w \in Writers : \A i \in 1 .. awritten[w] : <<w, i>> \in Accounted

AsyncInv == AsyncTypes /\ InOnePlace /\ NoneDisappears /\ AsyncDropsExact

\* The packets that wait are packets.
LEMMA WaitingArePackets ==
    ASSUME AsyncTypes
    PROVE  /\ OnLoop \subseteq Packets /\ InQueue \subseteq Packets /\ Accounted \subseteq Packets
           /\ \A p \in Packets : p[1] \in Writers /\ p[2] \in Nat \ {0} /\ p = <<p[1], p[2]>>
BY DEF AsyncTypes, OnLoop, InQueue, Accounted, Range1, Packets

\* The packet being scheduled is new (AsyncQueueSink.write).
LEMMA NewAsyncPacket ==
    ASSUME AsyncTypes, InOnePlace, NEW w \in Writers
    PROVE  AsyncPacket(w) \in Packets /\ AsyncPacket(w) \notin Accounted
<1>1. awritten[w] \in Nat BY DEF AsyncTypes
<1>2. AsyncPacket(w) \in Packets /\ AsyncPacket(w)[1] = w /\ AsyncPacket(w)[2] = awritten[w] + 1
  BY <1>1 DEF AsyncPacket, Packets
<1> QED BY <1>1, <1>2 DEF InOnePlace

\* The event loop takes the callback that was scheduled first.
LEMMA CallbackTaken ==
    ASSUME AsyncTypes, LoopOnce, scheduled # <<>>, scheduled' = Tail(scheduled)
    PROVE  /\ Head(scheduled) \in Packets /\ scheduled' \in Seq(Packets) /\ LoopOnce'
           /\ OnLoop = OnLoop' \cup {Head(scheduled)} /\ Head(scheduled) \notin OnLoop'
<1>1. scheduled \in Seq(Packets) BY DEF AsyncTypes
<1>2. /\ Head(scheduled) \in Packets /\ Tail(scheduled) \in Seq(Packets)
      /\ \A x : x \in Range1(scheduled) <=> x \in Range1(Tail(scheduled)) \cup {Head(scheduled)}
      /\ Distinct(Tail(scheduled)) /\ Head(scheduled) \notin Range1(Tail(scheduled))
  BY <1>1, HeadTaken DEF LoopOnce, Distinct, Range1
<1>3. LoopOnce' BY <1>2, Zenon DEF LoopOnce, Distinct
<1>4. OnLoop' = Range1(Tail(scheduled)) BY Zenon DEF OnLoop, Range1
<1>5. OnLoop = Range1(scheduled) BY DEF OnLoop
<1> QED BY <1>2, <1>3, <1>4, <1>5

\* The oldest packet of the asyncio.Queue.
LEMMA OldestTaken ==
    ASSUME AsyncTypes, QueueOnce, aqueue # <<>>
    PROVE  /\ Head(aqueue) \in Packets /\ Tail(aqueue) \in Seq(Packets) /\ Distinct(Tail(aqueue))
           /\ InQueue = Range1(Tail(aqueue)) \cup {Head(aqueue)} /\ Head(aqueue) \notin Range1(Tail(aqueue))
           /\ Len(Tail(aqueue)) = Len(aqueue) - 1 /\ Len(aqueue) \in Nat
<1>1. aqueue \in Seq(Packets) BY DEF AsyncTypes
<1>2. /\ Head(aqueue) \in Packets /\ Tail(aqueue) \in Seq(Packets) /\ Len(Tail(aqueue)) = Len(aqueue) - 1
      /\ Len(aqueue) \in Nat
  BY <1>1, HeadTaken
<1>3. /\ \A x : x \in Range1(aqueue) <=> x \in Range1(Tail(aqueue)) \cup {Head(aqueue)}
      /\ Distinct(Tail(aqueue)) /\ Head(aqueue) \notin Range1(Tail(aqueue))
  BY <1>1, HeadTaken DEF QueueOnce, Distinct, Range1
<1>4. InQueue = Range1(aqueue) BY DEF InQueue
<1> QED BY <1>2, <1>3, <1>4

\* A packet put into a queue that does not hold it.
LEMMA AsyncPut ==
    ASSUME NEW s \in Seq(Packets), NEW p \in Packets, Distinct(s), p \notin Range1(s), aqueue' = Append(s, p)
    PROVE  /\ aqueue' \in Seq(Packets) /\ Len(aqueue') = Len(s) + 1 /\ QueueOnce'
           /\ InQueue' = Range1(s) \cup {p}
<1> DEFINE t == Append(s, p)
<1>1. /\ t \in Seq(Packets) /\ Len(t) = Len(s) + 1
      /\ \A x : x \in Range1(t) <=> x \in Range1(s) \cup {p}
      /\ Distinct(t)
  BY Appended DEF Range1, Distinct
<1>2. aqueue' = t OBVIOUS
<1> HIDE DEF t
<1>3. InQueue' = Range1(t) BY <1>2, Zenon DEF InQueue, Range1
<1>4. QueueOnce' BY <1>1, <1>2, Zenon DEF QueueOnce, Distinct
<1> QED BY <1>1, <1>2, <1>3, <1>4

\* A packet scheduled on the event loop.
LEMMA CallbackAdded ==
    ASSUME AsyncTypes, LoopOnce, NEW p \in Packets, p \notin OnLoop, scheduled' = Append(scheduled, p)
    PROVE  scheduled' \in Seq(Packets) /\ LoopOnce' /\ OnLoop' = OnLoop \cup {p}
<1>1. scheduled \in Seq(Packets) BY DEF AsyncTypes
<1> DEFINE t == Append(scheduled, p)
<1>2. /\ t \in Seq(Packets) /\ Distinct(t)
      /\ \A x : x \in Range1(t) <=> x \in Range1(scheduled) \cup {p}
  BY <1>1, Appended DEF LoopOnce, OnLoop, Range1, Distinct
<1>3. scheduled' = t OBVIOUS
<1> HIDE DEF t
<1>4. OnLoop' = Range1(t) BY <1>3, Zenon DEF OnLoop, Range1
<1>5. LoopOnce' BY <1>2, <1>3, Zenon DEF LoopOnce, Distinct
<1>6. OnLoop = Range1(scheduled) BY DEF OnLoop
<1> QED BY <1>2, <1>3, <1>4, <1>5, <1>6

\* A packet that is lost and counted.
LEMMA CountedLoss ==
    ASSUME IsFiniteSet(alost), NEW p, p \notin alost, AsyncDropsExact, alost' = alost \cup {p}, adropped' = adropped + 1
    PROVE  IsFiniteSet(alost') /\ AsyncDropsExact'
<1>1. IsFiniteSet(alost \cup {p}) /\ Cardinality(alost \cup {p}) = Cardinality(alost) + 1
  BY FS_AddElement
<1>2. IsFiniteSet(alost') /\ Cardinality(alost') = Cardinality(alost) + 1 BY <1>1, Zenon
<1> QED BY <1>2 DEF AsyncDropsExact

\* A sink where every packet is in one place conserves them.
LEMMA OnePlaceConserves == AsyncInv => AsyncConserves
<1> SUFFICES ASSUME AsyncInv, ~a_closed, NEW w \in Writers, NEW i \in 1 .. awritten[w]
             PROVE  Cardinality({s \in {"loop", "queue", "got", "lost"} :
                        <<w, i>> \in CASE s = "loop" -> Range1(scheduled)
                                       [] s = "queue" -> Range1(aqueue)
                                       [] s = "got" -> aconsumed
                                       [] s = "lost" -> alost}) = 1
  BY DEF AsyncConserves
<1> DEFINE p == <<w, i>>
           S == {s \in {"loop", "queue", "got", "lost"} :
                    p \in CASE s = "loop" -> Range1(scheduled)
                            [] s = "queue" -> Range1(aqueue)
                            [] s = "got" -> aconsumed
                            [] s = "lost" -> alost}
<1>1. p \in Accounted BY DEF AsyncInv, NoneDisappears
<1> HIDE DEF p
<1>2. /\ "loop" \in S <=> p \in OnLoop
      /\ "queue" \in S <=> p \in InQueue
      /\ "got" \in S <=> p \in aconsumed
      /\ "lost" \in S <=> p \in alost
      /\ S \subseteq {"loop", "queue", "got", "lost"}
  BY DEF OnLoop, InQueue
<1> HIDE DEF S
<1>3. \E x : S = {x}
  <2>1. CASE p \in OnLoop
    <3>1. S = {"loop"} BY <1>2, <2>1 DEF AsyncInv, InOnePlace
    <3> QED BY <3>1
  <2>2. CASE p \in InQueue
    <3>1. S = {"queue"} BY <1>2, <2>2 DEF AsyncInv, InOnePlace
    <3> QED BY <3>1
  <2>3. CASE p \in aconsumed
    <3>1. S = {"got"} BY <1>2, <2>3 DEF AsyncInv, InOnePlace
    <3> QED BY <3>1
  <2>4. CASE p \in alost
    <3>1. S = {"lost"} BY <1>2, <2>4 DEF AsyncInv, InOnePlace
    <3> QED BY <3>1
  <2> QED BY <1>1, <2>1, <2>2, <2>3, <2>4 DEF Accounted
<1>4. Cardinality(S) = 1 BY <1>3, FS_Singleton
<1> QED BY <1>4, Zenon DEF S, p
\* Every step of the AsyncQueueSink, of its loop and of its application keeps the
\* invariant (write, _put_packet, get, close).
LEMMA AsyncStep ==
    ASSUME AsyncInv, AsyncNext
    PROVE  AsyncInv'
<1> USE DEF AsyncInv
<1>1. /\ OnLoop \subseteq Packets /\ InQueue \subseteq Packets /\ Accounted \subseteq Packets
      /\ \A p \in Packets : p[1] \in Writers /\ p[2] \in Nat \ {0} /\ p = <<p[1], p[2]>>
  BY WaitingArePackets
<1>2. \A v \in Writers : awritten[v] \in Nat BY DEF AsyncTypes
<1>3. MaxSize \in Nat \ {0} BY QueueAssumption DEF QueueAssumption
<1>4. ASSUME NEW w \in Writers, AsyncWrite(w) PROVE AsyncInv'
  <2> DEFINE p == AsyncPacket(w)
  <2>1. /\ awritten' = [awritten EXCEPT ![w] = awritten[w] + 1] /\ ~a_closed
        /\ UNCHANGED <<aqueue, aconsumed, a_closed>>
    BY <1>4 DEF AsyncWrite
  <2>2. p \in Packets /\ p \notin Accounted BY NewAsyncPacket
  <2>3. p = <<w, awritten[w] + 1>> BY DEF AsyncPacket
  <2>4. \/ scheduled' = Append(scheduled, p) /\ UNCHANGED <<adropped, alost>>
        \/ adropped' = adropped + 1 /\ alost' = alost \cup {p} /\ UNCHANGED scheduled
    BY <1>4 DEF AsyncWrite
  <2> HIDE DEF p
  <2>5. InQueue' = InQueue /\ (QueueOnce => QueueOnce') BY <2>1 DEF InQueue, Range1, QueueOnce, Distinct
  <2>6. awritten' \in [Writers -> Nat] /\ \A v \in Writers : awritten'[v] = IF v = w THEN awritten[v] + 1 ELSE awritten[v]
    BY <1>2, <2>1 DEF AsyncTypes
  <2>7. /\ scheduled' \in Seq(Packets) /\ LoopOnce' /\ alost' \subseteq Packets /\ IsFiniteSet(alost')
        /\ AsyncDropsExact'
        /\ \/ OnLoop' = OnLoop \cup {p} /\ alost' = alost
           \/ OnLoop' = OnLoop /\ alost' = alost \cup {p}
    <3>1. CASE scheduled' = Append(scheduled, p) /\ UNCHANGED <<adropped, alost>>
      <4>1. p \notin OnLoop BY <2>2 DEF Accounted
      <4>2. scheduled' \in Seq(Packets) /\ LoopOnce' /\ OnLoop' = OnLoop \cup {p}
        BY <2>2, <3>1, <4>1, CallbackAdded DEF InOnePlace
      <4>3. AsyncDropsExact' BY <3>1 DEF AsyncDropsExact
      <4> QED BY <3>1, <4>2, <4>3 DEF AsyncTypes
    <3>2. CASE adropped' = adropped + 1 /\ alost' = alost \cup {p} /\ UNCHANGED scheduled
      <4>1. IsFiniteSet(alost') /\ AsyncDropsExact' BY <2>2, <3>2, CountedLoss DEF AsyncTypes, Accounted
      <4>2. OnLoop' = OnLoop /\ LoopOnce' BY <3>2 DEF OnLoop, Range1, LoopOnce, Distinct, InOnePlace
      <4> QED BY <2>2, <3>2, <4>1, <4>2 DEF AsyncTypes
    <3> QED BY <2>4, <3>1, <3>2
  <2>8. AsyncTypes' BY <2>1, <2>6, <2>7 DEF AsyncTypes
  <2>9. Accounted' = Accounted \cup {p} BY <2>1, <2>5, <2>7 DEF Accounted
  <2>10. \A q \in Accounted' : q[2] <= awritten'[q[1]]
    <3>1. SUFFICES ASSUME NEW q \in Accounted' PROVE q[2] <= awritten'[q[1]]
      OBVIOUS
    <3>2. CASE q = p BY <1>2, <2>3, <2>6, <3>2
    <3>3. CASE q # p
      <4>1. q \in Accounted BY <2>9, <3>3
      <4>2. q[1] \in Writers /\ q[2] \in Nat /\ q[2] <= awritten[q[1]] BY <1>1, <4>1 DEF InOnePlace
      <4> QED BY <1>2, <2>6, <4>2
    <3> QED BY <3>2, <3>3
  <2>11. InOnePlace'
    <3>1. /\ OnLoop' \cap (InQueue' \cup aconsumed' \cup alost') = {}
          /\ InQueue' \cap (aconsumed' \cup alost') = {} /\ aconsumed' \cap alost' = {}
      BY <2>1, <2>2, <2>5, <2>7 DEF InOnePlace, Accounted
    <3>2. LoopOnce' /\ QueueOnce' BY <2>5, <2>7 DEF InOnePlace
    <3> QED BY <2>10, <3>1, <3>2 DEF InOnePlace
  <2>12. NoneDisappears'
    <3>1. SUFFICES ASSUME NEW v \in Writers, NEW i \in 1 .. awritten'[v] PROVE <<v, i>> \in Accounted'
      BY DEF NoneDisappears
    <3>2. CASE v = w /\ i = awritten[w] + 1 BY <2>3, <2>9, <3>2
    <3>3. CASE ~(v = w /\ i = awritten[w] + 1)
      <4>1. i \in 1 .. awritten[v] BY <1>2, <2>6, <3>3
      <4>2. <<v, i>> \in Accounted BY <2>1, <4>1 DEF NoneDisappears
      <4> QED BY <2>9, <4>2
    <3> QED BY <3>2, <3>3
  <2> QED BY <2>7, <2>8, <2>11, <2>12
<1>5. ASSUME UNCHANGED awritten,
             scheduled' \in Seq(Packets), aqueue' \in Seq(Packets), Len(aqueue') <= MaxSize,
             aconsumed' \subseteq Packets, alost' \subseteq Packets, IsFiniteSet(alost'),
             LoopOnce', QueueOnce', AsyncDropsExact',
             OnLoop' \cap (InQueue' \cup aconsumed' \cup alost') = {},
             InQueue' \cap (aconsumed' \cup alost') = {}, aconsumed' \cap alost' = {},
             Accounted' \subseteq Accounted, a_closed' \/ (~a_closed /\ Accounted' = Accounted)
      PROVE  AsyncInv'
  <2>1. AsyncTypes' BY <1>5 DEF AsyncTypes
  <2>2. InOnePlace' BY <1>5 DEF InOnePlace
  <2>3. NoneDisappears' BY <1>5 DEF NoneDisappears
  <2> QED BY <1>5, <2>1, <2>2, <2>3
<1>6. CASE PutPacket
  <2> DEFINE p == Head(scheduled)
  <2>1. /\ scheduled # <<>> /\ scheduled' = Tail(scheduled) /\ UNCHANGED <<awritten, aconsumed, a_closed>>
    BY <1>6 DEF PutPacket
  <2>2. /\ p \in Packets /\ scheduled' \in Seq(Packets) /\ LoopOnce' /\ OnLoop = OnLoop' \cup {p} /\ p \notin OnLoop'
    BY <2>1, CallbackTaken DEF InOnePlace
  <2>3. p \in OnLoop /\ p \notin InQueue /\ p \notin aconsumed /\ p \notin alost BY <2>2 DEF InOnePlace
  <2>4. CASE a_closed /\ UNCHANGED <<aqueue, adropped, alost>>
    <3>1. InQueue' = InQueue /\ QueueOnce'
      BY <2>4 DEF InQueue, Range1, QueueOnce, Distinct, InOnePlace
    <3>2. AsyncDropsExact' BY <2>4 DEF AsyncDropsExact
    <3>3. aqueue' \in Seq(Packets) /\ Len(aqueue') <= MaxSize /\ aconsumed' \subseteq Packets
          /\ alost' \subseteq Packets /\ IsFiniteSet(alost')
      BY <2>1, <2>4 DEF AsyncTypes
    <3>4. /\ OnLoop' \cap (InQueue' \cup aconsumed' \cup alost') = {}
          /\ InQueue' \cap (aconsumed' \cup alost') = {} /\ aconsumed' \cap alost' = {}
          /\ Accounted' \subseteq Accounted
      BY <2>1, <2>2, <2>4, <3>1 DEF InOnePlace, Accounted
    <3> QED BY <1>5, <2>1, <2>2, <2>4, <3>1, <3>2, <3>3, <3>4
  <2>5. CASE /\ ~a_closed /\ Len(aqueue) < MaxSize
             /\ aqueue' = Append(aqueue, p) /\ UNCHANGED <<adropped, alost>>
    <3>1. aqueue \in Seq(Packets) /\ Len(aqueue) \in Nat /\ Distinct(aqueue) /\ p \notin Range1(aqueue)
          /\ InQueue = Range1(aqueue)
      BY <2>3 DEF AsyncTypes, InOnePlace, QueueOnce, InQueue
    <3> HIDE DEF p
    <3>2. aqueue' \in Seq(Packets) /\ Len(aqueue') = Len(aqueue) + 1 /\ QueueOnce' /\ InQueue' = InQueue \cup {p}
      <4>1. \A i, j \in DOMAIN aqueue : aqueue[i] = aqueue[j] => i = j BY <3>1 DEF Distinct
      <4> QED BY <2>2, <2>5, <3>1, <4>1, AsyncPut DEF Distinct, Range1
    <3>3. AsyncDropsExact' BY <2>5 DEF AsyncDropsExact
    <3>4. Len(aqueue') <= MaxSize /\ aconsumed' \subseteq Packets /\ alost' \subseteq Packets /\ IsFiniteSet(alost')
      BY <1>3, <2>1, <2>5, <3>1, <3>2 DEF AsyncTypes
    <3>5. /\ OnLoop' \cap (InQueue' \cup aconsumed' \cup alost') = {}
          /\ InQueue' \cap (aconsumed' \cup alost') = {} /\ aconsumed' \cap alost' = {}
          /\ Accounted' = Accounted
      BY <2>1, <2>2, <2>3, <2>5, <3>2 DEF InOnePlace, Accounted
    <3> QED BY <1>5, <2>1, <2>2, <2>5, <3>2, <3>3, <3>4, <3>5
  <2>6. CASE /\ ~a_closed /\ Len(aqueue) = MaxSize /\ ~drop_oldest
             /\ adropped' = adropped + 1 /\ aqueue' = aqueue /\ alost' = alost \cup {p}
    <3>1. InQueue' = InQueue /\ QueueOnce'
      BY <2>6 DEF InQueue, Range1, QueueOnce, Distinct, InOnePlace
    <3> HIDE DEF p
    <3>2. IsFiniteSet(alost') /\ AsyncDropsExact' BY <2>3, <2>6, CountedLoss DEF AsyncTypes
    <3>3. aqueue' \in Seq(Packets) /\ Len(aqueue') <= MaxSize /\ aconsumed' \subseteq Packets /\ alost' \subseteq Packets
      BY <2>1, <2>2, <2>6 DEF AsyncTypes
    <3>4. /\ OnLoop' \cap (InQueue' \cup aconsumed' \cup alost') = {}
          /\ InQueue' \cap (aconsumed' \cup alost') = {} /\ aconsumed' \cap alost' = {}
          /\ Accounted' = Accounted
      BY <2>1, <2>2, <2>3, <2>6, <3>1 DEF InOnePlace, Accounted
    <3> QED BY <1>5, <2>1, <2>2, <2>6, <3>1, <3>2, <3>3, <3>4
  <2>7. CASE /\ ~a_closed /\ Len(aqueue) = MaxSize /\ drop_oldest
             /\ adropped' = adropped + 1 /\ aqueue' = Append(Tail(aqueue), p) /\ alost' = alost \cup {Head(aqueue)}
    <3> DEFINE s == Tail(aqueue)
               q == Head(aqueue)
               rest == Range1(Tail(aqueue))
    <3>1. aqueue # <<>> BY <1>3, <2>7
    <3>2. /\ q \in Packets /\ s \in Seq(Packets) /\ Distinct(s) /\ InQueue = rest \cup {q} /\ q \notin rest
          /\ Len(s) = Len(aqueue) - 1 /\ Len(aqueue) \in Nat
      BY <3>1, OldestTaken DEF InOnePlace, Distinct, Range1
    <3>3. aqueue' = Append(s, p) /\ alost' = alost \cup {q} BY <2>7
    <3>4. p \notin rest BY <2>3, <3>2
    <3> HIDE DEF p
    <3>5. /\ aqueue' \in Seq(Packets) /\ Len(aqueue') = Len(s) + 1 /\ QueueOnce' /\ InQueue' = rest \cup {p}
      BY <2>2, <3>2, <3>3, <3>4, AsyncPut DEF Distinct, Range1
    <3> HIDE DEF s, q, rest
    <3>6. q \notin alost /\ q \notin aconsumed /\ q \notin OnLoop /\ q # p
      BY <2>3, <3>2 DEF InOnePlace
    <3>7. IsFiniteSet(alost') /\ AsyncDropsExact' BY <2>7, <3>3, <3>6, CountedLoss DEF AsyncTypes
    <3>8. Len(aqueue') <= MaxSize BY <2>7, <1>3, <3>2, <3>5
    <3>9. aconsumed' \subseteq Packets /\ alost' \subseteq Packets BY <2>1, <3>2, <3>3 DEF AsyncTypes
    <3>10. /\ OnLoop' \cap (InQueue' \cup aconsumed' \cup alost') = {}
           /\ InQueue' \cap (aconsumed' \cup alost') = {} /\ aconsumed' \cap alost' = {}
           /\ Accounted' = Accounted
      BY <2>1, <2>2, <2>3, <3>2, <3>3, <3>4, <3>5, <3>6 DEF InOnePlace, Accounted
    <3> QED BY <1>5, <2>1, <2>2, <2>7, <3>5, <3>7, <3>8, <3>9, <3>10
  <2>8. \/ a_closed /\ UNCHANGED <<aqueue, adropped, alost>>
        \/ ~a_closed /\ Len(aqueue) < MaxSize /\ aqueue' = Append(aqueue, p) /\ UNCHANGED <<adropped, alost>>
        \/ /\ ~a_closed /\ Len(aqueue) = MaxSize /\ adropped' = adropped + 1
           /\ aqueue' = IF drop_oldest THEN Append(Tail(aqueue), p) ELSE aqueue
           /\ alost' = alost \cup {IF drop_oldest THEN Head(aqueue) ELSE p}
    BY <1>6, Zenon DEF PutPacket
  <2> HIDE DEF p
  <2> QED BY <2>4, <2>5, <2>6, <2>7, <2>8
<1>7. CASE AsyncGet
  <2> DEFINE q == Head(aqueue)
             rest == Range1(Tail(aqueue))
  <2>1. /\ aqueue # <<>> /\ aconsumed' = aconsumed \cup {q} /\ aqueue' = Tail(aqueue)
        /\ UNCHANGED <<awritten, scheduled, adropped, alost, a_closed>>
    BY <1>7 DEF AsyncGet
  <2>2. /\ q \in Packets /\ Tail(aqueue) \in Seq(Packets) /\ Distinct(Tail(aqueue)) /\ InQueue = rest \cup {q}
        /\ q \notin rest /\ Len(Tail(aqueue)) = Len(aqueue) - 1 /\ Len(aqueue) \in Nat
    BY <2>1, OldestTaken DEF InOnePlace, Distinct, Range1
  <2>3. InQueue' = rest BY <2>1, Zenon DEF InQueue, Range1
  <2>4. QueueOnce' BY <2>1, <2>2, Zenon DEF QueueOnce, Distinct
  <2> HIDE DEF q, rest
  <2>5. OnLoop' = OnLoop /\ LoopOnce' BY <2>1 DEF OnLoop, Range1, LoopOnce, Distinct, InOnePlace
  <2>6. Len(aqueue') <= MaxSize BY <1>3, <2>1, <2>2 DEF AsyncTypes
  <2>7. AsyncDropsExact' BY <2>1 DEF AsyncDropsExact
  <2>8. /\ scheduled' \in Seq(Packets) /\ aqueue' \in Seq(Packets) /\ aconsumed' \subseteq Packets
        /\ alost' \subseteq Packets /\ IsFiniteSet(alost')
    BY <2>1, <2>2 DEF AsyncTypes
  <2>9. /\ OnLoop' \cap (InQueue' \cup aconsumed' \cup alost') = {}
        /\ InQueue' \cap (aconsumed' \cup alost') = {} /\ aconsumed' \cap alost' = {}
        /\ Accounted' = Accounted
    BY <2>1, <2>2, <2>3, <2>5 DEF InOnePlace, Accounted
  <2>10. a_closed' \/ (~a_closed /\ Accounted' = Accounted) BY <2>1, <2>9
  <2> QED BY <1>5, <2>1, <2>4, <2>5, <2>6, <2>7, <2>8, <2>9, <2>10
<1>8. CASE CloseAsyncSink \/ CloseLoop
  <2>1. UNCHANGED <<awritten, scheduled, aqueue, adropped, alost, aconsumed>>
    BY <1>8 DEF CloseAsyncSink, CloseLoop
  <2>2. /\ OnLoop' = OnLoop /\ InQueue' = InQueue /\ LoopOnce' /\ QueueOnce' /\ AsyncDropsExact'
    BY <2>1 DEF OnLoop, InQueue, Range1, LoopOnce, QueueOnce, Distinct, InOnePlace, AsyncDropsExact
  <2>3. Accounted' = Accounted BY <2>1, <2>2 DEF Accounted
  <2>4. a_closed' = a_closed \/ a_closed' = TRUE BY <1>8 DEF CloseAsyncSink, CloseLoop
  <2>5. AsyncTypes' BY <2>1 DEF AsyncTypes
  <2>6. InOnePlace' BY <2>1, <2>2, <2>3 DEF InOnePlace
  <2>7. NoneDisappears' BY <2>1, <2>3, <2>4 DEF NoneDisappears
  <2> QED BY <2>2, <2>5, <2>6, <2>7
<1> QED BY <1>4, <1>6, <1>7, <1>8 DEF AsyncNext
\* The AsyncQueueSink does not see what a QueueSink does.
LEMMA AsyncStays ==
    ASSUME AsyncInv, UNCHANGED avars
    PROVE  AsyncInv'
<1>1. UNCHANGED <<awritten, scheduled, aqueue, adropped, alost, aconsumed, a_closed>> BY DEF avars
<1>2. OnLoop' = OnLoop /\ InQueue' = InQueue /\ LoopOnce' = LoopOnce /\ QueueOnce' = QueueOnce
  BY <1>1 DEF OnLoop, InQueue, Range1, LoopOnce, QueueOnce, Distinct
<1>3. Accounted' = Accounted BY <1>1, <1>2 DEF Accounted
<1>4. AsyncTypes' /\ AsyncDropsExact' BY <1>1 DEF AsyncInv, AsyncTypes, AsyncDropsExact
<1>5. InOnePlace' BY <1>1, <1>2, <1>3 DEF AsyncInv, InOnePlace
<1>6. NoneDisappears' BY <1>1, <1>3 DEF AsyncInv, NoneDisappears
<1> QED BY <1>4, <1>5, <1>6 DEF AsyncInv

\* dropped hides no loss of a single writer once it is done, and one per packet of
\* writers that race (QueueSink.write).
LEMMA LossesShow == QueueInv => LossesCounted
<1> SUFFICES ASSUME QueueInv, \A w \in Writers : writing[w] = "idle"
             PROVE  Cardinality(lost) <= dropped * (IF Cardinality(Writers) = 1 THEN 1 ELSE 2)
  BY DEF LossesCounted
<1>1. Owing = {} BY DEF Owing
<1>2. Cardinality(Owing) = 0 BY <1>1, FS_EmptySet, Zenon
<1>3. /\ dropped \in Nat /\ Cardinality(lost) \in Nat
      /\ Cardinality(Writers) = 1 => Cardinality(lost) <= dropped + Cardinality(Owing)
      /\ Cardinality(Writers) # 1 => Cardinality(lost) <= 2 * dropped + Cardinality(Owing)
  BY SumsBefore
<1>4. CASE Cardinality(Writers) = 1
  <2>1. Cardinality(lost) <= dropped BY <1>2, <1>3, <1>4
  <2> QED BY <1>3, <1>4, <2>1
<1>5. CASE Cardinality(Writers) # 1
  <2>1. Cardinality(lost) <= dropped * 2 BY <1>2, <1>3, <1>5
  <2> QED BY <1>5, <2>1
<1> QED BY <1>4, <1>5

\* Whatever writers, consumer and event loop do in whatever order: join() waits for the
\* packets that are left, dropped tells of the losses, and no packet of an open
\* AsyncQueueSink disappears or is delivered twice (QueueSink, AsyncQueueSink).
THEOREM QueuesAreSound == QueueSpec => []QueuesAccount
<1>1. QueueInit /\ AsyncInit => QueueInv /\ AsyncInv
  <2> SUFFICES ASSUME QueueInit, AsyncInit PROVE QueueInv /\ AsyncInv
    OBVIOUS
  <2> USE DEF QueueInit, AsyncInit
  <2>1. MaxSize \in Nat BY QueueAssumption DEF QueueAssumption
  <2>2. Cardinality({}) = 0 /\ IsFiniteSet({}) BY FS_EmptySet
  <2>3. Getting = {} /\ Owing = {} BY DEF Getting, Owing
  <2>4. Cardinality(Getting) = 0 /\ Cardinality(Owing) = 0 /\ Cardinality(taken) = 0
        /\ Cardinality(lost) = 0 /\ Cardinality(alost) = 0
    BY <2>2, <2>3, Zenon
  <2>5. Len(queue) = 0 /\ queue \in Seq(Packets) /\ DOMAIN queue = {} OBVIOUS
  <2>6. IsFiniteSet(taken) /\ IsFiniteSet(lost) /\ IsFiniteSet(alost) BY <2>2
  <2>7. QueueTypes BY <2>1, <2>5, <2>6 DEF QueueTypes
  <2>8. Numbered BY <2>5 DEF Numbered, Distinct, Range1
  <2>9. UnfinishedExact BY <2>4, <2>5, GotIsWriting
  <2>10. LossesOwed BY <2>4 DEF LossesOwed
  <2>11. scheduled = <<>> /\ aqueue = <<>> /\ Len(aqueue) = 0 /\ DOMAIN scheduled = {} /\ DOMAIN aqueue = {}
         /\ scheduled \in Seq(Packets) /\ aqueue \in Seq(Packets)
    OBVIOUS
  <2>12. AsyncTypes BY <2>1, <2>6, <2>11 DEF AsyncTypes
  <2>13. OnLoop = {} /\ InQueue = {} BY <2>11 DEF OnLoop, InQueue, Range1
  <2>14. Accounted = {} BY <2>13 DEF Accounted
  <2>15. InOnePlace BY <2>11, <2>13, <2>14 DEF InOnePlace, LoopOnce, QueueOnce, Distinct
  <2>16. NoneDisappears
    <3>1. \A w \in Writers : 1 .. awritten[w] = {} OBVIOUS
    <3> QED BY <3>1 DEF NoneDisappears
  <2>17. AsyncDropsExact BY <2>4 DEF AsyncDropsExact
  <2> QED BY <2>7, <2>8, <2>9, <2>10, <2>12, <2>15, <2>16, <2>17 DEF QueueInv, AsyncInv
<1>2. QueueInv /\ AsyncInv /\ [QueueNext \/ AsyncNext]_queueVars => QueueInv' /\ AsyncInv'
  <2> SUFFICES ASSUME QueueInv, AsyncInv, [QueueNext \/ AsyncNext]_queueVars PROVE QueueInv' /\ AsyncInv'
    OBVIOUS
  <2>1. CASE QueueNext
    <3>1. UNCHANGED avars
      BY <2>1 DEF QueueNext, Write, TakeOldest, MarkOldestDone, PutAgain, Get, ConsumerDone, CloseQueueSink
    <3>2. AsyncInv' BY <3>1, AsyncStays
    <3>3. QueueInv'
      <4>1. CASE \E w \in Writers : Write(w) \/ TakeOldest(w) \/ MarkOldestDone(w) \/ PutAgain(w)
        BY <4>1, QueueWriterStep
      <4>2. CASE Get \/ ConsumerDone BY <4>2, QueueConsumerStep
      <4>3. CASE CloseQueueSink
        <5>1. UNCHANGED <<queue, unfinished, taken, dropped, writing, written, lost>>
          BY <4>3 DEF CloseQueueSink
        <5> QED BY <5>1, QueueConsumerStep
      <4> QED BY <2>1, <4>1, <4>2, <4>3 DEF QueueNext
    <3> QED BY <3>2, <3>3
  <2>2. CASE AsyncNext
    <3>1. UNCHANGED qvars BY <2>2 DEF AsyncNext, AsyncWrite, PutPacket, AsyncGet, CloseAsyncSink, CloseLoop
    <3>2. QueueInv' BY <3>1, QueueConsumerStep DEF qvars
    <3> QED BY <2>2, <3>2, AsyncStep
  <2>3. CASE UNCHANGED queueVars
    <3>1. UNCHANGED <<queue, unfinished, taken, dropped, writing, written, lost>> /\ UNCHANGED avars
      BY <2>3 DEF queueVars, qvars
    <3> QED BY <3>1, QueueConsumerStep, AsyncStays
  <2> QED BY <2>1, <2>2, <2>3
<1>3. QueueInv /\ AsyncInv => QueuesAccount
  BY LossesShow, OnePlaceConserves DEF QueuesAccount, QueueInv, AsyncInv
<1> QED BY <1>1, <1>2, <1>3, PTL DEF QueueSpec

-----------------------------------------------------------------------------
(***************************** the silence *********************************)

Tracks == [due : Nat, for : Nat, of : Nat]
SilencePackets == [key : Keys, of : Nat]

SilenceTypes ==
    /\ tick \in Nat /\ packets \in Nat
    /\ tracks \in [Keys -> Tracks]
    /\ dwrite \in Keys \cup {"idle"}
    /\ emitted \in [Keys -> Nat] /\ stale \in [Keys -> Nat]
    /\ batch \in Seq(SilencePackets)
    /\ sthread \in {"wait", "collect", "write", "writing", "done"}

\* The thread collects again only after it has written what it had collected.
Holding == (sthread \in {"wait", "collect"} => batch = <<>>) /\ (sthread = "writing" => batch # <<>>)

\* A round makes one packet per track.
OnePerTrack ==
    /\ Holding
    /\ \A i, j \in DOMAIN batch : batch[i].key = batch[j].key => i = j

\* A track counts the silence it has had.
Counted ==
    \A k \in Keys : /\ emitted[k] <= MaxSilence
                    /\ Present(k) => emitted[k] = tracks[k].for

\* When a stale packet has been written, the batch holds no other of its track.
StaleOnce ==
    \A k \in Keys :
        /\ stale[k] <= 1
        /\ stale[k] = 1 => \A i \in DOMAIN batch : batch[i].key = k => ~Present(k) \/ batch[i].of = tracks[k].of

\* The join of cleanup comes back when the thread has ended, or times out.
Joined == closing \in {"clear", "closed"} /\ ~timed_out => sthread = "done"

SilenceInv == SilenceTypes /\ OnePerTrack /\ Counted /\ StaleOnce /\ Joined

\* One round makes a packet for each track that is due (_collect_silence_packets).
LEMMA RoundMakesOneEach ==
    ASSUME SilenceTypes, NEW due \in SUBSET Keys
    PROVE  /\ Round(due) \in Seq(SilencePackets)
           /\ \A i, j \in DOMAIN Round(due) : Round(due)[i].key = Round(due)[j].key => i = j
           /\ \A i \in DOMAIN Round(due) : /\ Round(due)[i].key \in due
                                           /\ Round(due)[i].of = tracks[Round(due)[i].key].of
<1> DEFINE P(k) == [key |-> k, of |-> tracks[k].of]
           stamped == {P(k) : k \in due}
           good(s) == s \in [1 .. Cardinality(due) -> stamped] /\ \A k \in due : \E i \in DOMAIN s : s[i].key = k
           r == Round(due)
<1>1. \A k \in Keys : P(k) \in SilencePackets BY DEF SilenceTypes, Tracks, SilencePackets
<1>2. \A s : good(s) => good(r)
  BY Zenon DEF Round
<1> HIDE DEF r
<1>3. due = {} \/ (\E k \in Keys : due = {k}) \/ due = {"user", "ssrc"} BY DEF Keys
<1>4. CASE due = {}
  <2>1. Cardinality(due) = 0 BY <1>4, FS_EmptySet, Zenon
  <2>2. good(<<>>) BY <1>4, <2>1
  <2>3. good(r) BY <1>2, <2>2, Zenon
  <2>4. r = <<>> BY <2>1, <2>3
  <2> QED BY <2>4 DEF r
<1>5. ASSUME NEW k \in Keys, due = {k}
      PROVE  /\ r \in Seq(SilencePackets) /\ DOMAIN r = 1 .. 1 /\ r[1] = P(k)
  <2>1. Cardinality(due) = 1 BY <1>5, FS_Singleton, Zenon
  <2>2. good(<<P(k)>>)
    <3>1. <<P(k)>> \in [1 .. 1 -> stamped] BY <1>5
    <3>2. \A l \in due : <<P(k)>>[1].key = l BY <1>5
    <3> QED BY <2>1, <3>1, <3>2
  <2>3. good(r) BY <1>2, <2>2, Zenon
  <2>4. r \in [1 .. 1 -> stamped] BY <2>1, <2>3, Zenon
  <2>5. stamped = {P(k)} BY <1>5
  <2>6. r[1] = P(k) /\ DOMAIN r = 1 .. 1 BY <2>4, <2>5
  <2> HIDE DEF P
  <2>7. r = <<P(k)>> BY <2>4, <2>5, <2>6
  <2> QED BY <1>1, <2>6, <2>7
<1>6. CASE due = {"user", "ssrc"}
  <2>1. Cardinality(due) = 2
    <3>1. Cardinality({"user"}) = 1 /\ IsFiniteSet({"user"}) BY FS_Singleton
    <3>2. "ssrc" \notin {"user"} OBVIOUS
    <3>3. Cardinality({"user"} \cup {"ssrc"}) = Cardinality({"user"}) + 1 BY <3>1, <3>2, FS_AddElement
    <3>4. due = {"user"} \cup {"ssrc"} BY <1>6
    <3>5. Cardinality(due) = Cardinality({"user"}) + 1 BY <3>3, <3>4, Zenon
    <3> QED BY <3>1, <3>5
  <2>2. good(<<P("user"), P("ssrc")>>)
    <3>1. <<P("user"), P("ssrc")>> \in [1 .. 2 -> stamped] BY <1>6
    <3>2. <<P("user"), P("ssrc")>>[1].key = "user" /\ <<P("user"), P("ssrc")>>[2].key = "ssrc"
          /\ DOMAIN <<P("user"), P("ssrc")>> = 1 .. 2
      OBVIOUS
    <3> QED BY <1>6, <2>1, <3>1, <3>2
  <2>3. good(r) BY <1>2, <2>2, Zenon
  <2>4. r \in [1 .. 2 -> stamped] BY <2>1, <2>3, Zenon
  <2>5. \A k \in due : \E i \in 1 .. 2 : r[i].key = k BY <2>3, <2>4
  <2>6. r[1] \in stamped /\ r[2] \in stamped /\ DOMAIN r = 1 .. 2 BY <2>4
  <2>7. stamped \subseteq SilencePackets /\ \A p \in stamped : p.key \in due /\ p.of = tracks[p.key].of
    BY <1>1, <1>6 DEF Keys
  <2>8. r[1].key # r[2].key
    <3>1. \E i \in 1 .. 2 : r[i].key = "user" BY <1>6, <2>5
    <3>2. \E i \in 1 .. 2 : r[i].key = "ssrc" BY <1>6, <2>5
    <3>3. r[1].key = "user" \/ r[2].key = "user" BY <3>1
    <3>4. r[1].key = "ssrc" \/ r[2].key = "ssrc" BY <3>2
    <3> QED BY <3>3, <3>4
  <2> HIDE DEF stamped, P
  <2>9. r \in Seq(SilencePackets)
    <3>1. r \in [1 .. 2 -> SilencePackets] BY <2>4, <2>7
    <3> QED BY <3>1, SeqDef
  <2>10. \A i \in DOMAIN r : i = 1 \/ i = 2 BY <2>6
  <2>11. \A i \in DOMAIN r : r[i].key \in due /\ r[i].of = tracks[r[i].key].of BY <2>6, <2>7, <2>10
  <2>12. \A i, j \in DOMAIN r : r[i].key = r[j].key => i = j BY <2>8, <2>10
  <2> QED BY <2>9, <2>11, <2>12 DEF r
<1>7. CASE \E k \in Keys : due = {k}
  <2> PICK k \in Keys : due = {k} BY <1>7
  <2>1. /\ r \in Seq(SilencePackets) /\ DOMAIN r = 1 .. 1 /\ r[1] = P(k) BY <1>5
  <2>2. \A i \in DOMAIN r : i = 1 BY <2>1
  <2>3. r[1].key = k /\ r[1].of = tracks[k].of BY <2>1
  <2>4. \A i \in DOMAIN r : r[i].key \in due /\ r[i].of = tracks[r[i].key].of BY <2>2, <2>3
  <2>5. \A i, j \in DOMAIN r : r[i].key = r[j].key => i = j BY <2>2
  <2> QED BY <2>1, <2>4, <2>5 DEF r
<1> QED BY <1>3, <1>4, <1>6, <1>7
\* What a round collects is new: no packet of it is stale.
LEMMA CollectStep ==
    ASSUME SilenceInv, Collect
    PROVE  SilenceInv'
<1> USE DEF SilenceInv
<1>1. /\ sthread = "collect" /\ batch = <<>>
      /\ UNCHANGED <<tick, dwrite, packets, stop_event, closing, timed_out, stale>>
  BY DEF Collect, OnePerTrack, Holding
<1>2. CASE SinkClosed
  <2>1. sthread' = "wait" /\ UNCHANGED <<tracks, batch, emitted>> BY <1>2 DEF Collect
  <2>2. SilenceTypes' BY <1>1, <2>1 DEF SilenceTypes
  <2>3. OnePerTrack' BY <1>1, <2>1 DEF OnePerTrack, Holding
  <2>4. Counted' BY <2>1 DEF Counted, Present
  <2>5. StaleOnce' BY <1>1, <2>1 DEF StaleOnce, Present
  <2>6. Joined' BY <1>1, <2>1 DEF Joined
  <2> QED BY <2>2, <2>3, <2>4, <2>5, <2>6
<1>3. CASE ~SinkClosed
  <2> DEFINE due == {k \in Keys : Due(k)}
  <2>1. /\ batch' = Round(due)
        /\ emitted' = [k \in Keys |-> IF k \in due THEN emitted[k] + 1 ELSE emitted[k]]
        /\ tracks' = [k \in Keys |-> IF Spent(k) THEN NoTrack
                                     ELSE IF k \in due
                                     THEN [due |-> tracks[k].due + 1, for |-> tracks[k].for + 1, of |-> tracks[k].of]
                                     ELSE tracks[k]]
        /\ sthread' = "write"
    BY <1>3 DEF Collect
  <2>2. due \in SUBSET Keys OBVIOUS
  <2>3. \A k \in Keys : k \in due <=> Present(k) /\ ~Spent(k) /\ tracks[k].due <= tick
    BY DEF Due
  <2> HIDE DEF due
  <2>4. /\ batch' \in Seq(SilencePackets)
        /\ \A i, j \in DOMAIN batch' : batch'[i].key = batch'[j].key => i = j
        /\ \A i \in DOMAIN batch' : batch'[i].key \in due /\ batch'[i].of = tracks[batch'[i].key].of
    BY <2>1, <2>2, RoundMakesOneEach
  <2>5. \A k \in Keys : tracks[k] \in Tracks /\ emitted[k] \in Nat BY DEF SilenceTypes
  <2>6. \A k \in Keys :
          /\ Spent(k) => tracks'[k] = NoTrack
          /\ ~Spent(k) /\ k \notin due => tracks'[k] = tracks[k]
          /\ k \in due => /\ tracks'[k] = [due |-> tracks[k].due + 1, for |-> tracks[k].for + 1, of |-> tracks[k].of]
                          /\ emitted'[k] = emitted[k] + 1
          /\ k \notin due => emitted'[k] = emitted[k]
    BY <2>1, <2>3
  <2>7. SilenceTypes'
    <3>1. tracks' \in [Keys -> Tracks]
      <4>1. NoTrack \in Tracks BY DEF NoTrack, Tracks
      <4>2. \A k \in Keys : tracks'[k] \in Tracks
        <5>1. TAKE k \in Keys
        <5>2. CASE Spent(k) BY <2>6, <4>1, <5>2
        <5>3. CASE ~Spent(k) /\ k \notin due BY <2>5, <2>6, <5>3
        <5>4. CASE k \in due
          <6>1. tracks'[k] = [due |-> tracks[k].due + 1, for |-> tracks[k].for + 1, of |-> tracks[k].of]
            BY <2>6, <5>4
          <6>2. tracks[k].due \in Nat /\ tracks[k].for \in Nat /\ tracks[k].of \in Nat BY <2>5 DEF Tracks
          <6> QED BY <6>1, <6>2 DEF Tracks
        <5> QED BY <2>3, <5>2, <5>3, <5>4
      <4> QED BY <2>1, <4>2
    <3>2. emitted' \in [Keys -> Nat]
      <4>1. emitted' = [k \in Keys |-> IF k \in due THEN emitted[k] + 1 ELSE emitted[k]] BY <2>1
      <4>2. \A k \in Keys : emitted[k] \in Nat BY <2>5
      <4> QED BY <4>1, <4>2
    <3> QED BY <1>1, <2>1, <2>4, <3>1, <3>2 DEF SilenceTypes
  <2>8. OnePerTrack' BY <2>1, <2>4 DEF OnePerTrack, Holding
  <2>9. Counted'
    <3>1. SUFFICES ASSUME NEW k \in Keys
                   PROVE  emitted'[k] <= MaxSilence /\ (tracks'[k] # NoTrack => emitted'[k] = tracks'[k].for)
      BY DEF Counted, Present
    <3>2. emitted[k] <= MaxSilence /\ (Present(k) => emitted[k] = tracks[k].for) BY DEF Counted
    <3>3. CASE Spent(k) BY <2>3, <2>6, <3>2, <3>3
    <3>4. CASE ~Spent(k) /\ k \notin due BY <2>6, <3>2, <3>4 DEF Present
    <3>5. CASE k \in due
      <4>1. Present(k) /\ ~(tracks[k].for >= MaxSilence) BY <2>3, <3>5 DEF Spent
      <4>2. tracks[k].for \in Nat /\ MaxSilence \in Nat BY <2>5, SilenceAssumption DEF Tracks, SilenceAssumption
      <4>3. /\ tracks'[k] = [due |-> tracks[k].due + 1, for |-> tracks[k].for + 1, of |-> tracks[k].of]
            /\ emitted'[k] = emitted[k] + 1
        BY <2>6, <3>5, Zenon
      <4>4. tracks'[k].for = tracks[k].for + 1 BY <4>3
      <4> QED BY <3>2, <4>1, <4>2, <4>3, <4>4
    <3> QED BY <2>3, <3>3, <3>4, <3>5
  <2>10. StaleOnce'
    <3>1. ASSUME NEW i \in DOMAIN batch' PROVE batch'[i].of = tracks'[batch'[i].key].of
      <4>1. batch'[i].key \in Keys /\ batch'[i].key \in due /\ batch'[i].of = tracks[batch'[i].key].of
        BY <2>2, <2>4, <3>1
      <4> DEFINE k == batch'[i].key
      <4>2. tracks'[k] = [due |-> tracks[k].due + 1, for |-> tracks[k].for + 1, of |-> tracks[k].of]
        BY <2>6, <4>1, Zenon
      <4> HIDE DEF k
      <4>3. tracks'[k].of = tracks[k].of BY <4>2
      <4> QED BY <4>1, <4>3 DEF k
    <3>2. \A k \in Keys : stale'[k] <= 1 BY <1>1 DEF StaleOnce
    <3> QED BY <3>1, <3>2 DEF StaleOnce
  <2>11. Joined' BY <1>1, <2>1 DEF Joined
  <2> QED BY <2>7, <2>8, <2>9, <2>10, <2>11
<1> QED BY <1>2, <1>3

\* The packet that is written leaves the batch; if it was stale, none of its track is left
\* (_run).
LEMMA WriteSilenceStep ==
    ASSUME SilenceInv, WriteSilence
    PROVE  SilenceInv'
<1> USE DEF SilenceInv
<1> DEFINE p == Head(batch)
<1>1. /\ sthread = "writing" /\ batch' = Tail(batch) /\ sthread' = "write"
      /\ stale' = IF Present(p.key) /\ tracks[p.key].of # p.of THEN [stale EXCEPT ![p.key] = stale[p.key] + 1] ELSE stale
      /\ UNCHANGED <<tick, tracks, dwrite, packets, stop_event, closing, timed_out, emitted>>
  BY DEF WriteSilence
<1>2. batch # <<>> BY <1>1 DEF OnePerTrack, Holding
<1>3. batch \in Seq(SilencePackets) BY DEF SilenceTypes
<1>4. /\ p \in SilencePackets /\ p = batch[1] /\ DOMAIN batch = 1 .. Len(batch) /\ Len(batch) \in Nat \ {0}
      /\ batch' \in Seq(SilencePackets) /\ DOMAIN batch' = 1 .. Len(batch) - 1
  BY <1>1, <1>2, <1>3, HeadTailProperties
<1>5. \A i \in DOMAIN batch' : batch'[i] = batch[i + 1]
  BY <1>1, <1>2, <1>3, <1>4, HeadTailProperties
<1>6. \A i \in DOMAIN batch' : i + 1 \in DOMAIN batch /\ i + 1 # 1 /\ i \in Nat BY <1>4
<1>7. 1 \in DOMAIN batch BY <1>4
<1>8. \A i, j \in DOMAIN batch' : batch'[i].key = batch'[j].key => i = j
  <2>1. TAKE i, j \in DOMAIN batch'
  <2>2. batch'[i].key = batch'[j].key => i + 1 = j + 1 BY <1>5, <1>6 DEF OnePerTrack, Holding
  <2> QED BY <1>6, <2>2
<1>9. \A i \in DOMAIN batch' : batch'[i].key # p.key
  BY <1>4, <1>5, <1>6, <1>7 DEF OnePerTrack, Holding
<1>10. p.key \in Keys BY <1>4 DEF SilencePackets
<1> HIDE DEF p
<1>11. \A k \in Keys : stale[k] \in Nat /\ stale[k] <= 1 BY DEF SilenceTypes, StaleOnce
<1>12. stale' \in [Keys -> Nat] BY <1>1, <1>10, <1>11 DEF SilenceTypes
<1>13. SilenceTypes' BY <1>1, <1>4, <1>12 DEF SilenceTypes
<1>14. OnePerTrack' BY <1>1, <1>8 DEF OnePerTrack, Holding
<1>15. Counted' BY <1>1 DEF Counted, Present
<1>16. Joined' BY <1>1 DEF Joined
<1>17. StaleOnce'
  <2>1. SUFFICES ASSUME NEW k \in Keys
                 PROVE  /\ stale'[k] <= 1
                        /\ stale'[k] = 1 => \A i \in DOMAIN batch' : batch'[i].key = k =>
                                                tracks[k] = NoTrack \/ batch'[i].of = tracks[k].of
    BY <1>1 DEF StaleOnce, Present
  <2>2. CASE k = p.key
    <3>1. stale'[k] <= 1
      <4>1. CASE Present(k) /\ tracks[k].of # p.of
        <5>1. stale[k] # 1 BY <1>4, <1>7, <2>2, <4>1 DEF StaleOnce
        <5>2. stale'[k] = stale[k] + 1 BY <1>1, <2>2, <4>1 DEF SilenceTypes
        <5> QED BY <1>11, <5>1, <5>2
      <4>2. CASE ~(Present(k) /\ tracks[k].of # p.of) BY <1>1, <1>11, <2>2, <4>2
      <4> QED BY <4>1, <4>2
    <3> QED BY <1>9, <2>2, <3>1
  <2>3. CASE k # p.key
    <3>1. stale'[k] = stale[k] BY <1>1, <1>10, <2>3 DEF SilenceTypes
    <3>2. ASSUME stale[k] = 1, NEW i \in DOMAIN batch', batch'[i].key = k
          PROVE  tracks[k] = NoTrack \/ batch'[i].of = tracks[k].of
      <4>1. batch[i + 1].key = k /\ i + 1 \in DOMAIN batch BY <1>5, <1>6, <3>2
      <4>2. ~Present(k) \/ batch[i + 1].of = tracks[k].of BY <3>2, <4>1 DEF StaleOnce
      <4> QED BY <1>5, <4>2 DEF Present
    <3> QED BY <1>11, <3>1, <3>2
  <2> QED BY <2>2, <2>3
<1> QED BY <1>13, <1>14, <1>15, <1>16, <1>17

\* A real packet takes the place of the silence of its track (_remember_audio_packet).
LEMMA RememberStep ==
    ASSUME SilenceInv, Remember
    PROVE  SilenceInv'
<1> USE DEF SilenceInv
<1>1. dwrite \in Keys /\ dwrite' = "idle" /\ UNCHANGED <<tick, packets, sthread, batch, stop_event, closing, timed_out>>
  BY DEF Remember
<1>2. CASE UNCHANGED <<tracks, emitted, stale>>
  BY <1>1, <1>2 DEF SilenceTypes, OnePerTrack, Counted, StaleOnce, Joined, Present, Holding
<1>3. CASE /\ tracks' = [tracks EXCEPT ![dwrite] = [due |-> tick + SilenceAfter, for |-> 0, of |-> packets]]
           /\ emitted' = [emitted EXCEPT ![dwrite] = 0]
           /\ stale' = [stale EXCEPT ![dwrite] = 0]
  <2>1. SilenceAfter \in Nat /\ MaxSilence \in Nat BY SilenceAssumption DEF SilenceAssumption
  <2>2. [due |-> tick + SilenceAfter, for |-> 0, of |-> packets] \in Tracks
    BY <2>1 DEF SilenceTypes, Tracks
  <2>3. tracks' \in [Keys -> Tracks] BY <1>3, <2>2 DEF SilenceTypes
  <2>4. emitted' \in [Keys -> Nat] /\ stale' \in [Keys -> Nat] BY <1>3 DEF SilenceTypes
  <2>5. SilenceTypes' BY <1>1, <2>3, <2>4 DEF SilenceTypes
  <2>6. OnePerTrack' BY <1>1 DEF OnePerTrack, Holding
  <2>7. Counted'
    <3>1. SUFFICES ASSUME NEW k \in Keys
                   PROVE  emitted'[k] <= MaxSilence /\ (tracks'[k] # NoTrack => emitted'[k] = tracks'[k].for)
      BY DEF Counted, Present
    <3>2. CASE k = dwrite
      <4>1. emitted'[k] = 0 /\ tracks'[k].for = 0 BY <1>3, <3>2 DEF SilenceTypes
      <4> QED BY <2>1, <4>1
    <3>3. CASE k # dwrite
      <4>1. emitted'[k] = emitted[k] /\ tracks'[k] = tracks[k] BY <1>3, <3>3 DEF SilenceTypes
      <4> QED BY <4>1 DEF Counted, Present
    <3> QED BY <3>2, <3>3
  <2>8. StaleOnce'
    <3>1. SUFFICES ASSUME NEW k \in Keys
                   PROVE  /\ stale'[k] <= 1
                          /\ stale'[k] = 1 => \A i \in DOMAIN batch : batch[i].key = k =>
                                                  tracks'[k] = NoTrack \/ batch[i].of = tracks'[k].of
      BY <1>1 DEF StaleOnce, Present
    <3>2. CASE k = dwrite
      <4>1. stale'[k] = 0 BY <1>3, <3>2 DEF SilenceTypes
      <4> QED BY <4>1
    <3>3. CASE k # dwrite
      <4>1. stale'[k] = stale[k] /\ tracks'[k] = tracks[k] BY <1>3, <3>3 DEF SilenceTypes
      <4> QED BY <4>1 DEF StaleOnce, Present
    <3> QED BY <3>2, <3>3
  <2>9. Joined' BY <1>1 DEF Joined
  <2> QED BY <2>5, <2>6, <2>7, <2>8, <2>9
<1> QED BY <1>2, <1>3 DEF Remember

\* Silence ends: a track that is not spoken on gets at most max_silence of it, a real
\* packet is followed by one old silence packet at most, and the destination is closed
\* after the thread, unless it blocks it (SilenceFillSink).
THEOREM SilenceIsBounded == SilenceSpec => []SilenceIsTame
<1>1. SilenceInit => SilenceInv
  <2> SUFFICES ASSUME SilenceInit PROVE SilenceInv
    OBVIOUS
  <2> USE DEF SilenceInit
  <2>1. MaxSilence \in Nat BY SilenceAssumption DEF SilenceAssumption
  <2>2. NoTrack \in Tracks BY DEF NoTrack, Tracks
  <2>3. \A k \in Keys : emitted[k] = 0 /\ stale[k] = 0 /\ tracks[k] = NoTrack OBVIOUS
  <2>4. SilenceTypes BY <2>2 DEF SilenceTypes
  <2>5. OnePerTrack BY DEF OnePerTrack, Holding
  <2>6. Counted BY <2>1, <2>3 DEF Counted, Present
  <2>7. StaleOnce BY <2>3 DEF StaleOnce
  <2>8. Joined BY DEF Joined
  <2> QED BY <2>4, <2>5, <2>6, <2>7, <2>8 DEF SilenceInv
<1>2. SilenceInv /\ [SilenceNext]_silenceVars => SilenceInv'
  <2> SUFFICES ASSUME SilenceInv, [SilenceNext]_silenceVars PROVE SilenceInv'
    OBVIOUS
  <2> USE DEF SilenceInv
  <2>1. ASSUME NEW k \in Keys, SinkWrite(k) PROVE SilenceInv'
    <3>1. SilenceTypes' BY <2>1 DEF SinkWrite, SilenceTypes
    <3> QED BY <2>1, <3>1 DEF SinkWrite, OnePerTrack, Counted, StaleOnce, Joined, Present, Holding
  <2>2. CASE Wake
    <3>1. SilenceTypes' BY <2>2 DEF Wake, SilenceTypes
    <3> QED BY <2>2, <3>1 DEF Wake, OnePerTrack, Counted, StaleOnce, Joined, Present, Holding
  <2>3. CASE CheckClosed
    <3>1. SilenceTypes' BY <2>3 DEF CheckClosed, SilenceTypes
    <3> QED BY <2>3, <3>1 DEF CheckClosed, OnePerTrack, Counted, StaleOnce, Joined, Present, Holding
  <2>4. CASE StopThread
    <3>1. SilenceTypes' BY <2>4 DEF StopThread, SilenceTypes
    <3> QED BY <2>4, <3>1 DEF StopThread, OnePerTrack, Counted, StaleOnce, Joined, Present, Holding
  <2>5. CASE JoinThread
    <3>1. SilenceTypes' BY <2>5 DEF JoinThread, SilenceTypes
    <3>2. Joined' BY <2>5 DEF JoinThread, Joined
    <3> QED BY <2>5, <3>1, <3>2 DEF JoinThread, OnePerTrack, Counted, StaleOnce, Present, Holding
  <2>6. CASE CloseSilence
    <3>1. tracks' = [k \in Keys |-> NoTrack] /\ NoTrack \in Tracks
      BY <2>6 DEF CloseSilence, NoTrack, Tracks
    <3>2. SilenceTypes' BY <2>6, <3>1 DEF CloseSilence, SilenceTypes
    <3>3. \A k \in Keys : tracks'[k] = NoTrack BY <3>1
    <3>4. Counted' BY <2>6, <3>3 DEF CloseSilence, Counted, Present
    <3>5. StaleOnce' BY <2>6, <3>3 DEF CloseSilence, StaleOnce, Present
    <3> QED BY <2>6, <3>2, <3>4, <3>5 DEF CloseSilence, OnePerTrack, Joined, Holding
  <2>7. CASE Tick
    <3>1. SilenceTypes' BY <2>7 DEF Tick, SilenceTypes
    <3> QED BY <2>7, <3>1 DEF Tick, OnePerTrack, Counted, StaleOnce, Joined, Present, Holding
  <2>8. CASE UNCHANGED silenceVars
    BY <2>8 DEF silenceVars, SilenceTypes, OnePerTrack, Counted, StaleOnce, Joined, Present, Holding
  <2> QED BY <2>1, <2>2, <2>3, <2>4, <2>5, <2>6, <2>7, <2>8, RememberStep, CollectStep, WriteSilenceStep
          DEF SilenceNext
<1>3. SilenceInv => SilenceIsTame
  <2>1. SilenceInv => SilenceBounded BY DEF SilenceInv, Counted, SilenceBounded
  <2>2. SilenceInv => OneStaleFrame BY DEF SilenceInv, StaleOnce, OneStaleFrame
  <2>3. SilenceInv => ClosedAfterThread BY DEF SilenceInv, Joined, ClosedAfterThread, SinkClosed
  <2> QED BY <2>1, <2>2, <2>3 DEF SilenceIsTame
<1> QED BY <1>1, <1>2, <1>3, PTL DEF SilenceSpec

-----------------------------------------------------------------------------
(**************************** the timeline *********************************)

\* Division with remainder by a modulus that is not a number.
LEMMA Division ==
    ASSUME NEW a \in Int, NEW m \in Nat \ {0}
    PROVE  a = (m * (a \div m)) + (a % m) /\ a \div m \in Int /\ a % m \in 0 .. m - 1
  BY Z3

\* A multiple of m that is not 0 is at least as large as m.
LEMMA Multiples ==
    ASSUME NEW m \in Nat \ {0}, NEW q \in Int
    PROVE  m * q \in Int /\ (q >= 1 => m * q >= m) /\ (q <= -1 => m * q <= -m) /\ (q = 0 => m * q = 0)
  BY Z3

\* The remainder is the one number below m that is left by a multiple of m.
LEMMA Remainder ==
    ASSUME NEW m \in Nat \ {0}, NEW q \in Int, NEW r \in 0 .. m - 1, NEW a \in Int, a = (m * q) + r
    PROVE  a % m = r
<1> DEFINE p == a \div m
           s == a % m
<1>1. a = (m * p) + s /\ p \in Int /\ s \in 0 .. m - 1
  BY Division
<1> HIDE DEF p, s
<1>2. m * (q - p) = s - r
  BY <1>1, Z3
<1>3. q - p \in Int BY <1>1
<1>4. q - p = 0
  BY <1>1, <1>2, <1>3, Multiples
<1>5. m * (q - p) = 0 BY <1>3, <1>4, Multiples
<1>6. s = r BY <1>1, <1>2, <1>5
<1> QED BY <1>6 DEF s

\* Differences of what wraps around (_rtp_timestamp_delta, sequence numbers).
LEMMA Differences ==
    ASSUME NEW m \in Nat \ {0}, NEW a \in Int, NEW b \in Int
    PROVE  /\ (a - (b % m)) % m = (a - b) % m
           /\ ((a % m) - b) % m = (a - b) % m
           /\ ((a % m) - (b % m)) % m = (a - b) % m
<1> DEFINE q1 == a \div m
           r1 == a % m
           q2 == b \div m
           r2 == b % m
           q3 == (a - b) \div m
           r3 == (a - b) % m
<1>1. a = (m * q1) + r1 /\ q1 \in Int /\ r1 \in 0 .. m - 1 BY Division
<1>2. b = (m * q2) + r2 /\ q2 \in Int /\ r2 \in 0 .. m - 1 BY Division
<1>3. a - b = (m * q3) + r3 /\ q3 \in Int /\ r3 \in 0 .. m - 1
  <2>1. a - b \in Int OBVIOUS
  <2> QED BY <2>1, Division
<1> HIDE DEF q1, r1, q2, r2, q3, r3
<1>4. a - r2 = (m * (q3 + q2)) + r3 /\ r1 - b = (m * (q3 - q1)) + r3
      /\ r1 - r2 = (m * ((q3 + q2) - q1)) + r3
  BY <1>1, <1>2, <1>3, Z3
<1>5. /\ q3 + q2 \in Int /\ q3 - q1 \in Int /\ (q3 + q2) - q1 \in Int
      /\ a - r2 \in Int /\ r1 - b \in Int /\ r1 - r2 \in Int
  BY <1>1, <1>2, <1>3
<1>6. (a - r2) % m = r3
  <2> DEFINE c == a - r2
             k == q3 + q2
  <2>1. c = (m * k) + r3 /\ c \in Int /\ k \in Int BY <1>4, <1>5
  <2> HIDE DEF c, k
  <2>2. c % m = r3 BY <1>3, <2>1, Remainder
  <2> QED BY <2>2 DEF c
<1>7. (r1 - b) % m = r3
  <2> DEFINE c == r1 - b
             k == q3 - q1
  <2>1. c = (m * k) + r3 /\ c \in Int /\ k \in Int BY <1>4, <1>5
  <2> HIDE DEF c, k
  <2>2. c % m = r3 BY <1>3, <2>1, Remainder
  <2> QED BY <2>2 DEF c
<1>8. (r1 - r2) % m = r3
  <2> DEFINE c == r1 - r2
             k == (q3 + q2) - q1
  <2>1. c = (m * k) + r3 /\ c \in Int /\ k \in Int BY <1>4, <1>5
  <2> HIDE DEF c, k
  <2>2. c % m = r3 BY <1>3, <2>1, Remainder
  <2> QED BY <2>2 DEF c
<1> QED BY <1>6, <1>7, <1>8 DEF r1, r2, r3

\* The number before one that wraps around (_OpusDecoderCache).
LEMMA OneBefore ==
    ASSUME NEW m \in Nat \ {0}, NEW a \in Int
    PROVE  ((a % m) - 1) % m = (a - 1) % m
<1> DEFINE b == 1
<1>1. b \in Int OBVIOUS
<1> HIDE DEF b
<1>2. ((a % m) - b) % m = (a - b) % m BY <1>1, Differences
<1> QED BY <1>2 DEF b

\* A number below the modulus wraps around to itself.
LEMMA Small ==
    ASSUME NEW m \in Nat \ {0}, NEW a \in 0 .. m - 1
    PROVE  a % m = a
<1>1. a = (m * 0) + a /\ 0 \in Int /\ a \in Int BY Multiples
<1> QED BY <1>1, Remainder

HalfTs == TsMod \div 2

\* Half the range of timestamps.
LEMMA HalfTheRange ==
    /\ TsMod \in Nat \ {0} /\ NumMod \in Nat \ {0} /\ HalfTs \in Nat \ {0} /\ TsMod = HalfTs + HalfTs
    /\ FirstPos \in Int /\ LastPos \in Int /\ MaxLost \in Nat /\ Pause \in Nat
  BY TimelineAssumption, Z3 DEF HalfTs, TimelineAssumption

\* The delta of two timestamps is that of the positions, or there is none.
LEMMA DeltaOf ==
    ASSUME NEW i \in Int, NEW b \in Int, NEW d, d \in TimestampDelta(i % TsMod, b % TsMod)
    PROVE  d = (i - b) % TsMod /\ d \in 0 .. HalfTs - 1
<1> DEFINE e == (i - b) % TsMod
<1>1. ((i % TsMod) - (b % TsMod)) % TsMod = e BY Differences, HalfTheRange
<1>2. e \in 0 .. TsMod - 1
  <2>1. i - b \in Int OBVIOUS
  <2> QED BY <2>1, Division, HalfTheRange
<1> HIDE DEF e
<1>3. d \in IF e >= TsMod \div 2 THEN {} ELSE {e} BY <1>1 DEF TimestampDelta
<1>4. ~(e >= HalfTs) /\ d = e BY <1>3 DEF HalfTs
<1> QED BY <1>2, <1>4, HalfTheRange DEF e

\* There is a delta for what lies less than half the range ahead.
LEMMA DeltaAhead ==
    ASSUME NEW i \in Int, NEW b \in Int, i - b \in 0 .. HalfTs - 1
    PROVE  TimestampDelta(i % TsMod, b % TsMod) = {i - b}
<1> DEFINE e == (i - b) % TsMod
<1>1. ((i % TsMod) - (b % TsMod)) % TsMod = e BY Differences, HalfTheRange
<1>2. i - b \in 0 .. TsMod - 1 BY HalfTheRange
<1>3. e = i - b BY <1>2, Small, HalfTheRange
<1> HIDE DEF e
<1>4. ~(e >= TsMod \div 2) BY <1>3, HalfTheRange DEF HalfTs
<1>5. TimestampDelta(i % TsMod, b % TsMod) = {e} BY <1>1, <1>4, Zenon DEF TimestampDelta
<1> QED BY <1>3, <1>5

-----------------------------------------------------------------------------
\* What is mixed lies where the distance from the first packet puts it.
MixInv ==
    \/ base = {} /\ mixed = {}
    \/ \E b \in Int : /\ base = {b % TsMod}
                      /\ \A p \in mixed : /\ p[1] \in Int /\ p[2] \in 0 .. HalfTs - 1
                                          /\ p[2] = (p[1] - b) % TsMod

\* A packet is mixed (MixedWaveSink.write).
LEMMA MixStep ==
    ASSUME MixInv, NEW i \in Int, Mix(i)
    PROVE  MixInv'
<1>1. CASE base = {} /\ mixed = {}
  <2>1. base' = {i % TsMod} /\ mixed' = {<<i, 0>>} BY <1>1 DEF Mix
  <2>2. i - i = 0 /\ 0 % TsMod = 0 /\ 0 \in 0 .. HalfTs - 1 BY Small, HalfTheRange
  <2>3. \A p \in mixed' : p[1] = i /\ p[2] = 0 BY <2>1
  <2>4. \A p \in mixed' : p[1] \in Int /\ p[2] \in 0 .. HalfTs - 1 /\ p[2] = (p[1] - i) % TsMod
    BY <2>2, <2>3
  <2> QED BY <2>1, <2>4 DEF MixInv
<1>2. CASE \E b \in Int : /\ base = {b % TsMod}
                          /\ \A p \in mixed : /\ p[1] \in Int /\ p[2] \in 0 .. HalfTs - 1
                                              /\ p[2] = (p[1] - b) % TsMod
  <2> PICK b \in Int : /\ base = {b % TsMod}
                       /\ \A p \in mixed : /\ p[1] \in Int /\ p[2] \in 0 .. HalfTs - 1
                                           /\ p[2] = (p[1] - b) % TsMod
    BY <1>2
  <2>1. base # {} /\ base' = {b % TsMod} BY DEF Mix
  <2>2. mixed' = mixed \cup {<<i, d>> : d \in UNION {TimestampDelta(i % TsMod, c) : c \in base}}
    BY <2>1 DEF Mix
  <2>3. ASSUME NEW p \in mixed', p \notin mixed
        PROVE  p[1] \in Int /\ p[2] \in 0 .. HalfTs - 1 /\ p[2] = (p[1] - b) % TsMod
    <3>1. PICK d \in UNION {TimestampDelta(i % TsMod, c) : c \in base} : p = <<i, d>> BY <2>2, <2>3
    <3>2. d \in TimestampDelta(i % TsMod, b % TsMod) BY <3>1
    <3>3. d = (i - b) % TsMod /\ d \in 0 .. HalfTs - 1 BY <3>2, DeltaOf
    <3>4. p[1] = i /\ p[2] = d BY <3>1
    <3> QED BY <3>3, <3>4
  <2> QED BY <2>1, <2>3 DEF MixInv
<1> QED BY <1>1, <1>2 DEF MixInv

\* Mixed packets are as far apart as they were sent.
LEMMA MixIsAligned == MixInv => MixedAligned
<1> SUFFICES ASSUME MixInv, NEW p \in mixed, NEW q \in mixed, p[1] - q[1] \in 0 .. TsMod \div 2 - 1
             PROVE  p[2] - q[2] = p[1] - q[1]
  BY DEF MixedAligned
<1> PICK b \in Int : \A r \in mixed : /\ r[1] \in Int /\ r[2] \in 0 .. HalfTs - 1
                                      /\ r[2] = (r[1] - b) % TsMod
  BY DEF MixInv
<1>1. p[1] - q[1] \in 0 .. HalfTs - 1 BY DEF HalfTs
<1>2. /\ p[1] \in Int /\ q[1] \in Int /\ p[2] \in 0 .. HalfTs - 1 /\ q[2] \in 0 .. HalfTs - 1
      /\ p[2] = (p[1] - b) % TsMod /\ q[2] = (q[1] - b) % TsMod
  OBVIOUS
<1> DEFINE x == p[1]
           y == q[1]
           d == p[2]
           e == q[2]
<1> HIDE DEF x, y, d, e
<1>3. /\ x \in Int /\ y \in Int /\ d \in 0 .. HalfTs - 1 /\ e \in 0 .. HalfTs - 1
      /\ d = (x - b) % TsMod /\ e = (y - b) % TsMod /\ x - y \in 0 .. HalfTs - 1
  BY <1>1, <1>2 DEF x, y, d, e
<1>4. d - e = x - y
  <2>0. /\ x \in Int /\ y \in Int /\ d \in 0 .. HalfTs - 1 /\ e \in 0 .. HalfTs - 1
        /\ d = (x - b) % TsMod /\ e = (y - b) % TsMod /\ x - y \in 0 .. HalfTs - 1
    BY <1>3
  <2> DEFINE q1 == (x - b) \div TsMod
             q2 == (y - b) \div TsMod
  <2>1. x - b = (TsMod * q1) + d /\ q1 \in Int
    <3>1. x - b \in Int BY <2>0
    <3> QED BY <2>0, <3>1, Division, HalfTheRange
  <2>2. y - b = (TsMod * q2) + e /\ q2 \in Int
    <3>1. y - b \in Int BY <2>0
    <3> QED BY <2>0, <3>1, Division, HalfTheRange
  <2> HIDE DEF q1, q2
  <2>3. TsMod * (q1 - q2) = (x - y) - (d - e)
    <3>1. x \in Int /\ y \in Int /\ b \in Int /\ d \in Int /\ e \in Int /\ TsMod \in Int BY <2>0, HalfTheRange
    <3> QED BY <2>1, <2>2, <3>1, Z3
  <2>4. q1 - q2 \in Int BY <2>1, <2>2
  <2>5. q1 - q2 = 0
    <3>1. TsMod * (q1 - q2) < TsMod /\ -TsMod < TsMod * (q1 - q2) BY <2>0, <2>3, HalfTheRange
    <3>2. /\ (q1 - q2 >= 1 => TsMod * (q1 - q2) >= TsMod)
          /\ (q1 - q2 <= -1 => TsMod * (q1 - q2) <= -TsMod)
          /\ TsMod * (q1 - q2) \in Int
      BY <2>4, Multiples, HalfTheRange, Zenon
    <3> DEFINE z == TsMod * (q1 - q2)
               k == q1 - q2
    <3> HIDE DEF z, k
    <3>3. z < TsMod /\ -TsMod < z /\ z \in Int /\ (k >= 1 => z >= TsMod) /\ (k <= -1 => z <= -TsMod)
      BY <3>1, <3>2 DEF z, k
    <3>4. k \in Int /\ TsMod \in Nat BY <2>4, HalfTheRange DEF k
    <3>5. k = 0 BY <3>3, <3>4
    <3> QED BY <3>5 DEF k
  <2>6. TsMod * (q1 - q2) = 0 BY <2>4, <2>5, Multiples, HalfTheRange
  <2> QED BY <2>0, <2>3, <2>6
<1> QED BY <1>4 DEF x, y, d, e

-----------------------------------------------------------------------------
\* The frames of the file come in order, and carry their distance from the first.
IvfInv ==
    /\ next_frame \in Int
    /\ ivf \in Seq(Int \X Int)
    /\ ivf = <<>> => ivf_base = {}
    /\ ivf # <<>> => ivf_base = {ivf[1][1] % TsMod}
    /\ \A i \in 1 .. Len(ivf) : ivf[i][1] < next_frame
    /\ \A i \in 1 .. Len(ivf) : \A j \in 1 .. i : ivf[j][1] <= ivf[i][1]
    /\ \A i \in 1 .. Len(ivf) : ivf[i][1] - ivf[1][1] < HalfTs => ivf[i][2] = ivf[i][1] - ivf[1][1]

\* A frame is written (EncodedVideoSink.write).
LEMMA IvfStep ==
    ASSUME IvfInv, NEW skip \in 1 .. 3, WriteFrame(skip)
    PROVE  IvfInv'
<1> USE DEF IvfInv
<1> DEFINE ts == next_frame % TsMod
           delta == IF ivf_base = {} THEN {0} ELSE UNION {TimestampDelta(ts, b) : b \in ivf_base}
           stamp == IF delta = {} THEN Len(ivf) ELSE CHOOSE d \in delta : TRUE
           n == Len(ivf)
<1>1. /\ next_frame' = next_frame + skip
      /\ ivf_base' = IF ivf_base = {} THEN {ts} ELSE ivf_base
      /\ ivf' = Append(ivf, <<next_frame, stamp>>)
  BY DEF WriteFrame, IvfTimestamp
<1>2. n \in Nat /\ DOMAIN ivf = 1 .. n BY LenProperties
<1>3. /\ ivf_base = {} => stamp = 0
      /\ stamp \in Int
      /\ ivf_base # {} /\ next_frame - ivf[1][1] < HalfTs => stamp = next_frame - ivf[1][1]
  <2>1. CASE ivf_base = {}
    <3>1. delta = {0} BY <2>1
    <3>2. stamp \in {0} BY <3>1
    <3> QED BY <2>1, <3>2
  <2>2. CASE ivf_base # {}
    <3> DEFINE f == ivf[1][1]
    <3>1. ivf # <<>> /\ ivf_base = {f % TsMod} BY <2>2
    <3>2. 1 \in 1 .. n BY <1>2, <3>1, EmptySeq
    <3>3. f \in Int /\ f < next_frame
      <4>1. ivf[1] \in Int \X Int BY <1>2, <3>2, ElementOfSeq
      <4> QED BY <3>2, <4>1
    <3>4. delta = TimestampDelta(ts, f % TsMod) BY <2>2, <3>1
    <3> HIDE DEF delta, f
    <3>5. \A d \in delta : d \in Int
      <4>1. \A d \in TimestampDelta(ts, f % TsMod) : d \in 0 .. HalfTs - 1 BY <3>3, DeltaOf
      <4> QED BY <3>4, <4>1, HalfTheRange
    <3>6. stamp \in Int BY <1>2, <3>5
    <3>7. ASSUME next_frame - f < HalfTs PROVE stamp = next_frame - f
      <4>1. next_frame - f \in 0 .. HalfTs - 1 BY <3>3, <3>7, HalfTheRange
      <4>2. delta = {next_frame - f} BY <3>3, <3>4, <4>1, DeltaAhead
      <4>3. stamp \in {next_frame - f} BY <4>2
      <4> QED BY <4>3
    <3> QED BY <2>2, <3>6, <3>7 DEF f
  <2> QED BY <2>1, <2>2
<1> HIDE DEF stamp, delta, ts
<1>4. /\ ivf' \in Seq(Int \X Int) /\ Len(ivf') = n + 1 /\ ivf'[n + 1] = <<next_frame, stamp>>
      /\ \A i \in 1 .. n : ivf'[i] = ivf[i]
  <2>1. <<next_frame, stamp>> \in Int \X Int BY <1>3
  <2> QED BY <1>1, <1>2, <2>1, AppendProperties
<1> HIDE DEF n
<1>5. \A i \in 1 .. n + 1 : i \in 1 .. n \/ i = n + 1 BY <1>2
<1>6. ivf'[n + 1][1] = next_frame /\ ivf'[n + 1][2] = stamp BY <1>4
<1>7. \A i \in 1 .. n : ivf[i][1] \in Int /\ ivf[i][1] < next_frame
  BY <1>2, ElementOfSeq DEF n
<1>8. \A i \in 1 .. n + 1 : ivf'[i][1] \in Int /\ ivf'[i][1] < next_frame'
  BY <1>1, <1>4, <1>5, <1>6, <1>7
<1>9. \A i \in 1 .. n + 1 : \A j \in 1 .. i : ivf'[j][1] <= ivf'[i][1]
  <2> SUFFICES ASSUME NEW i \in 1 .. n + 1, NEW j \in 1 .. i PROVE ivf'[j][1] <= ivf'[i][1]
    OBVIOUS
  <2>1. CASE i \in 1 .. n
    <3>1. j \in 1 .. n BY <1>2, <2>1
    <3>2. ivf[j][1] <= ivf[i][1] BY <2>1 DEF n
    <3> QED BY <1>4, <2>1, <3>1, <3>2
  <2>2. CASE i = n + 1
    <3>1. j \in 1 .. n \/ j = n + 1 BY <1>2, <2>2
    <3>2. j \in 1 .. n => ivf'[j][1] < next_frame BY <1>4, <1>7
    <3>3. j \in 1 .. n => ivf'[j][1] \in Int BY <1>4, <1>7
    <3> QED BY <1>6, <2>2, <3>1, <3>2, <3>3
  <2> QED BY <1>5, <2>1, <2>2
<1>10. ivf_base' = {ivf'[1][1] % TsMod}
       /\ \A i \in 1 .. n + 1 : ivf'[i][1] - ivf'[1][1] < HalfTs => ivf'[i][2] = ivf'[i][1] - ivf'[1][1]
  <2>1. CASE ivf = <<>>
    <3>1. n = 0 BY <2>1 DEF n
    <3>2. ivf_base = {} /\ ivf_base' = {ts} BY <1>1, <2>1
    <3>3. stamp = 0 BY <1>3, <3>2
    <3>4. ivf'[1][1] = next_frame /\ ivf'[1][2] = 0 BY <1>6, <3>1, <3>3
    <3>5. \A i \in 1 .. n + 1 : i = 1 BY <3>1
    <3> QED BY <3>2, <3>4, <3>5 DEF ts
  <2>2. CASE ivf # <<>>
    <3>1. 1 \in 1 .. n BY <1>2, <2>2, EmptySeq DEF n
    <3>2. ivf_base # {} /\ ivf_base' = {ivf[1][1] % TsMod} BY <1>1, <2>2
    <3>3. ivf'[1] = ivf[1] BY <1>4, <3>1
    <3>4. next_frame - ivf[1][1] < HalfTs => stamp = next_frame - ivf[1][1] BY <1>3, <3>2
    <3>5. \A i \in 1 .. n : ivf[i][1] - ivf[1][1] < HalfTs => ivf[i][2] = ivf[i][1] - ivf[1][1] BY DEF n
    <3> QED BY <1>4, <1>5, <1>6, <3>2, <3>3, <3>4, <3>5
  <2> QED BY <2>1, <2>2
<1>11. next_frame' \in Int /\ ivf' # <<>> BY <1>1, <1>2, <1>4
<1> QED BY <1>4, <1>8, <1>9, <1>10, <1>11

\* The stamps of frames are as far apart as the frames.
LEMMA IvfIsOrdered == IvfInv => IvfOrdered
<1> SUFFICES ASSUME IvfInv, NEW i \in 1 .. Len(ivf), NEW j \in 1 .. i, ivf[i][1] - ivf[1][1] < TsMod \div 2
             PROVE  ivf[i][2] - ivf[j][2] = ivf[i][1] - ivf[j][1]
  BY DEF IvfOrdered
<1>1. Len(ivf) \in Nat /\ DOMAIN ivf = 1 .. Len(ivf) BY LenProperties DEF IvfInv
<1>2. 1 \in 1 .. Len(ivf) /\ j \in 1 .. Len(ivf) BY <1>1
<1>3. ivf[1][1] \in Int /\ ivf[i][1] \in Int /\ ivf[j][1] \in Int
  BY <1>1, <1>2, ElementOfSeq DEF IvfInv
<1>4. ivf[j][1] <= ivf[i][1] /\ ivf[i][1] - ivf[1][1] < HalfTs BY DEF IvfInv, HalfTs
<1>5. ivf[j][1] - ivf[1][1] < HalfTs
  <2>1. HalfTs \in Int BY HalfTheRange
  <2> QED BY <1>3, <1>4, <2>1
<1>6. ivf[i][2] = ivf[i][1] - ivf[1][1] /\ ivf[j][2] = ivf[j][1] - ivf[1][1]
  BY <1>2, <1>4, <1>5 DEF IvfInv
<1> QED BY <1>3, <1>6
-----------------------------------------------------------------------------
Positions == [seq : Int, ts : Int]

\* Where a packet may be in time after the one before it.
Follows(l, p) == p.seq = l.seq + 1 /\ p.ts \in {l.ts + 1, l.ts + 1 + Pause}

\* The packets lost in a row are earlier ones, and not too many.
Missing ==
    /\ heard \in Positions /\ missing \subseteq Positions
    /\ IsFiniteSet(missing) /\ Cardinality(missing) <= MaxLost
    /\ \A m \in missing : m.seq < heard.seq

\* One more is lost.
LEMMA MissingStep ==
    ASSUME Missing, Cardinality(missing) < MaxLost, heard' \in Positions, heard'.seq = heard.seq + 1,
           missing' = missing \cup {heard}
    PROVE  Missing' /\ Cardinality(missing') = Cardinality(missing) + 1
<1>1. heard \notin missing /\ heard.seq \in Int BY DEF Missing, Positions
<1>2. IsFiniteSet(missing') /\ Cardinality(missing') = Cardinality(missing) + 1
  BY <1>1, FS_AddElement DEF Missing
<1>3. Cardinality(missing) \in Nat /\ MaxLost \in Nat BY FS_CardinalityType, HalfTheRange DEF Missing
<1>4. \A m \in missing' : m.seq < heard'.seq
  BY <1>1 DEF Missing, Positions
<1>5. missing' \subseteq Positions BY DEF Missing
<1>6. Cardinality(missing') <= MaxLost
  BY <1>2, <1>3
<1> QED BY <1>2, <1>4, <1>5, <1>6 DEF Missing

\* The decoder knows the last packet it decoded, and what is missing since are the
\* packets in between.
FecInv ==
    /\ Missing /\ FirstPos <= heard.seq
    /\ \/ state = {}
       \/ \E l \in Positions :
            /\ state = {[seq |-> l.seq % NumMod, ts |-> l.ts % TsMod]}
            /\ FirstPos <= l.seq /\ heard.seq = l.seq + 1 + Cardinality(missing)
            /\ heard.seq = l.seq + 1 => missing = {} /\ Follows(l, heard)
            /\ heard.seq = l.seq + 2 => \E m \in Positions : missing = {m} /\ Follows(l, m) /\ Follows(m, heard)
    /\ RecoveredInPlace

\* The speaker goes on by one packet.
LEMMA SpeakerAdvances ==
    ASSUME heard \in Positions, NEW pause \in {0, Pause}, Advance(pause)
    PROVE  heard' \in Positions /\ heard'.seq = heard.seq + 1 /\ Follows(heard, heard')
<1>1. heard.seq \in Int /\ heard.ts \in Int /\ Pause \in Nat BY HalfTheRange DEF Positions
<1>2. heard' = [seq |-> heard.seq + 1, ts |-> heard.ts + 1 + pause] BY DEF Advance
<1>3. heard'.seq = heard.seq + 1 /\ heard'.ts = heard.ts + 1 + pause BY <1>2
<1>4. heard' \in Positions BY <1>1, <1>2 DEF Positions
<1>5. heard'.ts \in {heard.ts + 1, heard.ts + 1 + Pause} BY <1>1, <1>3
<1> QED BY <1>3, <1>4, <1>5 DEF Follows

\* A packet of the speaker is lost.
LEMMA LoseStep ==
    ASSUME FecInv, NEW pause \in {0, Pause}, LosePacket(pause)
    PROVE  FecInv'
<1> USE DEF FecInv
<1>0. Missing /\ heard \in Positions BY DEF Missing
<1>1. /\ missing' = missing \cup {heard} /\ Advance(pause) /\ UNCHANGED <<state, recovered>>
      /\ Cardinality(missing) < MaxLost
  BY DEF LosePacket
<1>2. heard' \in Positions /\ heard'.seq = heard.seq + 1 /\ Follows(heard, heard') BY <1>0, <1>1, SpeakerAdvances
<1>3. heard.seq \in Int /\ FirstPos \in Int /\ Cardinality(missing) \in Nat
  BY <1>0, HalfTheRange, FS_CardinalityType DEF Positions, Missing
<1>8. Missing' /\ Cardinality(missing') = Cardinality(missing) + 1
  BY <1>0, <1>1, <1>2, MissingStep
<1>4. FirstPos <= heard'.seq BY <1>1, <1>2, <1>3
<1>5. RecoveredInPlace' BY <1>1 DEF RecoveredInPlace
<1>6. ASSUME NEW l \in Positions,
             state = {[seq |-> l.seq % NumMod, ts |-> l.ts % TsMod]}, FirstPos <= l.seq, heard.seq = l.seq + 1 + Cardinality(missing),
             heard.seq = l.seq + 1 => missing = {} /\ Follows(l, heard)
      PROVE  /\ state' = {[seq |-> l.seq % NumMod, ts |-> l.ts % TsMod]}
             /\ FirstPos <= l.seq /\ heard'.seq = l.seq + 1 + Cardinality(missing')
             /\ heard'.seq = l.seq + 1 => missing' = {} /\ Follows(l, heard')
             /\ heard'.seq = l.seq + 2 => \E m \in Positions : missing' = {m} /\ Follows(l, m) /\ Follows(m, heard')
  <2>1. l.seq \in Int BY DEF Positions
  <2>2. heard'.seq = l.seq + 1 + Cardinality(missing') /\ heard'.seq # l.seq + 1
    BY <1>2, <1>3, <1>6, <1>8, <2>1
  <2>3. ASSUME heard'.seq = l.seq + 2 PROVE \E m \in Positions : missing' = {m} /\ Follows(l, m) /\ Follows(m, heard')
    <3>1. heard.seq = l.seq + 1 BY <1>2, <1>3, <2>1, <2>3
    <3>2. missing' = {heard} /\ Follows(l, heard) BY <1>1, <1>6, <3>1
    <3> QED BY <1>0, <1>2, <3>2
  <2> QED BY <1>1, <1>6, <2>2, <2>3
<1>7. \/ state' = {}
      \/ \E l \in Positions :
            /\ state' = {[seq |-> l.seq % NumMod, ts |-> l.ts % TsMod]}
            /\ FirstPos <= l.seq /\ heard'.seq = l.seq + 1 + Cardinality(missing')
            /\ heard'.seq = l.seq + 1 => missing' = {} /\ Follows(l, heard')
            /\ heard'.seq = l.seq + 2 => \E m \in Positions : missing' = {m} /\ Follows(l, m) /\ Follows(m, heard')
  <2>1. CASE state = {} BY <1>1, <2>1
  <2>2. CASE state # {}
    <3>1. PICK l \in Positions :
            /\ state = {[seq |-> l.seq % NumMod, ts |-> l.ts % TsMod]}
            /\ FirstPos <= l.seq /\ heard.seq = l.seq + 1 + Cardinality(missing)
            /\ heard.seq = l.seq + 1 => missing = {} /\ Follows(l, heard)
      BY <2>2, Zenon
    <3> QED BY <1>6, <3>1, Zenon
  <2> QED BY <2>1, <2>2
<1> QED BY <1>2, <1>4, <1>5, <1>7, <1>8

\* What is recovered is the one packet that is missing, if no more packets than there are
\* sequence numbers are lost in a row, and a pause is shorter than half the range of
\* timestamps (_OpusDecoderCache).
LEMMA RecoversTheMissing ==
    ASSUME FecInv, MaxLost <= NumMod, 2 * Pause < TsMod,
           NEW s \in state, Recovers(s)
    PROVE  \E m \in Positions : /\ missing = {m}
                                /\ m.seq = heard.seq - 1 /\ m.ts = heard.ts - 1
<1> PICK l \in Positions :
            /\ state = {[seq |-> l.seq % NumMod, ts |-> l.ts % TsMod]}
            /\ FirstPos <= l.seq /\ heard.seq = l.seq + 1 + Cardinality(missing)
            /\ heard.seq = l.seq + 2 => \E m \in Positions : missing = {m} /\ Follows(l, m) /\ Follows(m, heard)
  BY DEF FecInv
<1>1. /\ heard.seq \in Int /\ heard.ts \in Int /\ l.seq \in Int /\ l.ts \in Int
      /\ NumMod \in Nat \ {0} /\ TsMod \in Nat \ {0} /\ Pause \in Nat /\ MaxLost \in Nat
      /\ Cardinality(missing) \in Nat /\ Cardinality(missing) <= MaxLost
  BY HalfTheRange, FS_CardinalityType DEF FecInv, Missing, Positions
<1>2. s.seq = l.seq % NumMod /\ s.ts = l.ts % TsMod
  <2>1. s = [seq |-> l.seq % NumMod, ts |-> l.ts % TsMod] OBVIOUS
  <2> QED BY <2>1
<1>3. heard.seq = l.seq + 2
  <2> DEFINE d == heard.seq - l.seq
             q == d \div NumMod
  <2>1. (heard.seq - (l.seq % NumMod)) % NumMod = 2 BY <1>2 DEF Recovers
  <2>2. d \in 1 .. NumMod + 1 BY <1>1
  <2>3. d % NumMod = 2 BY <1>1, <2>1, Differences
  <2> HIDE DEF d
  <2>4. d # NumMod
    <3>1. ASSUME d = NumMod PROVE FALSE
      <4>1. NumMod = (NumMod * 1) + 0 /\ 0 \in 0 .. NumMod - 1 BY <1>1
      <4>2. NumMod % NumMod = 0 BY <1>1, <4>1, Remainder
      <4> QED BY <2>3, <3>1, <4>2
    <3> QED BY <3>1
  <2>7. d # NumMod + 1
    <3>1. ASSUME d = NumMod + 1 PROVE FALSE
      <4>1. CASE NumMod = 1
        <5>0. d \in Int BY <1>1, <2>2
        <5>1. d % NumMod \in 0 .. NumMod - 1 BY <1>1, <5>0, Division, Zenon
        <5> QED BY <2>3, <4>1, <5>1
      <4>2. CASE NumMod # 1
        <5>1. d = (NumMod * 1) + 1 /\ 1 \in 0 .. NumMod - 1 /\ d \in Int BY <1>1, <2>2, <3>1, <4>2
        <5>2. d % NumMod = 1 BY <1>1, <5>1, Remainder
        <5> QED BY <2>3, <5>2
      <4> QED BY <4>1, <4>2
    <3> QED BY <3>1
  <2>5. d \in 0 .. NumMod - 1 BY <1>1, <2>2, <2>4, <2>7
  <2>6. d = 2 BY <1>1, <2>3, <2>5, Small
  <2> QED BY <1>1, <2>6 DEF d
<1>4. PICK m \in Positions : missing = {m} /\ Follows(l, m) /\ Follows(m, heard) BY <1>3
<1>5. /\ m.seq \in Int /\ m.ts \in Int /\ m.seq = heard.seq - 1
      /\ m.ts \in {l.ts + 1, l.ts + 1 + Pause} /\ heard.ts \in {m.ts + 1, m.ts + 1 + Pause}
  BY <1>1, <1>4 DEF Follows, Positions
<1>6. (heard.ts - l.ts) % TsMod = 2
  <2>1. TimestampDelta(heard.ts % TsMod, l.ts % TsMod) = {2} BY <1>2 DEF Recovers
  <2>2. 2 \in TimestampDelta(heard.ts % TsMod, l.ts % TsMod) BY <2>1
  <2> QED BY <1>1, <2>2, DeltaOf
<1>7. heard.ts - l.ts = 2
  <2> DEFINE d == heard.ts - l.ts
             q == d \div TsMod
             r == d % TsMod
  <2>1. d \in Int /\ 2 <= d /\ d < TsMod + 2 BY <1>1, <1>5
  <2>2. d = (TsMod * q) + r /\ q \in Int BY <1>1, <2>1, Division
  <2>3. r = 2 BY <1>6
  <2> HIDE DEF d, q, r
  <2>4. TsMod * q \in Int /\ (q >= 1 => TsMod * q >= TsMod) /\ (q <= -1 => TsMod * q <= -TsMod)
        /\ (q = 0 => TsMod * q = 0)
    BY <1>1, <2>2, Multiples
  <2> DEFINE z == TsMod * q
  <2> HIDE DEF z
  <2>5. /\ z \in Int /\ (q >= 1 => z >= TsMod) /\ (q <= -1 => z <= -TsMod) /\ (q = 0 => z = 0)
        /\ d = z + r
    BY <2>2, <2>4 DEF z
  <2>6. d = 2 BY <1>1, <2>1, <2>2, <2>3, <2>5
  <2> QED BY <2>6 DEF d
<1>8. m.ts = heard.ts - 1
  <2> DEFINE a == m.ts
             h == heard.ts
             b == l.ts
  <2>1. a \in {b + 1, b + 1 + Pause} /\ h \in {a + 1, a + 1 + Pause} /\ h - b = 2 /\ a \in Int /\ h \in Int
        /\ b \in Int /\ Pause \in Nat
    BY <1>1, <1>5, <1>7
  <2> HIDE DEF a, h, b
  <2>2. CASE a = b + 1 BY <2>1, <2>2 DEF a, h
  <2>3. CASE a = b + 1 + Pause
    <3>1. h = a + 1 \/ h = a + 1 + Pause BY <2>1
    <3> QED BY <2>1, <2>3, <3>1 DEF a, h
  <2> QED BY <2>1, <2>2, <2>3
<1> QED BY <1>4, <1>5, <1>8

\* A packet of the speaker is decoded (decode_packets).
LEMMA DecodeStep ==
    ASSUME FecInv, MaxLost <= NumMod, 2 * Pause < TsMod,
           NEW pause \in {0, Pause}, DecodePackets(pause)
    PROVE  FecInv'
<1> DEFINE wire == [seq |-> heard.seq % NumMod, ts |-> heard.ts % TsMod]
           before == [seq |-> (wire.seq - 1) % NumMod, ts |-> (wire.ts - 1) % TsMod]
<1>1. /\ heard.seq < LastPos /\ state' = {wire} /\ missing' = {} /\ Advance(pause)
      /\ recovered' = recovered \cup {<<before, missing>> : s \in {t \in state : Recovers(t)}}
  BY DEF DecodePackets
<1>2. heard \in Positions /\ FirstPos <= heard.seq /\ RecoveredInPlace BY DEF FecInv, Missing
<1>3. heard' \in Positions /\ heard'.seq = heard.seq + 1 /\ Follows(heard, heard')
  BY <1>1, <1>2, SpeakerAdvances
<1>4. /\ heard.seq \in Int /\ heard.ts \in Int /\ FirstPos \in Int
      /\ NumMod \in Nat \ {0} /\ TsMod \in Nat \ {0}
  BY <1>2, HalfTheRange DEF Positions
<1>5. \/ state' = {}
      \/ \E l \in Positions :
            /\ state' = {[seq |-> l.seq % NumMod, ts |-> l.ts % TsMod]}
            /\ FirstPos <= l.seq /\ heard'.seq = l.seq + 1 + Cardinality(missing')
            /\ heard'.seq = l.seq + 1 => missing' = {} /\ Follows(l, heard')
            /\ heard'.seq = l.seq + 2 => \E m \in Positions : missing' = {m} /\ Follows(l, m) /\ Follows(m, heard')
  <2>1. Cardinality(missing') = 0 BY <1>1, FS_EmptySet
  <2>2. heard'.seq = heard.seq + 1 + Cardinality(missing') /\ heard'.seq # heard.seq + 2 BY <1>3, <1>4, <2>1
  <2> QED BY <1>1, <1>2, <1>3, <2>2
<1>6. RecoveredInPlace'
  <2>1. before = [seq |-> (heard.seq - 1) % NumMod, ts |-> (heard.ts - 1) % TsMod]
    <3>1. ((heard.seq % NumMod) - 1) % NumMod = (heard.seq - 1) % NumMod BY <1>4, OneBefore, Zenon
    <3>2. ((heard.ts % TsMod) - 1) % TsMod = (heard.ts - 1) % TsMod BY <1>4, OneBefore, Zenon
    <3> QED BY <3>1, <3>2
  <2> SUFFICES ASSUME NEW r \in recovered'
               PROVE  \E m \in r[2] : r[2] = {m} /\ r[1] = [seq |-> m.seq % NumMod, ts |-> m.ts % TsMod]
    BY DEF RecoveredInPlace
  <2> HIDE DEF before
  <2>2. CASE r \in recovered BY <1>2, <2>2 DEF RecoveredInPlace
  <2>3. CASE r \notin recovered
    <3>1. PICK s \in state : Recovers(s) /\ r = <<before, missing>> BY <1>1, <2>3
    <3>2. PICK m \in Positions : missing = {m} /\ m.seq = heard.seq - 1 /\ m.ts = heard.ts - 1
      BY <1>1, <3>1, RecoversTheMissing
    <3>3. r[1] = before /\ r[2] = {m} BY <3>1, <3>2
    <3> QED BY <2>1, <3>2, <3>3
  <2> QED BY <2>2, <2>3
<1>7. FirstPos <= heard'.seq BY <1>1, <1>2, <1>3, <1>4
<1>8. Missing'
  <2>1. IsFiniteSet(missing') /\ Cardinality(missing') = 0 /\ MaxLost \in Nat BY <1>1, FS_EmptySet, HalfTheRange
  <2> QED BY <1>1, <1>3, <2>1 DEF Missing
<1> QED BY <1>3, <1>5, <1>6, <1>7, <1>8 DEF FecInv

\* Audio and video lie where their timestamps put them, whatever is lost, late, paused or
\* wraps around, as long as a gap is shorter than the numbers that tell it: no more packets
\* are lost in a row than there are sequence numbers, and a pause is shorter than half the
\* timestamps.  In the code these are 2^16 packets of 20 ms and 2^31 samples
\* (MixedWaveSink, EncodedVideoSink, _OpusDecoderCache).
THEOREM RecordingIsPlaced ==
    ASSUME MaxLost <= NumMod, 2 * Pause < TsMod
    PROVE  TimelineSpec => []PlacedInTime
<1> DEFINE Inv == MixInv /\ IvfInv /\ FecInv
<1>1. TimelineInit => Inv
  <2> SUFFICES ASSUME TimelineInit PROVE Inv
    OBVIOUS
  <2> USE DEF TimelineInit, MixInit, IvfSinkInit, DecoderInit
  <2>1. FirstPos \in Int BY HalfTheRange
  <2>2. MixInv BY DEF MixInv
  <2>3. Len(ivf) = 0 /\ ivf \in Seq(Int \X Int) /\ next_frame \in Int BY <2>1
  <2>4. 1 .. Len(ivf) = {} BY <2>3
  <2>5. IvfInv BY <2>3, <2>4 DEF IvfInv
  <2>6. heard \in Positions /\ heard.seq = FirstPos BY <2>1 DEF Positions
  <2>7. RecoveredInPlace BY DEF RecoveredInPlace
  <2>8. IsFiniteSet(missing) /\ Cardinality(missing) = 0 /\ MaxLost \in Nat BY FS_EmptySet, HalfTheRange
  <2>9. Missing BY <2>6, <2>8 DEF Missing
  <2>10. FecInv BY <2>1, <2>6, <2>7, <2>9 DEF FecInv
  <2> QED BY <2>2, <2>5, <2>10
<1>2. Inv /\ [MixNext \/ IvfNext \/ FecNext]_timelineVars => Inv'
  <2> SUFFICES ASSUME Inv, [MixNext \/ IvfNext \/ FecNext]_timelineVars PROVE Inv'
    OBVIOUS
  <2>1. UNCHANGED mixVars => MixInv' BY DEF mixVars, MixInv
  <2>2. UNCHANGED ivfVars => IvfInv' BY DEF ivfVars, IvfInv
  <2>3. UNCHANGED fecVars => FecInv' BY DEF fecVars, FecInv, Missing, RecoveredInPlace
  <2>4. CASE MixNext
    <3>1. PICK i \in FirstPos .. FirstPos + TsMod + 2 : Mix(i) BY <2>4 DEF MixNext
    <3>2. i \in Int BY HalfTheRange
    <3>3. MixInv' BY <3>1, <3>2, MixStep
    <3>4. UNCHANGED <<ivfVars, fecVars>> BY <3>1 DEF Mix
    <3> QED BY <2>2, <2>3, <3>3, <3>4
  <2>5. CASE IvfNext
    <3>1. PICK skip \in 1 .. 3 : WriteFrame(skip) BY <2>5 DEF IvfNext
    <3>2. UNCHANGED <<mixVars, fecVars>> BY <3>1 DEF WriteFrame
    <3> QED BY <2>1, <2>3, <3>1, <3>2, IvfStep
  <2>6. CASE FecNext
    <3>1. PICK pause \in {0, Pause} : LosePacket(pause) \/ DecodePackets(pause) BY <2>6 DEF FecNext
    <3>2. UNCHANGED <<mixVars, ivfVars>> BY <3>1 DEF LosePacket, DecodePackets
    <3>3. FecInv' BY <3>1, LoseStep, DecodeStep
    <3> QED BY <2>1, <2>2, <3>2, <3>3
  <2>7. CASE UNCHANGED timelineVars
    <3>1. UNCHANGED <<mixVars, ivfVars, fecVars>> BY <2>7 DEF timelineVars, mixVars, ivfVars, fecVars
    <3> QED BY <2>1, <2>2, <2>3, <3>1
  <2> QED BY <2>4, <2>5, <2>6, <2>7
<1>3. Inv => PlacedInTime
  BY MixIsAligned, IvfIsOrdered DEF PlacedInTime, FecInv
<1> QED BY <1>1, <1>2, <1>3, PTL DEF TimelineSpec

-----------------------------------------------------------------------------
(***************************** FFmpegMuxSink *******************************)

MaybeOne(s, S) == s = {} \/ \E x \in S : s = {x}

ClockTypes ==
    /\ clock \in Nat /\ latest \in Int
    /\ MaybeOne(start_at, 0 .. clock)
    /\ MaybeOne(rtcp_offset, Int)
    /\ MaybeOne(audio_base, Int) /\ MaybeOne(audio_start, Int)

\* The timeline begins with the base timestamp; the highest timestamp in order
\* lies in the file.
AudioAnchored ==
    /\ audio_base = {} <=> audio_start = {}
    /\ AudioInFile
    /\ ordered /\ audio_start # {} => The(audio_start) + (latest - The(audio_base)) >= 0

\* The sink waits for the frame that a decoder can start at.
StreamStarted == VideoStartsDecodable /\ (h26x_started <=> head # "none")

\* What cleanup has yet to remove, unless a write overlaps it, and what may be left.
CleanupOwes ==
    /\ mux_closed <=> mux_cleanup # "no"
    /\ mux_cleanup \in {"no", "reserve"} => ~reserved
    /\ mux_cleanup \in {"unlink", "done"} /\ ~overlapped /\ reserved =>
           audio_packets + video_packets = 0 \/ bad_options \/ "output" \in undeleted
    /\ mux_cleanup = "done" /\ ~overlapped => files \subseteq undeleted

MuxInv == ClockTypes /\ AudioOnTime /\ AudioAnchored /\ StreamStarted /\ DestinationWhole /\ CleanupOwes

\* A noted value is the one in the set.
LEMMA TheOne == ASSUME NEW x, NEW s, s = {x} PROVE The(s) = x
BY DEF The

\* _packet_time_offset never goes before the start of the recording.
LEMMA OffsetInFile ==
    ASSUME ClockTypes, NEW rtcp \in RtcpTimes
    PROVE  PacketTimeOffset(rtcp) \in Nat
<1> USE DEF ClockTypes, MaybeOne
<1>1. ReceivedOffset \in Nat
  <2>1. CASE start_at = {} BY <2>1 DEF ReceivedOffset
  <2>2. CASE start_at # {}
    <3>1. PICK c \in 0 .. clock : start_at = {c} BY <2>2
    <3>2. The(start_at) = c BY <3>1, TheOne
    <3> QED BY <2>2, <3>2 DEF ReceivedOffset
  <2> QED BY <2>1, <2>2
<1>2. CASE start_at = {} \/ rtcp = {} \/ TiesRtcp(rtcp)
  BY <1>1, <1>2 DEF PacketTimeOffset
<1>3. CASE ~(start_at = {} \/ rtcp = {} \/ TiesRtcp(rtcp))
  <2>1. rtcp # {} /\ rtcp_offset # {} BY <1>3 DEF TiesRtcp
  <2>2. PICK o \in Int : rtcp_offset = {o} BY <2>1
  <2>3. PICK t \in clock .. clock + MaxSkew : rtcp = {t} BY <2>1 DEF RtcpTimes
  <2>4. t \in Int BY <2>3, MuxAssumption DEF MuxAssumption
  <2>5. PacketTimeOffset(rtcp) = Larger(0, t + o)
    <3>1. The(rtcp) = t /\ The(rtcp_offset) = o BY <2>2, <2>3, TheOne
    <3> QED BY <1>3, <3>1 DEF PacketTimeOffset
  <2> QED BY <2>4, <2>5 DEF Larger
<1> QED BY <1>2, <1>3

\* What a packet leaves noted keeps its type.
LEMMA NotedTypes ==
    ASSUME ClockTypes, NEW rtcp \in RtcpTimes, NoteOffset(rtcp), clock' = clock
    PROVE  MaybeOne(start_at, 0 .. clock)' /\ MaybeOne(rtcp_offset, Int)'
<1> USE DEF ClockTypes, MaybeOne, NoteOffset
<1>1. MaybeOne(start_at, 0 .. clock)'
  OBVIOUS
<1>2. CASE ~TiesRtcp(rtcp)
  BY <1>1, <1>2
<1>3. CASE TiesRtcp(rtcp)
  <2>1. start_at # {} /\ rtcp # {} BY <1>3 DEF TiesRtcp
  <2>2. PICK c \in 0 .. clock : start_at = {c} BY <2>1
  <2>3. PICK t \in clock .. clock + MaxSkew : rtcp = {t} BY <2>1 DEF RtcpTimes
  <2>4. t \in Int BY <2>3, MuxAssumption DEF MuxAssumption
  <2>5. The(start_at) = c /\ The(rtcp) = t BY <2>2, <2>3, TheOne
  <2>6. rtcp_offset' = {(clock - c) - t} BY <1>3, <2>5, <2>1 DEF ReceivedOffset
  <2> QED BY <1>1, <2>6, <2>4, <2>2
<1> QED BY <1>2, <1>3

\* _write_audio_packet: where the packet is placed, and where the timeline begins then.
LEMMA AudioPlaced ==
    ASSUME ClockTypes, AudioAnchored, NEW ts \in Nat, NEW offset \in Nat, NEW delta, NEW start,
           delta = (IF audio_base = {} THEN 0 ELSE ts - The(audio_base)),
           start = AudioStart(delta, offset)
    PROVE  /\ delta \in Int /\ start \in Int
           /\ Distance(start + delta, offset) <= Threshold
           /\ ordered /\ ts >= latest => start + delta >= 0
           /\ audio_base # {} => delta = ts - The(audio_base)
           /\ audio_base = {} => delta = 0
<1> USE MuxAssumption DEF MuxAssumption, ClockTypes, MaybeOne
<1>1. CASE audio_base = {}
  <2>1. delta = 0 /\ start = offset BY <1>1 DEF AudioAnchored, AudioStart
  <2> QED BY <2>1, <1>1 DEF Distance
<1>2. CASE audio_base # {}
  <2>1. PICK b \in Int : audio_base = {b} BY <1>2
  <2>2. audio_start # {} BY <1>2 DEF AudioAnchored
  <2>3. PICK a \in Int : audio_start = {a} BY <2>2
  <2>4. The(audio_base) = b /\ The(audio_start) = a BY <2>1, <2>3, TheOne
  <2>5. delta = ts - b /\ delta \in Int BY <1>2, <2>1, <2>4
  <2>6. start = IF Distance(offset, a + delta) > Threshold THEN offset - delta ELSE a
    BY <2>2, <2>4 DEF AudioStart
  <2>7. ordered => a + (latest - b) >= 0
    BY <2>2, <2>4 DEF AudioAnchored
  <2>8. latest \in Int OBVIOUS
  <2> HIDE DEF ClockTypes, MaybeOne
  <2> QED BY <1>2, <2>1, <2>3, <2>4, <2>5, <2>6, <2>7, <2>8 DEF Distance
<1> QED BY <1>1, <1>2

\* A packet of audio is written at its place, or fails to be (_write_audio_packet).
LEMMA AudioStep ==
    ASSUME MuxInv, NEW ts \in 0 .. MaxStamp, NEW rtcp \in RtcpTimes, WriteAudio(ts, rtcp)
    PROVE  ClockTypes' /\ AudioOnTime' /\ AudioAnchored'
<1> DEFINE delta == IF audio_base = {} THEN 0 ELSE ts - The(audio_base)
           offset == PacketTimeOffset(rtcp)
           start == AudioStart(delta, offset)
<1>1. ts \in Nat /\ offset \in Nat
  BY OffsetInFile, MuxAssumption DEF MuxInv, MuxAssumption
<1>2. /\ delta \in Int /\ start \in Int
      /\ Distance(start + delta, offset) <= Threshold
      /\ ordered /\ ts >= latest => start + delta >= 0
      /\ audio_base # {} => delta = ts - The(audio_base)
      /\ audio_base = {} => delta = 0
  BY <1>1, AudioPlaced DEF MuxInv
<1>3. /\ audio_base' = IF audio_base = {} THEN {ts} ELSE audio_base
      /\ clock' = clock
      /\ delta < 0 => UNCHANGED <<start_at, rtcp_offset, audio_start, latest, ordered, placed, failed_seek>>
      /\ ~(delta < 0) =>
            /\ NoteOffset(rtcp)
            /\ audio_start' = {start}
            /\ latest' = Larger(latest, ts) /\ ordered' = (ordered /\ ts >= latest)
            /\ failed_seek' = (failed_seek \/ start + delta < 0)
            /\ placed' = {<<ts, start + delta, offset>>}
  BY DEF WriteAudio
<1> HIDE DEF delta, offset, start
<1>4. CASE delta < 0
  <2>1. audio_base # {} BY <1>2, <1>4
  <2>2. UNCHANGED <<clock, audio_base, start_at, rtcp_offset, audio_start, latest, ordered, placed, failed_seek>>
    BY <1>3, <1>4, <2>1
  <2>3. ClockTypes' BY <2>2 DEF MuxInv, ClockTypes, MaybeOne
  <2>4. AudioOnTime' BY <2>2 DEF MuxInv, AudioOnTime
  <2>5. AudioAnchored' BY <2>2 DEF MuxInv, AudioAnchored, AudioInFile
  <2> QED BY <2>3, <2>4, <2>5
<1>5. CASE ~(delta < 0)
  <2>1. ClockTypes /\ AudioAnchored BY DEF MuxInv
  <2>2. MaybeOne(start_at, 0 .. clock)' /\ MaybeOne(rtcp_offset, Int)'
    BY <1>3, <1>5, <2>1, NotedTypes
  <2>3. latest \in Int /\ clock \in Nat /\ MaybeOne(audio_base, Int) BY <2>1 DEF ClockTypes
  <2>4. latest' \in Int BY <1>1, <1>3, <1>5, <2>3 DEF Larger
  <2>5. MaybeOne(audio_base, Int)' /\ MaybeOne(audio_start, Int)'
    BY <1>1, <1>2, <1>3, <1>5, <2>3 DEF MaybeOne
  <2>6. ClockTypes' BY <1>3, <2>2, <2>3, <2>4, <2>5 DEF ClockTypes
  <2>7. AudioOnTime' BY <1>2, <1>3, <1>5 DEF AudioOnTime
  <2>8. AudioInFile'
    <3>1. CASE ordered' = FALSE BY <3>1 DEF AudioInFile
    <3>2. CASE ordered /\ ts >= latest
      <4>1. start + delta >= 0 BY <1>2, <3>2
      <4>2. ~failed_seek BY <2>1, <3>2 DEF AudioAnchored, AudioInFile
      <4>3. ~(start + delta < 0) BY <1>2, <4>1
      <4> QED BY <1>3, <1>5, <4>2, <4>3 DEF AudioInFile
    <3> QED BY <1>3, <1>5, <3>1, <3>2
  <2>9. ordered' => The(audio_start)' + (latest' - The(audio_base)') >= 0
    <3>1. SUFFICES ASSUME ordered' PROVE The(audio_start)' + (latest' - The(audio_base)') >= 0 OBVIOUS
    <3>2. ordered /\ ts >= latest BY <1>3, <1>5, <3>1
    <3>3. The(audio_start)' = start BY <1>3, <1>5, TheOne
    <3>4. latest' = ts BY <1>1, <1>3, <1>5, <3>2, <2>3 DEF Larger
    <3>5. start + delta >= 0 BY <1>2, <3>2
    <3>6. CASE audio_base = {}
      <4>1. The(audio_base)' = ts BY <1>3, <3>6, TheOne
      <4> QED BY <1>1, <1>2, <3>3, <3>4, <3>5, <3>6, <4>1
    <3>7. CASE audio_base # {}
      <4>1. The(audio_base)' = The(audio_base) BY <1>3, <3>7
      <4>2. PICK b \in Int : audio_base = {b} BY <2>3, <3>7 DEF MaybeOne
      <4>3. The(audio_base) = b BY <4>2, TheOne
      <4> QED BY <1>1, <1>2, <3>3, <3>4, <3>5, <3>7, <4>1, <4>3
    <3> QED BY <3>6, <3>7
  <2>10. (audio_base = {} <=> audio_start = {})' BY <1>3, <1>5
  <2> QED BY <2>6, <2>7, <2>8, <2>9, <2>10 DEF AudioAnchored
<1> QED BY <1>4, <1>5

\* Every step keeps the times, and audio where it belongs.
LEMMA TimelineStep ==
    ASSUME MuxInv, [MuxNext]_muxVars
    PROVE  ClockTypes' /\ AudioOnTime' /\ AudioAnchored'
<1> USE DEF MuxInv
<1>1. CASE UNCHANGED timeVars
  BY <1>1 DEF timeVars, ClockTypes, MaybeOne, AudioOnTime, AudioAnchored, AudioInFile
<1>2. ASSUME NEW ts \in 0 .. MaxStamp, NEW rtcp \in RtcpTimes, WriteAudio(ts, rtcp)
      PROVE  ClockTypes' /\ AudioOnTime' /\ AudioAnchored'
  BY <1>2, AudioStep
<1>3. ASSUME NEW kind, NEW rtcp \in RtcpTimes, WriteVideo(kind, rtcp)
      PROVE  ClockTypes' /\ AudioOnTime' /\ AudioAnchored'
  <2>1. UNCHANGED <<clock, audio_base, audio_start, latest, ordered, placed, failed_seek>>
    BY <1>3 DEF WriteVideo
  <2>2. MaybeOne(start_at, 0 .. clock)' /\ MaybeOne(rtcp_offset, Int)'
    <3>1. CASE NoteOffset(rtcp) BY <2>1, <3>1, NotedTypes
    <3>2. CASE UNCHANGED <<start_at, rtcp_offset>> BY <2>1, <3>2 DEF ClockTypes, MaybeOne
    <3> QED BY <1>3, <3>1, <3>2 DEF WriteVideo
  <2>3. ClockTypes' BY <2>1, <2>2 DEF ClockTypes, MaybeOne
  <2>4. AudioOnTime' /\ AudioAnchored' BY <2>1 DEF AudioOnTime, AudioAnchored, AudioInFile
  <2> QED BY <2>3, <2>4
<1>4. CASE MuxTick
  <2>1. /\ clock' = clock + 1
        /\ UNCHANGED <<start_at, rtcp_offset, audio_base, audio_start, latest, ordered, placed, failed_seek>>
    BY <1>4 DEF MuxTick
  <2>2. ClockTypes' BY <2>1 DEF ClockTypes, MaybeOne
  <2>3. AudioOnTime' /\ AudioAnchored' BY <2>1 DEF AudioOnTime, AudioAnchored, AudioInFile
  <2> QED BY <2>2, <2>3
<1>5. CASE \/ \E kind \in {"audio", "video"} : BeginWrite(kind)
           \/ AudioEmpty \/ BeginMuxCleanup \/ ReserveOutput \/ RunFFmpeg \/ ReplaceDestination
           \/ DropOutput \/ UnlinkTempFiles \/ UNCHANGED muxVars
  BY <1>1, <1>5 DEF BeginWrite, AudioEmpty, BeginMuxCleanup, ReserveOutput, RunFFmpeg,
     ReplaceDestination, DropOutput, UnlinkTempFiles, muxVars
<1> QED BY <1>2, <1>3, <1>4, <1>5 DEF MuxNext

\* Frames before the first keyframe are not written (_should_write_h26x).
LEMMA StreamStep ==
    ASSUME StreamStarted, [MuxNext]_muxVars PROVE StreamStarted'
<1> USE DEF StreamStarted, VideoStartsDecodable
<1>1. CASE UNCHANGED videoVars
  BY <1>1 DEF videoVars
<1>2. ASSUME NEW kind \in {"delta", "config", "keyframe"}, NEW rtcp, WriteVideo(kind, rtcp)
      PROVE  StreamStarted'
  <2>1. CASE StartsStream(kind)
    <3>1. h26x_started' = TRUE /\ head' = IF head = "none" THEN kind ELSE head
      BY <1>2, <2>1 DEF WriteVideo
    <3> QED BY <2>1, <3>1 DEF StartsStream
  <2>2. CASE ~StartsStream(kind)
    BY <1>1, <1>2, <2>2 DEF WriteVideo
  <2> QED BY <2>1, <2>2
<1>3. CASE \/ \E kind \in {"audio", "video"} : BeginWrite(kind)
           \/ \E ts \in 0 .. MaxStamp, rtcp \in RtcpTimes : WriteAudio(ts, rtcp)
           \/ AudioEmpty \/ MuxTick \/ BeginMuxCleanup \/ ReserveOutput \/ RunFFmpeg
           \/ ReplaceDestination \/ DropOutput \/ UnlinkTempFiles \/ UNCHANGED muxVars
  BY <1>1, <1>3 DEF BeginWrite, WriteAudio, AudioEmpty, MuxTick, BeginMuxCleanup, ReserveOutput, RunFFmpeg,
     ReplaceDestination, DropOutput, UnlinkTempFiles, muxVars
<1> QED BY <1>2, <1>3 DEF MuxNext

\* cleanup removes what there is, and replaces the destination only after a run
\* that succeeded; a write that it overtook is known to have been overlapped.
LEMMA CleanupStepOwes ==
    ASSUME CleanupOwes, DestinationWhole, [MuxNext]_muxVars
    PROVE  CleanupOwes' /\ DestinationWhole'
<1> USE DEF CleanupOwes, DestinationWhole, Cleaning, doneVars, countVars, fileVars, faultVars
<1>1. CASE UNCHANGED <<doneVars, reserved, target, faultVars>> /\ EndWrite
  <2>1. CASE mux_closed BY <1>1, <2>1 DEF EndWrite
  <2>2. CASE ~mux_closed BY <1>1, <2>2
  <2> QED BY <2>1, <2>2
<1>2. CASE UNCHANGED <<doneVars, countVars, fileVars, faultVars, overlapped>>
  BY <1>2
<1>3. CASE \/ \E ts \in 0 .. MaxStamp, rtcp \in RtcpTimes : WriteAudio(ts, rtcp)
           \/ \E kind \in {"delta", "config", "keyframe"}, rtcp \in RtcpTimes : WriteVideo(kind, rtcp)
           \/ AudioEmpty
  BY <1>1, <1>3 DEF WriteAudio, WriteVideo, AudioEmpty
<1>4. CASE MuxTick \/ (\E kind \in {"audio", "video"} : BeginWrite(kind)) \/ UNCHANGED muxVars
  BY <1>2, <1>4 DEF MuxTick, BeginWrite, muxVars
<1>5. CASE BeginMuxCleanup BY <1>5 DEF BeginMuxCleanup
<1>6. CASE ReserveOutput BY <1>6 DEF ReserveOutput
<1>7. CASE RunFFmpeg BY <1>7 DEF RunFFmpeg
<1>8. CASE ReplaceDestination BY <1>8 DEF ReplaceDestination
<1>9. CASE DropOutput BY <1>9 DEF DropOutput
<1>10. CASE UnlinkTempFiles BY <1>10 DEF UnlinkTempFiles
<1> QED BY <1>3, <1>4, <1>5, <1>6, <1>7, <1>8, <1>9, <1>10 DEF MuxNext

\* For any threshold, clocks and timestamps: audio lies where it belongs and, in
\* order, within the file; video begins with a keyframe; the destination is whole or
\* as it was, and cleanup leaves no file but those that an error of the options or of the
\* file system leaves (FFmpegMuxSink).
THEOREM RecordingIsSound == MuxSpec => []RecordingSound
<1>1. MuxInit => MuxInv
  <2> SUFFICES ASSUME MuxInit PROVE MuxInv OBVIOUS
  <2> USE DEF MuxInit
  <2>1. ClockTypes BY DEF ClockTypes, MaybeOne
  <2>2. AudioOnTime BY DEF AudioOnTime
  <2>3. AudioAnchored BY DEF AudioAnchored, AudioInFile
  <2>4. StreamStarted BY DEF StreamStarted, VideoStartsDecodable
  <2>5. DestinationWhole BY DEF DestinationWhole
  <2>6. CleanupOwes BY DEF CleanupOwes
  <2> QED BY <2>1, <2>2, <2>3, <2>4, <2>5, <2>6 DEF MuxInv
<1>2. MuxInv /\ [MuxNext]_muxVars => MuxInv'
  BY TimelineStep, StreamStep, CleanupStepOwes DEF MuxInv
<1>3. MuxInv => RecordingSound
  BY DEF MuxInv, RecordingSound, AudioAnchored, StreamStarted, CleanupOwes, NothingLeftBehind
<1> QED BY <1>1, <1>2, <1>3, PTL DEF MuxSpec
=============================================================================

-------------------------- MODULE VideoSendProofs --------------------------
(***************************************************************************)
(* For any number of streams, packets and calls, any modulus and any size  *)
(* of the RTX cache: packets reach the socket in the order of their        *)
(* transport-wide numbers; the RTX cache is the window of the packets      *)
(* numbered last; an RTX packet repeats what was sent under the number it  *)
(* names; and, with one thread that sends frames and one that answers      *)
(* NACKs, the statistics are those of the packet sent last.                *)
(*                                                                         *)
(* The inductive invariant has two halves.  StreamsSound is about what the *)
(* state lock protects: each cache is a window that ends at the stream's   *)
(* number, and agrees with what was numbered.  CallsSound is about what    *)
(* send_lock protects: what the holder has numbered forms one line from    *)
(* the packet sent last to the number given out last, cut only by clear    *)
(* and by a failed call.                                                   *)
(*                                                                         *)
(* The second part is about the replay of cached keyframes, which shares   *)
(* no state with the pipeline.  Its invariant ReplayInv follows a list of  *)
(* cached frames through a stop and a start of video at any step of the    *)
(* player: what is on its way into the cache (Storing), what is being sent *)
(* (Replaying), and what a replay that a stop has overtaken still adds     *)
(* (Overtaken).                                                            *)
(***************************************************************************)
EXTENDS VideoSendPipeline, KeyframeReplay, RtpSequenceProofs, SequenceTheorems

\* What a call has to number, and a numbered packet.
Items == [kind : {"media", "rtx"}, ssrc : Ssrcs, original : Numbers]

Packets == [kind : {"media", "rtx"}, ssrc : Ssrcs, sequence : Numbers, original : Numbers,
            body : Nat, truth : Nat, transport_sequence : Numbers, epoch : Nat, losses : Nat]

\* A PipelineStream.
IsStream(stream) ==
    /\ stream = [codec |-> stream.codec, rtx |-> stream.rtx, sequence |-> stream.sequence,
                 rtx_sequence |-> stream.rtx_sequence, cache |-> stream.cache,
                 order |-> stream.order]
    /\ stream.codec \in Codecs /\ stream.rtx \in BOOLEAN
    /\ stream.sequence \in Numbers /\ stream.rtx_sequence \in Numbers
    /\ stream.order \in Seq(Numbers)
    /\ DOMAIN stream.cache \subseteq Numbers
    /\ \A n \in DOMAIN stream.cache : stream.cache[n] \in Nat

StreamTypes ==
    /\ DOMAIN streams \subseteq Ssrcs
    /\ \A s \in DOMAIN streams : IsStream(streams[s])
    /\ active_for \in [Ssrcs -> Nat]

ThreadTypes ==
    /\ send_lock \in Threads \cup {Nobody}
    /\ pc \in [Threads -> {"idle", "prepare", "send", "record"}]
    /\ todo \in [Threads -> Seq(Items)]
    /\ outbox \in [Threads -> Seq(Packets)]
    /\ result \in [Threads -> Packets \cup {Nothing}]

WireTypes ==
    /\ transport_sequence \in Numbers
    /\ latest \in Packets \cup {Nothing}
    /\ last_on \in [Channels -> Packets \cup {Nothing}]
    /\ DOMAIN stats = Channels

CounterTypes ==
    /\ bodies \in Nat /\ rtx_total \in Nat /\ changes \in Nat /\ losses \in Nat
    /\ epoch \in Nat

\* What a cache holds is what the stream of that SSRC numbered.
CacheIsNumbered ==
    \A s \in DOMAIN streams : \A n \in DOMAIN streams[s].cache :
        <<s, n>> \in DOMAIN numbered /\ numbered[<<s, n>>] = streams[s].cache[n]

\* The cache of a stream on which n packets were numbered while RTX was active.
Window(stream, n) ==
    /\ ~stream.rtx => n = 0
    /\ Len(stream.order) = IF ~stream.rtx THEN 0 ELSE IF n < CacheMax THEN n ELSE CacheMax
    /\ DOMAIN stream.cache = Members(stream.order)
    /\ \A i \in DOMAIN stream.order :
          stream.order[i] = (stream.sequence - (Len(stream.order) - i)) % SeqMod

Windows == \A s \in DOMAIN streams : Window(streams[s], active_for[s])

\* send_lock is held while packets are numbered and sent; while they are
\* numbered no stream is taken away.
Locking ==
    /\ \A t \in Threads : pc[t] \in {"prepare", "send"} <=> send_lock = t
    /\ \A t \in Threads : outbox[t] # <<>> => send_lock = t
    /\ \A t \in Threads : pc[t] = "prepare" =>
          /\ todo[t] # <<>>
          /\ \A i \in 1..Len(todo[t]) : todo[t][i].ssrc \in DOMAIN streams

\* p and q are numbered one after the other.
InLine(p, q) ==
    (p.epoch = q.epoch /\ p.losses = q.losses) =>
        q.transport_sequence = NextNumber(p.transport_sequence)

\* The packet sent last, those that are numbered and not yet sent, and the
\* number given out last follow one another.
Waiting ==
    \A t \in Threads : \A i \in 1..Len(outbox[t]) :
        /\ outbox[t][i].epoch <= epoch /\ outbox[t][i].losses = losses
        /\ i < Len(outbox[t]) => InLine(outbox[t][i], outbox[t][i + 1])
        /\ i = 1 /\ latest # Nothing => InLine(latest, outbox[t][i])
        /\ i = Len(outbox[t]) /\ outbox[t][i].epoch = epoch =>
              transport_sequence = outbox[t][i].transport_sequence

Sent ==
    latest # Nothing =>
        /\ latest.epoch <= epoch /\ latest.losses <= losses
        /\ (/\ \A t \in Threads : outbox[t] = <<>>
            /\ latest.epoch = epoch /\ latest.losses = losses) =>
              transport_sequence = latest.transport_sequence

KindOf(t) == IF t \in Senders THEN "media" ELSE "rtx"
ChannelOf(p) == <<p.kind, p.ssrc>>

\* A call works for one channel, and its result is its last packet.
WorksFor(t, s) ==
    /\ \A i \in 1..Len(todo[t]) : todo[t][i].kind = KindOf(t) /\ todo[t][i].ssrc = s
    /\ \A i \in 1..Len(outbox[t]) : ChannelOf(outbox[t][i]) = <<KindOf(t), s>>
    /\ result[t] = Nothing => outbox[t] = <<>>
    /\ result[t] # Nothing =>
          /\ ChannelOf(result[t]) = <<KindOf(t), s>>
          /\ outbox[t] # <<>> => outbox[t][Len(outbox[t])] = result[t]
          /\ pc[t] = "prepare" => outbox[t] # <<>>

OneChannel ==
    \A t \in Threads : pc[t] \in {"prepare", "send", "record"} => \E s \in Ssrcs : WorksFor(t, s)

\* What a call returns and nobody has recorded was sent last on its channel, ...
SentLast ==
    \A t \in Threads : (pc[t] \in {"send", "record"} /\ outbox[t] = <<>> /\ result[t] # Nothing)
        => last_on[ChannelOf(result[t])] = result[t]

\* ... and a channel whose statistics lag has a call that will record.
StatsFollow ==
    losses = 0 => \A c \in Channels : last_on[c] # Nothing =>
        \/ stats[c].sequence = last_on[c].sequence
        \/ \E t \in Threads : /\ pc[t] \in {"send", "record"} /\ result[t] # Nothing
                              /\ ChannelOf(result[t]) = c

-----------------------------------------------------------------------------
\* A remainder is a number of 16 bits.
LEMMA ModType == ASSUME NEW a \in Int PROVE a % SeqMod \in Numbers
  BY DivMod, HalfFacts DEF Numbers

\* A number of 16 bits is its own remainder.
LEMMA ModSmall == ASSUME NEW a \in Numbers PROVE a % SeqMod = a
  <1>1. (SeqMod * 0) + a = a
    BY HalfFacts, Z3 DEF Numbers
  <1> QED
    BY <1>1, ModUnique, HalfFacts DEF Numbers

\* The remainder may be taken before a shift as well as after it: numbers that
\* wrap around one by one stay those of an unbounded count.
LEMMA ModShift ==
    ASSUME NEW a \in Int, NEW k \in Int
    PROVE  ((a % SeqMod) + k) % SeqMod = (a + k) % SeqMod
  <1> DEFINE q == a \div SeqMod
             r == a % SeqMod
             p == (r + k) \div SeqMod
             s == (r + k) % SeqMod
  <1>1. a = (SeqMod * q) + r /\ q \in Int /\ r \in Int
    BY DivMod, HalfFacts
  <1>2. r + k = (SeqMod * p) + s /\ p \in Int /\ s \in 0..(SeqMod - 1)
    BY <1>1, DivMod, HalfFacts
  <1> HIDE DEF q, r, p, s
  <1>3. a + k = (SeqMod * (q + p)) + s /\ q + p \in Int
    BY <1>1, <1>2, HalfFacts, Z3
  <1>4. (a + k) % SeqMod = s
    BY <1>2, <1>3, ModUnique, HalfFacts
  <1> QED
    BY <1>4 DEF s, r

\* Within one cycle no number comes twice.
LEMMA ModDistinct ==
    ASSUME NEW a \in Int, NEW d \in Int, 0 < d, d < SeqMod
    PROVE  (a + d) % SeqMod # a % SeqMod
  <1> DEFINE q == a \div SeqMod
             p == (a + d) \div SeqMod
             r == a % SeqMod
  <1> SUFFICES ASSUME (a + d) % SeqMod = r PROVE FALSE
    OBVIOUS
  <1>1. a = (SeqMod * q) + r /\ q \in Int /\ r \in Int
    BY DivMod, HalfFacts
  <1>2. a + d = (SeqMod * p) + r /\ p \in Int
    BY DivMod, HalfFacts
  <1> HIDE DEF q, p, r
  <1>3. SeqMod * (p - q) = d
    BY <1>1, <1>2, HalfFacts, Z3
  <1>4. CASE p - q >= 1
    <2>1. SeqMod * (p - q) >= SeqMod
      BY <1>1, <1>2, <1>4, ProductGap, HalfFacts
    <2> QED
      BY <2>1, <1>3, HalfFacts
  <1>5. CASE p - q <= 0
    <2>1. SeqMod * (p - q) <= 0
      BY <1>1, <1>2, <1>5, HalfFacts, Z3
    <2> QED
      BY <2>1, <1>3
  <1>6. p - q >= 1 \/ p - q <= 0
    BY <1>1, <1>2
  <1> QED
    BY <1>4, <1>5, <1>6

-----------------------------------------------------------------------------
\* PipelineStream::new: the cache of a new stream is empty.
LEMMA NewStreamFits ==
    ASSUME NEW codec \in Codecs, NEW rtx \in BOOLEAN, NEW start \in Numbers
    PROVE  IsStream(NewStream(codec, rtx, start)) /\ Window(NewStream(codec, rtx, start), 0)
           /\ NewStream(codec, rtx, start).cache = <<>>
  BY PipelineAssumption, HalfFacts DEF IsStream, NewStream, Window, Members, Numbers

\* PipelineStream::update: the cache stays, or is empty when RTX is off.
LEMMA UpdatedStreamFits ==
    ASSUME NEW stream, NEW rtx \in BOOLEAN, NEW n \in Nat, IsStream(stream), Window(stream, n)
    PROVE  /\ IsStream(UpdatedStream(stream, rtx))
           /\ Window(UpdatedStream(stream, rtx), IF rtx THEN n ELSE 0)
           /\ \A k \in DOMAIN UpdatedStream(stream, rtx).cache :
                 /\ k \in DOMAIN stream.cache
                 /\ UpdatedStream(stream, rtx).cache[k] = stream.cache[k]
  <1>1. CASE rtx
    <2>1. UpdatedStream(stream, rtx) =
            [codec |-> stream.codec, rtx |-> TRUE, sequence |-> stream.sequence,
             rtx_sequence |-> stream.rtx_sequence, cache |-> stream.cache, order |-> stream.order]
      BY <1>1 DEF IsStream, UpdatedStream
    <2>2. IsStream(UpdatedStream(stream, rtx))
      BY <2>1 DEF IsStream
    <2>3. Window(UpdatedStream(stream, rtx), n)
      BY <2>1, PipelineAssumption DEF Window, IsStream
    <2>4. UpdatedStream(stream, rtx).cache = stream.cache
      BY <2>1
    <2>5. Window(UpdatedStream(stream, rtx), IF rtx THEN n ELSE 0)
      BY <1>1, <2>3, Zenon
    <2> QED
      BY <2>2, <2>4, <2>5, Zenon
  <1>2. CASE ~rtx
    <2>1. UpdatedStream(stream, rtx) =
            [codec |-> stream.codec, rtx |-> FALSE, sequence |-> stream.sequence,
             rtx_sequence |-> 0, cache |-> <<>>, order |-> <<>>]
      BY <1>2 DEF IsStream, UpdatedStream
    <2>2. IsStream(UpdatedStream(stream, rtx))
      BY <2>1, HalfFacts DEF IsStream, Numbers
    <2>3. Window(UpdatedStream(stream, rtx), 0)
      BY <2>1 DEF Window, Members
    <2>4. DOMAIN UpdatedStream(stream, rtx).cache = {}
      BY <2>1
    <2>5. Window(UpdatedStream(stream, rtx), IF rtx THEN n ELSE 0)
      BY <1>2, <2>3, Zenon
    <2>6. \A k \in DOMAIN UpdatedStream(stream, rtx).cache : FALSE
      BY <2>4
    <2> QED
      BY <2>2, <2>5, <2>6, Zenon
  <1> QED
    BY <1>1, <1>2

\* cache_media_packet: the window moves on by one packet.
LEMMA CachedFits ==
    ASSUME NEW stream, NEW n \in Nat, NEW body \in Nat, IsStream(stream), Window(stream, n)
    PROVE  LET sequence == NextNumber(stream.sequence)
               cached   == Cached([stream EXCEPT !.sequence = sequence], sequence, body)
           IN  /\ IsStream(cached)
               /\ Window(cached, IF stream.rtx THEN n + 1 ELSE 0)
               /\ \A k \in DOMAIN cached.cache :
                     cached.cache[k] = IF k = sequence THEN body ELSE stream.cache[k]
               /\ DOMAIN cached.cache \subseteq DOMAIN stream.cache \cup {sequence}
               /\ cached.codec = stream.codec
  <1> DEFINE sequence == NextNumber(stream.sequence)
             moved    == [stream EXCEPT !.sequence = sequence]
             cached   == Cached(moved, sequence, body)
             order    == Append(stream.order, sequence)
             cache    == Put(stream.cache, sequence, body)
  <1>1. sequence \in Numbers /\ stream.sequence \in Int
    BY ModType, HalfFacts DEF NextNumber, IsStream, Numbers
  <1>2. /\ moved = [codec |-> stream.codec, rtx |-> stream.rtx, sequence |-> sequence,
                    rtx_sequence |-> stream.rtx_sequence, cache |-> stream.cache,
                    order |-> stream.order]
        /\ IsStream(moved)
        /\ moved.rtx = stream.rtx /\ moved.order = stream.order /\ moved.cache = stream.cache
    BY <1>1 DEF IsStream
  <1>3. CASE ~stream.rtx
    <2>1. cached = moved
      BY <1>2, <1>3 DEF Cached
    <2>2. stream.order = <<>> /\ DOMAIN stream.cache = {}
      BY <1>3 DEF Window, IsStream, Members
    <2> QED
      BY <1>2, <1>3, <2>1, <2>2 DEF Window
  <1>4. CASE stream.rtx
    <2> DEFINE L == Len(order)
    <2>1. /\ order \in Seq(Numbers) /\ L = Len(stream.order) + 1 /\ L \in Nat
          /\ DOMAIN order = 1..L
          /\ L = IF n < CacheMax THEN n + 1 ELSE CacheMax + 1
          /\ L <= CacheMax + 1 /\ CacheMax < SeqMod /\ CacheMax \in Nat
      BY <1>1, <1>4, PipelineAssumption DEF IsStream, Window
    <2>2. \A i \in 1..L : order[i] = (sequence - (L - i)) % SeqMod
      <3> SUFFICES ASSUME NEW i \in 1..L PROVE order[i] = (sequence - (L - i)) % SeqMod
        OBVIOUS
      <3>1. CASE i = L
        <4>1. order[i] = sequence /\ sequence - (L - i) = sequence
          BY <3>1, <2>1, <1>1 DEF Numbers, IsStream
        <4> QED
          BY <4>1, <1>1, ModSmall
      <3>2. CASE i < L
        <4>1. order[i] = (stream.sequence - (Len(stream.order) - i)) % SeqMod
          BY <3>2, <2>1 DEF Window, IsStream
        <4>2. (((stream.sequence + 1) % SeqMod) + (-(L - i))) % SeqMod
                 = ((stream.sequence + 1) + (-(L - i))) % SeqMod
          <5>1. stream.sequence + 1 \in Int /\ -(L - i) \in Int
            BY <1>1, <2>1
          <5> QED
            BY <5>1, ModShift
        <4>3. (stream.sequence + 1) + (-(L - i)) = stream.sequence - (Len(stream.order) - i)
          BY <1>1, <2>1, SMTT(30)
        <4>4. sequence + (-(L - i)) = sequence - (L - i)
          BY <1>1, <2>1 DEF Numbers
        <4> QED
          BY <4>1, <4>2, <4>3, <4>4 DEF NextNumber
      <3> QED
        BY <3>1, <3>2, <2>1
    <2>3. /\ DOMAIN cache = Members(order)
          /\ \A k \in DOMAIN cache : cache[k] = IF k = sequence THEN body ELSE stream.cache[k]
          /\ DOMAIN cache = DOMAIN stream.cache \cup {sequence}
      <3>1. Members(order) = Members(stream.order) \cup {sequence}
        <4>1. /\ DOMAIN order = 1..L /\ DOMAIN stream.order = 1..(L - 1)
              /\ \A i \in 1..(L - 1) : order[i] = stream.order[i]
              /\ order[L] = sequence /\ L \in 1..L
          BY <1>1, <2>1 DEF IsStream
        <4> HIDE DEF order, L, sequence
        <4> QED
          BY <4>1, <2>1 DEF Members
      <3> QED
        BY <3>1 DEF Put, Window
    <2>4. DOMAIN cache \subseteq Numbers /\ \A k \in DOMAIN cache : cache[k] \in Nat
      BY <2>3, <1>1 DEF IsStream
    <2>5. CASE L <= CacheMax
      <3>1. cached = [moved EXCEPT !.order = order, !.cache = cache]
        <4>1. moved.rtx /\ Append(moved.order, sequence) = order
                 /\ Put(moved.cache, sequence, body) = cache /\ ~(Len(order) > CacheMax)
          BY <1>2, <1>4, <2>1, <2>5
        <4> HIDE DEF moved, sequence, order, cache
        <4> QED
          BY <4>1 DEF Cached
      <3>2. cached = [codec |-> stream.codec, rtx |-> stream.rtx, sequence |-> sequence,
                      rtx_sequence |-> stream.rtx_sequence, cache |-> cache, order |-> order]
        BY <3>1, <1>2
      <3> HIDE DEF cached, order, cache, sequence, moved, L
      <3>3. IsStream(cached)
        BY <3>2, <1>1, <2>1, <2>4 DEF IsStream
      <3>4. Window(cached, n + 1)
        <4>1. /\ cached.order = order /\ cached.cache = cache /\ cached.rtx
              /\ cached.sequence = sequence
          BY <3>2, <1>4
        <4>2. L = IF n + 1 < CacheMax THEN n + 1 ELSE CacheMax
          BY <2>1, <2>5
        <4> QED
          BY <4>1, <4>2, <2>1, <2>2, <2>3 DEF Window, L
      <3> QED
        BY <3>2, <3>3, <3>4, <1>4, <2>3 DEF cached, sequence, moved
    <2>6. CASE L > CacheMax
      <3> DEFINE rest == Tail(order)
                 kept == Keep(cache, DOMAIN cache \ {Head(order)})
      <3>1. cached = [moved EXCEPT !.order = rest, !.cache = kept]
        BY <1>2, <1>4, <2>1, <2>6 DEF Cached
      <3>2. cached = [codec |-> stream.codec, rtx |-> stream.rtx, sequence |-> sequence,
                      rtx_sequence |-> stream.rtx_sequence, cache |-> kept, order |-> rest]
        BY <3>1, <1>2
      <3>3. /\ rest \in Seq(Numbers) /\ Len(rest) = L - 1 /\ L = CacheMax + 1
            /\ DOMAIN rest = 1..(L - 1)
            /\ \A i \in 1..(L - 1) : rest[i] = order[i + 1]
            /\ Head(order) = order[1] /\ 1 \in 1..L
        BY <2>1, <2>6
      <3> HIDE DEF cached, order, cache, sequence, moved, rest, kept, L
      <3>4. \A i \in 1..(L - 1) : rest[i] = (sequence - (Len(rest) - i)) % SeqMod
        <4> SUFFICES ASSUME NEW i \in 1..(L - 1)
                     PROVE  rest[i] = (sequence - (Len(rest) - i)) % SeqMod
          OBVIOUS
        <4>3. i + 1 \in 1..L
          BY <2>1
        <4>1. rest[i] = (sequence - (L - (i + 1))) % SeqMod
          BY <4>3, <2>2, <3>3
        <4>2. L - (i + 1) = Len(rest) - i
          BY <2>1, <3>3
        <4> QED
          BY <4>1, <4>2
      <3>5. \A i \in 1..(L - 1) : rest[i] # order[1]
        <4> SUFFICES ASSUME NEW i \in 1..(L - 1) PROVE rest[i] # order[1]
          OBVIOUS
        <4> DEFINE a == sequence - (L - 1)
        <4>1. a \in Int /\ i \in Int /\ 0 < i /\ i < SeqMod
          <5>1. sequence \in Int /\ L \in Int /\ i \in Int /\ 0 < i /\ i <= L - 1
            BY <1>1, <2>1, HalfFacts DEF Numbers
          <5> QED
            BY <5>1, <2>1, <3>3, HalfFacts
        <4>2. a + i = sequence - (L - (i + 1))
          BY <1>1, <2>1, <3>3 DEF Numbers
        <4>3. order[i + 1] = (a + i) % SeqMod /\ order[1] = a % SeqMod
          BY <2>1, <2>2, <4>2, SMTT(30)
        <4> HIDE DEF a
        <4> QED
          BY <4>1, <4>3, <3>3, ModDistinct
      <3>6. Members(rest) = Members(order) \ {order[1]}
        <4>1. \A x : x \in Members(order) <=> \E i \in 1..L : x = order[i]
          BY <2>1 DEF Members
        <4>2. \A x : x \in Members(rest) <=> \E i \in 1..(L - 1) : x = rest[i]
          BY <3>3 DEF Members
        <4>3. \A i \in 1..L : i = 1 \/ (i - 1 \in 1..(L - 1) /\ rest[i - 1] = order[i])
          BY <2>1, <3>3
        <4>4. \A i \in 1..(L - 1) : i + 1 \in 1..L
          BY <2>1, <3>3
        <4> QED
          BY <4>1, <4>2, <4>3, <4>4, <3>3, <3>5
      <3>7. /\ DOMAIN kept = Members(rest)
            /\ \A k \in DOMAIN kept : kept[k] = cache[k]
        BY <2>3, <3>3, <3>6 DEF Keep, kept
      <3>8. IsStream(cached)
        BY <3>2, <1>1, <2>4, <3>3, <3>7, <3>6, <2>3 DEF IsStream
      <3>9. Window(cached, n + 1)
        BY <3>2, <1>4, <2>1, <3>3, <3>4, <3>7 DEF Window
      <3>10. DOMAIN kept \subseteq DOMAIN stream.cache \cup {sequence}
        BY <3>7, <3>6, <2>3
      <3> QED
        BY <3>2, <3>8, <3>9, <3>10, <1>4, <2>3, <3>7, <3>6 DEF cached, sequence, moved
    <2> QED
      BY <2>1, <2>5, <2>6
  <1> QED
    BY <1>3, <1>4 DEF IsStream

-----------------------------------------------------------------------------
\* A call begins: it has packets to number, all of one configured stream and of
\* the caller's kind.
Begins(t, work) ==
    /\ Enter(t, work)
    /\ work \in Seq(Items) /\ work # <<>>
    /\ \E s \in DOMAIN streams : \A i \in 1..Len(work) :
          work[i].kind = KindOf(t) /\ work[i].ssrc = s

\* send_video_frame begins a call with the packets of a frame.
LEMMA FrameBegins ==
    ASSUME StreamTypes, NEW t \in Senders, NEW ssrc \in Ssrcs, NEW n \in 1..MaxFrame,
           send_video_frame(t, ssrc, n)
    PROVE  \E work : Begins(t, work)
  <1> DEFINE work == [i \in 1..n |-> [kind |-> "media", ssrc |-> ssrc, original |-> 0]]
  <1>1. Enter(t, work) /\ ssrc \in DOMAIN streams
    BY DEF send_video_frame
  <1>2. n \in Nat /\ n > 0
    BY PipelineAssumption
  <1>3. work \in [1..n -> Items]
    BY HalfFacts DEF Items, Numbers
  <1>4. work \in Seq(Items) /\ Len(work) = n
    BY <1>2, <1>3, SeqDef, LenProperties, Z3
  <1>5. \A i \in 1..Len(work) : work[i].kind = KindOf(t) /\ work[i].ssrc = ssrc
    BY <1>4 DEF KindOf
  <1> HIDE DEF work
  <1>6. work # <<>>
    BY <1>4, <1>2
  <1> QED
    BY <1>1, <1>4, <1>5, <1>6 DEF Begins

\* send_video_rtx_for_nack begins a call with the numbers of the NACK.
LEMMA NackBegins ==
    ASSUME StreamTypes, NEW t \in Responders, NEW ssrc \in Ssrcs, NEW sequences \in NackLists(MaxNack),
           send_video_rtx_for_nack(t, ssrc, sequences)
    PROVE  \E work : Begins(t, work)
  <1> DEFINE work == [i \in DOMAIN sequences |->
                         [kind |-> "rtx", ssrc |-> ssrc, original |-> sequences[i]]]
  <1>1. Enter(t, work) /\ ssrc \in DOMAIN streams
    BY DEF send_video_rtx_for_nack
  <1>2. PICK n \in 1..MaxNack : sequences \in [1..n -> Numbers]
    BY DEF NackLists, Numbers
  <1>3. n \in Nat /\ n > 0
    BY PipelineAssumption
  <1>4. work \in [1..n -> Items]
    BY <1>2 DEF Items
  <1>5. work \in Seq(Items) /\ Len(work) = n
    BY <1>3, <1>4, SeqDef, LenProperties, Z3
  <1>6. \A i \in 1..Len(work) : work[i].kind = KindOf(t) /\ work[i].ssrc = ssrc
    BY <1>2, <1>5, PipelineAssumption DEF KindOf
  <1> HIDE DEF work
  <1>7. work # <<>>
    BY <1>5, <1>3
  <1> QED
    BY <1>1, <1>5, <1>6, <1>7 DEF Begins

\* One packet is numbered and waits to be sent.
Fits(t, packet) ==
    /\ packet \in Packets
    /\ packet.kind = Head(todo[t]).kind /\ packet.ssrc = Head(todo[t]).ssrc
    /\ packet.transport_sequence = NextNumber(transport_sequence)
    /\ packet.epoch = epoch /\ packet.losses = losses
    /\ packet.body = packet.truth
    /\ Numbered(t, packet)

Skips(t) == UNCHANGED <<transport_sequence, outbox, result>>

\* wrapping_add(1) stays within 16 bits.
LEMMA NextNumberType == ASSUME NEW n \in Numbers PROVE NextNumber(n) \in Numbers
  BY ModType, HalfFacts DEF NextNumber, Numbers

\* Numbering: the packet fits behind what was numbered before, or is skipped.
LEMMA PrepareCases ==
    ASSUME StreamTypes, ThreadTypes, WireTypes, CounterTypes, Locking, CacheIsNumbered,
           NEW t \in Threads, Prepare(t)
    PROVE  /\ \/ Skips(t) \/ \E packet : Fits(t, packet)
           /\ pc[t] = "prepare" /\ Len(todo[t]) \in Nat \ {0} /\ Head(todo[t]) \in Items
           /\ Head(todo[t]) = todo[t][1] /\ Head(todo[t]).ssrc \in DOMAIN streams
           /\ todo' = [todo EXCEPT ![t] = Tail(todo[t])]
           /\ pc' = [pc EXCEPT ![t] = IF Len(todo[t]) = 1 THEN "send" ELSE "prepare"]
           /\ UNCHANGED <<send_lock, observed, epoch, changes, losses>>
           /\ bodies' \in Nat /\ rtx_total' \in Nat
  <1> DEFINE item == Head(todo[t])
             ssrc == item.ssrc
             stream == streams[ssrc]
  <1>1. /\ pc[t] = "prepare" /\ todo[t] # <<>> /\ todo[t] \in Seq(Items)
        /\ Len(todo[t]) \in Nat \ {0} /\ item \in Items /\ item = todo[t][1]
    BY DEF Prepare, Locking, ThreadTypes
  <1>2. ssrc \in DOMAIN streams /\ ssrc \in Ssrcs
    BY <1>1 DEF Locking, StreamTypes
  <1>3. IsStream(stream)
    BY <1>2 DEF StreamTypes
  <1>4. NextNumber(transport_sequence) \in Numbers
    BY NextNumberType DEF WireTypes
  <1>5. CASE item.kind = "media" /\ PrepareMedia(t, ssrc)
    <2> DEFINE packet == [kind |-> "media", ssrc |-> ssrc, sequence |-> NextNumber(stream.sequence),
                          original |-> NextNumber(stream.sequence), body |-> bodies + 1,
                          truth |-> bodies + 1,
                          transport_sequence |-> NextNumber(transport_sequence),
                          epoch |-> epoch, losses |-> losses]
    <2>1. Numbered(t, packet) /\ bodies' = bodies + 1 /\ rtx_total' = rtx_total
      BY <1>5 DEF PrepareMedia
    <2>2. packet \in Packets
      BY <1>2, <1>3, <1>4, NextNumberType DEF Packets, CounterTypes, IsStream
    <2>3. Fits(t, packet)
      BY <1>5, <2>1, <2>2 DEF Fits
    <2> QED
      BY <1>1, <1>2, <2>1, <2>3 DEF Prepare, CounterTypes
  <1>6. CASE item.kind = "rtx" /\ PrepareRtx(t, ssrc, item.original)
    <2> DEFINE body == stream.cache[item.original]
               truth == IF <<ssrc, item.original>> \in DOMAIN numbered
                        THEN numbered[<<ssrc, item.original>>] ELSE 0
               packet == [kind |-> "rtx", ssrc |-> ssrc, sequence |-> NextNumber(stream.rtx_sequence),
                          original |-> item.original, body |-> body, truth |-> truth,
                          transport_sequence |-> NextNumber(transport_sequence),
                          epoch |-> epoch, losses |-> losses]
    <2>1. /\ Numbered(t, packet) /\ bodies' = bodies /\ rtx_total' = rtx_total + 1
          /\ item.original \in DOMAIN stream.cache
      BY <1>6 DEF PrepareRtx
    <2>2. body \in Nat /\ truth = body
      BY <1>2, <1>3, <2>1 DEF IsStream, CacheIsNumbered
    <2> HIDE DEF body, truth
    <2>3. packet \in Packets
      BY <1>1, <1>2, <1>3, <1>4, <2>2, NextNumberType DEF Packets, CounterTypes, IsStream, Items
    <2>4. Fits(t, packet)
      BY <1>6, <2>1, <2>2, <2>3 DEF Fits
    <2> QED
      BY <1>1, <1>2, <2>1, <2>4 DEF Prepare, CounterTypes
  <1>7. CASE item.kind = "rtx" /\ SkipRtx(ssrc, item.original)
    <2>1. Skips(t) /\ bodies' = bodies /\ rtx_total' = rtx_total
      BY <1>7 DEF SkipRtx, Skips, shared
    <2> QED
      BY <1>1, <1>2, <2>1 DEF Prepare, CounterTypes
  <1> QED
    BY <1>5, <1>6, <1>7 DEF Prepare

-----------------------------------------------------------------------------
StreamsSound == StreamTypes /\ Windows /\ CacheIsNumbered

\* One stream changes, or is added.
LEMMA StreamReplaced ==
    ASSUME StreamsSound, NEW ssrc \in Ssrcs, NEW stream, NEW n \in Nat, NEW set,
           IsStream(stream), Window(stream, n),
           streams' = Put(streams, ssrc, stream),
           active_for' = [active_for EXCEPT ![ssrc] = n],
           DOMAIN numbered' = set,
           \A s \in DOMAIN streams \ {ssrc} : \A k \in DOMAIN streams[s].cache :
              <<s, k>> \in set /\ numbered'[<<s, k>>] = numbered[<<s, k>>],
           \A k \in DOMAIN stream.cache :
              <<ssrc, k>> \in set /\ numbered'[<<ssrc, k>>] = stream.cache[k]
    PROVE  StreamsSound'
  <1>1. /\ DOMAIN streams' = DOMAIN streams \cup {ssrc}
        /\ streams'[ssrc] = stream /\ active_for'[ssrc] = n
        /\ \A s \in DOMAIN streams \ {ssrc} :
              streams'[s] = streams[s] /\ active_for'[s] = active_for[s]
        /\ active_for' \in [Ssrcs -> Nat]
    BY DEF Put, StreamsSound, StreamTypes
  <1>2. StreamTypes'
    BY <1>1 DEF StreamsSound, StreamTypes
  <1>3. Windows'
    BY <1>1 DEF StreamsSound, Windows
  <1>4. CacheIsNumbered'
    <2> SUFFICES ASSUME NEW s \in DOMAIN streams', NEW k \in DOMAIN streams'[s].cache
                 PROVE  <<s, k>> \in DOMAIN numbered' /\ numbered'[<<s, k>>] = streams'[s].cache[k]
      BY DEF CacheIsNumbered
    <2>1. CASE s = ssrc
      BY <1>1, <2>1
    <2>2. CASE s # ssrc
      BY <1>1, <2>2 DEF StreamsSound, CacheIsNumbered
    <2> QED
      BY <2>1, <2>2
  <1> QED
    BY <1>2, <1>3, <1>4 DEF StreamsSound

\* configure_stream: a stream that is kept keeps its cache, another one is new.
LEMMA ConfigureKeepsStreams ==
    ASSUME StreamsSound, NEW ssrc \in Ssrcs, NEW codec \in Codecs, NEW rtx \in BOOLEAN,
           NEW start \in Starts, configure_stream(ssrc, codec, rtx, start)
    PROVE  StreamsSound'
  <1> DEFINE same == ssrc \in DOMAIN streams /\ streams[ssrc].codec = codec
             stream == Reconfigured(ssrc, codec, rtx, start)
             n == IF same /\ rtx THEN active_for[ssrc] ELSE 0
  <1>0. start \in Numbers /\ active_for[ssrc] \in Nat /\ active_for \in [Ssrcs -> Nat]
    BY PipelineAssumption DEF Numbers, StreamsSound, StreamTypes
  <1>1. /\ streams' = Put(streams, ssrc, stream)
        /\ numbered' = IF same THEN numbered ELSE Forget({ssrc})
        /\ active_for' = [active_for EXCEPT ![ssrc] = n] /\ n \in Nat
    BY <1>0 DEF configure_stream
  <1>2. CASE same
    <2>1. /\ stream = UpdatedStream(streams[ssrc], rtx)
          /\ IsStream(streams[ssrc]) /\ Window(streams[ssrc], active_for[ssrc])
      BY <1>2 DEF Reconfigured, StreamsSound, StreamTypes, Windows
    <2>2. /\ IsStream(stream) /\ Window(stream, n)
          /\ \A k \in DOMAIN stream.cache :
                k \in DOMAIN streams[ssrc].cache /\ stream.cache[k] = streams[ssrc].cache[k]
      BY <1>0, <1>2, <2>1, UpdatedStreamFits
    <2>3. /\ \A s \in DOMAIN streams : \A k \in DOMAIN streams[s].cache :
                <<s, k>> \in DOMAIN numbered /\ numbered[<<s, k>>] = streams[s].cache[k]
          /\ numbered' = numbered
      BY <1>1, <1>2 DEF StreamsSound, CacheIsNumbered
    <2> HIDE DEF stream, n
    <2> QED
      BY <1>1, <1>2, <2>2, <2>3, StreamReplaced
  <1>3. CASE ~same
    <2>1. stream = NewStream(codec, rtx, start) /\ n = 0
      BY <1>3 DEF Reconfigured
    <2>2. IsStream(stream) /\ Window(stream, n) /\ DOMAIN stream.cache = {}
      BY <1>0, <2>1, NewStreamFits
    <2>3. \A s \in DOMAIN streams \ {ssrc} : \A k \in DOMAIN streams[s].cache :
             <<s, k>> \in DOMAIN numbered' /\ numbered'[<<s, k>>] = numbered[<<s, k>>]
      <3>1. \A s \in DOMAIN streams : \A k \in DOMAIN streams[s].cache : <<s, k>> \in DOMAIN numbered
        BY DEF StreamsSound, CacheIsNumbered
      <3> QED
        BY <1>1, <1>3, <3>1 DEF Forget, Keep
    <2> HIDE DEF stream, n
    <2> QED
      BY <1>1, <2>2, <2>3, StreamReplaced
  <1> QED
    BY <1>2, <1>3

\* retain_streams: what is retained is unchanged.
LEMMA RetainKeepsStreams ==
    ASSUME StreamsSound, NEW kept \in SUBSET Ssrcs, retain_streams(kept)
    PROVE  StreamsSound'
  <1>1. /\ DOMAIN streams' = DOMAIN streams \cap kept
        /\ \A s \in DOMAIN streams' : streams'[s] = streams[s] /\ active_for'[s] = active_for[s]
        /\ active_for' \in [Ssrcs -> Nat] /\ DOMAIN streams \subseteq Ssrcs
        /\ numbered' = Forget(Ssrcs \ kept)
    BY DEF retain_streams, Keep, StreamsSound, StreamTypes
  <1>2. StreamTypes' /\ Windows'
    BY <1>1 DEF StreamsSound, StreamTypes, Windows
  <1>3. CacheIsNumbered'
    <2>1. \A s \in DOMAIN streams : \A k \in DOMAIN streams[s].cache :
             <<s, k>> \in DOMAIN numbered /\ numbered[<<s, k>>] = streams[s].cache[k]
      BY DEF StreamsSound, CacheIsNumbered
    <2> SUFFICES ASSUME NEW s \in DOMAIN streams', NEW k \in DOMAIN streams'[s].cache
                 PROVE  <<s, k>> \in DOMAIN numbered' /\ numbered'[<<s, k>>] = streams'[s].cache[k]
      BY DEF CacheIsNumbered
    <2>2. s \in kept /\ k \in DOMAIN streams[s].cache /\ streams'[s] = streams[s]
      BY <1>1
    <2>3. <<s, k>> \in DOMAIN numbered' /\ numbered'[<<s, k>>] = numbered[<<s, k>>]
      BY <1>1, <2>1, <2>2 DEF Forget, Keep
    <2> QED
      BY <1>1, <2>1, <2>2, <2>3
  <1> QED
    BY <1>2, <1>3 DEF StreamsSound

\* The numbering of a packet changes the stream it is for.
LEMMA PrepareKeepsStreams ==
    ASSUME StreamsSound, ThreadTypes, CounterTypes, Locking, NEW t \in Threads, Prepare(t)
    PROVE  StreamsSound'
  <1> DEFINE item == Head(todo[t])
             ssrc == item.ssrc
             stream == streams[ssrc]
  <1>1. item \in Items /\ ssrc \in DOMAIN streams /\ ssrc \in Ssrcs
    BY DEF Prepare, Locking, ThreadTypes, StreamsSound, StreamTypes
  <1>2. /\ IsStream(stream) /\ Window(stream, active_for[ssrc])
        /\ active_for \in [Ssrcs -> Nat] /\ active_for[ssrc] \in Nat
    BY <1>1 DEF StreamsSound, StreamTypes, Windows
  <1>3. \A s \in DOMAIN streams : \A k \in DOMAIN streams[s].cache :
             <<s, k>> \in DOMAIN numbered /\ numbered[<<s, k>>] = streams[s].cache[k]
    BY DEF StreamsSound, CacheIsNumbered
  <1>4. CASE PrepareMedia(t, ssrc)
    <2> DEFINE sequence == NextNumber(stream.sequence)
               body == bodies + 1
               cached == Cached([stream EXCEPT !.sequence = sequence], sequence, body)
               n == IF stream.rtx THEN active_for[ssrc] + 1 ELSE 0
    <2>1. /\ streams' = [streams EXCEPT ![ssrc] = cached]
          /\ numbered' = Put(numbered, <<ssrc, sequence>>, body)
          /\ active_for' = [active_for EXCEPT ![ssrc] = n]
          /\ body \in Nat /\ n \in Nat
      <3>1. body \in Nat /\ n \in Nat
        BY <1>2 DEF CounterTypes
      <3>2. /\ streams' = [streams EXCEPT ![ssrc] = cached]
            /\ numbered' = Put(numbered, <<ssrc, sequence>>, body)
        BY <1>4, Zenon DEF PrepareMedia
      <3>3. active_for' = [active_for EXCEPT ![ssrc] = n]
        BY <1>4 DEF PrepareMedia
      <3> QED
        BY <3>1, <3>2, <3>3
    <2>2. /\ IsStream(cached) /\ Window(cached, n)
          /\ \A k \in DOMAIN cached.cache :
                cached.cache[k] = IF k = sequence THEN body ELSE stream.cache[k]
          /\ DOMAIN cached.cache \subseteq DOMAIN stream.cache \cup {sequence}
      <3>1. body \in Nat
        BY <2>1
      <3> HIDE DEF body, stream
      <3> QED
        BY <1>2, <3>1, CachedFits
    <2> HIDE DEF cached, n, sequence, body
    <2>3. streams' = Put(streams, ssrc, cached)
      BY <1>1, <2>1 DEF Put, StreamsSound, StreamTypes
    <2>4. /\ DOMAIN numbered' = DOMAIN numbered \cup {<<ssrc, sequence>>}
          /\ \A x \in DOMAIN numbered' :
                numbered'[x] = IF x = <<ssrc, sequence>> THEN body ELSE numbered[x]
      BY <2>1 DEF Put
    <2>5. \A s \in DOMAIN streams \ {ssrc} : \A k \in DOMAIN streams[s].cache :
             <<s, k>> \in DOMAIN numbered' /\ numbered'[<<s, k>>] = numbered[<<s, k>>]
      BY <1>3, <2>4
    <2>6. \A k \in DOMAIN cached.cache :
             <<ssrc, k>> \in DOMAIN numbered' /\ numbered'[<<ssrc, k>>] = cached.cache[k]
      BY <1>1, <1>3, <2>2, <2>4
    <2> QED
      BY <1>1, <2>1, <2>2, <2>3, <2>5, <2>6, StreamReplaced
  <1>5. CASE PrepareRtx(t, ssrc, item.original)
    <2> DEFINE number == NextNumber(stream.rtx_sequence)
               moved == [codec |-> stream.codec, rtx |-> stream.rtx, sequence |-> stream.sequence,
                         rtx_sequence |-> number, cache |-> stream.cache, order |-> stream.order]
    <2>0. [stream EXCEPT !.rtx_sequence = number] = moved
      <3> HIDE DEF number, stream
      <3> QED
        BY <1>2 DEF IsStream, moved
    <2>1. /\ streams' = [streams EXCEPT ![ssrc] = moved]
          /\ numbered' = numbered /\ active_for' = active_for
      <3>1. /\ streams' = [streams EXCEPT ![ssrc] = [stream EXCEPT !.rtx_sequence = number]]
            /\ numbered' = numbered /\ active_for' = active_for
        BY <1>5 DEF PrepareRtx
      <3> HIDE DEF moved, number, stream
      <3> QED
        BY <3>1, <2>0
    <2>2. IsStream(moved)
      BY <1>2, NextNumberType DEF IsStream
    <2>3. Window(moved, active_for[ssrc])
      BY <1>2 DEF Window
    <2>4. moved.cache = stream.cache
      OBVIOUS
    <2> HIDE DEF moved
    <2>5. streams' = Put(streams, ssrc, moved)
      BY <1>1, <2>1 DEF Put, StreamsSound, StreamTypes
    <2>6. active_for' = [active_for EXCEPT ![ssrc] = active_for[ssrc]]
      BY <1>2, <2>1
    <2>7. \A s \in DOMAIN streams : \A k \in DOMAIN streams[s].cache :
             <<s, k>> \in DOMAIN numbered /\ numbered'[<<s, k>>] = numbered[<<s, k>>]
      BY <1>3, <2>1
    <2>8. \A k \in DOMAIN moved.cache :
             <<ssrc, k>> \in DOMAIN numbered /\ numbered'[<<ssrc, k>>] = moved.cache[k]
      BY <1>1, <1>3, <2>1, <2>4
    <2>9. DOMAIN numbered' = DOMAIN numbered
      BY <2>1
    <2> HIDE DEF stream, ssrc, item
    <2> QED
      BY <1>1, <1>2, <2>2, <2>3, <2>5, <2>6, <2>7, <2>8, <2>9, StreamReplaced
  <1>6. CASE SkipRtx(ssrc, item.original)
    BY <1>6 DEF SkipRtx, shared, StreamsSound, StreamTypes, Windows, CacheIsNumbered
  <1> QED
    BY <1>4, <1>5, <1>6 DEF Prepare

-----------------------------------------------------------------------------
CallsSound == /\ ThreadTypes /\ WireTypes /\ CounterTypes
              /\ Locking /\ Waiting /\ Sent /\ RtxTruthful

\* The fields of a packet.
LEMMA PacketFacts ==
    ASSUME NEW p \in Packets
    PROVE  /\ p.epoch \in Nat /\ p.losses \in Nat /\ p.transport_sequence \in Numbers
           /\ p.kind \in {"media", "rtx"} /\ p.ssrc \in Ssrcs
  BY DEF Packets

\* What waits to be sent are packets.
LEMMA OutboxFacts ==
    ASSUME ThreadTypes, NEW t \in Threads
    PROVE  /\ outbox[t] \in Seq(Packets) /\ Len(outbox[t]) \in Nat
           /\ outbox[t] = <<>> <=> Len(outbox[t]) = 0
           /\ \A i \in 1..Len(outbox[t]) : outbox[t][i] \in Packets
  BY DEF ThreadTypes

\* The event loop changes the streams while no call numbers packets; clear
\* starts another count.
LEMMA LoopKeepsCalls ==
    ASSUME CallsSound, Loop PROVE CallsSound'
  <1>1. /\ StateUnlocked
        /\ UNCHANGED <<send_lock, pc, todo, outbox, result, latest, last_on, stats>>
        /\ UNCHANGED <<bodies, rtx_total, losses>> /\ changes' = changes + 1
        /\ \/ UNCHANGED <<transport_sequence, epoch>>
           \/ transport_sequence' \in Starts /\ epoch' = epoch + 1
    BY DEF Loop, configure_stream, retain_streams, clear, Change, observed
  <1>2. ThreadTypes' /\ WireTypes' /\ CounterTypes'
    <2>1. ThreadTypes'
      BY <1>1 DEF CallsSound, ThreadTypes
    <2>2. WireTypes'
      BY <1>1, PipelineAssumption DEF CallsSound, WireTypes, Numbers
    <2>3. CounterTypes'
      BY <1>1 DEF CallsSound, CounterTypes
    <2> QED
      BY <2>1, <2>2, <2>3
  <1>3. Locking'
    BY <1>1 DEF CallsSound, Locking, StateUnlocked
  <1>4. Waiting' /\ Sent'
    <2>1. epoch \in Nat /\ losses \in Nat
      BY DEF CallsSound, CounterTypes
    <2>2. \A t \in Threads : \A i \in 1..Len(outbox[t]) : outbox[t][i].epoch \in Nat
      BY PacketFacts, OutboxFacts DEF CallsSound
    <2>3. latest # Nothing => latest.epoch \in Nat
      BY PacketFacts DEF CallsSound, WireTypes
    <2>4. Waiting'
      <3>1. CASE UNCHANGED <<transport_sequence, epoch>>
        BY <1>1, <3>1 DEF CallsSound, Waiting, InLine
      <3>2. CASE epoch' = epoch + 1
        <4>1. \A t \in Threads : \A i \in 1..Len(outbox[t]) :
                 outbox[t][i].epoch <= epoch' /\ outbox[t][i].epoch # epoch'
          BY <3>2, <2>1, <2>2 DEF CallsSound, Waiting
        <4> QED
          BY <1>1, <4>1 DEF CallsSound, Waiting, InLine
      <3> QED
        BY <1>1, <3>1, <3>2
    <2>5. Sent'
      BY <1>1, <2>1, <2>3 DEF CallsSound, Sent
    <2> QED
      BY <2>4, <2>5
  <1>5. RtxTruthful'
    BY <1>1 DEF CallsSound, RtxTruthful
  <1> QED
    BY <1>2, <1>3, <1>4, <1>5 DEF CallsSound

\* A call begins when no other one holds send_lock, so nothing waits.
LEMMA BeginKeepsCalls ==
    ASSUME CallsSound, NEW t \in Threads, NEW work, Begins(t, work) PROVE CallsSound'
  <1>1. /\ pc[t] = "idle" /\ send_lock = Nobody /\ send_lock' = t
        /\ pc' = [pc EXCEPT ![t] = "prepare"] /\ todo' = [todo EXCEPT ![t] = work]
        /\ outbox' = [outbox EXCEPT ![t] = <<>>] /\ result' = [result EXCEPT ![t] = Nothing]
        /\ UNCHANGED <<streams, transport_sequence, latest, last_on, stats, numbered, active_for>>
        /\ UNCHANGED <<epoch, bodies, rtx_total, changes, losses>>
        /\ work \in Seq(Items) /\ work # <<>>
        /\ \A i \in 1..Len(work) : work[i].ssrc \in DOMAIN streams
    BY DEF Begins, Enter, LockSend, shared, observed, counters
  <1>2. /\ pc \in [Threads -> {"idle", "prepare", "send", "record"}]
        /\ todo \in [Threads -> Seq(Items)] /\ outbox \in [Threads -> Seq(Packets)]
        /\ result \in [Threads -> Packets \cup {Nothing}]
    BY DEF CallsSound, ThreadTypes
  <1>3. \A u \in Threads : outbox[u] = <<>> \/ send_lock = u
    BY DEF CallsSound, Locking
  <1>4. Nobody \notin Threads
    BY PipelineAssumption
  <1>5. \A u \in Threads : outbox[u] = <<>>
    BY <1>1, <1>3, <1>4
  <1>6. outbox' = outbox
    BY <1>1, <1>2, <1>5
  <1>7. ThreadTypes'
    BY <1>1, <1>2 DEF ThreadTypes
  <1>8. WireTypes' /\ CounterTypes'
    BY <1>1 DEF CallsSound, WireTypes, CounterTypes
  <1>9. Locking'
    BY <1>1, <1>2, <1>4, <1>5 DEF CallsSound, Locking
  <1>10. Waiting' /\ Sent' /\ RtxTruthful'
    BY <1>1, <1>6 DEF CallsSound, Waiting, Sent, InLine, RtxTruthful
  <1> QED
    BY <1>7, <1>8, <1>9, <1>10 DEF CallsSound

\* A packet is numbered behind the one numbered before.
LEMMA PrepareKeepsCalls ==
    ASSUME StreamsSound, CallsSound, NEW t \in Threads, Prepare(t) PROVE CallsSound'
  <1>1. /\ \/ Skips(t) \/ \E packet : Fits(t, packet)
        /\ pc[t] = "prepare" /\ Len(todo[t]) \in Nat \ {0} /\ Head(todo[t]) \in Items
        /\ Head(todo[t]).ssrc \in DOMAIN streams
        /\ todo' = [todo EXCEPT ![t] = Tail(todo[t])]
        /\ pc' = [pc EXCEPT ![t] = IF Len(todo[t]) = 1 THEN "send" ELSE "prepare"]
        /\ UNCHANGED <<send_lock, latest, last_on, stats, epoch, changes, losses>>
        /\ bodies' \in Nat /\ rtx_total' \in Nat
    BY PrepareCases DEF CallsSound, StreamsSound, observed
  <1>2. /\ pc \in [Threads -> {"idle", "prepare", "send", "record"}]
        /\ todo \in [Threads -> Seq(Items)] /\ outbox \in [Threads -> Seq(Packets)]
        /\ result \in [Threads -> Packets \cup {Nothing}]
    BY DEF CallsSound, ThreadTypes
  <1>3. send_lock = t /\ \A u \in Threads : outbox[u] = <<>> \/ u = t
    BY <1>1 DEF CallsSound, Locking
  <1>4. todo[t] \in Seq(Items) /\ todo[t] # <<>> /\ Tail(todo[t]) \in Seq(Items)
        /\ Len(Tail(todo[t])) = Len(todo[t]) - 1
        /\ \A i \in 1..Len(Tail(todo[t])) : Tail(todo[t])[i] = todo[t][i + 1] /\ i + 1 \in 1..Len(todo[t])
    BY <1>1, <1>2
  <1>5. DOMAIN streams' = DOMAIN streams
    <2>1. Head(todo[t]).ssrc \in DOMAIN streams
      BY <1>1
    <2> QED
      BY DEF Prepare, PrepareMedia, PrepareRtx, SkipRtx, shared
  <1>6. CounterTypes'
    BY <1>1 DEF CallsSound, CounterTypes
  <1>7. \A i \in 1..Len(todo[t]) : todo[t][i].ssrc \in DOMAIN streams
    BY <1>1 DEF CallsSound, Locking
  <1>8. pc' \in [Threads -> {"idle", "prepare", "send", "record"}] /\ todo' \in [Threads -> Seq(Items)]
    BY <1>1, <1>2, <1>4
  <1>9. \A u \in Threads : pc'[u] = "prepare" =>
           todo'[u] # <<>> /\ \A i \in 1..Len(todo'[u]) : todo'[u][i].ssrc \in DOMAIN streams'
    <2>1. todo'[t] = Tail(todo[t]) /\ (pc'[t] = "prepare" => Len(todo[t]) # 1)
      BY <1>1, <1>2
    <2>2. pc'[t] = "prepare" => todo'[t] # <<>>
      <3>1. pc'[t] = "prepare" => Len(Tail(todo[t])) # 0
        BY <1>1, <1>4, <2>1
      <3>2. Len(<<>>) = 0
        OBVIOUS
      <3> QED
        BY <3>1, <3>2, <2>1
    <2>3. \A i \in 1..Len(todo'[t]) : todo'[t][i].ssrc \in DOMAIN streams'
      BY <1>4, <1>5, <1>7, <2>1
    <2>4. \A u \in Threads : u # t => pc'[u] = pc[u] /\ todo'[u] = todo[u]
      BY <1>1, <1>2
    <2>5. \A u \in Threads : u # t /\ pc[u] = "prepare" =>
             todo[u] # <<>> /\ \A i \in 1..Len(todo[u]) : todo[u][i].ssrc \in DOMAIN streams
      BY DEF CallsSound, Locking
    <2> QED
      BY <1>5, <2>2, <2>3, <2>4, <2>5
  <1>10. \A u \in Threads : pc'[u] \in {"prepare", "send"} <=> send_lock' = u
    BY <1>1, <1>2, <1>3 DEF CallsSound, Locking
  <1>11. CASE Skips(t)
    <2>1. ThreadTypes'
      BY <1>1, <1>8, <1>11 DEF CallsSound, ThreadTypes, Skips
    <2>2. WireTypes' /\ Waiting' /\ Sent' /\ RtxTruthful'
      BY <1>1, <1>11 DEF CallsSound, WireTypes, Waiting, Sent, RtxTruthful, InLine, Skips
    <2>3. Locking'
      BY <1>1, <1>9, <1>10, <1>11 DEF CallsSound, Locking, Skips
    <2> QED
      BY <1>6, <2>1, <2>2, <2>3 DEF CallsSound
  <1>12. ASSUME NEW packet, Fits(t, packet) PROVE CallsSound'
    <2> DEFINE n == Len(outbox[t])
    <2>1. /\ packet \in Packets /\ packet.transport_sequence = NextNumber(transport_sequence)
          /\ packet.epoch = epoch /\ packet.losses = losses /\ packet.body = packet.truth
          /\ outbox' = [outbox EXCEPT ![t] = Append(outbox[t], packet)]
          /\ result' = [result EXCEPT ![t] = packet]
          /\ transport_sequence' = packet.transport_sequence
      BY <1>12 DEF Fits, Numbered
    <2>2. /\ outbox[t] \in Seq(Packets) /\ n \in Nat
          /\ \A i \in 1..n : outbox[t][i] \in Packets
      BY OutboxFacts DEF CallsSound
    <2>3. /\ outbox'[t] = Append(outbox[t], packet) /\ outbox'[t] \in Seq(Packets)
          /\ Len(outbox'[t]) = n + 1 /\ outbox'[t][n + 1] = packet
          /\ \A i \in 1..n : outbox'[t][i] = outbox[t][i]
      BY <1>2, <2>1, <2>2
    <2>4. \A u \in Threads : u # t => outbox'[u] = outbox[u] /\ outbox[u] = <<>> /\ Len(outbox'[u]) = 0
      BY <1>2, <1>3, <2>1
    <2>5. ThreadTypes'
      BY <1>1, <1>2, <1>8, <2>1, <2>3 DEF CallsSound, ThreadTypes
    <2>6. WireTypes'
      BY <1>1, <2>1, PacketFacts DEF CallsSound, WireTypes
    <2>7. Locking'
      BY <1>1, <1>3, <1>9, <1>10, <2>4 DEF Locking
    <2>8. Waiting'
      <3>1. epoch \in Nat /\ losses \in Nat
        BY DEF CallsSound, CounterTypes
      <3>2. \A i \in 1..n :
              /\ outbox[t][i].epoch <= epoch /\ outbox[t][i].losses = losses
              /\ i < n => InLine(outbox[t][i], outbox[t][i + 1])
              /\ i = 1 /\ latest # Nothing => InLine(latest, outbox[t][i])
              /\ i = n /\ outbox[t][i].epoch = epoch => transport_sequence = outbox[t][i].transport_sequence
        BY DEF CallsSound, Waiting
      <3>3. n > 0 => InLine(outbox[t][n], packet)
        <4>1. n > 0 => n \in 1..n
          BY <2>2
        <4> QED
          BY <3>2, <2>1, <4>1 DEF InLine
      <3>4. n = 0 /\ latest # Nothing => InLine(latest, packet)
        <4>1. n = 0 => \A u \in Threads : outbox[u] = <<>>
          BY <2>2, <2>4
        <4> QED
          BY <2>1, <4>1 DEF CallsSound, Sent, InLine
      <3> HIDE DEF n
      <3>5. \A i \in 1..(n + 1) :
              /\ outbox'[t][i].epoch <= epoch /\ outbox'[t][i].losses = losses
              /\ i < n + 1 => InLine(outbox'[t][i], outbox'[t][i + 1])
              /\ i = 1 /\ latest # Nothing => InLine(latest, outbox'[t][i])
              /\ i = n + 1 => transport_sequence' = outbox'[t][i].transport_sequence
        <4> SUFFICES ASSUME NEW i \in 1..(n + 1)
                     PROVE  /\ outbox'[t][i].epoch <= epoch /\ outbox'[t][i].losses = losses
                            /\ i < n + 1 => InLine(outbox'[t][i], outbox'[t][i + 1])
                            /\ i = 1 /\ latest # Nothing => InLine(latest, outbox'[t][i])
                            /\ i = n + 1 => transport_sequence' = outbox'[t][i].transport_sequence
          OBVIOUS
        <4>1. CASE i = n + 1
          BY <4>1, <2>1, <2>2, <2>3, <3>1, <3>4
        <4>2. CASE i = n
          BY <4>2, <2>2, <2>3, <3>1, <3>2, <3>3
        <4>3. CASE i < n
          <5>1. i \in 1..n /\ i + 1 \in 1..n
            BY <4>3, <2>2
          <5> QED
            BY <4>3, <5>1, <2>2, <2>3, <3>1, <3>2, SMTT(30)
        <4> QED
          BY <4>1, <4>2, <4>3, <2>2
      <3>6. \A u \in Threads : u # t => 1..Len(outbox'[u]) = {}
        BY <2>4
      <3> QED
        BY <1>1, <2>3, <3>5, <3>6, ZenonT(60) DEF Waiting, InLine
    <2>9. Sent'
      <3>1. outbox'[t] # <<>>
        BY <2>2, <2>3
      <3> QED
        BY <1>1, <3>1 DEF CallsSound, Sent
    <2>10. RtxTruthful'
      BY <2>1, <2>2, <2>3, <2>4 DEF CallsSound, RtxTruthful
    <2> QED
      BY <1>6, <2>5, <2>6, <2>7, <2>8, <2>9, <2>10 DEF CallsSound
  <1> QED
    BY <1>1, <1>11, <1>12

\* The first packet that waits goes to the socket.
LEMMA SendKeepsCalls ==
    ASSUME CallsSound, NEW t \in Threads, SendNext(t)
    PROVE  /\ CallsSound'
           /\ latest' = outbox[t][1] /\ 1 \in 1..Len(outbox[t])
  <1> DEFINE n == Len(outbox[t])
             packet == outbox[t][1]
  <1>1. /\ pc[t] = "send" /\ outbox[t] # <<>> /\ latest' = Head(outbox[t])
        /\ last_on' = [last_on EXCEPT ![<<Head(outbox[t]).kind, Head(outbox[t]).ssrc>>] = Head(outbox[t])]
        /\ outbox' = [outbox EXCEPT ![t] = Tail(outbox[t])]
        /\ UNCHANGED <<streams, transport_sequence, send_lock, pc, todo, result, stats>>
        /\ UNCHANGED <<numbered, active_for, epoch, bodies, rtx_total, changes, losses>>
    BY DEF SendNext, shared, counters
  <1>2. /\ outbox[t] \in Seq(Packets) /\ n \in Nat \ {0} /\ 1 \in 1..n
        /\ \A i \in 1..n : outbox[t][i] \in Packets
        /\ Head(outbox[t]) = packet /\ packet \in Packets
        /\ outbox \in [Threads -> Seq(Packets)]
    BY <1>1, OutboxFacts DEF CallsSound, ThreadTypes
  <1>3. /\ outbox'[t] = Tail(outbox[t]) /\ outbox'[t] \in Seq(Packets)
        /\ Len(outbox'[t]) = n - 1
        /\ \A i \in 1..(n - 1) : outbox'[t][i] = outbox[t][i + 1] /\ i + 1 \in 1..n
    BY <1>1, <1>2
  <1>4. send_lock = t /\ \A u \in Threads : u # t => outbox[u] = <<>> /\ outbox'[u] = <<>>
                                                     /\ Len(outbox'[u]) = 0
    BY <1>1, <1>2 DEF CallsSound, Locking
  <1>5. /\ epoch \in Nat /\ losses \in Nat
        /\ \A i \in 1..n :
              /\ outbox[t][i].epoch <= epoch /\ outbox[t][i].losses = losses
              /\ i < n => InLine(outbox[t][i], outbox[t][i + 1])
              /\ i = n /\ outbox[t][i].epoch = epoch => transport_sequence = outbox[t][i].transport_sequence
    BY DEF CallsSound, CounterTypes, Waiting
  <1> HIDE DEF n, packet
  <1>6. ThreadTypes'
    BY <1>1, <1>2, <1>3 DEF CallsSound, ThreadTypes
  <1>7. WireTypes'
    <2>1. <<packet.kind, packet.ssrc>> \in Channels
      BY <1>2, PacketFacts DEF Channels
    <2> QED
      BY <1>1, <1>2, <2>1 DEF CallsSound, WireTypes
  <1>8. CounterTypes'
    BY <1>1 DEF CallsSound, CounterTypes
  <1>9. Locking'
    BY <1>1, <1>2, <1>4 DEF CallsSound, Locking
  <1>10. Waiting'
    <2>1. \A i \in 1..(n - 1) :
             /\ outbox'[t][i].epoch <= epoch /\ outbox'[t][i].losses = losses
             /\ i < n - 1 => InLine(outbox'[t][i], outbox'[t][i + 1])
             /\ i = 1 => InLine(packet, outbox'[t][i])
             /\ i = n - 1 /\ outbox'[t][i].epoch = epoch =>
                   transport_sequence = outbox'[t][i].transport_sequence
      <3> SUFFICES ASSUME NEW i \in 1..(n - 1)
                   PROVE  /\ outbox'[t][i].epoch <= epoch /\ outbox'[t][i].losses = losses
                          /\ i < n - 1 => InLine(outbox'[t][i], outbox'[t][i + 1])
                          /\ i = 1 => InLine(packet, outbox'[t][i])
                          /\ i = n - 1 /\ outbox'[t][i].epoch = epoch =>
                                transport_sequence = outbox'[t][i].transport_sequence
        OBVIOUS
      <3>1. outbox'[t][i] = outbox[t][i + 1] /\ i + 1 \in 1..n /\ i \in Int /\ n \in Int
        BY <1>2, <1>3
      <3>2. i < n - 1 => outbox'[t][i + 1] = outbox[t][(i + 1) + 1] /\ i + 1 < n
        BY <1>2, <1>3
      <3>3. i = 1 => InLine(packet, outbox[t][i + 1])
        BY <1>2, <1>5 DEF packet
      <3> QED
        BY <3>1, <3>2, <3>3, <1>5
    <2>2. \A u \in Threads : \A i \in 1..Len(outbox'[u]) : u = t
      BY <1>4
    <2>3. /\ latest' = packet /\ epoch' = epoch /\ losses' = losses
          /\ transport_sequence' = transport_sequence /\ Len(outbox'[t]) = n - 1
      BY <1>1, <1>2, <1>3
    <2> QED
      BY <2>1, <2>2, <2>3 DEF Waiting, InLine
  <1>11. Sent'
    <2>1. packet.epoch <= epoch /\ packet.losses = losses
      BY <1>2, <1>5 DEF packet
    <2>2. outbox'[t] = <<>> => n = 1
      BY <1>2, <1>3
    <2>3. n = 1 /\ packet.epoch = epoch => transport_sequence = packet.transport_sequence
      BY <1>2, <1>5 DEF packet
    <2>4. losses \in Nat
      BY <1>5
    <2> QED
      BY <1>1, <1>2, <2>1, <2>2, <2>3, <2>4 DEF Sent
  <1>12. RtxTruthful'
    BY <1>1, <1>2, <1>3, <1>4 DEF CallsSound, RtxTruthful
  <1> QED
    BY <1>1, <1>2, <1>6, <1>7, <1>8, <1>9, <1>10, <1>11, <1>12 DEF CallsSound, packet, n

\* A failure of the socket gives up what waits; the count goes on elsewhere.
LEMMA FailKeepsCalls ==
    ASSUME CallsSound, NEW t \in Threads, SendFails(t) PROVE CallsSound'
  <1>1. /\ pc[t] = "send" /\ outbox[t] # <<>> /\ losses' = losses + 1
        /\ outbox' = [outbox EXCEPT ![t] = <<>>] /\ pc' = [pc EXCEPT ![t] = "idle"]
        /\ send_lock' = Nobody
        /\ UNCHANGED <<streams, transport_sequence, todo, result, latest, last_on, stats>>
        /\ UNCHANGED <<numbered, active_for, epoch, bodies, rtx_total, changes>>
    BY DEF SendFails, shared, observed
  <1>2. /\ pc \in [Threads -> {"idle", "prepare", "send", "record"}]
        /\ outbox \in [Threads -> Seq(Packets)] /\ Nobody \notin Threads
    BY PipelineAssumption DEF CallsSound, ThreadTypes
  <1>3. send_lock = t /\ \A u \in Threads : outbox'[u] = <<>> /\ Len(outbox'[u]) = 0
    BY <1>1, <1>2 DEF CallsSound, Locking
  <1>4. ThreadTypes'
    BY <1>1, <1>2 DEF CallsSound, ThreadTypes
  <1>5. WireTypes' /\ CounterTypes'
    BY <1>1 DEF CallsSound, WireTypes, CounterTypes
  <1>6. Locking'
    BY <1>1, <1>2, <1>3 DEF CallsSound, Locking
  <1>7. Waiting' /\ RtxTruthful'
    BY <1>3 DEF Waiting, RtxTruthful
  <1>8. Sent'
    <2>1. losses \in Nat /\ (latest # Nothing => latest.losses \in Nat /\ latest.losses <= losses)
      BY PacketFacts DEF CallsSound, CounterTypes, WireTypes, Sent
    <2> QED
      BY <1>1, <2>1 DEF CallsSound, Sent
  <1> QED
    BY <1>4, <1>5, <1>6, <1>7, <1>8 DEF CallsSound

\* A call releases send_lock when nothing of it waits.
LEMMA ReturnKeepsCalls ==
    ASSUME CallsSound, NEW t \in Threads, Return(t) PROVE CallsSound'
  <1>1. /\ pc[t] = "send" /\ outbox[t] = <<>> /\ pc' = [pc EXCEPT ![t] = "record"]
        /\ send_lock' = Nobody
        /\ UNCHANGED <<streams, transport_sequence, todo, outbox, result, latest, last_on, stats>>
        /\ UNCHANGED <<numbered, active_for, epoch, bodies, rtx_total, changes, losses>>
    BY DEF Return, shared, observed, counters
  <1>2. pc \in [Threads -> {"idle", "prepare", "send", "record"}] /\ Nobody \notin Threads
    BY PipelineAssumption DEF CallsSound, ThreadTypes
  <1>3. ThreadTypes' /\ WireTypes' /\ CounterTypes'
    BY <1>1, <1>2 DEF CallsSound, ThreadTypes, WireTypes, CounterTypes
  <1>4. Locking'
    BY <1>1, <1>2 DEF CallsSound, Locking
  <1>5. Waiting' /\ Sent' /\ RtxTruthful'
    BY <1>1 DEF CallsSound, Waiting, Sent, InLine, RtxTruthful
  <1> QED
    BY <1>3, <1>4, <1>5 DEF CallsSound

\* The statistics are recorded outside of both locks.
LEMMA RecordKeepsCalls ==
    ASSUME CallsSound, NEW t \in Threads, Record(t) PROVE CallsSound'
  <1>1. /\ pc[t] = "record" /\ pc' = [pc EXCEPT ![t] = "idle"]
        /\ DOMAIN stats' = DOMAIN stats
        /\ UNCHANGED <<streams, transport_sequence, send_lock, todo, outbox, result, latest, last_on>>
        /\ UNCHANGED <<numbered, active_for, epoch, bodies, rtx_total, changes, losses>>
    BY DEF Record, shared, counters
  <1>2. pc \in [Threads -> {"idle", "prepare", "send", "record"}]
    BY DEF CallsSound, ThreadTypes
  <1>3. ThreadTypes' /\ WireTypes' /\ CounterTypes'
    BY <1>1, <1>2 DEF CallsSound, ThreadTypes, WireTypes, CounterTypes
  <1>4. Locking'
    BY <1>1, <1>2 DEF CallsSound, Locking
  <1>5. Waiting' /\ Sent' /\ RtxTruthful'
    BY <1>1 DEF CallsSound, Waiting, Sent, InLine, RtxTruthful
  <1> QED
    BY <1>3, <1>4, <1>5 DEF CallsSound

-----------------------------------------------------------------------------
IInv == StreamsSound /\ CallsSound

\* Nothing is configured, numbered or sent at first.
LEMMA InitEstablishes == Init => IInv
  <1> SUFFICES ASSUME Init PROVE IInv
    OBVIOUS
  <1>1. StreamsSound
    BY DEF Init, StreamsSound, StreamTypes, Windows, CacheIsNumbered
  <1>2. ThreadTypes /\ CounterTypes
    BY DEF Init, ThreadTypes, CounterTypes
  <1>3. WireTypes
    BY PipelineAssumption DEF Init, WireTypes, Numbers
  <1>4. Locking
    BY PipelineAssumption DEF Init, Locking
  <1>5. Waiting /\ Sent /\ RtxTruthful
    BY DEF Init, Waiting, Sent, RtxTruthful
  <1> QED
    BY <1>1, <1>2, <1>3, <1>4, <1>5 DEF IInv, CallsSound

\* The actions that leave the streams alone.
LEMMA OthersKeepStreams ==
    ASSUME StreamsSound, NEW t \in Threads,
           \/ \E work : Begins(t, work)
           \/ SendNext(t) \/ SendFails(t) \/ Return(t) \/ Record(t)
    PROVE  StreamsSound'
  <1>1. UNCHANGED <<streams, active_for, numbered>>
    BY DEF Begins, Enter, SendNext, SendFails, Return, Record, shared
  <1> QED
    BY <1>1 DEF StreamsSound, StreamTypes, Windows, CacheIsNumbered

\* Every step preserves the inductive invariant.
LEMMA StepPreserves == IInv /\ [Next]_vars => IInv'
  <1> SUFFICES ASSUME IInv, [Next]_vars PROVE IInv'
    OBVIOUS
  <1>0. StreamsSound /\ CallsSound /\ StreamTypes /\ ThreadTypes /\ CounterTypes /\ Locking
    BY DEF IInv, StreamsSound, CallsSound
  <1>1. CASE Loop
    <2>1. CallsSound'
      BY <1>0, <1>1, LoopKeepsCalls
    <2>2. ASSUME NEW start \in Starts, clear(start) PROVE StreamsSound'
      <3>1. DOMAIN streams' = {} /\ active_for' = [s \in Ssrcs |-> 0]
        BY <2>2 DEF clear
      <3> QED
        BY <3>1 DEF StreamsSound, StreamTypes, Windows, CacheIsNumbered
    <2> QED
      BY <1>0, <1>1, <2>1, <2>2, ConfigureKeepsStreams, RetainKeepsStreams DEF Loop, IInv
  <1>2. ASSUME NEW t \in Threads, \E work : Begins(t, work) PROVE IInv'
    BY <1>0, <1>2, BeginKeepsCalls, OthersKeepStreams DEF IInv
  <1>3. ASSUME NEW t \in Senders, NEW ssrc \in Ssrcs, NEW n \in 1..MaxFrame, send_video_frame(t, ssrc, n)
        PROVE  IInv'
    BY <1>0, <1>2, <1>3, FrameBegins DEF Threads
  <1>4. ASSUME NEW t \in Responders, NEW ssrc \in Ssrcs, NEW sequences \in NackLists(MaxNack),
               send_video_rtx_for_nack(t, ssrc, sequences)
        PROVE  IInv'
    BY <1>0, <1>2, <1>4, NackBegins DEF Threads
  <1>5. ASSUME NEW t \in Threads, Prepare(t) PROVE IInv'
    BY <1>0, <1>5, PrepareKeepsStreams, PrepareKeepsCalls DEF IInv
  <1>6. ASSUME NEW t \in Threads, SendNext(t) \/ SendFails(t) \/ Return(t) \/ Record(t) PROVE IInv'
    BY <1>0, <1>6, OthersKeepStreams, SendKeepsCalls, FailKeepsCalls, ReturnKeepsCalls,
       RecordKeepsCalls DEF IInv
  <1>7. CASE UNCHANGED vars
    <2>1. StreamsSound'
      BY <1>0, <1>7 DEF vars, StreamsSound, StreamTypes, Windows, CacheIsNumbered
    <2>2. CallsSound'
      BY <1>0, <1>7 DEF vars, CallsSound, ThreadTypes, WireTypes, CounterTypes, Locking, Waiting,
         Sent, InLine, RtxTruthful
    <2> QED
      BY <2>1, <2>2 DEF IInv
  <1> QED
    BY <1>1, <1>3, <1>4, <1>5, <1>6, <1>7 DEF Next

\* The inductive invariant holds always.
LEMMA AlwaysIInv == Spec => []IInv
  BY InitEstablishes, StepPreserves, PTL DEF Spec

\* Packets reach the socket in the order of their transport-wide numbers, none
\* left out or used twice, for any number of threads, streams and calls.
THEOREM NumbersAreConsecutive == Spec => TransportConsecutive
  <1>1. IInv /\ [Next]_vars =>
        [ (/\ latest' # latest
           /\ latest # Nothing
           /\ latest'.epoch = latest.epoch
           /\ latest'.losses = latest.losses)
          => latest'.transport_sequence = (latest.transport_sequence + 1) % SeqMod ]_vars
    <2> SUFFICES ASSUME IInv, Next, latest' # latest, latest # Nothing,
                        latest'.epoch = latest.epoch, latest'.losses = latest.losses
                 PROVE  latest'.transport_sequence = (latest.transport_sequence + 1) % SeqMod
      OBVIOUS
    <2>1. PICK t \in Threads : SendNext(t)
      <3>1. Loop => latest' = latest
        BY DEF Loop, configure_stream, retain_streams, clear, Change, observed
      <3>2. ASSUME NEW t, NEW work, Enter(t, work) PROVE latest' = latest
        BY <3>2 DEF Enter, observed
      <3>3. ASSUME NEW t, Prepare(t) \/ SendFails(t) \/ Return(t) \/ Record(t) PROVE latest' = latest
        BY <3>3 DEF Prepare, SendFails, Return, Record, observed
      <3> QED
        BY <3>1, <3>2, <3>3 DEF Next, send_video_frame, send_video_rtx_for_nack
    <2>2. latest' = outbox[t][1] /\ 1 \in 1..Len(outbox[t])
      BY <2>1, SendKeepsCalls DEF IInv
    <2>3. InLine(latest, outbox[t][1])
      BY <2>2 DEF IInv, CallsSound, Waiting
    <2> QED
      BY <2>2, <2>3 DEF InLine, NextNumber
  <1> QED
    BY AlwaysIInv, <1>1, PTL DEF Spec, TransportConsecutive

\* The RTX cache of every stream is the window of the packets numbered last.
THEOREM CacheFollowsStream == Spec => []CacheIsRecentWindow
  <1>1. IInv => CacheIsRecentWindow
    BY DEF IInv, StreamsSound, Windows, Window, CacheIsRecentWindow
  <1> QED
    BY AlwaysIInv, <1>1, PTL

\* An RTX packet repeats what was sent under the number it names.
THEOREM RtxRepeatsTheOriginal == Spec => []RtxTruthful
  BY AlwaysIInv, PTL DEF IInv, CallsSound

-----------------------------------------------------------------------------
\* One player thread sends frames and one dispatcher thread answers NACKs.
OneCaller ==
    /\ \A t, u \in Senders : t = u
    /\ \A t, u \in Responders : t = u

StatsSound == OneChannel /\ SentLast /\ StatsFollow

\* Two threads work for two channels.
LEMMA ChannelsApart ==
    ASSUME OneCaller, NEW t \in Threads, NEW u \in Threads, u # t
    PROVE  KindOf(t) # KindOf(u)
  BY DEF OneCaller, Threads, KindOf

\* A step of t leaves what the others work for alone.
LEMMA OnlyOneWorks ==
    ASSUME OneChannel, NEW t \in Threads,
           \A u \in Threads : u # t => /\ pc'[u] = pc[u] /\ todo'[u] = todo[u]
                                      /\ outbox'[u] = outbox[u] /\ result'[u] = result[u],
           NEW s \in Ssrcs, WorksFor(t, s)'
    PROVE  OneChannel'
  <1> SUFFICES ASSUME NEW u \in Threads, u # t, pc[u] \in {"prepare", "send", "record"}
               PROVE  \E r \in Ssrcs : WorksFor(u, r)'
    BY DEF OneChannel
  <1>1. PICK r \in Ssrcs : WorksFor(u, r)
    BY DEF OneChannel
  <1>2. WorksFor(u, r)'
    BY <1>1 DEF WorksFor
  <1> QED
    BY <1>2

\* A call that begins has sent nothing.
LEMMA BeginKeepsStats ==
    ASSUME IInv, StatsSound, NEW t \in Threads, NEW work, Begins(t, work) PROVE StatsSound'
  <1>1. /\ pc[t] = "idle" /\ pc' = [pc EXCEPT ![t] = "prepare"] /\ todo' = [todo EXCEPT ![t] = work]
        /\ outbox' = [outbox EXCEPT ![t] = <<>>] /\ result' = [result EXCEPT ![t] = Nothing]
        /\ UNCHANGED <<last_on, stats, losses>>
        /\ \E s \in Ssrcs : \A i \in 1..Len(work) : work[i].kind = KindOf(t) /\ work[i].ssrc = s
    BY DEF Begins, Enter, observed, counters, IInv, StreamsSound, StreamTypes
  <1>2. /\ pc \in [Threads -> {"idle", "prepare", "send", "record"}]
        /\ todo \in [Threads -> Seq(Items)] /\ outbox \in [Threads -> Seq(Packets)]
        /\ result \in [Threads -> Packets \cup {Nothing}]
    BY DEF IInv, CallsSound, ThreadTypes
  <1>3. /\ pc'[t] = "prepare" /\ todo'[t] = work /\ outbox'[t] = <<>> /\ result'[t] = Nothing
        /\ \A u \in Threads : u # t => /\ pc'[u] = pc[u] /\ todo'[u] = todo[u]
                                       /\ outbox'[u] = outbox[u] /\ result'[u] = result[u]
    BY <1>1, <1>2
  <1>4. OneChannel'
    <2>1. \E s \in Ssrcs : WorksFor(t, s)'
      BY <1>1, <1>3 DEF WorksFor
    <2> QED
      BY <1>3, <2>1, OnlyOneWorks DEF StatsSound
  <1>5. SentLast'
    BY <1>1, <1>3 DEF StatsSound, SentLast
  <1>6. StatsFollow'
    BY <1>1, <1>3 DEF StatsSound, StatsFollow
  <1> QED
    BY <1>4, <1>5, <1>6 DEF StatsSound

\* The packets of a call are for its channel, the last one is its result.
LEMMA PrepareKeepsStats ==
    ASSUME IInv, StatsSound, NEW t \in Threads, Prepare(t) PROVE StatsSound'
  <1>1. /\ \/ Skips(t) \/ \E packet : Fits(t, packet)
        /\ pc[t] = "prepare" /\ Len(todo[t]) \in Nat \ {0}
        /\ Head(todo[t]) = todo[t][1]
        /\ todo' = [todo EXCEPT ![t] = Tail(todo[t])]
        /\ pc' = [pc EXCEPT ![t] = IF Len(todo[t]) = 1 THEN "send" ELSE "prepare"]
        /\ UNCHANGED <<last_on, stats, losses>>
    BY PrepareCases DEF IInv, CallsSound, StreamsSound, observed
  <1>2. /\ pc \in [Threads -> {"idle", "prepare", "send", "record"}]
        /\ todo \in [Threads -> Seq(Items)] /\ outbox \in [Threads -> Seq(Packets)]
        /\ result \in [Threads -> Packets \cup {Nothing}]
    BY DEF IInv, CallsSound, ThreadTypes
  <1>3. /\ todo'[t] = Tail(todo[t]) /\ pc'[t] \in {"prepare", "send"}
        /\ \A u \in Threads : u # t => todo'[u] = todo[u] /\ pc'[u] = pc[u]
    BY <1>1, <1>2
  <1>4. \A i \in 1..Len(todo'[t]) : todo'[t][i] = todo[t][i + 1] /\ i + 1 \in 1..Len(todo[t])
    BY <1>1, <1>2, <1>3
  <1>5. PICK s \in Ssrcs : WorksFor(t, s)
    BY <1>1 DEF StatsSound, OneChannel
  <1>6. /\ \A i \in 1..Len(todo'[t]) : todo'[t][i].kind = KindOf(t) /\ todo'[t][i].ssrc = s
        /\ todo[t][1].kind = KindOf(t) /\ todo[t][1].ssrc = s
    BY <1>1, <1>4, <1>5 DEF WorksFor
  <1>7. CASE Skips(t)
    <2>1. outbox' = outbox /\ result' = result
      BY <1>7 DEF Skips
    <2>2. WorksFor(t, s)'
      BY <1>1, <1>5, <1>6, <2>1 DEF WorksFor
    <2>3. OneChannel'
      <3>1. \A u \in Threads : outbox'[u] = outbox[u] /\ result'[u] = result[u]
        BY <2>1
      <3> QED
        BY <1>3, <2>2, <3>1, OnlyOneWorks DEF StatsSound
    <2>4. SentLast'
      BY <1>1, <1>3, <1>5, <2>1 DEF StatsSound, SentLast, WorksFor
    <2>5. StatsFollow'
      BY <1>1, <1>3, <2>1 DEF StatsSound, StatsFollow
    <2> QED
      BY <2>3, <2>4, <2>5 DEF StatsSound
  <1>8. ASSUME NEW packet, Fits(t, packet) PROVE StatsSound'
    <2>1. /\ packet \in Packets /\ ChannelOf(packet) = <<KindOf(t), s>>
          /\ outbox' = [outbox EXCEPT ![t] = Append(outbox[t], packet)]
          /\ result' = [result EXCEPT ![t] = packet]
      BY <1>1, <1>6, <1>8 DEF Fits, Numbered, ChannelOf
    <2>2. /\ result'[t] = packet /\ outbox'[t] # <<>> /\ Len(outbox'[t]) = Len(outbox[t]) + 1
          /\ outbox'[t][Len(outbox'[t])] = packet
          /\ \A i \in 1..Len(outbox'[t]) :
                outbox'[t][i] = packet \/ (i \in 1..Len(outbox[t]) /\ outbox'[t][i] = outbox[t][i])
          /\ \A u \in Threads : u # t => outbox'[u] = outbox[u] /\ result'[u] = result[u]
      BY <1>2, <2>1
    <2>3. \A i \in 1..Len(outbox'[t]) : ChannelOf(outbox'[t][i]) = <<KindOf(t), s>>
      BY <1>5, <2>1, <2>2 DEF WorksFor
    <2>4. packet # Nothing
      BY <2>1 DEF Packets, Nothing
    <2>5. WorksFor(t, s)'
      BY <1>6, <2>1, <2>2, <2>3, <2>4 DEF WorksFor
    <2>6. OneChannel'
      BY <1>3, <2>2, <2>5, OnlyOneWorks DEF StatsSound
    <2>7. SentLast'
      BY <1>1, <1>3, <2>2 DEF StatsSound, SentLast
    <2>8. StatsFollow'
      BY <1>1, <1>3, <2>2 DEF StatsSound, StatsFollow
    <2> QED
      BY <2>6, <2>7, <2>8 DEF StatsSound
  <1> QED
    BY <1>1, <1>7, <1>8

\* What t sends is sent last on its channel, and no other call works for it.
LEMMA SendKeepsStats ==
    ASSUME OneCaller, IInv, StatsSound, NEW t \in Threads, SendNext(t) PROVE StatsSound'
  <1> DEFINE n == Len(outbox[t])
             packet == outbox[t][1]
  <1>1. /\ pc[t] = "send" /\ outbox[t] # <<>>
        /\ last_on' = [last_on EXCEPT ![ChannelOf(Head(outbox[t]))] = Head(outbox[t])]
        /\ outbox' = [outbox EXCEPT ![t] = Tail(outbox[t])]
        /\ UNCHANGED <<pc, todo, result, stats, losses>>
    BY DEF SendNext, shared, counters, ChannelOf
  <1>2. /\ outbox[t] \in Seq(Packets) /\ n \in Nat \ {0} /\ 1 \in 1..n
        /\ Head(outbox[t]) = packet
        /\ outbox \in [Threads -> Seq(Packets)]
        /\ DOMAIN last_on = Channels
    BY <1>1, OutboxFacts DEF IInv, CallsSound, ThreadTypes, WireTypes
  <1>3. /\ outbox'[t] = Tail(outbox[t]) /\ Len(outbox'[t]) = n - 1
        /\ \A i \in 1..(n - 1) : outbox'[t][i] = outbox[t][i + 1] /\ i + 1 \in 1..n
        /\ \A u \in Threads : u # t => outbox'[u] = outbox[u]
    BY <1>1, <1>2
  <1>4. PICK s \in Ssrcs : WorksFor(t, s)
    BY <1>1 DEF StatsSound, OneChannel
  <1>5. /\ ChannelOf(packet) = <<KindOf(t), s>> /\ <<KindOf(t), s>> \in Channels
        /\ result[t] # Nothing /\ ChannelOf(result[t]) = <<KindOf(t), s>>
        /\ outbox[t][n] = result[t]
    BY <1>1, <1>2, <1>4 DEF WorksFor, Channels, KindOf
  <1>6. /\ last_on'[<<KindOf(t), s>>] = packet
        /\ \A c \in Channels : c # <<KindOf(t), s>> => last_on'[c] = last_on[c]
    BY <1>1, <1>2, <1>5
  <1> HIDE DEF n, packet
  <1>7. OneChannel'
    <2>1. outbox'[t] # <<>> => outbox'[t][Len(outbox'[t])] = result[t]
      <3>1. outbox'[t] # <<>> => n - 1 \in 1..(n - 1)
        BY <1>2, <1>3
      <3>2. (n - 1) + 1 = n
        BY <1>2
      <3> QED
        BY <1>3, <1>5, <3>1, <3>2
    <2>2. \A i \in 1..Len(outbox'[t]) : ChannelOf(outbox'[t][i]) = <<KindOf(t), s>>
      BY <1>3, <1>4 DEF WorksFor, n
    <2>3. WorksFor(t, s)'
      BY <1>1, <1>4, <1>5, <2>1, <2>2 DEF WorksFor
    <2> QED
      BY <1>1, <1>3, <2>3, SMTT(30) DEF StatsSound, OneChannel, WorksFor
  <1>8. SentLast'
    <2>1. outbox'[t] = <<>> => packet = result[t]
      <3>1. outbox'[t] = <<>> => n = 1
        BY <1>2, <1>3
      <3> QED
        BY <1>5, <3>1 DEF packet
    <2>2. ASSUME NEW u \in Threads, u # t, pc[u] \in {"send", "record"}, result[u] # Nothing
          PROVE  last_on'[ChannelOf(result[u])] = last_on[ChannelOf(result[u])]
      <3>1. PICK r \in Ssrcs : ChannelOf(result[u]) = <<KindOf(u), r>>
        BY <2>2 DEF StatsSound, OneChannel, WorksFor
      <3>2. KindOf(u) # KindOf(t)
        BY <2>2, ChannelsApart
      <3>3. <<KindOf(u), r>> \in Channels
        BY DEF Channels, KindOf
      <3> QED
        BY <1>6, <3>1, <3>2, <3>3
    <2> QED
      BY <1>1, <1>3, <1>5, <1>6, <2>1, <2>2 DEF StatsSound, SentLast
  <1>9. StatsFollow'
    BY <1>1, <1>5, <1>6 DEF StatsSound, StatsFollow
  <1> QED
    BY <1>7, <1>8, <1>9 DEF StatsSound

\* After a loss the statistics are no longer followed.
LEMMA FailKeepsStats ==
    ASSUME IInv, StatsSound, NEW t \in Threads, SendFails(t) PROVE StatsSound'
  <1>1. /\ losses' = losses + 1
        /\ outbox' = [outbox EXCEPT ![t] = <<>>] /\ pc' = [pc EXCEPT ![t] = "idle"]
        /\ UNCHANGED <<todo, result, last_on, stats>>
    BY DEF SendFails, observed
  <1>2. /\ pc \in [Threads -> {"idle", "prepare", "send", "record"}]
        /\ outbox \in [Threads -> Seq(Packets)] /\ losses \in Nat
    BY DEF IInv, CallsSound, ThreadTypes, CounterTypes
  <1>3. pc'[t] = "idle" /\ \A u \in Threads : u # t => pc'[u] = pc[u] /\ outbox'[u] = outbox[u]
    BY <1>1, <1>2
  <1>4. OneChannel'
    BY <1>1, <1>3 DEF StatsSound, OneChannel, WorksFor
  <1>5. SentLast'
    BY <1>1, <1>3 DEF StatsSound, SentLast
  <1>6. StatsFollow'
    BY <1>1, <1>2 DEF StatsFollow
  <1> QED
    BY <1>4, <1>5, <1>6 DEF StatsSound

\* A call that returns has yet to record.
LEMMA ReturnKeepsStats ==
    ASSUME IInv, StatsSound, NEW t \in Threads, Return(t) PROVE StatsSound'
  <1>1. /\ pc[t] = "send" /\ pc' = [pc EXCEPT ![t] = "record"]
        /\ UNCHANGED <<todo, outbox, result, last_on, stats, losses>>
    BY DEF Return, observed, counters
  <1>2. pc \in [Threads -> {"idle", "prepare", "send", "record"}]
    BY DEF IInv, CallsSound, ThreadTypes
  <1>3. pc'[t] = "record" /\ \A u \in Threads : u # t => pc'[u] = pc[u]
    BY <1>1, <1>2
  <1>4. OneChannel'
    BY <1>1, <1>3 DEF StatsSound, OneChannel, WorksFor
  <1>5. SentLast'
    BY <1>1, <1>3 DEF StatsSound, SentLast
  <1>6. StatsFollow'
    BY <1>1, <1>3 DEF StatsSound, StatsFollow
  <1> QED
    BY <1>4, <1>5, <1>6 DEF StatsSound

\* What a call records is what it has sent last.
LEMMA RecordKeepsStats ==
    ASSUME IInv, StatsSound, NEW t \in Threads, Record(t) PROVE StatsSound'
  <1>1. /\ pc[t] = "record" /\ pc' = [pc EXCEPT ![t] = "idle"]
        /\ result[t] = Nothing => stats' = stats
        /\ result[t] # Nothing =>
              stats' = [stats EXCEPT ![ChannelOf(result[t])] =
                          IF result[t].kind = "media" THEN MediaStats(result[t])
                                                      ELSE RtxStats(result[t])]
        /\ UNCHANGED <<todo, outbox, result, last_on, losses>>
    BY DEF Record, shared, counters, ChannelOf
  <1>2. /\ pc \in [Threads -> {"idle", "prepare", "send", "record"}]
        /\ DOMAIN stats = Channels
    BY DEF IInv, CallsSound, ThreadTypes, WireTypes
  <1>3. pc'[t] = "idle" /\ \A u \in Threads : u # t => pc'[u] = pc[u]
    BY <1>1, <1>2
  <1>4. OneChannel'
    BY <1>1, <1>3 DEF StatsSound, OneChannel, WorksFor
  <1>5. SentLast'
    BY <1>1, <1>3 DEF StatsSound, SentLast
  <1>6. StatsFollow'
    <2>1. \A c \in Channels : result[t] # Nothing /\ c = ChannelOf(result[t]) =>
             stats'[c].sequence = last_on'[c].sequence
      <3>1. outbox[t] = <<>>
        BY <1>1 DEF IInv, CallsSound, Locking
      <3>2. result[t] # Nothing => last_on[ChannelOf(result[t])] = result[t]
        BY <1>1, <3>1 DEF StatsSound, SentLast
      <3>3. \A c \in Channels : result[t] # Nothing /\ c = ChannelOf(result[t]) =>
               stats'[c].sequence = result[t].sequence
        BY <1>1, <1>2 DEF MediaStats, RtxStats
      <3> QED
        BY <1>1, <3>2, <3>3
    <2>2. \A c \in Channels : ~(result[t] # Nothing /\ c = ChannelOf(result[t])) =>
             stats'[c] = stats[c]
      BY <1>1, <1>2
    <2> QED
      BY <1>1, <1>3, <2>1, <2>2 DEF StatsSound, StatsFollow
  <1> QED
    BY <1>4, <1>5, <1>6 DEF StatsSound

\* Every step keeps the statistics in step with what was sent.
LEMMA StepKeepsStats ==
    ASSUME OneCaller PROVE IInv /\ StatsSound /\ [Next]_vars => StatsSound'
  <1> SUFFICES ASSUME IInv, StatsSound, [Next]_vars PROVE StatsSound'
    OBVIOUS
  <1>0. StreamTypes
    BY DEF IInv, StreamsSound
  <1>1. ASSUME UNCHANGED <<pc, todo, outbox, result, last_on, stats, losses>> PROVE StatsSound'
    BY <1>1 DEF StatsSound, OneChannel, WorksFor, SentLast, StatsFollow
  <1>2. CASE Loop
    BY <1>1, <1>2 DEF Loop, configure_stream, retain_streams, clear, Change, observed
  <1>3. ASSUME NEW t \in Senders, NEW ssrc \in Ssrcs, NEW n \in 1..MaxFrame, send_video_frame(t, ssrc, n)
        PROVE  StatsSound'
    BY <1>0, <1>3, BeginKeepsStats, FrameBegins DEF Threads
  <1>4. ASSUME NEW t \in Responders, NEW ssrc \in Ssrcs, NEW sequences \in NackLists(MaxNack),
               send_video_rtx_for_nack(t, ssrc, sequences)
        PROVE  StatsSound'
    BY <1>0, <1>4, BeginKeepsStats, NackBegins DEF Threads
  <1>5. ASSUME NEW t \in Threads,
               Prepare(t) \/ SendNext(t) \/ SendFails(t) \/ Return(t) \/ Record(t)
        PROVE  StatsSound'
    BY <1>5, PrepareKeepsStats, SendKeepsStats, FailKeepsStats, ReturnKeepsStats, RecordKeepsStats
  <1>6. CASE UNCHANGED vars
    BY <1>1, <1>6 DEF vars
  <1> QED
    BY <1>2, <1>3, <1>4, <1>5, <1>6 DEF Next

\* With one player thread and one dispatcher thread, what the pipeline keeps
\* about a stream agrees with what was sent on it: cache, retransmissions and
\* statistics.
THEOREM SendsAreBooked == ASSUME OneCaller PROVE Spec => []SendBookkeeping
  <1>1. Init => StatsSound
    BY DEF Init, StatsSound, OneChannel, SentLast, StatsFollow
  <1>2. IInv /\ StatsSound => SendBookkeeping
    <2> SUFFICES ASSUME IInv, StatsSound PROVE SendBookkeeping
      OBVIOUS
    <2>1. TypeOK
      BY DEF IInv, StreamsSound, StreamTypes, IsStream, CallsSound, ThreadTypes, WireTypes,
             CounterTypes, TypeOK
    <2>2. CacheIsRecentWindow /\ RtxTruthful
      BY DEF IInv, StreamsSound, Windows, Window, CacheIsRecentWindow, CallsSound
    <2>3. StatsSequenceLatest
      BY DEF StatsSound, StatsFollow, StatsSequenceLatest, Quiet
    <2> QED
      BY <2>1, <2>2, <2>3 DEF SendBookkeeping
  <1> QED
    BY AlwaysIInv, <1>1, <1>2, StepKeepsStats, PTL DEF Spec

-----------------------------------------------------------------------------
(************************ the replay of keyframes **************************)

Frames == [session : Nat, n : Nat, key : BOOLEAN]

ReplayTypes ==
    /\ video \in BOOLEAN /\ replay_active \in BOOLEAN /\ disturbed \in BOOLEAN
    /\ session \in Nat
    /\ step \in {"round", "clear", "serve", "replay", "read", "store"}
    /\ current \in Streams
    /\ DOMAIN keyframes = Streams
    /\ frames_left \in Seq(Frames)
    /\ live \in [Streams -> Frames] /\ decoded \in [Streams -> Frames]
    /\ \A s \in Streams : live[s].session <= session

\* Frames that were sent one after the other, in one session.
Chain(list) ==
    /\ list \in Seq(Frames)
    /\ \A i \in 2..Len(list) :
          /\ ~list[i].key
          /\ list[i].session = list[1].session
          /\ list[i].n = list[i - 1].n + 1

Follows(p, q) == ~q.key /\ q.session = p.session /\ q.n = p.n + 1

Decodable(list) == Chain(list) /\ (list # <<>> => list[1].key)

Caches == \A s \in Streams : Decodable(keyframes[s])

\* The frame cached last was sent last, or is of a session that has ended.
LastCached ==
    \A s \in Streams : keyframes[s] # <<>> =>
        LET frame == keyframes[s][Len(keyframes[s])]
        IN  \/ frame = live[s] /\ frame.session = session
            \/ frame.session < session /\ live[s].session # session
            \/ ~video /\ frame.session <= session

\* stop_video has emptied the lists, unless a frame was on its way.
Emptied == ~video /\ step # "round" => \A s \in Streams : keyframes[s] = <<>>

\* frames_left are the frames of list behind the first k.
Rest(list, k) ==
    /\ k \in 0..Len(list) /\ Len(frames_left) = Len(list) - k
    /\ \A i \in 1..Len(frames_left) : frames_left[i] = list[k + i]

Replaying ==
    /\ replay_active => step = "replay" /\ video
    /\ step = "replay" /\ ~disturbed => replay_active
    /\ replay_active =>
          /\ keyframes[current] # <<>>
          /\ \E k \in 0..Len(keyframes[current]) :
                /\ Rest(keyframes[current], k)
                /\ ~disturbed /\ k > 0 => decoded[current] = keyframes[current][k]

\* A replay that a stop has overtaken goes on after the next start, and caches
\* again what it sends.
Overtaken ==
    step = "replay" /\ ~replay_active =>
        /\ Chain(frames_left)
        /\ \A i \in 1..Len(frames_left) :
              frames_left[i].session <= session /\ (video => frames_left[i].session # session)
        /\ video => live[current].session # session
        /\ keyframes[current] # <<>> /\ frames_left # <<>> =>
              Follows(keyframes[current][Len(keyframes[current])], frames_left[1])

\* A frame on its way into the cache.
Storing ==
    step = "store" =>
        /\ Len(frames_left) = 1
        /\ frames_left[1].session <= session
        /\ IF video /\ frames_left[1].session = session
           THEN IF live[current].session = session THEN frames_left[1].n = live[current].n + 1
                                                   ELSE frames_left[1].key
           ELSE /\ \A s \in Streams : keyframes[s] = <<>>
                /\ video => live[current].session # session

ReplayInv == ReplayTypes /\ Caches /\ LastCached /\ Emptied /\ Replaying /\ Overtaken /\ Storing

-----------------------------------------------------------------------------
\* A frame that continues a chain makes a longer one.
LEMMA ChainAppend ==
    ASSUME NEW list, Chain(list), NEW frame \in Frames,
           list # <<>> => Follows(list[Len(list)], frame)
    PROVE  Chain(Append(list, frame))
  <1> DEFINE n == Len(list)
             longer == Append(list, frame)
  <1>1. /\ list \in Seq(Frames) /\ n \in Nat /\ longer \in Seq(Frames) /\ Len(longer) = n + 1
        /\ longer[n + 1] = frame /\ \A i \in 1..n : longer[i] = list[i]
        /\ list = <<>> <=> n = 0
    BY DEF Chain
  <1>2. \A i \in 2..n : /\ ~list[i].key /\ list[i].session = list[1].session
                        /\ list[i].n = list[i - 1].n + 1
    BY DEF Chain
  <1> HIDE DEF n, longer
  <1>3. ASSUME NEW i \in 2..(n + 1)
        PROVE  /\ ~longer[i].key /\ longer[i].session = longer[1].session
               /\ longer[i].n = longer[i - 1].n + 1
    <2>1. CASE i <= n
      <3>1. i \in 2..n /\ i \in 1..n /\ i - 1 \in 1..n /\ 1 \in 1..n
        BY <2>1, <1>1
      <3> QED
        BY <3>1, <1>1, <1>2
    <2>2. CASE i = n + 1
      <3>1. n \in 1..n /\ 1 \in 1..n /\ i - 1 = n /\ list # <<>>
        BY <2>2, <1>1
      <3>2. list[n].session = list[1].session
        BY <3>1, <1>1, <1>2
      <3> QED
        BY <2>2, <3>1, <3>2, <1>1 DEF Follows, n
    <2> QED
      BY <2>1, <2>2, <1>1
  <1> QED
    BY <1>1, <1>3 DEF Chain, longer

\* _cache_video_frame keeps a list that can be decoded, and ends it with the
\* frame or empties it.
LEMMA CacheFits ==
    ASSUME NEW list, Decodable(list), NEW frame \in Frames,
           list # <<>> /\ ~frame.key => Follows(list[Len(list)], frame)
    PROVE  /\ Decodable(CacheVideoFrame(list, frame))
           /\ CacheVideoFrame(list, frame) # <<>> =>
                 /\ CacheVideoFrame(list, frame)[Len(CacheVideoFrame(list, frame))] = frame
                 /\ list # <<>> \/ frame.key
  <1>1. Decodable(<<>>)
    BY DEF Decodable, Chain
  <1>2. CASE frame.key
    <2>1. CacheVideoFrame(list, frame) = <<frame>>
      BY <1>2 DEF CacheVideoFrame
    <2>2. Decodable(<<frame>>) /\ <<frame>>[Len(<<frame>>)] = frame
      BY <1>2 DEF Decodable, Chain
    <2> QED
      BY <1>2, <2>1, <2>2
  <1>3. CASE ~frame.key /\ list = <<>>
    <2>1. CacheVideoFrame(list, frame) = <<>>
      BY <1>3 DEF CacheVideoFrame
    <2> QED
      BY <1>1, <2>1
  <1>4. CASE ~frame.key /\ list # <<>>
    <2>1. CacheVideoFrame(list, frame) \in {<<>>, Append(list, frame)}
      BY <1>4 DEF CacheVideoFrame
    <2>2. Chain(Append(list, frame))
      BY <1>4, ChainAppend DEF Decodable
    <2>3. /\ Append(list, frame)[1].key
          /\ Append(list, frame)[Len(Append(list, frame))] = frame
      BY <1>4 DEF Decodable, Chain
    <2> QED
      BY <1>1, <1>4, <2>1, <2>2, <2>3, Zenon DEF Decodable
  <1> QED
    BY <1>2, <1>3, <1>4

\* A chain without its first frame, and the frame after it.
LEMMA ChainTail ==
    ASSUME NEW list, Chain(list), list # <<>>
    PROVE  /\ Head(list) = list[1] /\ list[1] \in Frames
           /\ Chain(Tail(list)) /\ Len(Tail(list)) = Len(list) - 1
           /\ \A i \in 1..Len(Tail(list)) : Tail(list)[i] = list[i + 1] /\ i + 1 \in 1..Len(list)
           /\ Tail(list) # <<>> => Follows(list[1], Tail(list)[1])
  <1> DEFINE n == Len(list)
             rest == Tail(list)
  <1>1. /\ list \in Seq(Frames) /\ n \in Nat \ {0} /\ Head(list) = list[1] /\ list[1] \in Frames
        /\ rest \in Seq(Frames) /\ Len(rest) = n - 1
        /\ \A i \in 1..(n - 1) : rest[i] = list[i + 1] /\ i + 1 \in 1..n
        /\ rest # <<>> => 1 \in 1..(n - 1)
    BY DEF Chain
  <1>2. \A i \in 2..n : /\ ~list[i].key /\ list[i].session = list[1].session
                        /\ list[i].n = list[i - 1].n + 1
    BY DEF Chain
  <1> HIDE DEF n, rest
  <1>3. ASSUME NEW i \in 2..(n - 1)
        PROVE  /\ ~rest[i].key /\ rest[i].session = rest[1].session
               /\ rest[i].n = rest[i - 1].n + 1
    <2>1. /\ i \in 1..(n - 1) /\ i - 1 \in 1..(n - 1) /\ 1 \in 1..(n - 1)
          /\ i + 1 \in 2..n /\ 2 \in 2..n /\ (i - 1) + 1 = (i + 1) - 1 /\ 1 + 1 = 2
      BY <1>1
    <2>2. rest[i] = list[i + 1] /\ rest[i - 1] = list[(i + 1) - 1] /\ rest[1] = list[2]
      BY <1>1, <2>1
    <2> QED
      BY <1>2, <2>1, <2>2
  <1>4. rest # <<>> => Follows(list[1], rest[1])
    <2> SUFFICES ASSUME rest # <<>> PROVE Follows(list[1], rest[1])
      OBVIOUS
    <2>1. rest[1] = list[2] /\ 2 \in 2..n /\ 2 - 1 = 1
      BY <1>1
    <2> QED
      BY <1>2, <2>1 DEF Follows
  <1> QED
    BY <1>1, <1>3, <1>4 DEF Chain, n, rest

\* The rest of a chain is a chain.
LEMMA RestIsChain ==
    ASSUME NEW list, Chain(list), NEW k \in 0..Len(list), frames_left \in Seq(Frames), Rest(list, k)
    PROVE  /\ Chain(frames_left)
           /\ \A i \in 1..Len(frames_left) : frames_left[i].session = list[Len(list)].session
  <1> DEFINE n == Len(list)
             m == Len(frames_left)
  <1>1. /\ list \in Seq(Frames) /\ n \in Nat /\ k \in 0..n /\ m = n - k
        /\ \A i \in 1..m : frames_left[i] = list[k + i] /\ k + i \in 1..n
    BY DEF Chain, Rest
  <1>2. \A i \in 2..n : /\ ~list[i].key /\ list[i].session = list[1].session
                        /\ list[i].n = list[i - 1].n + 1
    BY DEF Chain
  <1> HIDE DEF n, m
  <1>3. \A i \in 1..n : list[i].session = list[n].session
    <2> SUFFICES ASSUME NEW i \in 1..n PROVE list[i].session = list[n].session
      OBVIOUS
    <2>1. (i = 1 \/ i \in 2..n) /\ (n = 1 \/ n \in 2..n)
      BY <1>1
    <2> QED
      BY <1>2, <2>1
  <1>4. \A i \in 1..m : frames_left[i].session = list[n].session
    BY <1>1, <1>3
  <1>5. ASSUME NEW i \in 2..m
        PROVE  /\ ~frames_left[i].key /\ frames_left[i].session = frames_left[1].session
               /\ frames_left[i].n = frames_left[i - 1].n + 1
    <2>1. /\ i \in 1..m /\ i - 1 \in 1..m /\ 1 \in 1..m /\ k + i \in 2..n
          /\ k + (i - 1) = (k + i) - 1
      BY <1>1
    <2>2. frames_left[i] = list[k + i] /\ frames_left[i - 1] = list[(k + i) - 1]
      BY <1>1, <2>1
    <2> QED
      BY <1>2, <1>4, <2>1, <2>2
  <1> QED
    BY <1>4, <1>5 DEF Chain, n, m

-----------------------------------------------------------------------------
\* Steps that touch neither the lists nor what is being sent.
LEMMA IdleKeepsReplay ==
    ASSUME ReplayInv,
           \/ CopyRequests \/ ClearRequests \/ ServedAll \/ ReadNothing
           \/ \E s \in Streams : HandlePli(s)
    PROVE  ReplayInv'
  <1>1. /\ UNCHANGED <<video, keyframes, replay_active, current, frames_left, live, decoded>>
        /\ UNCHANGED <<disturbed, session>>
        /\ \/ step' = step
           \/ /\ step' \in {"round", "clear", "serve", "read"}
              /\ step \in {"round", "clear", "serve", "read"}
              /\ step = "round" => video
    BY DEF CopyRequests, ClearRequests, ServedAll, ReadNothing, HandlePli, playerVars
  <1>2. ReplayTypes' /\ Caches' /\ LastCached'
    BY <1>1 DEF ReplayInv, ReplayTypes, Caches, LastCached
  <1>3. Emptied' /\ Overtaken' /\ Storing'
    BY <1>1 DEF ReplayInv, Emptied, Overtaken, Storing
  <1>4. Replaying'
    BY <1>1 DEF ReplayInv, Replaying, Rest
  <1> QED
    BY <1>2, <1>3, <1>4 DEF ReplayInv

\* A replay begins: all frames of the list are to be sent.
LEMMA ServeKeepsReplay ==
    ASSUME ReplayInv, NEW s \in Streams, ServeNext(s) PROVE ReplayInv'
  <1>1. /\ step = "serve"
        /\ UNCHANGED <<video, keyframes, live, decoded, session>>
    BY DEF ServeNext
  <1>2. CASE keyframes[s] = <<>>
    <2>1. UNCHANGED <<step, current, frames_left, replay_active, disturbed>>
      BY <1>2 DEF ServeNext
    <2>2. ReplayTypes' /\ Caches' /\ LastCached'
      BY <1>1, <2>1 DEF ReplayInv, ReplayTypes, Caches, LastCached
    <2>3. Emptied' /\ Overtaken' /\ Storing'
      BY <1>1, <2>1 DEF ReplayInv, Emptied, Overtaken, Storing
    <2>4. Replaying'
      BY <1>1, <2>1 DEF ReplayInv, Replaying, Rest
    <2> QED
      BY <2>2, <2>3, <2>4 DEF ReplayInv
  <1>3. CASE keyframes[s] # <<>>
    <2>1. /\ step' = "replay" /\ current' = s /\ frames_left' = keyframes[s]
          /\ replay_active' = TRUE /\ disturbed' = FALSE
      BY <1>3 DEF ServeNext
    <2>2. video /\ keyframes[s] \in Seq(Frames)
      BY <1>1, <1>3 DEF ReplayInv, Emptied, ReplayTypes, Caches, Decodable, Chain
    <2>3. ReplayTypes'
      BY <1>1, <2>1, <2>2 DEF ReplayInv, ReplayTypes
    <2>4. Caches' /\ LastCached' /\ Emptied' /\ Overtaken' /\ Storing'
      BY <1>1, <2>1, <2>2 DEF ReplayInv, Caches, LastCached, Emptied, Overtaken, Storing
    <2>5. Rest(keyframes[s], 0)' /\ 0 \in 0..Len(keyframes[s])
      BY <1>1, <2>1, <2>2 DEF Rest
    <2>6. Replaying'
      BY <1>1, <1>3, <2>1, <2>2, <2>5 DEF Replaying, Rest
    <2> QED
      BY <2>3, <2>4, <2>6 DEF ReplayInv
  <1> QED
    BY <1>2, <1>3

\* A replay ends, complete or not.
LEMMA EndKeepsReplay ==
    ASSUME ReplayInv, NEW complete \in BOOLEAN, EndReplay(complete) PROVE ReplayInv'
  <1>1. /\ step = "replay" /\ step' = "serve" /\ replay_active' = FALSE /\ frames_left' = <<>>
        /\ disturbed' = FALSE
        /\ UNCHANGED <<video, keyframes, current, live, decoded, session>>
    BY DEF EndReplay
  <1>2. ReplayTypes'
    <2>1. <<>> \in Seq(Frames)
      OBVIOUS
    <2> QED
      BY <1>1, <2>1 DEF ReplayInv, ReplayTypes
  <1>3. Caches' /\ LastCached' /\ Emptied' /\ Replaying' /\ Overtaken' /\ Storing'
    BY <1>1 DEF ReplayInv, Caches, LastCached, Emptied, Replaying, Overtaken, Storing
  <1> QED
    BY <1>2, <1>3 DEF ReplayInv

\* A frame is read: it follows the one sent last, or is a keyframe.
LEMMA ReadKeepsReplay ==
    ASSUME ReplayInv, NEW s \in Streams, NEW key \in BOOLEAN, ReadFrame(s, key) PROVE ReplayInv'
  <1> DEFINE first == live[s].session # session
             frame == [session |-> session, n |-> IF first THEN 1 ELSE live[s].n + 1, key |-> key]
  <1>1. /\ step = "read" /\ step' = "store" /\ video /\ ~replay_active /\ (first => key)
        /\ frames_left' = <<frame>> /\ current' = s
        /\ UNCHANGED <<video, keyframes, replay_active, live, decoded, disturbed, session>>
    BY DEF ReadFrame
  <1>2. /\ frame \in Frames /\ frame.session = session /\ frame.key = key
        /\ ~first => frame.n = live[s].n + 1
    BY DEF ReplayInv, ReplayTypes, Frames
  <1>3. session \in Nat
    BY DEF ReplayInv, ReplayTypes
  <1> HIDE DEF frame
  <1>4. ReplayTypes'
    BY <1>1, <1>2 DEF ReplayInv, ReplayTypes
  <1>5. Caches' /\ LastCached' /\ Emptied' /\ Replaying' /\ Overtaken'
    BY <1>1 DEF ReplayInv, Caches, LastCached, Emptied, Replaying, Overtaken
  <1>6. Storing'
    BY <1>1, <1>2, <1>3 DEF Storing
  <1> QED
    BY <1>4, <1>5, <1>6 DEF ReplayInv

\* A loss that meets a replay disturbs it.
LEMMA LoseKeepsReplay ==
    ASSUME ReplayInv, NEW s \in Streams, Lose(s) PROVE ReplayInv'
  <1>1. /\ decoded' = [decoded EXCEPT ![s] = NoFrame]
        /\ disturbed' = (disturbed \/ (step = "replay" /\ s = current))
        /\ UNCHANGED <<video, keyframes, replay_active, step, current, frames_left, live, session>>
    BY DEF Lose, playerVars
  <1>2. NoFrame \in Frames
    BY DEF NoFrame, Frames
  <1>3. ReplayTypes'
    BY <1>1, <1>2 DEF ReplayInv, ReplayTypes
  <1>4. Caches' /\ LastCached' /\ Emptied' /\ Overtaken' /\ Storing'
    BY <1>1 DEF ReplayInv, Caches, LastCached, Emptied, Overtaken, Storing
  <1>5. Replaying'
    <2>1. step = "replay" /\ ~disturbed' => ~disturbed /\ decoded'[current] = decoded[current]
      BY <1>1 DEF ReplayInv, ReplayTypes
    <2>2. replay_active => step = "replay"
      BY DEF ReplayInv, Replaying
    <2> QED
      BY <1>1, <2>1, <2>2 DEF ReplayInv, Replaying, Rest
  <1> QED
    BY <1>3, <1>4, <1>5 DEF ReplayInv

\* start_video: what is cached is of an ended session.
LEMMA StartKeepsReplay ==
    ASSUME ReplayInv, StartVideo PROVE ReplayInv'
  <1>1. /\ ~video /\ video' = TRUE /\ session' = session + 1
        /\ UNCHANGED <<keyframes, replay_active, step, current, frames_left, live, decoded, disturbed>>
    BY DEF StartVideo, playerVars
  <1>2. /\ session \in Nat /\ \A s \in Streams : live[s] \in Frames /\ live[s].session <= session
        /\ \A s \in Streams : live[s].session \in Nat /\ live[s].session # session + 1
        /\ current \in Streams
    BY DEF ReplayInv, ReplayTypes, Frames
  <1>3. ReplayTypes'
    BY <1>1, <1>2 DEF ReplayInv, ReplayTypes
  <1>4. Caches' /\ Emptied'
    BY <1>1 DEF ReplayInv, Caches, Emptied
  <1>5. LastCached'
    <2> SUFFICES ASSUME NEW s \in Streams, keyframes[s] # <<>>
                 PROVE  keyframes[s][Len(keyframes[s])].session < session + 1
      BY <1>1, <1>2 DEF LastCached
    <2>1. keyframes[s][Len(keyframes[s])] \in Frames
      BY DEF ReplayInv, Caches, Decodable, Chain
    <2>2. keyframes[s][Len(keyframes[s])].session \in Nat
      BY <2>1 DEF Frames
    <2> QED
      BY <1>2, <2>2 DEF ReplayInv, LastCached
  <1>6. \A i \in 1..Len(frames_left) : frames_left[i].session \in Nat
    <2>1. \A i \in 1..Len(frames_left) : frames_left[i] \in Frames
      BY DEF ReplayInv, ReplayTypes
    <2> QED
      BY <2>1 DEF Frames
  <1>7. Replaying'
    BY <1>1 DEF ReplayInv, Replaying
  <1>8. Overtaken'
    BY <1>1, <1>2, <1>6 DEF ReplayInv, Overtaken
  <1>9. Storing'
    <2> SUFFICES ASSUME step = "store" PROVE Storing'
      BY <1>1 DEF Storing
    <2>1. \A s \in Streams : keyframes[s] = <<>>
      BY <1>1 DEF ReplayInv, Emptied
    <2>2. Len(frames_left) = 1 /\ frames_left[1].session \in Nat /\ frames_left[1].session <= session
      <3>1. Len(frames_left) = 1 /\ frames_left[1].session <= session
        BY DEF ReplayInv, Storing
      <3> QED
        BY <1>6, <3>1
    <2>3. frames_left[1].session <= session + 1 /\ frames_left[1].session # session + 1
      BY <1>2, <2>2
    <2> QED
      BY <1>1, <1>2, <2>1, <2>2, <2>3 DEF Storing
  <1> QED
    BY <1>3, <1>4, <1>5, <1>7, <1>8, <1>9 DEF ReplayInv

\* stop_video: the lists are emptied; a replay goes on until its next frame.
LEMMA StopKeepsReplay ==
    ASSUME ReplayInv, StopVideo PROVE ReplayInv'
  <1>1. /\ video /\ video' = FALSE /\ keyframes' = [s \in Streams |-> <<>>]
        /\ replay_active' = FALSE /\ disturbed' = (step = "replay")
        /\ UNCHANGED <<step, current, frames_left, live, decoded, session>>
    BY DEF StopVideo, playerVars
  <1>2. DOMAIN keyframes' = Streams /\ \A s \in Streams : keyframes'[s] = <<>>
    BY <1>1
  <1>3. ReplayTypes'
    BY <1>1 DEF ReplayInv, ReplayTypes
  <1>4. Caches'
    <2>1. Decodable(<<>>)
      BY DEF Decodable, Chain
    <2> QED
      BY <1>2, <2>1 DEF Caches
  <1>5. LastCached' /\ Emptied' /\ Replaying'
    BY <1>1, <1>2 DEF ReplayInv, LastCached, Emptied, Replaying
  <1>6. Overtaken'
    <2> SUFFICES ASSUME step = "replay"
                 PROVE  /\ Chain(frames_left)
                        /\ \A i \in 1..Len(frames_left) : frames_left[i].session <= session
      BY <1>1, <1>2 DEF Overtaken, ReplayInv, ReplayTypes
    <2>1. CASE ~replay_active
      BY <2>1 DEF ReplayInv, Overtaken
    <2>2. CASE replay_active
      <3> DEFINE list == keyframes[current]
      <3>1. PICK k \in 0..Len(list) : Rest(list, k)
        BY <2>2 DEF ReplayInv, Replaying
      <3>2. Chain(list) /\ list # <<>> /\ frames_left \in Seq(Frames) /\ current \in Streams
        BY <2>2 DEF ReplayInv, Replaying, Caches, Decodable, ReplayTypes
      <3>3. list[Len(list)].session <= session
        <4>1. LastCached /\ session \in Nat
          BY DEF ReplayInv, ReplayTypes
        <4>2. 1..Len(list) # {} /\ list[Len(list)] \in Frames
          BY <3>2 DEF Chain
        <4>3. list[Len(list)].session \in Nat
          BY <4>2 DEF Frames
        <4> QED
          BY <1>1, <3>2, <4>1, <4>3 DEF LastCached
      <3> HIDE DEF list
      <3> QED
        BY <3>1, <3>2, <3>3, RestIsChain
    <2> QED
      BY <2>1, <2>2
  <1>7. Storing'
    BY <1>1, <1>2 DEF ReplayInv, Storing
  <1> QED
    BY <1>3, <1>4, <1>5, <1>6, <1>7 DEF ReplayInv

\* One frame is sent again.  In a replay that a stop has overtaken it is cached
\* again, too.
LEMMA ResendKeepsReplay ==
    ASSUME ReplayInv, ResendFrame PROVE ReplayInv'
  <1> DEFINE frame == Head(frames_left)
             list == keyframes[current]
  <1>1. /\ step = "replay" /\ frames_left # <<>> /\ video /\ frames_left' = Tail(frames_left)
        /\ decoded' = [decoded EXCEPT ![current] = Receive(frame, decoded[current])]
        /\ replay_active => keyframes' = keyframes
        /\ ~replay_active => keyframes' = [keyframes EXCEPT ![current] = CacheVideoFrame(list, frame)]
        /\ UNCHANGED <<video, replay_active, step, current, live, disturbed, session>>
    BY DEF ResendFrame
  <1>2. /\ frames_left \in Seq(Frames) /\ Len(frames_left) \in Nat \ {0} /\ 1 \in 1..Len(frames_left)
        /\ frame = frames_left[1] /\ frame \in Frames /\ Tail(frames_left) \in Seq(Frames)
        /\ Len(Tail(frames_left)) = Len(frames_left) - 1
        /\ \A i \in 1..(Len(frames_left) - 1) : Tail(frames_left)[i] = frames_left[i + 1]
        /\ current \in Streams /\ DOMAIN keyframes = Streams
        /\ decoded \in [Streams -> Frames] /\ decoded[current] \in Frames
    BY <1>1 DEF ReplayInv, ReplayTypes
  <1>3. Receive(frame, decoded[current]) \in Frames
    BY <1>2 DEF Receive, NoFrame, Frames
  <1>4. ReplayTypes'
    <2>1. decoded' \in [Streams -> Frames] /\ DOMAIN keyframes' = Streams
      BY <1>1, <1>2, <1>3
    <2> HIDE DEF frame, list
    <2> QED
      BY <1>1, <1>2, <2>1 DEF ReplayInv, ReplayTypes
  <1>5. Emptied' /\ Storing'
    BY <1>1 DEF Emptied, Storing
  <1>6. CASE replay_active
    <2>1. Caches' /\ LastCached' /\ Overtaken'
      BY <1>1, <1>6 DEF ReplayInv, Caches, LastCached, Overtaken
    <2>2. PICK k \in 0..Len(list) :
             Rest(list, k) /\ (~disturbed /\ k > 0 => decoded[current] = list[k])
      BY <1>6 DEF ReplayInv, Replaying
    <2>3. Decodable(list) /\ list \in Seq(Frames) /\ list # <<>>
      BY <1>2, <1>6 DEF ReplayInv, Caches, Decodable, Chain, Replaying
    <2>4. /\ k + 1 \in 1..Len(list) /\ frame = list[k + 1] /\ k \in Nat /\ Len(list) \in Nat
          /\ k + 1 \in 0..Len(list)
      BY <1>2, <2>2, <2>3 DEF Rest
    <2>5. Rest(list, k + 1)'
      <3>1. \A i \in 1..(Len(frames_left) - 1) : frames_left[i + 1] = list[(k + 1) + i]
        <4> SUFFICES ASSUME NEW i \in 1..(Len(frames_left) - 1)
                     PROVE  frames_left[i + 1] = list[(k + 1) + i]
          OBVIOUS
        <4>1. i + 1 \in 1..Len(frames_left) /\ k + (i + 1) = (k + 1) + i
          BY <1>2, <2>4
        <4> QED
          BY <2>2, <4>1 DEF Rest
      <3> HIDE DEF frame
      <3> QED
        BY <1>1, <1>2, <1>6, <2>2, <2>4, <3>1 DEF Rest
    <2>6. ~disturbed => decoded'[current] = list[k + 1]
      <3> SUFFICES ASSUME ~disturbed PROVE Receive(frame, decoded[current]) = frame
        BY <1>1, <1>2, <2>4
      <3>1. CASE k = 0
        BY <2>3, <2>4, <3>1 DEF Decodable, Receive
      <3>2. CASE k > 0
        <4>1. k + 1 \in 2..Len(list) /\ (k + 1) - 1 = k /\ k \in 1..Len(list) /\ 1 \in 1..Len(list)
          BY <2>4, <3>2
        <4>2. /\ frame.session = list[1].session /\ frame.n = list[k].n + 1
          BY <2>3, <2>4, <4>1 DEF Decodable, Chain
        <4>3. list[k].session = list[1].session
          <5>1. k = 1 \/ k \in 2..Len(list)
            BY <4>1, <2>4
          <5> QED
            BY <5>1, <2>3 DEF Decodable, Chain
        <4>4. list[k] \in Frames /\ frame \in Frames /\ decoded[current] = list[k]
          BY <1>2, <2>2, <2>3, <3>2, <4>1
        <4> HIDE DEF frame, list
        <4>5. list[k] = [frame EXCEPT !.n = @ - 1, !.key = list[k].key]
          <5>1. /\ list[k] = [session |-> list[k].session, n |-> list[k].n, key |-> list[k].key]
                /\ frame = [session |-> frame.session, n |-> frame.n, key |-> frame.key]
                /\ list[k].n \in Nat
            BY <4>4 DEF Frames
          <5>2. frame.n - 1 = list[k].n /\ frame.session = list[k].session
            BY <4>2, <4>3, <5>1
          <5> QED
            BY <5>1, <5>2
        <4> QED
          BY <4>4, <4>5 DEF Receive
      <3> QED
        BY <2>4, <3>1, <3>2
    <2>7. Replaying'
      BY <1>1, <1>6, <2>3, <2>4, <2>5, <2>6 DEF Replaying, Rest
    <2> QED
      BY <1>4, <1>5, <2>1, <2>7 DEF ReplayInv
  <1>7. CASE ~replay_active
    <2> DEFINE cached == CacheVideoFrame(list, frame)
    <2>1. /\ keyframes'[current] = cached
          /\ \A s \in Streams : s # current => keyframes'[s] = keyframes[s]
      BY <1>1, <1>2, <1>7
    <2>2. /\ Chain(frames_left)
          /\ \A i \in 1..Len(frames_left) :
                frames_left[i].session <= session /\ frames_left[i].session # session
          /\ live[current].session # session
          /\ list # <<>> => Follows(list[Len(list)], frame)
      BY <1>1, <1>2, <1>7 DEF ReplayInv, Overtaken
    <2>3. Decodable(list)
      BY <1>2 DEF ReplayInv, Caches
    <2>4. Decodable(cached) /\ (cached # <<>> => cached[Len(cached)] = frame)
      BY <1>2, <2>2, <2>3, CacheFits
    <2>5. /\ Chain(Tail(frames_left))
          /\ \A i \in 1..Len(Tail(frames_left)) :
                Tail(frames_left)[i] = frames_left[i + 1] /\ i + 1 \in 1..Len(frames_left)
          /\ Tail(frames_left) # <<>> => Follows(frame, Tail(frames_left)[1])
      BY <1>1, <1>2, <2>2, ChainTail
    <2>6. frame.session \in Nat /\ session \in Nat /\ frame.session < session
      BY <1>2, <2>2 DEF Frames, ReplayInv, ReplayTypes
    <2> HIDE DEF cached, frame, list
    <2>7. Caches'
      BY <2>1, <2>4 DEF ReplayInv, Caches
    <2>8. LastCached'
      BY <1>1, <2>1, <2>2, <2>4, <2>6 DEF ReplayInv, LastCached
    <2>9. Overtaken'
      BY <1>1, <2>1, <2>2, <2>4, <2>5 DEF Overtaken
    <2>10. Replaying'
      BY <1>1, <1>7 DEF ReplayInv, Replaying
    <2> QED
      BY <1>4, <1>5, <2>7, <2>8, <2>9, <2>10 DEF ReplayInv
  <1> QED
    BY <1>6, <1>7

\* A frame is cached and sent; one that a stop has overtaken is only cached,
\* and only if it is a keyframe.
LEMMA StoreKeepsReplay ==
    ASSUME ReplayInv, StoreFrame PROVE ReplayInv'
  <1> DEFINE frame == Head(frames_left)
             list == keyframes[current]
             cached == CacheVideoFrame(list, frame)
             inTime == video /\ session = frame.session
  <1>1. /\ step = "store" /\ step' = "round" /\ frames_left' = <<>>
        /\ keyframes' = [keyframes EXCEPT ![current] = cached]
        /\ inTime => /\ live' = [live EXCEPT ![current] = frame]
                     /\ decoded' = [decoded EXCEPT ![current] = Receive(frame, decoded[current])]
        /\ ~inTime => live' = live /\ decoded' = decoded
        /\ UNCHANGED <<video, replay_active, current, disturbed, session>>
    BY DEF StoreFrame
  <1>2. /\ frames_left \in Seq(Frames) /\ Len(frames_left) = 1
        /\ frame = frames_left[1] /\ frame \in Frames
        /\ frame.session \in Nat /\ session \in Nat /\ frame.session <= session
        /\ current \in Streams /\ DOMAIN keyframes = Streams
        /\ live \in [Streams -> Frames]
        /\ decoded \in [Streams -> Frames] /\ decoded[current] \in Frames
        /\ \A s \in Streams : live[s].session <= session
    <2>1. /\ frames_left \in Seq(Frames) /\ Len(frames_left) = 1
          /\ frame = frames_left[1] /\ frame \in Frames
      <3>1. frames_left \in Seq(Frames) /\ Len(frames_left) = 1
        BY <1>1 DEF ReplayInv, ReplayTypes, Storing
      <3> QED
        BY <3>1
    <2> QED
      BY <1>1, <2>1 DEF ReplayInv, ReplayTypes, Storing, Frames
  <1>3. Receive(frame, decoded[current]) \in Frames
    BY <1>2 DEF Receive, NoFrame, Frames
  <1>4. Decodable(list)
    BY <1>2 DEF ReplayInv, Caches
  <1>5. inTime =>
          IF live[current].session = session THEN frame.n = live[current].n + 1 ELSE frame.key
    BY <1>1, <1>2 DEF ReplayInv, Storing
  <1>6. ~inTime => /\ \A s \in Streams : keyframes[s] = <<>>
                   /\ video => live[current].session # session
    BY <1>1, <1>2 DEF ReplayInv, Storing
  <1>7. list # <<>> /\ ~frame.key => Follows(list[Len(list)], frame)
    BY <1>1, <1>2, <1>5, <1>6 DEF ReplayInv, LastCached, Follows
  <1>8. /\ Decodable(cached)
        /\ cached # <<>> => cached[Len(cached)] = frame
    BY <1>2, <1>4, <1>7, CacheFits
  <1> HIDE DEF frame, list, cached
  <1>9. /\ keyframes'[current] = cached /\ DOMAIN keyframes' = Streams
        /\ \A s \in Streams : s # current => keyframes'[s] = keyframes[s]
    BY <1>1, <1>2
  <1>10. /\ inTime => live'[current] = frame
         /\ \A s \in Streams : s # current => live'[s] = live[s]
         /\ live' \in [Streams -> Frames] /\ decoded' \in [Streams -> Frames]
    BY <1>1, <1>2, <1>3
  <1>11. ReplayTypes'
    <2>1. <<>> \in Seq(Frames)
      OBVIOUS
    <2>2. \A s \in Streams : live'[s].session <= session'
      BY <1>1, <1>2, <1>10
    <2> QED
      BY <1>1, <1>9, <1>10, <2>1, <2>2 DEF ReplayInv, ReplayTypes
  <1>12. Caches'
    BY <1>8, <1>9 DEF ReplayInv, Caches
  <1>13. LastCached'
    BY <1>1, <1>2, <1>6, <1>8, <1>9, <1>10 DEF ReplayInv, LastCached
  <1>14. Emptied' /\ Replaying' /\ Overtaken' /\ Storing'
    BY <1>1 DEF ReplayInv, Emptied, Replaying, Overtaken, Storing
  <1> QED
    BY <1>11, <1>12, <1>13, <1>14 DEF ReplayInv

\* What is cached for a replay can be decoded from its beginning, and a replay
\* that neither a stop nor a loss disturbs brings the receiver up to the frame
\* sent last.
THEOREM ReplayWorks == ReplaySpec => []ReplaySound
  <1>1. ReplayInit => ReplayInv
    <2> SUFFICES ASSUME ReplayInit PROVE ReplayInv
      OBVIOUS
    <2>1. ReplayTypes
      <3>1. NoFrame \in Frames /\ NoFrame.session = 0 /\ <<>> \in Seq(Frames)
        BY DEF NoFrame, Frames
      <3> HIDE DEF NoFrame
      <3>2. /\ live = [s \in Streams |-> NoFrame] /\ decoded = [s \in Streams |-> NoFrame]
            /\ session = 1 /\ frames_left = <<>> /\ current \in Streams
            /\ DOMAIN keyframes = Streams /\ step = "round"
            /\ video = TRUE /\ replay_active = FALSE /\ disturbed = FALSE
        BY DEF ReplayInit
      <3>3. live \in [Streams -> Frames] /\ decoded \in [Streams -> Frames]
            /\ \A s \in Streams : live[s].session <= session
        BY <3>1, <3>2
      <3> QED
        BY <3>1, <3>2, <3>3 DEF ReplayTypes
    <2>2. Caches
      BY DEF ReplayInit, Caches, Decodable, Chain
    <2> QED
      BY <2>1, <2>2 DEF ReplayInit, ReplayInv, LastCached, Emptied, Replaying, Overtaken, Storing
  <1>2. ReplayInv /\ [ReplayNext]_replayVars => ReplayInv'
    <2> SUFFICES ASSUME ReplayInv, [ReplayNext]_replayVars PROVE ReplayInv'
      OBVIOUS
    <2>1. CASE PlayerRound
      BY <2>1, IdleKeepsReplay, ServeKeepsReplay, EndKeepsReplay, ResendKeepsReplay,
         StoreKeepsReplay DEF PlayerRound
    <2>2. ASSUME NEW s \in Streams, NEW key \in BOOLEAN, ReadFrame(s, key) PROVE ReplayInv'
      BY <2>2, ReadKeepsReplay
    <2>3. ASSUME NEW s \in Streams, HandlePli(s) \/ Lose(s) PROVE ReplayInv'
      BY <2>3, IdleKeepsReplay, LoseKeepsReplay
    <2>4. CASE StopVideo \/ StartVideo
      BY <2>4, StopKeepsReplay, StartKeepsReplay
    <2>5. CASE UNCHANGED replayVars
      <3>1. ReplayTypes' /\ Caches' /\ LastCached'
        BY <2>5 DEF replayVars, playerVars, ReplayInv, ReplayTypes, Caches, LastCached
      <3>2. Emptied' /\ Overtaken' /\ Storing'
        BY <2>5 DEF replayVars, playerVars, ReplayInv, Emptied, Overtaken, Storing
      <3>3. Replaying'
        BY <2>5 DEF replayVars, playerVars, ReplayInv, Replaying, Rest
      <3> QED
        BY <3>1, <3>2, <3>3 DEF ReplayInv
    <2> QED
      BY <2>1, <2>2, <2>3, <2>4, <2>5 DEF ReplayNext
  <1>3. ReplayInv => ReplaySound
    <2> SUFFICES ASSUME ReplayInv PROVE ReplaySound
      OBVIOUS
    <2>1. CacheDecodable
      BY DEF ReplayInv, Caches, Decodable, Chain, CacheDecodable
    <2>2. ReplayCatchesUp
      <3> SUFFICES ASSUME step = "replay", frames_left = <<>>, ~disturbed,
                          live[current].session = session
                   PROVE  decoded[current] = live[current]
        BY DEF ReplayCatchesUp
      <3> DEFINE list == keyframes[current]
      <3>1. /\ replay_active /\ video /\ list # <<>> /\ current \in Streams
            /\ list \in Seq(Frames)
        BY DEF ReplayInv, Replaying, ReplayTypes, Caches, Decodable, Chain
      <3>2. PICK k \in 0..Len(list) : Rest(list, k) /\ (k > 0 => decoded[current] = list[k])
        BY <3>1 DEF ReplayInv, Replaying
      <3>3. k = Len(list) /\ k > 0
        BY <3>1, <3>2 DEF Rest
      <3>4. list[Len(list)] = live[current]
        BY <3>1 DEF ReplayInv, LastCached
      <3> QED
        BY <3>2, <3>3, <3>4
    <2> QED
      BY <2>1, <2>2 DEF ReplaySound
  <1> QED
    BY <1>1, <1>2, <1>3, PTL DEF ReplaySpec
=============================================================================

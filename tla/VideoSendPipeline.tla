------------------------- MODULE VideoSendPipeline -------------------------
(***************************************************************************)
(* The native video send pipeline (src/src/python/video_send.rs) and the   *)
(* client code around it that records what was sent.                       *)
(*                                                                         *)
(* Three kinds of threads meet here: the player thread sends frames, the   *)
(* UDP dispatcher answers NACKs with RTX packets, and the event loop       *)
(* configures, retains and clears streams.  send_lock is held from the     *)
(* numbering of a call's packets to the sending of its last one; the state *)
(* lock is held only while packets are numbered, so that the event loop    *)
(* can change the streams between the numbering and the sending.           *)
(***************************************************************************)
EXTENDS RtpSequence, Sequences, FiniteSets

CONSTANTS
    Senders,        \* threads that send frames (the player)
    Responders,     \* threads that answer NACKs (the dispatcher)
    Ssrcs,          \* media SSRCs; each has an RTX SSRC of its own
    Codecs,         \* (codec, payload type) pairs
    Starts,         \* the values random_u16() may return
    CacheMax,       \* RTX_CACHE_MAX_PACKETS
    MaxFrame,       \* bound: packets in a frame
    MaxNack,        \* bound: sequence numbers in a NACK
    MaxBodies,      \* bound: media packets numbered in all
    MaxRtx,         \* bound: RTX packets numbered in all
    MaxChanges,     \* bound: stream changes by the event loop
    MaxLosses       \* bound: calls aborted by a socket error

Threads == Senders \cup Responders
Nobody == "nobody"

ASSUME PipelineAssumption ==
    /\ CacheMax \in Nat /\ 0 < CacheMax /\ CacheMax < SeqMod
    /\ Starts \subseteq 0..(SeqMod - 1) /\ Starts # {}
    /\ Senders \cap Responders = {} /\ Nobody \notin Threads
    /\ MaxFrame \in Nat \ {0} /\ MaxNack \in Nat \ {0}
    /\ MaxBodies \in Nat /\ MaxRtx \in Nat /\ MaxChanges \in Nat /\ MaxLosses \in Nat

Nothing == [kind |-> "nothing"]

VARIABLES
    streams,            \* media SSRC -> PipelineStream, for the configured ones
    transport_sequence, \* the last transport-wide number given out
    send_lock,          \* the thread that holds send_lock, or Nobody
    pc,                 \* per thread: "idle", "prepare" (state lock held), "send", "record"
    todo,               \* per thread: what is still to be numbered
    outbox,             \* per thread: packets numbered and not yet sent
    result,             \* per thread: the summary its call returns
    stats,              \* _rtp_send_stats: (kind, SSRC) -> RTPSendStats
    latest,             \* history: the packet sent last
    last_on,            \* history: (kind, SSRC) -> the packet sent last on it
    numbered,           \* history: (SSRC, number) -> body, per living stream
    active_for,         \* history: SSRC -> packets numbered while RTX was active
    epoch,              \* history: how often clear() has run
    bodies, rtx_total, changes, losses      \* history: the bounded counters

shared == <<streams, transport_sequence>>
local == <<pc, todo, outbox, result>>
counters == <<bodies, rtx_total, changes, losses>>
observed == <<latest, last_on, stats>>
vars == <<streams, transport_sequence, send_lock, pc, todo, outbox, result, stats,
          latest, last_on, numbered, active_for, epoch,
          bodies, rtx_total, changes, losses>>

Channels == {"media", "rtx"} \X Ssrcs

NoStats == [sequence |-> -1, transport_sequence |-> -1]

Init ==
    /\ streams = <<>>
    /\ transport_sequence \in Starts
    /\ send_lock = Nobody
    /\ pc = [t \in Threads |-> "idle"]
    /\ todo = [t \in Threads |-> <<>>]
    /\ outbox = [t \in Threads |-> <<>>]
    /\ result = [t \in Threads |-> Nothing]
    /\ stats = [c \in Channels |-> NoStats]
    /\ latest = Nothing
    /\ last_on = [c \in Channels |-> Nothing]
    /\ numbered = <<>>
    /\ active_for = [s \in Ssrcs |-> 0]
    /\ epoch = 0
    /\ bodies = 0 /\ rtx_total = 0 /\ changes = 0 /\ losses = 0

-----------------------------------------------------------------------------
(***************************** PipelineStream ******************************)

\* PipelineStream::new: a packetizer with a random first number, no cache.
NewStream(codec, rtx, start) ==
    [codec |-> codec, rtx |-> rtx, sequence |-> start,
     rtx_sequence |-> 0, cache |-> <<>>, order |-> <<>>]

\* PipelineStream::update: turning RTX off forgets what could be resent.
UpdatedStream(stream, rtx) ==
    IF rtx THEN [stream EXCEPT !.rtx = TRUE]
    ELSE [stream EXCEPT !.rtx = FALSE, !.cache = <<>>, !.order = <<>>,
                        !.rtx_sequence = 0]

Keep(f, S) == [x \in DOMAIN f \cap S |-> f[x]]
Put(f, x, v) == [y \in DOMAIN f \cup {x} |-> IF y = x THEN v ELSE f[y]]
Members(seq) == {seq[i] : i \in DOMAIN seq}

\* PipelineStream::cache_media_packet.
Cached(stream, sequence, body) ==
    IF ~stream.rtx THEN stream
    ELSE LET order   == Append(stream.order, sequence)
             cache   == Put(stream.cache, sequence, body)
             expired == Len(order) > CacheMax
         IN  [stream EXCEPT
                !.order = IF expired THEN Tail(order) ELSE order,
                !.cache = IF expired THEN Keep(cache, DOMAIN cache \ {Head(order)})
                                     ELSE cache]

-----------------------------------------------------------------------------
(************************** the event loop thread **************************)

\* lock_state: the streams change only while no call is numbering packets.
StateUnlocked == \A t \in Threads : pc[t] # "prepare"

Change ==
    /\ StateUnlocked
    /\ changes < MaxChanges
    /\ changes' = changes + 1
    /\ UNCHANGED <<send_lock, pc, todo, outbox, result, observed, bodies, rtx_total, losses>>

\* A mutation of Reconfigured: a stream of another codec keeps the old cache.
ReconfiguredInherits(ssrc, codec, rtx, start) ==
    IF ssrc \in DOMAIN streams
    THEN [UpdatedStream(streams[ssrc], rtx) EXCEPT !.codec = codec,
            !.sequence = IF codec = streams[ssrc].codec THEN @ ELSE start]
    ELSE NewStream(codec, rtx, start)

\* The stream that configure_stream leaves under this SSRC.
Reconfigured(ssrc, codec, rtx, start) ==
    IF ssrc \in DOMAIN streams /\ streams[ssrc].codec = codec
    THEN UpdatedStream(streams[ssrc], rtx)
    ELSE NewStream(codec, rtx, start)

\* History: the stream under this SSRC is a new one.
Forget(S) == Keep(numbered, {x \in DOMAIN numbered : x[1] \notin S})

configure_stream(ssrc, codec, rtx, start) ==
    LET same == ssrc \in DOMAIN streams /\ streams[ssrc].codec = codec
    IN  /\ Change
        /\ streams' = Put(streams, ssrc, Reconfigured(ssrc, codec, rtx, start))
        /\ numbered' = IF same THEN numbered ELSE Forget({ssrc})
        /\ active_for' = [active_for EXCEPT ![ssrc] = IF same /\ rtx THEN @ ELSE 0]
        /\ UNCHANGED <<transport_sequence, epoch>>

retain_streams(kept) ==
    /\ Change
    /\ streams' = Keep(streams, kept)
    /\ numbered' = Forget(Ssrcs \ kept)
    /\ active_for' = [s \in Ssrcs |-> IF s \in kept THEN active_for[s] ELSE 0]
    /\ UNCHANGED <<transport_sequence, epoch>>

clear(start) ==
    /\ Change
    /\ streams' = <<>>
    /\ transport_sequence' = start
    /\ epoch' = epoch + 1
    /\ numbered' = <<>>
    /\ active_for' = [s \in Ssrcs |-> 0]

-----------------------------------------------------------------------------
(**************************** the sending threads **************************)

\* A mutation of LockSend: send_lock is not taken.
LockSendNever(t) == UNCHANGED send_lock

\* lock_send
LockSend(t) == send_lock = Nobody /\ send_lock' = t

Enter(t, work) ==
    /\ pc[t] = "idle"
    /\ LockSend(t)
    /\ StateUnlocked
    /\ pc' = [pc EXCEPT ![t] = "prepare"]
    /\ todo' = [todo EXCEPT ![t] = work]
    /\ outbox' = [outbox EXCEPT ![t] = <<>>]
    /\ result' = [result EXCEPT ![t] = Nothing]
    /\ UNCHANGED <<shared, observed, numbered, active_for, epoch, counters>>

\* send_video_frame, for a frame of n packets on a configured stream.
send_video_frame(t, ssrc, n) ==
    /\ ssrc \in DOMAIN streams          \* otherwise: "Unknown video stream SSRC"
    /\ bodies + n <= MaxBodies
    /\ Enter(t, [i \in 1..n |-> [kind |-> "media", ssrc |-> ssrc, original |-> 0]])

\* _handle_rtcp_nack / send_video_rtx_for_nack, for these sequence numbers.
send_video_rtx_for_nack(t, ssrc, sequences) ==
    /\ ssrc \in DOMAIN streams          \* otherwise nothing is resent
    /\ rtx_total + Len(sequences) <= MaxRtx
    /\ Enter(t, [i \in DOMAIN sequences |->
                    [kind |-> "rtx", ssrc |-> ssrc, original |-> sequences[i]]])

\* wrapping_add(1), before use
NextNumber(n) == (n + 1) % SeqMod

Numbered(t, packet) ==
    /\ outbox' = [outbox EXCEPT ![t] = Append(@, packet)]
    /\ result' = [result EXCEPT ![t] = packet]
    /\ transport_sequence' = packet.transport_sequence

\* prepare_video_frame_inner: one turn of its loop over the frame's packets.
PrepareMedia(t, ssrc) ==
    LET stream   == streams[ssrc]
        sequence == NextNumber(stream.sequence)
        body     == bodies + 1
    IN  /\ Numbered(t, [kind |-> "media", ssrc |-> ssrc, sequence |-> sequence,
                        original |-> sequence, body |-> body, truth |-> body,
                        transport_sequence |-> NextNumber(transport_sequence),
                        epoch |-> epoch, losses |-> losses])
        /\ streams' = [streams EXCEPT
              ![ssrc] = Cached([stream EXCEPT !.sequence = sequence], sequence, body)]
        /\ numbered' = Put(numbered, <<ssrc, sequence>>, body)
        /\ active_for' = [active_for EXCEPT ![ssrc] = IF stream.rtx THEN @ + 1 ELSE 0]
        /\ bodies' = body
        /\ UNCHANGED rtx_total

\* prepare_video_rtx_packet_inner: a packet that can still be resent.
PrepareRtx(t, ssrc, original) ==
    LET stream   == streams[ssrc]
        sequence == NextNumber(stream.rtx_sequence)
    IN  /\ stream.rtx /\ original \in DOMAIN stream.cache
        /\ Numbered(t, [kind |-> "rtx", ssrc |-> ssrc, sequence |-> sequence,
                        original |-> original, body |-> stream.cache[original],
                        truth |-> IF <<ssrc, original>> \in DOMAIN numbered
                                  THEN numbered[<<ssrc, original>>] ELSE 0,
                        transport_sequence |-> NextNumber(transport_sequence),
                        epoch |-> epoch, losses |-> losses])
        /\ streams' = [streams EXCEPT ![ssrc].rtx_sequence = sequence]
        /\ rtx_total' = rtx_total + 1
        /\ UNCHANGED <<numbered, active_for, bodies>>

\* prepare_video_rtx_packet_inner: RTX is off or the packet is no longer cached.
SkipRtx(ssrc, original) ==
    /\ ~(streams[ssrc].rtx /\ original \in DOMAIN streams[ssrc].cache)
    /\ UNCHANGED <<shared, outbox, result, numbered, active_for, bodies, rtx_total>>

\* One packet is numbered; after the last one the state lock is released.
Prepare(t) ==
    /\ pc[t] = "prepare"
    /\ LET item == Head(todo[t])
       IN  \/ item.kind = "media" /\ PrepareMedia(t, item.ssrc)
           \/ item.kind = "rtx" /\ PrepareRtx(t, item.ssrc, item.original)
           \/ item.kind = "rtx" /\ SkipRtx(item.ssrc, item.original)
    /\ todo' = [todo EXCEPT ![t] = Tail(@)]
    /\ pc' = [pc EXCEPT ![t] = IF Len(todo[t]) = 1 THEN "send" ELSE "prepare"]
    /\ UNCHANGED <<send_lock, observed, epoch, changes, losses>>

\* send_prepared_packets: the next packet goes to the socket.
SendNext(t) ==
    /\ pc[t] = "send"
    /\ outbox[t] # <<>>
    /\ LET packet == Head(outbox[t])
       IN  /\ latest' = packet
           /\ last_on' = [last_on EXCEPT ![<<packet.kind, packet.ssrc>>] = packet]
    /\ outbox' = [outbox EXCEPT ![t] = Tail(@)]
    /\ UNCHANGED <<shared, send_lock, pc, todo, result, stats, numbered, active_for,
                   epoch, counters>>

\* send_prepared_packets: the socket fails, the rest of the call is given up.
SendFails(t) ==
    /\ pc[t] = "send"
    /\ outbox[t] # <<>>
    /\ losses < MaxLosses
    /\ losses' = losses + 1
    /\ outbox' = [outbox EXCEPT ![t] = <<>>]
    /\ pc' = [pc EXCEPT ![t] = "idle"]
    /\ send_lock' = Nobody
    /\ UNCHANGED <<shared, todo, result, observed, numbered, active_for, epoch,
                   bodies, rtx_total, changes>>

\* The call returns its summary; send_lock is released.
Return(t) ==
    /\ pc[t] = "send"
    /\ outbox[t] = <<>>
    /\ pc' = [pc EXCEPT ![t] = "record"]
    /\ send_lock' = Nobody
    /\ UNCHANGED <<shared, todo, outbox, result, observed, numbered, active_for,
                   epoch, counters>>

\* _send_video_frame_raw: the frame's last packet, with one less than the
\* transport-wide number the pipeline returned.
MediaStats(summary) ==
    [sequence |-> summary.sequence,
     transport_sequence |-> (summary.transport_sequence - 1) % SeqMod]

\* _handle_rtcp_nack: the last RTX packet, with the number returned.
RtxStats(summary) ==
    [sequence |-> summary.sequence,
     transport_sequence |-> summary.transport_sequence]

\* _record_rtp_send_stats, after the call has returned (only if it sent something).
Record(t) ==
    /\ pc[t] = "record"
    /\ pc' = [pc EXCEPT ![t] = "idle"]
    /\ stats' = IF result[t] = Nothing THEN stats
                ELSE [stats EXCEPT ![<<result[t].kind, result[t].ssrc>>] =
                        IF result[t].kind = "media" THEN MediaStats(result[t])
                                                    ELSE RtxStats(result[t])]
    /\ UNCHANGED <<shared, send_lock, todo, outbox, result, latest, last_on, numbered,
                   active_for, epoch, counters>>

-----------------------------------------------------------------------------
Loop ==
    \/ \E ssrc \in Ssrcs, codec \in Codecs, rtx \in BOOLEAN, start \in Starts :
          configure_stream(ssrc, codec, rtx, start)
    \/ \E kept \in SUBSET Ssrcs : retain_streams(kept)
    \/ \E start \in Starts : clear(start)

\* The sequence numbers one RTCP NACK asks for.
NackLists(n) == UNION {[1..k -> 0..(SeqMod - 1)] : k \in 1..n}

Next ==
    \/ Loop
    \/ \E t \in Senders, ssrc \in Ssrcs, n \in 1..MaxFrame : send_video_frame(t, ssrc, n)
    \/ \E t \in Responders, ssrc \in Ssrcs, sequences \in NackLists(MaxNack) :
          send_video_rtx_for_nack(t, ssrc, sequences)
    \/ \E t \in Threads :
          Prepare(t) \/ SendNext(t) \/ SendFails(t) \/ Return(t) \/ Record(t)

Spec == Init /\ [][Next]_vars

-----------------------------------------------------------------------------
Numbers == 0..(SeqMod - 1)

\* The variables keep their types; every RTP, RTX and transport-wide number
\* stays within its 16 bits.
TypeOK ==
    /\ DOMAIN streams \subseteq Ssrcs
    /\ \A s \in DOMAIN streams :
          /\ streams[s].codec \in Codecs /\ streams[s].rtx \in BOOLEAN
          /\ streams[s].sequence \in Numbers /\ streams[s].rtx_sequence \in Numbers
          /\ streams[s].order \in Seq(Numbers)
          /\ DOMAIN streams[s].cache \subseteq Numbers
    /\ transport_sequence \in Numbers
    /\ send_lock \in Threads \cup {Nobody}
    /\ pc \in [Threads -> {"idle", "prepare", "send", "record"}]
    /\ bodies \in Nat /\ rtx_total \in Nat /\ changes \in Nat /\ losses \in Nat

\* The RTX cache holds exactly the packets numbered last, as many as it may
\* (RTX_CACHE_MAX_PACKETS) and as were numbered since RTX was turned on, and
\* rtx_order lists them from the oldest on: cache and eviction queue never
\* drift apart, across wrap-around and reconfiguration.
CacheIsRecentWindow ==
    \A s \in DOMAIN streams :
        LET stream == streams[s]
            order  == stream.order
        IN  /\ Len(order) = IF ~stream.rtx THEN 0
                            ELSE IF active_for[s] < CacheMax THEN active_for[s]
                                                             ELSE CacheMax
            /\ DOMAIN stream.cache = Members(order)
            /\ \A i \in DOMAIN order :
                  order[i] = (stream.sequence - (Len(order) - i)) % SeqMod

\* An RTX packet repeats the packet that the stream of that SSRC last sent
\* under the number it names, never one of a stream that was replaced or
\* cleared, although streams come and go while calls are in flight.
RtxTruthful ==
    \A t \in Threads : \A i \in DOMAIN outbox[t] :
        outbox[t][i].body = outbox[t][i].truth

\* Packets reach the socket in the order of their transport-wide numbers, with
\* no number left out or used twice, media and RTX packets of both threads
\* alike; only clear() and a failed call interrupt the count.
TransportConsecutive ==
    [][ (/\ latest' # latest
         /\ latest # Nothing
         /\ latest'.epoch = latest.epoch
         /\ latest'.losses = latest.losses)
        => latest'.transport_sequence = (latest.transport_sequence + 1) % SeqMod ]_vars

Quiet == losses = 0 /\ \A t \in Threads : pc[t] = "idle"

\* When no call is under way, RTPSendStats.sequence is the number of the packet
\* sent last on the SSRC, for media and RTX SSRCs.
StatsSequenceLatest ==
    Quiet => \A c \in Channels :
        last_on[c] # Nothing => stats[c].sequence = last_on[c].sequence

\* What the pipeline keeps about a stream agrees with what was sent on it: the
\* cache is the recent window, what is retransmitted is what was asked for, and
\* the statistics are those of the last packet.
SendBookkeeping == TypeOK /\ CacheIsRecentWindow /\ RtxTruthful /\ StatsSequenceLatest

\* RTPSendStats.transport_sequence, as its documentation states it: "The latest
\* RTP transport-wide sequence number sent".
StatsTransportLatest ==
    Quiet => \A c \in Channels :
        last_on[c] # Nothing =>
            stats[c].transport_sequence = last_on[c].transport_sequence
=============================================================================

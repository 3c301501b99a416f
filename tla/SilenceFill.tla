----------------------------- MODULE SilenceFill ----------------------------
(***************************************************************************)
(* SilenceFillSink (media.py).  The dispatcher writes real packets through *)
(* to the destination and then notes them in _tracks; a thread emits       *)
(* silence for tracks that have fallen quiet; cleanup stops the thread,    *)
(* waits for it for at most a second, and closes the destination.          *)
(*                                                                         *)
(* One speaker is modelled, whose packets carry a user ID or, before the   *)
(* user is known, none: a track is kept under "user" or under "ssrc".  One *)
(* tick is frame_duration.                                                 *)
(***************************************************************************)
EXTENDS Naturals, Sequences, FiniteSets

CONSTANTS
    SilenceAfter,    \* silence_after in ticks
    MaxSilence,      \* max_silence in ticks
    MaxTick,         \* bound on the clock
    MaxPackets       \* bound on the real packets

ASSUME SilenceAssumption ==
    {SilenceAfter, MaxSilence, MaxTick, MaxPackets} \subseteq Nat

VARIABLES
    tick,        \* time.perf_counter()
    tracks,      \* _tracks
    dwrite,      \* dispatcher: the track of the packet it has yet to note, or "idle"
    packets,     \* real packets written so far
    sthread,     \* where the silence thread is
    batch,       \* silence packets it has collected and not written
    stop_event,  \* _stop_event
    closing,     \* where cleanup is
    timed_out,   \* the join in cleanup timed out
    emitted,     \* history: silence made for a track since its last real packet
    stale        \* history: silence of before the last real packet, written after it

silenceVars == <<tick, tracks, dwrite, packets, sthread, batch, stop_event,
                 closing, timed_out, emitted, stale>>

Keys == {"user", "ssrc"}
NoTrack == [due |-> 0, for |-> 0, of |-> 0]
SinkClosed == closing = "closed"

SilenceInit ==
    /\ tick = 0 /\ tracks = [k \in Keys |-> NoTrack] /\ dwrite = "idle" /\ packets = 0
    /\ sthread = "wait" /\ batch = <<>>
    /\ stop_event = FALSE /\ closing = "no" /\ timed_out = FALSE
    /\ emitted = [k \in Keys |-> 0] /\ stale = [k \in Keys |-> 0]

Present(k) == tracks[k] # NoTrack

-----------------------------------------------------------------------------
(* The dispatcher                                                          *)

\* write, up to and including the call of the destination
SinkWrite(k) ==
    /\ dwrite = "idle" /\ packets < MaxPackets /\ ~SinkClosed
    /\ packets' = packets + 1
    /\ dwrite' = k
    /\ UNCHANGED <<tick, tracks, sthread, batch, stop_event, closing, timed_out, emitted, stale>>

\* _remember_audio_packet, unless the destination has been closed
Remember ==
    /\ dwrite \in Keys
    /\ dwrite' = "idle"
    /\ IF SinkClosed
       THEN UNCHANGED <<tracks, emitted, stale>>
       ELSE /\ tracks' = [tracks EXCEPT ![dwrite] =
                             [due |-> tick + SilenceAfter, for |-> 0, of |-> packets]]
            /\ emitted' = [emitted EXCEPT ![dwrite] = 0]
            /\ stale' = [stale EXCEPT ![dwrite] = 0]
    /\ UNCHANGED <<tick, packets, sthread, batch, stop_event, closing, timed_out>>

-----------------------------------------------------------------------------
(* The silence thread                                                      *)

\* The timed wait of _run ends
Wake ==
    /\ sthread = "wait"
    /\ sthread' = IF stop_event \/ SinkClosed THEN "done" ELSE "collect"
    /\ UNCHANGED <<tick, tracks, dwrite, packets, batch, stop_event, closing,
                   timed_out, emitted, stale>>

Spent(k) == Present(k) /\ tracks[k].for >= MaxSilence
Due(k) == Present(k) /\ ~Spent(k) /\ tracks[k].due <= tick

\* The silence packets one round makes for the tracks that are due
Round(due) ==
    CHOOSE s \in [1 .. Cardinality(due) -> {[key |-> k, of |-> tracks[k].of] : k \in due}] :
        \A k \in due : \E i \in DOMAIN s : s[i].key = k

(* A mutation of Collect: a round catches up on every frame that is due. *)
CollectCatchingUp ==
    /\ sthread = "collect"
    /\ LET due == {k \in Keys : Due(k)}
           n(k) == IF tick > tracks[k].due THEN 2 ELSE 1 IN
       /\ \E k \in Keys :
            batch' = IF due = {} THEN <<>>
                     ELSE IF k \in due /\ n(k) = 2 THEN Round(due) \o Round({k})
                     ELSE Round(due)
       /\ emitted' = [k \in Keys |-> IF k \in due THEN emitted[k] + 1 ELSE emitted[k]]
       /\ tracks' = [k \in Keys |->
            IF Spent(k) THEN NoTrack
            ELSE IF k \in due
            THEN [tracks[k] EXCEPT !.due = @ + n(k), !.for = @ + n(k)] ELSE tracks[k]]
    /\ sthread' = "write"
    /\ UNCHANGED <<tick, dwrite, packets, stop_event, closing, timed_out, stale>>

\* _collect_silence_packets, under the lock: at most one packet per track
Collect ==
    /\ sthread = "collect"
    /\ IF SinkClosed
       THEN sthread' = "wait" /\ UNCHANGED <<tracks, batch, emitted>>
       ELSE LET due == {k \in Keys : Due(k)} IN
            /\ batch' = Round(due)
            /\ emitted' = [k \in Keys |-> IF k \in due THEN emitted[k] + 1 ELSE emitted[k]]
            /\ tracks' = [k \in Keys |->
                 IF Spent(k) THEN NoTrack
                 ELSE IF k \in due
                 THEN [due |-> tracks[k].due + 1, for |-> tracks[k].for + 1, of |-> tracks[k].of]
                 ELSE tracks[k]]
            /\ sthread' = "write"
    /\ UNCHANGED <<tick, dwrite, packets, stop_event, closing, timed_out, stale>>

\* The check of _closed before each packet, and the end of the batch
CheckClosed ==
    /\ sthread = "write"
    /\ sthread' = IF batch = <<>> THEN "wait" ELSE IF SinkClosed THEN "done" ELSE "writing"
    /\ UNCHANGED <<tick, tracks, dwrite, packets, batch, stop_event, closing,
                   timed_out, emitted, stale>>

\* The destination's write returns (or raises, which is logged)
WriteSilence ==
    /\ sthread = "writing"
    /\ batch' = Tail(batch)
    /\ LET p == Head(batch) IN
       stale' = IF Present(p.key) /\ tracks[p.key].of # p.of
                THEN [stale EXCEPT ![p.key] = @ + 1] ELSE stale
    /\ sthread' = "write"
    /\ UNCHANGED <<tick, tracks, dwrite, packets, stop_event, closing, timed_out, emitted>>

-----------------------------------------------------------------------------
(* cleanup                                                                 *)

StopThread ==
    /\ closing = "no"
    /\ stop_event' = TRUE /\ closing' = "join"
    /\ UNCHANGED <<tick, tracks, dwrite, packets, sthread, batch, timed_out, emitted, stale>>

\* thread.join(timeout=1.0): only a destination that blocks outlasts it
JoinThread ==
    /\ closing = "join"
    /\ sthread \in {"done", "writing"}
    /\ timed_out' = (sthread = "writing")
    /\ closing' = "clear"
    /\ UNCHANGED <<tick, tracks, dwrite, packets, sthread, batch, stop_event, emitted, stale>>

\* The tracks are dropped and the sink and its destination are closed
CloseSilence ==
    /\ closing = "clear"
    /\ tracks' = [k \in Keys |-> NoTrack]
    /\ closing' = "closed"
    /\ UNCHANGED <<tick, dwrite, packets, sthread, batch, stop_event, timed_out, emitted, stale>>

Tick ==
    /\ tick < MaxTick
    /\ tick' = tick + 1
    /\ UNCHANGED <<tracks, dwrite, packets, sthread, batch, stop_event, closing,
                   timed_out, emitted, stale>>

SilenceNext ==
    \/ \E k \in Keys : SinkWrite(k)
    \/ Remember \/ Wake \/ Collect \/ CheckClosed \/ WriteSilence
    \/ StopThread \/ JoinThread \/ CloseSilence \/ Tick

SilenceSpec == SilenceInit /\ [][SilenceNext]_silenceVars

-----------------------------------------------------------------------------
\* "The default silence duration is bounded so a speaker that stops talking
\* does not produce endless output": also for the track an SSRC leaves behind
\* when its packets start to carry a user ID.
SilenceBounded == \A k \in Keys : emitted[k] <= MaxSilence

\* Once a real packet is noted, at most one silence packet of before it still
\* reaches the destination: what the thread had collected already.
OneStaleFrame == \A k \in Keys : stale[k] <= 1

\* The destination is closed after the thread that writes to it has ended,
\* unless the destination itself kept the thread from ending.
ClosedAfterThread == SinkClosed /\ ~timed_out => sthread = "done"

\* Silence is bounded, gives way to real packets, and ends before the
\* destination is closed.
SilenceIsTame == SilenceBounded /\ OneStaleFrame /\ ClosedAfterThread
=============================================================================

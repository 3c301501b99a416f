---------------------------- MODULE MediaPlayer -----------------------------
(***************************************************************************)
(* The MediaPlayer thread (player.py) over the VideoTransport: it reads    *)
(* audio and video from a source and sends them, while the application     *)
(* pauses, resumes or stops it and replaces its source with set_source.    *)
(*                                                                         *)
(* A source is one of the Kinds.  Reading and sending a packet or a frame  *)
(* are one step each; time and pacing are left out, so a source may end at *)
(* any read.                                                               *)
(***************************************************************************)
EXTENDS VideoTransport

CONSTANTS
    MaxChanges,      \* calls of set_source (bound)
    MaxDisturbances  \* pauses, disconnects and wants, with the failures before (bound)

ASSUME PlayerAssumption == MaxChanges \in Nat /\ MaxDisturbances \in Nat

VARIABLES
    at,              \* where the player thread is
    media_source,    \* media_source: its kind
    generation,      \* _source_generation
    start_future,    \* _video_transport_start: a task, or 0
    stop_on_end,     \* _stop_video_on_end
    end,             \* _end is set
    resumed,         \* _resumed is set
    error,           \* _current_error
    source, seen,    \* the thread's copies of media_source and generation, as a set
    audio_done, video_done, silence_sent,
    streams,         \* the streams that the thread is about to send on
    stop_task,       \* the stop_video it waits for
    setting,         \* set_source: what it has decided before the lock
    pauses,          \* calls of pause so far
    tail,            \* history: the last thing sent as audio
    events           \* history: what happened at an awkward moment

threadVars == <<source, seen, audio_done, video_done, silence_sent, streams, stop_task, tail>>
sharedVars == <<media_source, generation, start_future, stop_on_end>>
flagVars == <<end, resumed, error, pauses>>
playerVars == <<at, threadVars, sharedVars, flagVars, events, setting>>

Kinds == {"audio", "both", "simulcast"}
HasAudio(k) == k \in {"audio", "both"}
HasVideo(k) == k # "audio"
Idle == [kind |-> "none", future |-> 0]

\* play: the transport is started for a source with video, then the thread
Play ==
    /\ simulcast = (media_source = "simulcast")
    /\ tasks = IF HasVideo(media_source) THEN <<[kind |-> "start", at |-> "queued", want |-> {}]>>
               ELSE <<>>
    /\ start_future = Len(tasks)
    /\ stop_on_end = (start_future # 0)
    /\ asked = IF stop_on_end THEN "start" ELSE "stop"

PlayerInit ==
    /\ media_source \in Kinds
    /\ Play
    /\ TransportInit
    /\ at = "loop" /\ generation = 0 /\ end = FALSE /\ resumed = TRUE /\ error = "none"
    /\ source = media_source /\ seen = {} /\ audio_done = TRUE /\ video_done = TRUE
    /\ silence_sent = TRUE /\ streams = {} /\ stop_task = 0 /\ tail = "none"
    /\ setting = Idle /\ pauses = 0 /\ events = {}

Calm ==
    pauses + failures + (IF "offline" \in events THEN 1 ELSE 0)
        + Cardinality({i \in DOMAIN tasks : tasks[i].kind = "wants"}) < MaxDisturbances

Note(cond, e) == events' = IF cond THEN events \cup {e} ELSE events

-----------------------------------------------------------------------------
(* The application                                                         *)

\* A future that is not done is cancelled, and its coroutine with it
Cancelled(ts, f) ==
    IF f # 0 /\ ts[f].at \in {"queued", "sending"} THEN [ts EXCEPT ![f].at = "cancelled"] ELSE ts

\* set_source up to the lock
SetSource(k) ==
    /\ setting = Idle /\ generation < MaxChanges /\ Room(2)
    /\ LET restart == HasVideo(k) /\ (~codec \/ stop_on_end)
           stop == ~HasVideo(k) /\ stop_on_end
           kept == IF restart \/ stop THEN Cancelled(tasks, start_future) ELSE tasks
           kind == IF restart THEN "start" ELSE "stop"
       IN  /\ tasks' = IF restart \/ stop
                       THEN Append(kept, [kind |-> kind, at |-> "queued", want |-> {}]) ELSE tasks
           /\ asked' = IF restart \/ stop THEN kind ELSE asked
           /\ setting' = [kind |-> k, future |-> IF restart THEN Len(tasks) + 1
                                                 ELSE IF stop THEN 0 ELSE start_future]
           /\ stop_on_end' = IF restart THEN TRUE ELSE IF stop THEN FALSE ELSE stop_on_end
    /\ Note(TRUE, "changed")
    /\ UNCHANGED <<at, threadVars, media_source, generation, start_future, flagVars,
                   sendVars, simulcast, wanted, online>>

(* A mutation of SwapSource: the thread is not told that there is a new source. *)
SwapSourceSilently ==
    /\ setting # Idle
    /\ media_source' = setting.kind
    /\ start_future' = setting.future
    /\ simulcast' = (setting.kind = "simulcast")
    /\ resumed' = TRUE /\ setting' = Idle
    /\ UNCHANGED <<at, threadVars, stop_on_end, generation, end, error, pauses, events,
                   tasks, sendVars, wanted, asked, online>>

\* set_source under the lock, with _media_player_source_changed
SwapSource ==
    /\ setting # Idle
    /\ media_source' = setting.kind
    /\ start_future' = setting.future
    /\ generation' = generation + 1
    /\ simulcast' = (setting.kind = "simulcast")
    /\ tasks' = IF start_params /\ codec /\ online THEN Scheduled("apply") ELSE tasks
    /\ resumed' = TRUE
    /\ Note(at = "pick", "torn")
    /\ setting' = Idle
    /\ UNCHANGED <<at, threadVars, stop_on_end, end, error, pauses,
                   sendVars, wanted, asked, online>>

Pause ==
    /\ resumed /\ ~end /\ Calm
    /\ resumed' = FALSE /\ pauses' = pauses + 1
    /\ UNCHANGED <<at, threadVars, sharedVars, end, error, online, events, setting, transportVars>>

Resume ==
    /\ ~resumed
    /\ resumed' = TRUE
    /\ UNCHANGED <<at, threadVars, sharedVars, end, error, pauses, events, setting,
                   transportVars>>

\* AudioPlayer.stop also wakes a paused player
Stop ==
    /\ ~end
    /\ end' = TRUE /\ resumed' = TRUE
    /\ UNCHANGED <<at, threadVars, sharedVars, error, pauses, events, setting, transportVars>>

Connection ==
    /\ online \/ at # "over"
    /\ online => Calm /\ "offline" \notin events
    /\ online' = ~online
    /\ Note(TRUE, "offline")
    /\ UNCHANGED <<at, threadVars, sharedVars, flagVars, setting, tasks, sendVars, simulcast,
                   wanted, asked>>

-----------------------------------------------------------------------------
(* The thread                                                              *)

quiet == <<sharedVars, events, setting, pauses>>
Goes(from, to) == at = from /\ at' = to

\* The top of the loop: leave it, pick a new source up, wait, or go on
Loop ==
    /\ at = "loop"
    /\ at' = IF end THEN "silence"
             ELSE IF seen # {generation} THEN "pickup"
             ELSE IF ~resumed THEN "paused" ELSE "connected"
    /\ UNCHANGED <<threadVars, quiet, end, resumed, error, transportVars>>

\* A pick-up reads media_source first and the generation last
PickUp ==
    /\ Goes("pickup", "pick")
    /\ source' = media_source
    /\ audio_done' = ~HasAudio(media_source)
    /\ video_done' = ~HasVideo(media_source)
    /\ silence_sent' = ~HasAudio(media_source)
    /\ UNCHANGED <<seen, streams, stop_task, tail, quiet, end, resumed, error, transportVars>>

PickGeneration ==
    /\ Goes("pick", IF resumed THEN "connected" ELSE "paused")
    /\ seen' = {generation}
    /\ UNCHANGED <<source, audio_done, video_done, silence_sent, streams, stop_task, tail, quiet,
                   end, resumed, error, transportVars>>

\* Silence is sent before the thread waits to be resumed
Silence == HasAudio(source) /\ ~silence_sent
Paused ==
    /\ Goes("paused", "wait")
    /\ silence_sent' = TRUE
    /\ tail' = IF Silence THEN "silence" ELSE tail
    /\ UNCHANGED <<source, seen, audio_done, video_done, streams, stop_task, quiet, end, resumed,
                   error, transportVars>>

Woken ==
    /\ resumed /\ Goes("wait", "loop")
    /\ UNCHANGED <<threadVars, quiet, end, resumed, error, transportVars>>

\* Without a connection the player waits for it, for so long, and gives up
Connected ==
    /\ at = "connected"
    /\ \/ online /\ at' = "read"
       \/ ~online /\ at' = "finally"
    /\ UNCHANGED <<threadVars, quiet, end, resumed, error, transportVars>>

\* One packet of audio, the end of it, or not yet the time for one
ReadAudio ==
    /\ Goes("read", "video")
    /\ \/ UNCHANGED <<audio_done, silence_sent, tail>>
       \/ /\ ~audio_done
          /\ silence_sent' = FALSE /\ tail' = "audio"
          /\ UNCHANGED audio_done
       \/ /\ ~audio_done
          /\ audio_done' = TRUE
          /\ silence_sent' = (silence_sent \/ ~video_done)
          /\ tail' = IF ~video_done /\ ~silence_sent /\ online THEN "silence" ELSE tail
    /\ UNCHANGED <<source, seen, video_done, streams, stop_task, quiet, end, resumed, error,
                   transportVars>>

(* A mutation of TransportStarted: a start that is not done counts as failed. *)
TransportStartedNow ==
    /\ at = "video"
    /\ at' = IF video_done THEN "next" ELSE IF start_future = 0 THEN "streams"
             ELSE IF tasks[start_future].at = "done" THEN "started" ELSE "refused"
    /\ error' = IF at' = "refused" THEN "start" ELSE error
    /\ end' = (end \/ at' = "refused") /\ resumed' = (resumed \/ at' = "refused")
    /\ UNCHANGED <<threadVars, quiet, transportVars>>

\* _video_transport_started, up to the result of the future: a failed or
\* cancelled start stops the player
TransportStarted ==
    /\ at = "video"
    /\ at' = IF video_done THEN "next" ELSE IF start_future = 0 THEN "streams"
             ELSE CASE tasks[start_future].at \in {"queued", "sending"} -> "next"
                    [] tasks[start_future].at = "done" -> "started"
                    [] OTHER -> "refused"
    /\ error' = IF at' = "refused" THEN "start" ELSE error
    /\ end' = (end \/ at' = "refused") /\ resumed' = (resumed \/ at' = "refused")
    /\ UNCHANGED <<threadVars, quiet, transportVars>>

\* Its finally clause, which may forget a future that set_source has just set
ForgetFuture ==
    /\ Goes("started", "streams") \/ Goes("refused", "next")
    /\ start_future' = 0
    /\ UNCHANGED <<threadVars, media_source, generation, stop_on_end, events, setting, flagVars,
                   transportVars>>

\* The streams that are active now; a player stopped here ends without silence
ReadStreams ==
    /\ at = "streams"
    /\ streams' = active
    /\ at' = IF end THEN "finally" ELSE IF active = {} THEN "next" ELSE "frames"
    /\ Note(end, "cut")
    /\ UNCHANGED <<source, seen, audio_done, video_done, silence_sent, stop_task, tail, sharedVars,
                   setting, flagVars, transportVars>>

\* read_video_streams: frames, none at the moment, or the end of the video; then
\* send_video_frames looks the streams up, and those that are gone are left out
ReadFrames ==
    /\ at = "frames"
    /\ \/ /\ streams' = streams \cap active
          /\ at' = IF streams' = {} THEN "next" ELSE "send"
          /\ UNCHANGED video_done
       \/ at' = "next" /\ video_done' = TRUE /\ streams' = {}
       \/ at' = "next" /\ streams' = {} /\ UNCHANGED video_done
    /\ UNCHANGED <<source, seen, audio_done, silence_sent, stop_task, tail, quiet, end, resumed,
                   error, transportVars>>

\* send_video_frame raises if the connection, the codec or the stream is gone;
\* a source that is behind may have another frame in the same round
SendFrames ==
    /\ at = "send"
    /\ IF online /\ codec /\ streams \subseteq configured
       THEN at' \in {"next", "video"} /\ UNCHANGED error
       ELSE at' = "finally" /\ error' = "send"
    /\ streams' = {}
    /\ UNCHANGED <<source, seen, audio_done, video_done, silence_sent, stop_task, tail, quiet,
                   end, resumed, transportVars>>

\* The bottom of the loop: both are done, or the source says it is finished
Bottom ==
    /\ at = "next"
    /\ \/ at' = "silence" /\ end' = TRUE /\ resumed' = TRUE
       \/ ~(audio_done /\ video_done) /\ at' = "loop" /\ UNCHANGED <<end, resumed>>
    /\ UNCHANGED <<threadVars, quiet, error, transportVars>>

LastSilence ==
    /\ Goes("silence", "finally")
    /\ tail' = IF Silence /\ online THEN "silence" ELSE tail
    /\ UNCHANGED <<source, seen, audio_done, video_done, silence_sent, streams, stop_task, quiet,
                   end, resumed, error, transportVars>>

(* A mutation of StopTransport: the transport is left to whoever comes next. *)
StopTransportNot ==
    /\ at = "finally"
    /\ at' = "finished" /\ UNCHANGED <<tasks, asked, stop_task>>
    /\ UNCHANGED <<source, seen, audio_done, video_done, silence_sent, streams, tail, quiet,
                   end, resumed, error, sendVars, simulcast, wanted, online>>

\* The finally clause of _do_run
StopTransport ==
    /\ at = "finally"
    /\ IF stop_on_end
       THEN /\ tasks' = Scheduled("stop") /\ asked' = "stop"
            /\ stop_task' = Len(tasks) + 1 /\ at' = "waiting"
       ELSE at' = "finished" /\ UNCHANGED <<tasks, asked, stop_task>>
    /\ UNCHANGED <<source, seen, audio_done, video_done, silence_sent, streams, tail, quiet,
                   end, resumed, error, sendVars, simulcast, wanted, online>>

(* A mutation of AwaitStop: the player waits without a timeout, for a success. *)
AwaitStopForever ==
    /\ Goes("waiting", "finished")
    /\ tasks[stop_task].at = "done"
    /\ UNCHANGED <<threadVars, quiet, end, resumed, error, transportVars>>

\* future.result with a timeout: an error and a timeout are logged
AwaitStop ==
    /\ Goes("waiting", "finished")
    /\ UNCHANGED <<threadVars, quiet, end, resumed, error, transportVars>>

\* run: after is called and the source of the moment is cleaned up
Finish ==
    /\ Goes("finished", "over")
    /\ end' = TRUE
    /\ UNCHANGED <<threadVars, quiet, resumed, error, transportVars>>

ThreadStep ==
    \/ Loop \/ PickUp \/ PickGeneration \/ Paused \/ Woken \/ Connected
    \/ ReadAudio \/ TransportStarted \/ ForgetFuture \/ ReadStreams \/ ReadFrames \/ SendFrames
    \/ Bottom \/ LastSilence \/ StopTransport \/ AwaitStop \/ Finish

AppStep ==
    \/ \E k \in Kinds : SetSource(k)
    \/ SwapSource \/ Pause \/ Resume \/ Stop \/ Connection

Server == \E w \in SUBSET (ToSet(Streams) \ {Top}) : Calm /\ ServerWants(w) /\ UNCHANGED playerVars

Coroutine == \E i \in DOMAIN tasks : LoopStep(i) /\ UNCHANGED playerVars

PlayerNext == ThreadStep \/ AppStep \/ Server \/ Coroutine

PlayerSpec == PlayerInit /\ [][PlayerNext]_<<playerVars, transportVars>>

\* The operating system runs the player thread and a set_source that has begun
PlayerFairness == WF_<<playerVars, transportVars>>(ThreadStep) /\ WF_<<playerVars, transportVars>>(SwapSource)

-----------------------------------------------------------------------------
\* Between two rounds the thread plays the source that was set last, unless
\* set_source fell exactly between its two reads: then the new source is never
\* played.
PlaysCurrentSource ==
    at \in {"loop", "wait"} /\ seen = {generation} /\ "torn" \notin events => source = media_source

\* A player that ends by itself or by stop has sent silence after its last audio,
\* so that receivers do not interpolate; not when it lost the connection, was
\* given another source, failed, or was stopped in the middle of a round.
SilenceAfterAudio ==
    at = "over" /\ error = "none" /\ events = {} => tail # "audio"

\* Playing one source to a server whose messages get through does not fail: the
\* start of the transport is waited for, and no frame is sent without it.  A
\* receiver that no longer wants a simulcast stream can still end the player.
PlayerSurvives ==
    error # "none" => \/ failures > 0 \/ simulcast
                      \/ events \cap {"changed", "offline"} # {}

\* A transport that play started is off again when the player is over, and the
\* server knows, unless the source or the wants of the server changed.
StoppedAtEnd ==
    /\ at = "over" /\ Settled /\ failures = 0 /\ "changed" \notin events
    /\ \A i \in DOMAIN tasks : tasks[i].kind # "wants"
    => ~codec /\ active = {} /\ told = Off

\* A player that is over has ended its audio with silence and turned off the
\* transport it started.
EndsCleanly == SilenceAfterAudio /\ StoppedAtEnd

\* A stopped player ends, also when it is paused, not connected, waiting for its
\* transport to start, or when stopping the transport fails.
PlayerStops == end ~> at = "over"
=============================================================================

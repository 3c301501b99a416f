--------------------------- MODULE VideoTransport ---------------------------
(***************************************************************************)
(* The outgoing video of a VoiceClient (client.py): which streams are      *)
(* configured and sent on, and what the voice server has been told of it.  *)
(*                                                                         *)
(* start_video, stop_video, on_media_sink_wants and the re-selection after *)
(* a change of source are coroutines of one event loop.  Each runs without *)
(* interruption up to its video_state message, which is written to the     *)
(* websocket at once, and goes on some time later; others run in between.  *)
(* Coroutines begin in the order in which they were scheduled.             *)
(***************************************************************************)
EXTENDS Naturals, Sequences, FiniteSets, SequencesExt

CONSTANTS
    Streams,        \* the negotiated streams, in order
    Top,            \* the one of quality 100
    MaxTasks,       \* coroutines scheduled (bound)
    MaxFailures     \* messages that fail to be sent (bound)

ASSUME TransportAssumption ==
    /\ Streams \in Seq(STRING) /\ Top \in ToSet(Streams)
    /\ MaxTasks \in Nat /\ MaxFailures \in Nat

VARIABLES
    tasks,          \* the coroutines: kind and progress
    codec,          \* _video_codec is set
    start_params,   \* _video_start_params is set
    active,         \* _active_video_streams
    configured,     \* streams of the send pipeline
    last_state,     \* _last_video_state
    simulcast,      \* _video_source_supports_simulcast
    wanted,         \* streams that the remote receivers want
    online,         \* is_connected()
    told,           \* history: the last video_state the server got
    failures,       \* messages that failed so far
    asked           \* history: whether start or stop was scheduled last

sendVars == <<codec, start_params, active, configured, last_state, told, failures>>
transportVars == <<tasks, sendVars, simulcast, wanted, asked, online>>

Off == [primary |-> "none", streams |-> {}]
Unknown == [primary |-> "unknown", streams |-> {}]

TransportInit ==
    /\ codec = FALSE /\ start_params = FALSE
    /\ active = {} /\ configured = {} /\ last_state = Unknown
    /\ online = TRUE /\ wanted = {} /\ told = Off /\ failures = 0

Scheduled(kind) == Append(tasks, [kind |-> kind, at |-> "queued", want |-> {}])
Room(n) == Len(tasks) + n <= MaxTasks
Begins(i) == tasks[i].at = "queued" /\ \A j \in 1 .. i - 1 : tasks[j].at # "queued"
Suspended == {i \in DOMAIN tasks : tasks[i].at = "sending"}
Settled == \A i \in DOMAIN tasks : tasks[i].at \notin {"queued", "sending"}

-----------------------------------------------------------------------------
\* _video_stream_should_send, by receiver reports and media sink wants
ShouldSend(s, w) == s = Top \/ s \in w

\* _select_active_video_streams
SelectActive(w) ==
    IF ~simulcast THEN {Top}
    ELSE {s \in ToSet(Streams) : ShouldSend(s, w)}

\* What _announce_video_state sends for the selection
VideoState(sel) ==
    [primary |-> SelectSeq(Streams, LAMBDA s : s \in sel)[1],
     streams |-> IF simulcast THEN ToSet(Streams) ELSE sel]

\* A video_state message leaves, or the websocket fails
Tell(i, state) ==
    \/ /\ told' = state
       /\ tasks' = [tasks EXCEPT ![i].at = "sending"]
       /\ UNCHANGED failures
    \/ /\ failures < MaxFailures
       /\ failures' = failures + 1
       /\ tasks' = [tasks EXCEPT ![i].at = "failed"]
       /\ UNCHANGED told

\* _announce_video_state: the state is noted, then sent unless it is the old one
AnnounceVideoState(i, state, force) ==
    IF ~force /\ state = last_state
    THEN /\ tasks' = [tasks EXCEPT ![i].at = "done"]
         /\ UNCHANGED <<last_state, told, failures>>
    ELSE last_state' = state /\ Tell(i, state)

\* _apply_selected_video_stream up to its message
ApplySelected(i, w, reset) ==
    /\ codec' = TRUE
    /\ active' = SelectActive(w)
    /\ configured' = SelectActive(w)
    /\ AnnounceVideoState(i, VideoState(SelectActive(w)), reset)

StartVideo(i) ==
    /\ tasks[i].kind = "start" /\ Begins(i)
    /\ IF online
       THEN start_params' = TRUE /\ ApplySelected(i, wanted, TRUE)
       ELSE tasks' = [tasks EXCEPT ![i].at = "failed"] /\ UNCHANGED sendVars
    /\ UNCHANGED <<simulcast, wanted, asked, online>>

\* The re-selection that _media_player_source_changed scheduled
Reselect(i) ==
    /\ tasks[i].kind = "apply" /\ Begins(i)
    /\ ApplySelected(i, wanted, FALSE)
    /\ UNCHANGED <<start_params, simulcast, wanted, asked, online>>

(* A mutation of StopVideo: the state announced last is still remembered. *)
StopVideoRemembering(i) ==
    /\ tasks[i].kind = "stop" /\ Begins(i)
    /\ Tell(i, Off)
    /\ UNCHANGED <<codec, start_params, active, configured, last_state, simulcast, wanted, asked, online>>

\* stop_video up to its message; if that fails nothing else is cleared
StopVideo(i) ==
    /\ tasks[i].kind = "stop" /\ Begins(i)
    /\ last_state' = Unknown
    /\ Tell(i, Off)
    /\ UNCHANGED <<codec, start_params, active, configured, simulcast, wanted, asked, online>>

\* The rest of stop_video
ClearVideo(i) ==
    /\ tasks[i].kind = "stop" /\ i \in Suspended
    /\ codec' = FALSE /\ start_params' = FALSE /\ active' = {} /\ configured' = {}
    /\ tasks' = [tasks EXCEPT ![i].at = "done"]
    /\ UNCHANGED <<last_state, told, failures, simulcast, wanted, asked, online>>

\* The rest of the others starts or stops the RTCP listener only
Resumed(i) ==
    /\ tasks[i].kind # "stop" /\ i \in Suspended
    /\ tasks' = [tasks EXCEPT ![i].at = "done"]
    /\ UNCHANGED <<sendVars, simulcast, wanted, asked, online>>

\* The gateway hands a message of the server to on_media_sink_wants
ServerWants(w) ==
    /\ Room(1) /\ w # wanted
    /\ tasks' = Append(tasks, [kind |-> "wants", at |-> "queued", want |-> w])
    /\ UNCHANGED <<sendVars, simulcast, wanted, asked, online>>

OnMediaSinkWants(i) ==
    /\ tasks[i].kind = "wants" /\ Begins(i)
    /\ wanted' = tasks[i].want
    /\ IF start_params /\ codec
       THEN ApplySelected(i, wanted', FALSE) /\ UNCHANGED start_params
       ELSE tasks' = [tasks EXCEPT ![i].at = "done"] /\ UNCHANGED sendVars
    /\ UNCHANGED <<simulcast, asked, online>>

LoopStep(i) ==
    \/ StartVideo(i) \/ Reselect(i) \/ OnMediaSinkWants(i)
    \/ StopVideo(i) \/ ClearVideo(i) \/ Resumed(i)

-----------------------------------------------------------------------------
\* Frames are sent on exactly the streams that the pipeline has been given, and
\* on none when there is no codec, however starts, stops and re-selections overlap.
ActiveIsConfigured ==
    /\ active = configured
    /\ active # {} <=> codec

\* What the client takes the server to know is what it knows: a later state
\* that is equal is then rightly not sent again.  A failed message breaks this.
NotedIsTold == failures = 0 /\ last_state # Unknown => told = last_state

\* Client, pipeline and server agree about the video that is sent, at every await
\* of start_video, stop_video and on_media_sink_wants.
TransportAgrees == ActiveIsConfigured /\ NotedIsTold

\* The docstring of stop_video, "Stop outbound video and reset video transport
\* state": when all is settled after a stop the server has been told so.
StopIsTold == failures = 0 /\ asked = "stop" /\ Settled => told = Off
=============================================================================

-------------------------- MODULE MediaPlayerProofs --------------------------
(***************************************************************************)
(* Proofs about the MediaPlayer thread with its transport, and about the   *)
(* FFmpegVideoSource that it may play.  The player's invariant says what   *)
(* the tasks on the loop, the thread and set_source hold of one another;   *)
(* that of the source, where every chunk is and who may still touch a pipe.*)
(***************************************************************************)
EXTENDS MediaPlayer, FFmpegSource, SequenceTheorems, TLAPS

TaskKinds == {"start", "apply", "stop", "wants"}
TaskStates == {"queued", "sending", "done", "failed", "cancelled"}
Task == [kind : TaskKinds, at : TaskStates, want : SUBSET ToSet(Streams)]

TaskTypes ==
    /\ tasks \in Seq(Task)
    /\ start_future \in 0 .. Len(tasks)
    /\ setting.future \in 0 .. Len(tasks)
    /\ failures \in Nat

Places == {"loop", "pickup", "pick", "paused", "wait", "connected", "read", "video", "started",
           "refused", "streams", "frames", "send", "next", "silence", "finally", "waiting",
           "finished", "over"}

ThreadTypes ==
    /\ at \in Places
    /\ generation \in Nat /\ seen \subseteq 0 .. generation

\* What has happened is remembered: set_source from its beginning, and that the
\* connection was lost.
EventTypes ==
    /\ events \subseteq {"changed", "torn", "offline", "cut"}
    /\ setting # Idle => "changed" \in events
    /\ "offline" \notin events => online

-----------------------------------------------------------------------------
(***************************** the coroutines ******************************)

\* A coroutine that goes on changes its own progress only.
LEMMA TaskMoves ==
    ASSUME NEW ts \in Seq(Task), NEW i \in DOMAIN ts, NEW s \in TaskStates, NEW tn,
           tn = [ts EXCEPT ![i].at = s]
    PROVE  /\ tn \in Seq(Task) /\ Len(tn) = Len(ts) /\ DOMAIN tn = DOMAIN ts
           /\ tn[i].at = s /\ tn[i].kind = ts[i].kind /\ tn[i].want = ts[i].want
           /\ \A j \in DOMAIN ts \ {i} : tn[j] = ts[j]
  <1>1. tn = [ts EXCEPT ![i] = [ts[i] EXCEPT !.at = s]]
    OBVIOUS
  <1>2. ts[i] \in Task
    OBVIOUS
  <1>3. [ts[i] EXCEPT !.at = s] \in Task
    BY <1>2 DEF Task
  <1> DEFINE t == [ts[i] EXCEPT !.at = s]
  <1>4. t \in Task /\ t.at = s /\ t.kind = ts[i].kind /\ t.want = ts[i].want
    BY <1>2, <1>3 DEF Task
  <1>5. tn = [ts EXCEPT ![i] = t]
    BY <1>1
  <1> HIDE DEF t
  <1> QED
    BY <1>4, <1>5

\* One that is scheduled comes last.
LEMMA TaskScheduled ==
    ASSUME NEW ts \in Seq(Task), NEW t \in Task, NEW tn, tn = Append(ts, t)
    PROVE  /\ tn \in Seq(Task) /\ Len(tn) = Len(ts) + 1 /\ DOMAIN tn = 1 .. Len(ts) + 1
           /\ tn[Len(ts) + 1] = t
           /\ \A j \in DOMAIN ts : tn[j] = ts[j]
  OBVIOUS

\* A message leaves or fails.
LEMMA Telling ==
    ASSUME failures \in Nat, NEW i, NEW state, Tell(i, state)
    PROVE  /\ \E s \in {"sending", "failed"} : tasks' = [tasks EXCEPT ![i].at = s]
           /\ failures' \in {failures, failures + 1}
           /\ failures' = failures =>
                told' = state /\ tasks' = [tasks EXCEPT ![i].at = "sending"]
  BY TransportAssumption DEF Tell

\* What _apply_selected_video_stream does besides.
LEMMA Applying ==
    ASSUME failures \in Nat, NEW i, NEW w, NEW reset, ApplySelected(i, w, reset)
    PROVE  /\ \E s \in TaskStates : tasks' = [tasks EXCEPT ![i].at = s]
           /\ failures' \in {failures, failures + 1}
           /\ codec' = TRUE /\ active' = SelectActive(w) /\ configured' = SelectActive(w)
  BY Telling DEF ApplySelected, AnnounceVideoState, TaskStates

\* A step of a coroutine, in what matters to the tasks.
LEMMA CoroutineMoves ==
    ASSUME TaskTypes, NEW i \in DOMAIN tasks, LoopStep(i)
    PROVE  /\ \E s \in TaskStates : tasks' = [tasks EXCEPT ![i].at = s]
           /\ failures' \in {failures, failures + 1}
  <1>1. CASE StartVideo(i)
    BY <1>1, Applying DEF StartVideo, sendVars, TaskStates, TaskTypes
  <1>2. CASE Reselect(i)
    BY <1>2, Applying DEF Reselect, TaskTypes
  <1>3. CASE OnMediaSinkWants(i)
    BY <1>3, Applying DEF OnMediaSinkWants, sendVars, TaskStates, TaskTypes
  <1>4. CASE StopVideo(i)
    BY <1>4, Telling DEF StopVideo, TaskStates, TaskTypes
  <1>5. CASE ClearVideo(i) \/ Resumed(i)
    BY <1>5 DEF ClearVideo, Resumed, sendVars, TaskStates
  <1> QED
    BY <1>1, <1>2, <1>3, <1>4, <1>5 DEF LoopStep

\* Every step keeps the types of the tasks and of what points at them.
LEMMA TaskTypesStep ==
    ASSUME TaskTypes, [PlayerNext]_<<playerVars, transportVars>>
    PROVE  TaskTypes'
  <1> USE DEF transportVars, sharedVars, quiet, sendVars
  <1>1. CASE UNCHANGED <<tasks, failures, start_future, setting>>
    BY <1>1 DEF TaskTypes
  <1>2. CASE ForgetFuture
    BY <1>2 DEF ForgetFuture, TaskTypes
  <1>3. CASE StopTransport
    <2>1. [kind |-> "stop", at |-> "queued", want |-> {}] \in Task
      BY DEF Task, TaskKinds, TaskStates
    <2>2. UNCHANGED <<failures, start_future, setting>>
      BY <1>3 DEF StopTransport
    <2>3. CASE tasks' = tasks
      BY <2>2, <2>3 DEF TaskTypes
    <2>4. CASE tasks' = Scheduled("stop")
      BY <2>1, <2>2, <2>4, TaskScheduled DEF TaskTypes, Scheduled
    <2> QED
      BY <1>3, <2>3, <2>4 DEF StopTransport
  <1>4. ASSUME NEW k \in Kinds, SetSource(k)
        PROVE  TaskTypes'
    <2> DEFINE restart == HasVideo(k) /\ (~codec \/ stop_on_end)
               stop == ~HasVideo(k) /\ stop_on_end
               kept == Cancelled(tasks, start_future)
               kind == IF restart THEN "start" ELSE "stop"
               task == [kind |-> kind, at |-> "queued", want |-> {}]
    <2>1. UNCHANGED <<failures, start_future>>
      BY <1>4 DEF SetSource
    <2>2. /\ tasks' = IF restart \/ stop THEN Append(kept, task) ELSE tasks
          /\ setting'.future = IF restart THEN Len(tasks) + 1
                               ELSE IF stop THEN 0 ELSE start_future
      BY <1>4 DEF SetSource
    <2>3. kept \in Seq(Task) /\ Len(kept) = Len(tasks)
      <3>1. CASE kept = tasks
        BY <3>1 DEF TaskTypes
      <3>2. CASE start_future # 0 /\ kept = [tasks EXCEPT ![start_future].at = "cancelled"]
        <4>1. tasks \in Seq(Task) /\ start_future \in DOMAIN tasks /\ "cancelled" \in TaskStates
          BY <3>2 DEF TaskTypes, TaskStates
        <4> HIDE DEF kept
        <4> QED
          BY <3>2, <4>1, TaskMoves
      <3> QED
        BY <3>1, <3>2 DEF Cancelled
    <2>4. task \in Task
      BY DEF Task, TaskKinds, TaskStates
    <2> HIDE DEF restart, stop, kept, task
    <2>5. CASE restart \/ stop
      <3>1. tasks' \in Seq(Task) /\ Len(tasks') = Len(tasks) + 1
        BY <2>2, <2>3, <2>4, <2>5, TaskScheduled
      <3> QED
        BY <2>1, <2>2, <3>1 DEF TaskTypes
    <2>6. CASE ~(restart \/ stop)
      BY <2>1, <2>2, <2>6 DEF TaskTypes
    <2> QED
      BY <2>5, <2>6
  <1>5. CASE SwapSource
    <2>1. [kind |-> "apply", at |-> "queued", want |-> {}] \in Task
      BY DEF Task, TaskKinds, TaskStates
    <2>2. start_future' = setting.future /\ setting'.future = 0 /\ failures' = failures
      BY <1>5 DEF SwapSource, Idle
    <2>3. CASE tasks' = tasks
      BY <2>2, <2>3 DEF TaskTypes
    <2>4. CASE tasks' = Scheduled("apply")
      BY <2>1, <2>2, <2>4, TaskScheduled DEF TaskTypes, Scheduled
    <2> QED
      BY <1>5, <2>3, <2>4 DEF SwapSource
  <1>6. CASE Server
    <2> PICK w \in SUBSET (ToSet(Streams) \ {Top}) : ServerWants(w) /\ UNCHANGED playerVars
      BY <1>6 DEF Server
    <2>1. [kind |-> "wants", at |-> "queued", want |-> w] \in Task
      BY DEF Task, TaskKinds, TaskStates
    <2>2. UNCHANGED <<failures, start_future, setting>>
      BY DEF ServerWants, playerVars
    <2>3. tasks \in Seq(Task) /\ tasks' = Append(tasks, [kind |-> "wants", at |-> "queued", want |-> w])
      BY DEF TaskTypes, ServerWants
    <2>4. tasks' \in Seq(Task) /\ Len(tasks') = Len(tasks) + 1
      BY <2>1, <2>3, TaskScheduled
    <2> QED
      BY <2>2, <2>4 DEF TaskTypes
  <1>7. CASE Coroutine
    <2> PICK i \in DOMAIN tasks : LoopStep(i) /\ UNCHANGED playerVars
      BY <1>7 DEF Coroutine
    <2>1. PICK s \in TaskStates : tasks' = [tasks EXCEPT ![i].at = s]
      BY CoroutineMoves
    <2>2. failures' \in Nat
      BY CoroutineMoves DEF TaskTypes
    <2>3. tasks \in Seq(Task)
      BY DEF TaskTypes
    <2>4. tasks' \in Seq(Task) /\ Len(tasks') = Len(tasks)
      BY <2>1, <2>3, TaskMoves
    <2>5. UNCHANGED <<start_future, setting>>
      BY DEF playerVars
    <2> QED
      BY <2>2, <2>4, <2>5 DEF TaskTypes
  <1>8. CASE ThreadStep /\ ~ForgetFuture /\ ~StopTransport
    BY <1>1, <1>8
    DEF ThreadStep, Loop, PickUp, PickGeneration, Paused, Woken, Connected, ReadAudio,
        TransportStarted, ReadStreams, ReadFrames, SendFrames, Bottom, LastSilence, AwaitStop, Finish
  <1>9. CASE Pause \/ Resume \/ Stop \/ Connection
    BY <1>1, <1>9 DEF Pause, Resume, Stop, Connection
  <1>10. CASE UNCHANGED <<playerVars, transportVars>>
    BY <1>1, <1>10 DEF playerVars
  <1> QED
    BY <1>2, <1>3, <1>4, <1>5, <1>6, <1>7, <1>8, <1>9, <1>10 DEF PlayerNext, AppStep

\* Every step keeps the types of what the thread has.
LEMMA ThreadTypesStep ==
    ASSUME ThreadTypes, [PlayerNext]_<<playerVars, transportVars>>
    PROVE  ThreadTypes'
  <1> USE DEF ThreadTypes, Places, playerVars, threadVars, sharedVars, quiet, Goes
  <1>1. CASE UNCHANGED <<at, generation, seen>>
    BY <1>1
  <1>2. CASE Loop \/ PickUp \/ Paused \/ Woken \/ Connected \/ ReadAudio \/ TransportStarted
    BY <1>2 DEF Loop, PickUp, Paused, Woken, Connected, ReadAudio, TransportStarted
  <1>3. CASE ForgetFuture \/ ReadStreams \/ ReadFrames \/ SendFrames \/ Bottom
    BY <1>3 DEF ForgetFuture, ReadStreams, ReadFrames, SendFrames, Bottom
  <1>4. CASE LastSilence \/ StopTransport \/ AwaitStop \/ Finish
    BY <1>4 DEF LastSilence, StopTransport, AwaitStop, Finish
  <1>5. CASE PickGeneration
    BY <1>5 DEF PickGeneration
  <1>6. CASE SwapSource
    BY <1>6 DEF SwapSource
  <1>7. ASSUME NEW k \in Kinds, SetSource(k)
        PROVE  ThreadTypes'
    BY <1>1, <1>7 DEF SetSource
  <1>8. CASE Pause \/ Resume \/ Stop \/ Connection
    BY <1>1, <1>8 DEF Pause, Resume, Stop, Connection
  <1>9. CASE Server \/ Coroutine
    BY <1>1, <1>9 DEF Server, Coroutine
  <1>10. CASE UNCHANGED <<playerVars, transportVars>>
    BY <1>1, <1>10
  <1> QED
    BY <1>2, <1>3, <1>4, <1>5, <1>6, <1>7, <1>8, <1>9, <1>10 DEF PlayerNext, AppStep, ThreadStep

\* Every step keeps the record of what has happened.
LEMMA EventTypesStep ==
    ASSUME EventTypes, [PlayerNext]_<<playerVars, transportVars>>
    PROVE  EventTypes'
  <1> USE DEF EventTypes, playerVars, transportVars, quiet, Note
  <1>1. CASE UNCHANGED <<events, setting, online>>
    BY <1>1
  <1>2. CASE ThreadStep /\ ~ReadStreams
    BY <1>1, <1>2
    DEF ThreadStep, Loop, PickUp, PickGeneration, Paused, Woken, Connected, ReadAudio,
        TransportStarted, ForgetFuture, ReadFrames, SendFrames, Bottom, LastSilence, StopTransport,
        AwaitStop, Finish
  <1>3. CASE ReadStreams
    BY <1>3 DEF ReadStreams
  <1>4. ASSUME NEW k \in Kinds, SetSource(k)
        PROVE  EventTypes'
    BY <1>4 DEF SetSource
  <1>5. CASE SwapSource
    BY <1>5 DEF SwapSource
  <1>6. CASE Connection
    BY <1>6 DEF Connection
  <1>7. CASE Pause \/ Resume \/ Stop
    BY <1>1, <1>7 DEF Pause, Resume, Stop
  <1>8. CASE Server
    BY <1>1, <1>8 DEF Server, ServerWants
  <1>9. ASSUME NEW i \in DOMAIN tasks, LoopStep(i), UNCHANGED playerVars
        PROVE  EventTypes'
    <2>1. online' = online
      BY <1>9 DEF LoopStep, StartVideo, Reselect, OnMediaSinkWants, StopVideo, ClearVideo, Resumed
    <2> QED
      BY <1>1, <1>9, <2>1
  <1>10. CASE UNCHANGED <<playerVars, transportVars>>
    BY <1>1, <1>10
  <1> QED
    BY <1>2, <1>3, <1>4, <1>5, <1>6, <1>7, <1>8, <1>9, <1>10
    DEF PlayerNext, AppStep, ThreadStep, Coroutine

-----------------------------------------------------------------------------
(***************************** the transport *******************************)

\* Only coroutines change what is sent and announced.
LEMMA OthersKeepSending ==
    ASSUME ThreadStep \/ AppStep \/ Server
    PROVE  UNCHANGED sendVars
  <1> USE DEF transportVars
  <1>1. CASE ThreadStep
    BY <1>1
    DEF ThreadStep, Loop, PickUp, PickGeneration, Paused, Woken, Connected, ReadAudio,
        TransportStarted, ForgetFuture, ReadStreams, ReadFrames, SendFrames, Bottom, LastSilence,
        StopTransport, AwaitStop, Finish
  <1>2. CASE AppStep
    BY <1>2 DEF AppStep, SetSource, SwapSource, Pause, Resume, Stop, Connection
  <1>3. CASE Server
    BY <1>3 DEF Server, ServerWants
  <1> QED
    BY <1>1, <1>2, <1>3

\* The stream of quality 100 is always among those selected.
LEMMA TopIsSelected == \A w : Top \in SelectActive(w)
  BY TransportAssumption DEF SelectActive, ShouldSend

\* Every step of a coroutine keeps client, pipeline and server in agreement.
LEMMA CoroutineAgrees ==
    ASSUME failures \in Nat, TransportAgrees, NEW i \in DOMAIN tasks, LoopStep(i)
    PROVE  TransportAgrees'
  <1> USE DEF TransportAgrees, ActiveIsConfigured, NotedIsTold
  <1>1. ASSUME NEW w, NEW reset, ApplySelected(i, w, reset)
        PROVE  TransportAgrees'
    <2>1. ActiveIsConfigured'
      <3>1. active' = SelectActive(w) /\ configured' = SelectActive(w) /\ codec'
        BY <1>1, Applying
      <3> QED
        BY <3>1, TopIsSelected
    <2>2. CASE UNCHANGED <<last_state, told, failures>>
      BY <2>1, <2>2
    <2>3. ASSUME NEW state, last_state' = state, Tell(i, state)
          PROVE  NotedIsTold'
      <3>1. failures' = failures => told' = last_state'
        BY <2>3, Telling
      <3>2. failures' # failures => failures' # 0
        BY <2>3, Telling
      <3> QED
        BY <3>1, <3>2
    <2> QED
      BY <1>1, <2>1, <2>2, <2>3 DEF ApplySelected, AnnounceVideoState
  <1>2. CASE UNCHANGED sendVars
    BY <1>2 DEF sendVars
  <1>3. CASE StartVideo(i)
    BY <1>1, <1>2, <1>3 DEF StartVideo
  <1>4. CASE Reselect(i)
    BY <1>1, <1>4 DEF Reselect
  <1>5. CASE OnMediaSinkWants(i)
    BY <1>1, <1>2, <1>5 DEF OnMediaSinkWants
  <1>6. CASE StopVideo(i)
    BY <1>6 DEF StopVideo
  <1>7. CASE ClearVideo(i)
    BY <1>7 DEF ClearVideo
  <1>8. CASE Resumed(i)
    BY <1>2, <1>8 DEF Resumed
  <1> QED
    BY <1>3, <1>4, <1>5, <1>6, <1>7, <1>8 DEF LoopStep

\* Every step keeps client, pipeline and server in agreement.
LEMMA AgreesStep ==
    ASSUME TaskTypes, TransportAgrees, [PlayerNext]_<<playerVars, transportVars>>
    PROVE  TransportAgrees'
  <1>1. CASE UNCHANGED sendVars
    BY <1>1 DEF sendVars, TransportAgrees, ActiveIsConfigured, NotedIsTold
  <1>2. CASE Coroutine
    BY <1>2, CoroutineAgrees DEF Coroutine, TaskTypes
  <1> QED
    BY <1>1, <1>2, OthersKeepSending DEF PlayerNext, transportVars

-----------------------------------------------------------------------------
(**************************** the source ***********************************)

\* A source whose generation the thread has seen is the one it plays, unless
\* it was replaced between the two reads of a pick-up.
CurrentSource ==
    "torn" \notin events =>
        /\ at # "pick" /\ seen = {generation} => source = media_source
        /\ at = "pick" => source = media_source

\* The thread reads media_source and then _source_generation; set_source writes them in
\* the same order, so that a change between the two reads is noted as torn, and one
\* at another moment leaves the thread with a generation that is not the last.
LEMMA CurrentSourceStep ==
    ASSUME ThreadTypes, CurrentSource, [PlayerNext]_<<playerVars, transportVars>>
    PROVE  CurrentSource'
  <1> USE DEF CurrentSource, playerVars, threadVars, sharedVars, quiet, Goes, Note
  <1>1. CASE /\ UNCHANGED <<events, seen, generation, source, media_source>>
             /\ (at' # "pick" /\ at # "pick") \/ at' = at
    BY <1>1
  <1>2. CASE Loop \/ Paused \/ Woken \/ Connected \/ ReadAudio \/ TransportStarted
    BY <1>1, <1>2 DEF Loop, Paused, Woken, Connected, ReadAudio, TransportStarted
  <1>3. CASE ForgetFuture \/ ReadFrames \/ SendFrames \/ Bottom
    BY <1>1, <1>3 DEF ForgetFuture, ReadFrames, SendFrames, Bottom
  <1>4. CASE LastSilence \/ StopTransport \/ AwaitStop \/ Finish
    BY <1>1, <1>4 DEF LastSilence, StopTransport, AwaitStop, Finish
  <1>5. CASE ReadStreams
    BY <1>5 DEF ReadStreams
  <1>6. CASE PickUp
    BY <1>6 DEF PickUp
  <1>7. CASE PickGeneration
    BY <1>7 DEF PickGeneration
  <1>8. CASE SwapSource
    <2>1. generation' = generation + 1 /\ seen' = seen /\ at' = at
      BY <1>8 DEF SwapSource
    <2>2. seen' # {generation'}
      BY <2>1 DEF ThreadTypes
    <2>3. at = "pick" => "torn" \in events'
      BY <1>8 DEF SwapSource
    <2> QED
      BY <2>1, <2>2, <2>3
  <1>9. ASSUME NEW k \in Kinds, SetSource(k)
        PROVE  CurrentSource'
    BY <1>9 DEF SetSource
  <1>10. CASE Pause \/ Resume \/ Stop
    BY <1>1, <1>10 DEF Pause, Resume, Stop
  <1>11. CASE Connection
    BY <1>11 DEF Connection
  <1>12. CASE Server \/ Coroutine \/ UNCHANGED <<playerVars, transportVars>>
    BY <1>1, <1>12 DEF Server, Coroutine
  <1> QED
    BY <1>2, <1>3, <1>4, <1>5, <1>6, <1>7, <1>8, <1>9, <1>10, <1>11, <1>12
    DEF PlayerNext, AppStep, ThreadStep

-----------------------------------------------------------------------------
(************************* a player left alone *****************************)

Ending == {"waiting", "finished", "over"}

\* One source without layers, a connection that lasts, and messages that get
\* through.
Plain == failures = 0 /\ ~simulcast /\ events \cap {"changed", "offline"} = {}

\* Then nothing has failed, the start of the transport is still awaited or has
\* succeeded, and the streams the thread is about to send on stay active.
StartHolds ==
    start_future # 0 => /\ tasks[start_future].kind = "start"
                        /\ tasks[start_future].at \in {"queued", "sending", "done"}
NoStopYet == at \notin Ending => \A i \in DOMAIN tasks : tasks[i].kind # "stop"
StreamsHold ==
    /\ active \subseteq {Top}
    /\ at \in {"frames", "send"} => streams \subseteq active
    /\ at = "send" => streams # {}
Undisturbed ==
    Plain => error = "none" /\ at # "refused" /\ StartHolds /\ NoStopYet /\ StreamsHold

\* Neither a failed message nor an awkward moment is forgotten.
LEMMA NothingForgotten ==
    ASSUME TaskTypes, [PlayerNext]_<<playerVars, transportVars>>
    PROVE  events \subseteq events' /\ failures' \in {failures, failures + 1}
  <1> USE DEF Note, quiet, transportVars, playerVars
  <1>1. failures' \in {failures, failures + 1}
    <2>1. CASE Coroutine
      BY <2>1, CoroutineMoves DEF Coroutine
    <2>2. CASE ~Coroutine
      BY <2>2, OthersKeepSending DEF PlayerNext, sendVars
    <2> QED
      BY <2>1, <2>2
  <1>2. events \subseteq events'
    <2>1. CASE ThreadStep /\ ~ReadStreams
      BY <2>1
      DEF ThreadStep, Loop, PickUp, PickGeneration, Paused, Woken, Connected, ReadAudio,
          TransportStarted, ForgetFuture, ReadFrames, SendFrames, Bottom, LastSilence, StopTransport,
          AwaitStop, Finish
    <2>2. CASE ReadStreams \/ SwapSource \/ Connection \/ \E k \in Kinds : SetSource(k)
      BY <2>2 DEF ReadStreams, SwapSource, Connection, SetSource
    <2>3. CASE Pause \/ Resume \/ Stop \/ Server \/ Coroutine \/ UNCHANGED <<playerVars, transportVars>>
      BY <2>3 DEF Pause, Resume, Stop, Server, Coroutine
    <2> QED
      BY <2>1, <2>2, <2>3 DEF PlayerNext, AppStep, ThreadStep
  <1> QED
    BY <1>1, <1>2

\* A player that was disturbed once is never again as if it had not been.
LEMMA PlainBefore ==
    ASSUME TaskTypes, EventTypes, [PlayerNext]_<<playerVars, transportVars>>, Plain'
    PROVE  Plain /\ setting = Idle /\ failures' = failures /\ online
           /\ (\A k \in Kinds : ~SetSource(k)) /\ ~SwapSource /\ ~Connection
  <1> USE DEF Plain, EventTypes, Note, quiet, transportVars, playerVars
  <1>1. failures' \in {failures, failures + 1} /\ events \subseteq events'
    BY NothingForgotten
  <1>2. failures = 0 /\ failures' = failures
    BY <1>1 DEF TaskTypes
  <1>4. setting = Idle /\ online
    BY <1>1
  <1>5. \A k \in Kinds : ~SetSource(k)
    BY DEF SetSource
  <1>6. ~SwapSource /\ ~Connection
    BY <1>4 DEF SwapSource, Connection
  <1>7. simulcast' = simulcast
    <2>1. CASE ThreadStep
      BY <2>1
      DEF ThreadStep, Loop, PickUp, PickGeneration, Paused, Woken, Connected, ReadAudio,
          TransportStarted, ForgetFuture, ReadStreams, ReadFrames, SendFrames, Bottom, LastSilence,
          StopTransport, AwaitStop, Finish
    <2>2. CASE Pause \/ Resume \/ Stop \/ Server
      BY <2>2 DEF Pause, Resume, Stop, Server, ServerWants
    <2>3. CASE Coroutine
      BY <2>3 DEF Coroutine, LoopStep, StartVideo, Reselect, OnMediaSinkWants, StopVideo, ClearVideo,
                  Resumed
    <2> QED
      BY <1>5, <1>6, <2>1, <2>2, <2>3 DEF PlayerNext, AppStep
  <1> QED
    BY <1>1, <1>2, <1>4, <1>5, <1>6, <1>7

\* A coroutine that goes on does not disturb it.
LEMMA UndisturbedCoroutine ==
    ASSUME TaskTypes, Plain, StartHolds, NoStopYet, StreamsHold,
           NEW i \in DOMAIN tasks, LoopStep(i), UNCHANGED playerVars,
           failures' = failures, online
    PROVE  StartHolds' /\ NoStopYet' /\ StreamsHold'
  <1> USE DEF playerVars, threadVars, sharedVars
  <1>1. tasks \in Seq(Task) /\ failures \in Nat
    BY DEF TaskTypes
  <1>2. PICK s \in TaskStates : tasks' = [tasks EXCEPT ![i].at = s]
    BY CoroutineMoves
  <1>3. /\ DOMAIN tasks' = DOMAIN tasks /\ tasks'[i].kind = tasks[i].kind /\ tasks'[i].at = s
        /\ \A j \in DOMAIN tasks \ {i} : tasks'[j] = tasks[j]
    BY <1>1, <1>2, TaskMoves
  <1>4. NoStopYet'
    BY <1>3 DEF NoStopYet
  <1>5. ASSUME tasks[i].kind = "start" PROVE s \in {"sending", "done"}
    <2>1. CASE StartVideo(i)
      <3>1. Tell(i, VideoState(SelectActive(wanted)))
        BY <2>1 DEF StartVideo, ApplySelected, AnnounceVideoState
      <3>2. tasks' = [tasks EXCEPT ![i].at = "sending"]
        BY <1>1, <3>1, Telling
      <3>3. tasks'[i].at = "sending"
        BY <1>1, <3>2, TaskMoves DEF TaskStates
      <3> QED
        BY <1>3, <3>3
    <2>2. CASE Resumed(i)
      <3>1. tasks' = [tasks EXCEPT ![i].at = "done"]
        BY <2>2 DEF Resumed
      <3>2. tasks'[i].at = "done"
        BY <1>1, <3>1, TaskMoves DEF TaskStates
      <3> QED
        BY <1>3, <3>2
    <2> QED
      BY <1>5, <2>1, <2>2 DEF LoopStep, Reselect, OnMediaSinkWants, StopVideo, ClearVideo
  <1>6. StartHolds'
    <2> SUFFICES ASSUME start_future # 0
                 PROVE  tasks'[start_future].kind = "start"
                          /\ tasks'[start_future].at \in {"queued", "sending", "done"}
      BY DEF StartHolds
    <2>1. start_future \in DOMAIN tasks
      BY DEF TaskTypes
    <2>2. CASE start_future = i
      BY <1>3, <1>5, <2>2 DEF StartHolds
    <2>3. CASE start_future # i
      BY <1>3, <2>1, <2>3 DEF StartHolds
    <2> QED
      BY <2>2, <2>3
  <1>7. StreamsHold'
    <2>1. \A w : SelectActive(w) = {Top}
      BY DEF SelectActive, Plain
    <2>2. ASSUME NEW w, NEW reset, ApplySelected(i, w, reset)
          PROVE  StreamsHold'
      <3>1. active' = {Top}
        BY <1>1, <2>1, <2>2, Applying
      <3> QED
        BY <3>1 DEF StreamsHold
    <2>3. CASE active' = active
      BY <2>3 DEF StreamsHold
    <2>4. CASE ClearVideo(i)
      BY <2>4 DEF ClearVideo, StreamsHold, NoStopYet, Ending
    <2> QED
      BY <2>2, <2>3, <2>4
      DEF LoopStep, StartVideo, Reselect, OnMediaSinkWants, StopVideo, Resumed, sendVars
  <1> QED
    BY <1>4, <1>6, <1>7

\* Nor does a step of the thread.
LEMMA UndisturbedThread ==
    ASSUME TaskTypes, TransportAgrees, Plain, error = "none", at # "refused", online,
           StartHolds, NoStopYet, StreamsHold, ThreadStep
    PROVE  error' = "none" /\ at' # "refused" /\ StartHolds' /\ NoStopYet' /\ StreamsHold'
  <1> USE DEF threadVars, sharedVars, quiet, transportVars, sendVars, Goes, Ending
  <1>1. ASSUME UNCHANGED <<tasks, start_future, active, streams, error>>,
               at' \notin {"refused", "frames", "send"}, at \in Ending => at' \in Ending
        PROVE  error' = "none" /\ at' # "refused" /\ StartHolds' /\ NoStopYet' /\ StreamsHold'
    BY <1>1 DEF StartHolds, NoStopYet, StreamsHold
  <1>2. CASE Loop \/ PickUp \/ PickGeneration \/ Paused \/ Woken \/ Connected \/ ReadAudio
    BY <1>1, <1>2 DEF Loop, PickUp, PickGeneration, Paused, Woken, Connected, ReadAudio
  <1>3. CASE Bottom \/ LastSilence \/ AwaitStop \/ Finish
    BY <1>1, <1>3 DEF Bottom, LastSilence, AwaitStop, Finish
  <1>4. CASE TransportStarted
    <2>1. UNCHANGED <<tasks, start_future, active, streams>> /\ at = "video"
      BY <1>4 DEF TransportStarted
    <2>2. at' \in {"next", "streams", "started"}
      BY <1>4 DEF TransportStarted, StartHolds
    <2>3. error' = error
      BY <1>4, <2>2 DEF TransportStarted
    <2> QED
      BY <1>1, <2>1, <2>2, <2>3
  <1>5. CASE ForgetFuture
    BY <1>5 DEF ForgetFuture, StartHolds, NoStopYet, StreamsHold, flagVars
  <1>6. CASE ReadStreams
    BY <1>6 DEF ReadStreams, StartHolds, NoStopYet, StreamsHold, flagVars
  <1>7. CASE ReadFrames
    BY <1>7 DEF ReadFrames, StartHolds, NoStopYet, StreamsHold
  <1>8. CASE SendFrames
    <2>1. codec /\ streams \subseteq configured
      BY <1>8 DEF SendFrames, StreamsHold, TransportAgrees, ActiveIsConfigured
    <2>2. at' \in {"next", "video"} /\ error' = error /\ streams' = {}
          /\ UNCHANGED <<tasks, start_future, active>>
      BY <1>8, <2>1 DEF SendFrames
    <2> QED
      BY <1>8, <2>2 DEF SendFrames, StartHolds, NoStopYet, StreamsHold
  <1>9. CASE StopTransport
    <2>1. /\ UNCHANGED <<start_future, active, streams, error>>
          /\ at' \in Ending
      BY <1>9 DEF StopTransport
    <2>2. CASE tasks' = tasks
      BY <1>1, <2>1, <2>2
    <2>3. CASE tasks' = Scheduled("stop")
      <3>1. [kind |-> "stop", at |-> "queued", want |-> {}] \in Task
        BY DEF Task, TaskKinds, TaskStates
      <3>2. \A j \in DOMAIN tasks : tasks'[j] = tasks[j]
        BY <2>3, <3>1, TaskScheduled DEF TaskTypes, Scheduled
      <3>3. StartHolds'
        BY <2>1, <3>2 DEF StartHolds, TaskTypes
      <3> QED
        BY <2>1, <3>3 DEF NoStopYet, StreamsHold
    <2> QED
      BY <1>9, <2>2, <2>3 DEF StopTransport
  <1> QED
    BY <1>2, <1>3, <1>4, <1>5, <1>6, <1>7, <1>8, <1>9 DEF ThreadStep

\* Every step keeps an undisturbed player as it should be.
LEMMA UndisturbedStep ==
    ASSUME TaskTypes, EventTypes, TransportAgrees, Undisturbed,
           [PlayerNext]_<<playerVars, transportVars>>
    PROVE  Undisturbed'
  <1> SUFFICES ASSUME Plain'
               PROVE  error' = "none" /\ at' # "refused" /\ StartHolds' /\ NoStopYet' /\ StreamsHold'
    BY DEF Undisturbed
  <1>1. /\ Plain /\ failures' = failures /\ online
        /\ (\A k \in Kinds : ~SetSource(k)) /\ ~SwapSource /\ ~Connection
    BY PlainBefore
  <1>2. error = "none" /\ at # "refused" /\ StartHolds /\ NoStopYet /\ StreamsHold
    BY <1>1 DEF Undisturbed
  <1>3. CASE ThreadStep
    BY <1>1, <1>2, <1>3, UndisturbedThread
  <1>4. ASSUME NEW i \in DOMAIN tasks, LoopStep(i), UNCHANGED playerVars
        PROVE  error' = "none" /\ at' # "refused" /\ StartHolds' /\ NoStopYet' /\ StreamsHold'
    <2>1. StartHolds' /\ NoStopYet' /\ StreamsHold'
      BY <1>1, <1>2, <1>4, UndisturbedCoroutine
    <2> QED
      BY <1>2, <1>4, <2>1 DEF playerVars, flagVars
  <1>5. CASE Server
    <2> PICK w \in SUBSET (ToSet(Streams) \ {Top}) : ServerWants(w) /\ UNCHANGED playerVars
      BY <1>5 DEF Server
    <2> DEFINE t == [kind |-> "wants", at |-> "queued", want |-> w]
    <2>1. t \in Task /\ t.kind = "wants"
      BY DEF Task, TaskKinds, TaskStates
    <2> HIDE DEF t
    <2>2. tasks' = Append(tasks, t) /\ active' = active
      BY DEF ServerWants, t, sendVars
    <2>3. /\ DOMAIN tasks' = 1 .. Len(tasks) + 1 /\ tasks'[Len(tasks) + 1].kind = "wants"
          /\ \A j \in DOMAIN tasks : tasks'[j] = tasks[j]
      BY <2>1, <2>2, TaskScheduled DEF TaskTypes
    <2>4. UNCHANGED <<at, error, start_future, streams>>
      BY DEF playerVars, flagVars, sharedVars, threadVars
    <2>5. NoStopYet'
      BY <1>2, <2>3, <2>4 DEF NoStopYet, TaskTypes
    <2>6. StartHolds'
      BY <1>2, <2>3, <2>4 DEF StartHolds, TaskTypes
    <2> QED
      BY <1>2, <2>2, <2>4, <2>5, <2>6 DEF StreamsHold
  <1>6. CASE Pause \/ Resume \/ Stop \/ UNCHANGED <<playerVars, transportVars>>
    <2>1. UNCHANGED <<at, error, tasks, start_future, active, streams>>
      BY <1>6 DEF Pause, Resume, Stop, playerVars, transportVars, sendVars, flagVars, sharedVars, threadVars
    <2> QED
      BY <1>2, <2>1 DEF StartHolds, NoStopYet, StreamsHold
  <1> QED
    BY <1>1, <1>3, <1>4, <1>5, <1>6 DEF PlayerNext, AppStep, Coroutine

-----------------------------------------------------------------------------
(***************************** the silence *********************************)

\* After audio, silence is owed until the thread has left its loop.
OneSource == "changed" \notin events => source = media_source
AudioIsRead == ~audio_done => HasAudio(source)
SilenceOwed ==
    error = "none" /\ events = {} /\ tail = "audio" => at \notin {"finally"} \cup Ending /\ Silence

\* The kind of a single source is what the thread copied (_do_run).
LEMMA OneSourceStep ==
    ASSUME EventTypes, OneSource, AudioIsRead, [PlayerNext]_<<playerVars, transportVars>>
    PROVE  OneSource' /\ AudioIsRead'
  <1> USE DEF OneSource, AudioIsRead, playerVars, threadVars, sharedVars, quiet, Note
  <1>1. CASE UNCHANGED <<events, source, media_source, audio_done>>
    BY <1>1 DEF HasAudio
  <1>2. CASE ThreadStep /\ ~PickUp /\ ~ReadAudio /\ ~ReadStreams
    BY <1>1, <1>2
    DEF ThreadStep, Loop, PickGeneration, Paused, Woken, Connected, TransportStarted, ForgetFuture,
        ReadFrames, SendFrames, Bottom, LastSilence, StopTransport, AwaitStop, Finish
  <1>3. CASE PickUp
    BY <1>3 DEF PickUp, HasAudio
  <1>4. CASE ReadAudio
    BY <1>4 DEF ReadAudio, HasAudio
  <1>5. CASE ReadStreams
    BY <1>5 DEF ReadStreams, HasAudio
  <1>6. ASSUME NEW k \in Kinds, SetSource(k)
        PROVE  OneSource' /\ AudioIsRead'
    BY <1>6 DEF SetSource, HasAudio
  <1>7. CASE SwapSource
    BY <1>7 DEF SwapSource, HasAudio, EventTypes
  <1>8. CASE Connection
    BY <1>8 DEF Connection, HasAudio
  <1>9. CASE Pause \/ Resume \/ Stop
    BY <1>1, <1>9 DEF Pause, Resume, Stop
  <1>10. CASE Server \/ Coroutine \/ UNCHANGED <<playerVars, transportVars>>
    BY <1>1, <1>10 DEF Server, Coroutine
  <1> QED
    BY <1>2, <1>3, <1>4, <1>5, <1>6, <1>7, <1>8, <1>9, <1>10 DEF PlayerNext, AppStep, ThreadStep

\* Silence is sent wherever the thread stops reading audio (_send_silence in _do_run).
LEMMA SilenceOwedStep ==
    ASSUME EventTypes, OneSource, AudioIsRead, SilenceOwed, [PlayerNext]_<<playerVars, transportVars>>
    PROVE  SilenceOwed'
  <1> SUFFICES ASSUME error' = "none", events' = {}, tail' = "audio"
               PROVE  at' \notin {"finally"} \cup Ending /\ Silence'
    BY DEF SilenceOwed
  <1> USE DEF playerVars, threadVars, sharedVars, flagVars, quiet, Note, Goes, Ending, Silence
  <1>1. CASE /\ UNCHANGED <<error, events, tail, source, silence_sent>>
             /\ at' \in {"finally"} \cup Ending => at \in {"finally"} \cup Ending
    BY <1>1 DEF SilenceOwed, HasAudio
  <1>2. CASE Loop \/ PickGeneration \/ Woken \/ TransportStarted \/ ForgetFuture \/ ReadFrames \/ Bottom
    BY <1>1, <1>2
    DEF Loop, PickGeneration, Woken, TransportStarted, ForgetFuture, ReadFrames, Bottom
  <1>3. CASE StopTransport \/ AwaitStop \/ Finish
    BY <1>1, <1>3 DEF StopTransport, AwaitStop, Finish
  <1>4. CASE PickUp
    BY <1>4 DEF PickUp, SilenceOwed, OneSource, HasAudio
  <1>5. CASE Paused
    BY <1>5 DEF Paused, SilenceOwed
  <1>6. CASE Connected
    <2>1. online
      BY <1>6 DEF Connected, EventTypes
    <2> QED
      BY <1>1, <1>6, <2>1 DEF Connected
  <1>7. CASE ReadAudio
    <2>1. online /\ events = {} /\ error = "none"
      BY <1>7 DEF ReadAudio, EventTypes
    <2>2. at' = "video" /\ source' = source
      BY <1>7 DEF ReadAudio
    <2>3. CASE UNCHANGED <<silence_sent, tail>>
      BY <2>1, <2>2, <2>3 DEF SilenceOwed, HasAudio
    <2>4. CASE ~audio_done /\ silence_sent' = FALSE
      BY <2>2, <2>4 DEF AudioIsRead, HasAudio
    <2>5. CASE tail' = IF ~video_done /\ ~silence_sent /\ online THEN "silence" ELSE tail
      <3>1. tail = "audio" /\ (video_done \/ silence_sent)
        BY <2>1, <2>5
      <3>2. HasAudio(source) /\ ~silence_sent
        BY <2>1, <3>1 DEF SilenceOwed
      <3>3. CASE silence_sent' <=> silence_sent \/ ~video_done
        BY <2>2, <3>1, <3>2, <3>3 DEF HasAudio
      <3> QED
        BY <1>7, <2>3, <2>4, <3>3 DEF ReadAudio
    <2> QED
      BY <1>7, <2>3, <2>4, <2>5 DEF ReadAudio
  <1>8. CASE ReadStreams
    <2>1. events = {} /\ at' # "finally"
      BY <1>8 DEF ReadStreams
    <2> QED
      BY <1>1, <1>8, <2>1 DEF ReadStreams
  <1>9. CASE SendFrames
    BY <1>1, <1>9 DEF SendFrames
  <1>10. CASE LastSilence
    <2>1. online /\ events = {} /\ error = "none"
      BY <1>10 DEF LastSilence, EventTypes
    <2> QED
      BY <1>10, <2>1 DEF LastSilence, SilenceOwed
  <1>11. CASE Connection \/ \E k \in Kinds : SetSource(k)
    BY <1>11 DEF Connection, SetSource
  <1>12. CASE SwapSource
    BY <1>12 DEF SwapSource, EventTypes
  <1>13. CASE Pause \/ Resume \/ Stop
    BY <1>1, <1>13 DEF Pause, Resume, Stop
  <1>14. CASE Server \/ Coroutine \/ UNCHANGED <<playerVars, transportVars>>
    BY <1>1, <1>14 DEF Server, Coroutine
  <1> QED
    BY <1>2, <1>3, <1>4, <1>5, <1>6, <1>7, <1>8, <1>9, <1>10, <1>11, <1>12, <1>13, <1>14
    DEF PlayerNext, AppStep, ThreadStep

-----------------------------------------------------------------------------
(******************************* the end ***********************************)

\* No other source, no message that failed, and no wants of the server.
Alone ==
    /\ failures = 0 /\ "changed" \notin events
    /\ \A i \in DOMAIN tasks : tasks[i].kind # "wants"

\* Then play's start is the only coroutine before the stop, which is the last;
\* once the server has been told Off no start can begin.
Stopping ==
    /\ tasks[2].kind = "stop" /\ tasks[2].at \in {"queued", "sending", "done"}
    /\ tasks[2].at # "queued" => told = Off /\ tasks[1].at # "queued"
    /\ tasks[2].at = "done" => ~codec
StartThenStop ==
    /\ Len(tasks) = IF at \in Ending THEN 2 ELSE 1
    /\ tasks[1].kind = "start"
    /\ at \in Ending => Stopping
NeverStarted == tasks = <<>> /\ ~codec /\ told = Off
StopLast == Alone => IF stop_on_end THEN StartThenStop ELSE NeverStarted

\* A player whose application did not interfere was not interfered with before.
LEMMA AloneBefore ==
    ASSUME TaskTypes, EventTypes, [PlayerNext]_<<playerVars, transportVars>>, Alone'
    PROVE  /\ Alone /\ failures' = failures
           /\ (\A k \in Kinds : ~SetSource(k)) /\ ~SwapSource /\ ~Server
  <1> USE DEF Note, quiet, transportVars, playerVars
  <1>1. failures' \in {failures, failures + 1} /\ events \subseteq events'
    BY NothingForgotten
  <1>2. failures = 0 /\ failures' = failures /\ "changed" \notin events /\ "changed" \notin events'
    BY <1>1 DEF TaskTypes, Alone
  <1>3. (\A k \in Kinds : ~SetSource(k)) /\ ~SwapSource
    BY <1>2 DEF SetSource, SwapSource, EventTypes
  <1>4. ~Server
    <2> SUFFICES ASSUME NEW w \in SUBSET (ToSet(Streams) \ {Top}), ServerWants(w) PROVE FALSE
      BY DEF Server
    <2> DEFINE t == [kind |-> "wants", at |-> "queued", want |-> w]
    <2>1. t \in Task /\ t.kind = "wants"
      BY DEF Task, TaskKinds, TaskStates
    <2> HIDE DEF t
    <2>2. tasks' = Append(tasks, t)
      BY DEF ServerWants, t
    <2>3. DOMAIN tasks' = 1 .. Len(tasks) + 1 /\ tasks'[Len(tasks) + 1].kind = "wants"
      BY <2>1, <2>2, TaskScheduled DEF TaskTypes
    <2> QED
      BY <2>3 DEF Alone, TaskTypes
  <1>5. ASSUME NEW j \in DOMAIN tasks PROVE tasks[j].kind # "wants"
    <2>1. CASE tasks' = tasks
      BY <2>1 DEF Alone
    <2>2. CASE StopTransport
      <3>1. [kind |-> "stop", at |-> "queued", want |-> {}] \in Task
        BY DEF Task, TaskKinds, TaskStates
      <3>2. CASE tasks' = Scheduled("stop")
        <4>1. j \in DOMAIN tasks' /\ tasks'[j] = tasks[j]
          BY <3>1, <3>2, TaskScheduled DEF TaskTypes, Scheduled
        <4> QED
          BY <4>1 DEF Alone
      <3> QED
        BY <2>1, <2>2, <3>2 DEF StopTransport
    <2>3. CASE Coroutine
      <3> PICK i \in DOMAIN tasks : LoopStep(i)
        BY <2>3 DEF Coroutine
      <3>1. PICK s \in TaskStates : tasks' = [tasks EXCEPT ![i].at = s]
        BY CoroutineMoves
      <3>2. j \in DOMAIN tasks' /\ tasks'[j].kind = tasks[j].kind
        BY <3>1, TaskMoves DEF TaskTypes
      <3> QED
        BY <3>2 DEF Alone
    <2>4. CASE ThreadStep /\ ~StopTransport
      BY <2>1, <2>4
      DEF ThreadStep, Loop, PickUp, PickGeneration, Paused, Woken, Connected, ReadAudio,
          TransportStarted, ForgetFuture, ReadStreams, ReadFrames, SendFrames, Bottom, LastSilence,
          AwaitStop, Finish
    <2>5. CASE Pause \/ Resume \/ Stop \/ Connection \/ UNCHANGED <<playerVars, transportVars>>
      BY <2>1, <2>5 DEF Pause, Resume, Stop, Connection
    <2> QED
      BY <1>3, <1>4, <2>2, <2>3, <2>4, <2>5 DEF PlayerNext, AppStep
  <1> QED
    BY <1>2, <1>3, <1>4, <1>5 DEF Alone

\* The start goes on, before or after the stop.
LEMMA StartOfTwo ==
    ASSUME TaskTypes, StartThenStop, failures' = failures, LoopStep(1), UNCHANGED playerVars
    PROVE  StartThenStop'
  <1>1. tasks \in Seq(Task) /\ failures \in Nat /\ 1 \in DOMAIN tasks /\ tasks[1].kind = "start"
    BY DEF TaskTypes, StartThenStop
  <1>2. PICK s \in TaskStates : tasks' = [tasks EXCEPT ![1].at = s]
    BY <1>1, CoroutineMoves
  <1>3. /\ Len(tasks') = Len(tasks) /\ tasks'[1].kind = "start" /\ tasks'[1].at = s
        /\ 2 \in DOMAIN tasks => tasks'[2] = tasks[2]
    BY <1>1, <1>2, TaskMoves
  <1>4. at' = at
    BY DEF playerVars
  <1>5. ASSUME at \in Ending PROVE Stopping'
    <2>1. 2 \in DOMAIN tasks /\ Stopping
      BY <1>1, <1>5 DEF StartThenStop
    <2>2. CASE StartVideo(1)
      <3>1. tasks[1].at = "queued"
        BY <2>2 DEF StartVideo, Begins
      <3>2. tasks'[2].at = "queued"
        BY <1>3, <2>1, <3>1 DEF Stopping
      <3> QED
        BY <1>3, <2>1, <3>2 DEF Stopping
    <2>3. CASE Resumed(1)
      <3>1. tasks' = [tasks EXCEPT ![1].at = "done"] /\ UNCHANGED <<told, codec>>
        BY <2>3 DEF Resumed, sendVars
      <3>2. tasks'[1].at = "done"
        BY <1>1, <3>1, TaskMoves DEF TaskStates
      <3> QED
        BY <1>3, <2>1, <3>1, <3>2 DEF Stopping
    <2> QED
      BY <1>1, <2>2, <2>3 DEF LoopStep, Reselect, OnMediaSinkWants, StopVideo, ClearVideo
  <1> QED
    BY <1>3, <1>4, <1>5 DEF StartThenStop

\* The stop goes on, after the start.
LEMMA StopOfTwo ==
    ASSUME TaskTypes, StartThenStop, failures' = failures, 2 \in DOMAIN tasks, LoopStep(2),
           UNCHANGED playerVars
    PROVE  StartThenStop'
  <1>1. tasks \in Seq(Task) /\ failures \in Nat /\ at' = at
    BY DEF TaskTypes, playerVars
  <1>2. at \in Ending /\ Stopping /\ 1 \in DOMAIN tasks
    BY <1>1 DEF StartThenStop
  <1>3. PICK s \in TaskStates : tasks' = [tasks EXCEPT ![2].at = s]
    BY CoroutineMoves
  <1>4. /\ Len(tasks') = Len(tasks) /\ tasks'[2].kind = "stop" /\ tasks'[2].at = s
        /\ tasks'[1] = tasks[1]
    <2>1. 1 \in DOMAIN tasks \ {2} /\ tasks[2].kind = "stop"
      BY <1>2 DEF Stopping
    <2>2. /\ Len(tasks') = Len(tasks) /\ tasks'[2].kind = tasks[2].kind /\ tasks'[2].at = s
          /\ \A j \in DOMAIN tasks \ {2} : tasks'[j] = tasks[j]
      BY <1>1, <1>3, TaskMoves
    <2> QED
      BY <2>1, <2>2
  <1>5. Stopping'
    <2>1. CASE StopVideo(2)
      <3>1. Tell(2, Off) /\ tasks[1].at # "queued"
        BY <1>2, <2>1 DEF StopVideo, Begins
      <3>2. told' = Off /\ tasks' = [tasks EXCEPT ![2].at = "sending"]
        BY <1>1, <3>1, Telling
      <3>3. tasks'[2].at = "sending"
        BY <1>1, <3>2, TaskMoves DEF TaskStates
      <3> QED
        BY <1>4, <3>1, <3>2, <3>3 DEF Stopping, Off
    <2>2. CASE ClearVideo(2)
      <3>1. tasks[2].at = "sending" /\ tasks' = [tasks EXCEPT ![2].at = "done"] /\ ~codec'
            /\ told' = told
        BY <2>2 DEF ClearVideo, Suspended
      <3>2. tasks'[2].at = "done"
        BY <1>1, <3>1, TaskMoves DEF TaskStates
      <3> QED
        BY <1>2, <1>4, <3>1, <3>2 DEF Stopping, Off
    <2> QED
      BY <1>2, <2>1, <2>2
      DEF LoopStep, StartVideo, Reselect, OnMediaSinkWants, Resumed, Stopping
  <1> QED
    BY <1>1, <1>2, <1>4, <1>5 DEF StartThenStop

\* The thread's stop_video runs on the loop after the start that play scheduled.
LEMMA StopLastStep ==
    ASSUME TaskTypes, EventTypes, StopLast, [PlayerNext]_<<playerVars, transportVars>>
    PROVE  StopLast'
  <1> SUFFICES ASSUME Alone' PROVE IF stop_on_end' THEN StartThenStop' ELSE NeverStarted'
    BY DEF StopLast
  <1>1. /\ Alone /\ failures' = failures
        /\ (\A k \in Kinds : ~SetSource(k)) /\ ~SwapSource /\ ~Server
    BY AloneBefore
  <1>2. IF stop_on_end THEN StartThenStop ELSE NeverStarted
    BY <1>1 DEF StopLast
  <1>3. CASE UNCHANGED <<tasks, codec, told, stop_on_end>> /\ (at \in Ending <=> at' \in Ending)
    BY <1>2, <1>3 DEF StartThenStop, NeverStarted, Stopping, Off
  <1>4. CASE Coroutine
    <2> PICK i \in DOMAIN tasks : LoopStep(i) /\ UNCHANGED playerVars
      BY <1>4 DEF Coroutine
    <2>1. stop_on_end' = stop_on_end
      BY DEF playerVars, sharedVars
    <2>2. stop_on_end
      BY <1>2 DEF NeverStarted
    <2>3. StartThenStop
      BY <1>2, <2>2
    <2>4. i = 1 \/ i = 2
      BY <2>3 DEF StartThenStop, TaskTypes
    <2>5. StartThenStop'
      BY <1>1, <2>3, <2>4, StartOfTwo, StopOfTwo
    <2> QED
      BY <2>1, <2>2, <2>5
  <1>5. CASE StopTransport
    <2>1. /\ at = "finally" /\ at' \in Ending
          /\ UNCHANGED <<stop_on_end, codec, told>>
      BY <1>5 DEF StopTransport, Ending, quiet, sharedVars, sendVars
    <2>2. CASE stop_on_end
      <3> DEFINE t == [kind |-> "stop", at |-> "queued", want |-> {}]
      <3>1. t \in Task /\ t.kind = "stop" /\ t.at = "queued"
        BY DEF Task, TaskKinds, TaskStates
      <3>2. tasks' = Append(tasks, t)
        BY <1>5, <2>2 DEF StopTransport, Scheduled
      <3> HIDE DEF t
      <3>3. Len(tasks) = 1 /\ tasks[1].kind = "start"
        BY <1>2, <2>1, <2>2 DEF StartThenStop, Ending
      <3>4. Len(tasks') = 2 /\ tasks'[1] = tasks[1] /\ tasks'[2] = t
        BY <3>1, <3>2, <3>3, TaskScheduled DEF TaskTypes
      <3> QED
        BY <2>1, <2>2, <3>1, <3>3, <3>4 DEF StartThenStop, Stopping
    <2>3. CASE ~stop_on_end
      BY <1>2, <1>5, <2>1, <2>3 DEF StopTransport, NeverStarted, Off
    <2> QED
      BY <2>2, <2>3
  <1>6. CASE ThreadStep /\ ~StopTransport
    BY <1>3, <1>6
    DEF ThreadStep, Loop, PickUp, PickGeneration, Paused, Woken, Connected, ReadAudio,
        TransportStarted, ForgetFuture, ReadStreams, ReadFrames, SendFrames, Bottom, LastSilence,
        AwaitStop, Finish, Ending, Goes, quiet, sharedVars, sendVars, transportVars
  <1>7. CASE Pause \/ Resume \/ Stop \/ Connection \/ UNCHANGED <<playerVars, transportVars>>
    BY <1>3, <1>7
    DEF Pause, Resume, Stop, Connection, playerVars, transportVars, sharedVars, sendVars
  <1> QED
    BY <1>1, <1>4, <1>5, <1>6, <1>7 DEF PlayerNext, AppStep

-----------------------------------------------------------------------------
(**************************** the theorems *********************************)

PlayerTypes == TaskTypes /\ ThreadTypes /\ EventTypes

PlayerInv ==
    /\ PlayerTypes /\ TransportAgrees /\ CurrentSource /\ Undisturbed
    /\ OneSource /\ AudioIsRead /\ SilenceOwed /\ StopLast

\* play makes it true, with one coroutine or none.
LEMMA PlayerInitInv == PlayerInit => PlayerInv
  <1> SUFFICES ASSUME PlayerInit PROVE PlayerInv
    OBVIOUS
  <1> DEFINE t == [kind |-> "start", at |-> "queued", want |-> {}]
  <1>1. t \in Task /\ t.kind = "start" /\ t.at = "queued"
    BY DEF Task, TaskKinds, TaskStates
  <1>2. tasks = IF HasVideo(media_source) THEN <<t>> ELSE <<>>
    BY DEF PlayerInit, Play
  <1> HIDE DEF t
  <1>3. /\ start_future = Len(tasks) /\ (stop_on_end <=> start_future # 0)
        /\ (simulcast <=> media_source = "simulcast")
    BY DEF PlayerInit, Play
  <1>4. /\ ~codec /\ active = {} /\ configured = {} /\ last_state = Unknown /\ online
        /\ told = Off /\ failures = 0
    BY DEF PlayerInit, TransportInit
  <1>5. /\ at = "loop" /\ generation = 0 /\ error = "none" /\ source = media_source /\ seen = {}
        /\ audio_done /\ tail = "none" /\ setting = Idle /\ events = {}
    BY DEF PlayerInit
  <1>6. \/ tasks = <<t>> /\ Len(tasks) = 1 /\ tasks[1] = t /\ DOMAIN tasks = {1}
        \/ tasks = <<>> /\ Len(tasks) = 0 /\ DOMAIN tasks = {}
    BY <1>2
  <1>7. TaskTypes
    <2>1. tasks \in Seq(Task)
      <3>1. <<t>> \in Seq(Task) /\ <<>> \in Seq(Task)
        BY <1>1
      <3> QED
        BY <1>6, <3>1
    <2>2. setting.future = 0
      BY <1>5 DEF Idle
    <2> QED
      BY <1>3, <1>4, <1>6, <2>1, <2>2 DEF TaskTypes
  <1>8. ThreadTypes /\ EventTypes
    BY <1>4, <1>5 DEF ThreadTypes, EventTypes, Places
  <1>9. TransportAgrees
    BY <1>4 DEF TransportAgrees, ActiveIsConfigured, NotedIsTold
  <1>10. CurrentSource /\ OneSource /\ AudioIsRead /\ SilenceOwed
    BY <1>5 DEF CurrentSource, OneSource, AudioIsRead, SilenceOwed
  <1>11. Undisturbed
    BY <1>1, <1>3, <1>4, <1>5, <1>6 DEF Undisturbed, StartHolds, NoStopYet, StreamsHold
  <1>12. StopLast
    BY <1>1, <1>3, <1>4, <1>5, <1>6 DEF StopLast, StartThenStop, NeverStarted, Ending
  <1> QED
    BY <1>7, <1>8, <1>9, <1>10, <1>11, <1>12 DEF PlayerInv, PlayerTypes

\* Every step of application, coroutines and thread keeps the invariant.
LEMMA PlayerInvStep == PlayerInv /\ [PlayerNext]_<<playerVars, transportVars>> => PlayerInv'
  <1> SUFFICES ASSUME PlayerInv, [PlayerNext]_<<playerVars, transportVars>> PROVE PlayerInv'
    OBVIOUS
  <1> USE DEF PlayerInv, PlayerTypes
  <1>1. TaskTypes' /\ ThreadTypes' /\ EventTypes'
    BY TaskTypesStep, ThreadTypesStep, EventTypesStep
  <1>2. TransportAgrees' /\ CurrentSource' /\ Undisturbed'
    BY AgreesStep, CurrentSourceStep, UndisturbedStep
  <1>3. OneSource' /\ AudioIsRead' /\ SilenceOwed' /\ StopLast'
    BY OneSourceStep, SilenceOwedStep, StopLastStep
  <1> QED
    BY <1>1, <1>2, <1>3

\* The tasks, the thread's place and its record of events keep their types, and the
\* futures that player and set_source hold are scheduled tasks (player.py).
THEOREM PlayerTypeCorrect == PlayerSpec => []PlayerTypes
  <1>1. PlayerInv => PlayerTypes
    BY DEF PlayerInv
  <1> QED
    BY <1>1, PlayerInitInv, PlayerInvStep, PTL DEF PlayerSpec

\* For any streams and any number of coroutines, failures and changes: frames are sent
\* on exactly the streams the pipeline has, and what the client noted as announced
\* is what the server was told (start_video, stop_video, on_media_sink_wants).
THEOREM ClientAndServerAgree == PlayerSpec => []TransportAgrees
  <1>1. PlayerInv => TransportAgrees
    BY DEF PlayerInv
  <1> QED
    BY <1>1, PlayerInitInv, PlayerInvStep, PTL DEF PlayerSpec

\* However often set_source is called, the source whose generation the thread has seen
\* is the one it plays, unless a call fell between its two reads (_do_run).
THEOREM NewSourceIsPlayed == PlayerSpec => []PlaysCurrentSource
  <1>1. PlayerInv => PlaysCurrentSource
    BY DEF PlayerInv, CurrentSource, PlaysCurrentSource
  <1> QED
    BY <1>1, PlayerInitInv, PlayerInvStep, PTL DEF PlayerSpec

\* A player of one source without layers does not fail while messages get through and
\* the connection lasts: it awaits its start and never sends on a stream that
\* is not configured (_video_transport_started, send_video_frames).
THEOREM OneSourcePlays == PlayerSpec => []PlayerSurvives
  <1>1. PlayerInv => PlayerSurvives
    BY DEF PlayerInv, PlayerTypes, TaskTypes, Undisturbed, Plain, PlayerSurvives
  <1> QED
    BY <1>1, PlayerInitInv, PlayerInvStep, PTL DEF PlayerSpec

\* A player that is over has sent silence after its last audio, and has told the server
\* that its video is off (the end of _do_run and its finally clause).
THEOREM PlayerEnds == PlayerSpec => []EndsCleanly
  <1>1. ASSUME PlayerInv PROVE SilenceAfterAudio
    BY <1>1 DEF PlayerInv, SilenceOwed, SilenceAfterAudio, Ending
  <1>2. ASSUME PlayerInv PROVE StoppedAtEnd
    <2> SUFFICES ASSUME at = "over", Settled, Alone PROVE ~codec /\ active = {} /\ told = Off
      BY DEF StoppedAtEnd, Alone
    <2>1. IF stop_on_end THEN StartThenStop ELSE NeverStarted
      BY <1>2 DEF PlayerInv, StopLast
    <2>2. CASE StartThenStop
      <3>1. 2 \in DOMAIN tasks /\ Stopping
        BY <1>2, <2>2 DEF StartThenStop, Ending, PlayerInv, PlayerTypes, TaskTypes
      <3>2. tasks[2].at = "done"
        BY <3>1 DEF Settled, Stopping
      <3> QED
        BY <1>2, <3>1, <3>2 DEF Stopping, PlayerInv, TransportAgrees, ActiveIsConfigured
    <2>3. CASE NeverStarted
      BY <1>2, <2>3 DEF NeverStarted, PlayerInv, TransportAgrees, ActiveIsConfigured
    <2> QED
      BY <2>1, <2>2, <2>3
  <1>3. PlayerInv => EndsCleanly
    BY <1>1, <1>2 DEF EndsCleanly
  <1> QED
    BY <1>3, PlayerInitInv, PlayerInvStep, PTL DEF PlayerSpec

-----------------------------------------------------------------------------
(*************************** FFmpegVideoSource *****************************)

Piping == {"check", "read", "write", "close"}
Flag(b) == IF b THEN 1 ELSE 0

SourceTypes ==
    /\ mode \in {"none", "stream", "desktop"} /\ siblings \in {"none", "open", "cleaned"}
    /\ constructed \in {"new", "header", "ready", "raising", "raised"}
    /\ process \in {"none", "running", "stubborn", "exited"}
    /\ stdin \in {"none", "open", "closed"} /\ stdout \in {"none", "open", "closed"}
    /\ writer \in {"none", "done"} \cup Piping
    /\ reader \in {"idle", "reading", "frame", "nothing"}
    /\ result \in {"none", "frame", "end", "error"}
    /\ cleaner \in {"idle", "claimed", "terminate", "wait", "pipes", "join", "done"}
    /\ held \in BOOLEAN /\ source_open \in BOOLEAN /\ pipe_error \in BOOLEAN
    /\ closed \in BOOLEAN /\ failed \in BOOLEAN /\ crashed \in BOOLEAN
    /\ inside \in Nat /\ ready \in Nat /\ left \in Nat /\ shown \in Nat

\* How far the constructor is, and what there is by then.
Built ==
    /\ constructed = "new" => cleaner = "idle"
    /\ (constructed = "new" \/ (constructed \in {"raising", "raised"} /\ cleaner # "done")) =>
       process = "none" /\ stdin = "none" /\ stdout = "none" /\ cleaner = "idle"
    /\ constructed \in {"header", "ready"} => process # "none"
    /\ process = "none" => writer = "none"
    /\ constructed # "ready" => reader = "idle" /\ result = "none"
    /\ constructed = "raised" => siblings # "open"

\* What cleanup has done stays done.
CleanedUp ==
    /\ cleaner \in {"pipes", "join", "done"} => ~Alive
    /\ cleaner \in {"join", "done"} => stdin # "open" /\ stdout # "open"
    /\ cleaner = "done" => ~source_open

\* Until cleanup, the writer has the pipe to itself, and the source is open.
WriterAlone ==
    cleaner = "idle" =>
        /\ stdout # "closed" /\ (process # "none" => held) /\ (mode # "none" => source_open)
        /\ mode = "none" => writer = "none" /\ inside = 0
        /\ mode # "none" /\ process # "none" => writer # "none"
        /\ writer \in Piping => stdin = "open" /\ (Alive \/ crashed)
        /\ writer = "close" => left = 0 \/ pipe_error
        /\ writer = "done" /\ ~crashed => stdin = "closed"
        /\ stdin = "closed" => writer = "done" /\ (left = 0 \/ pipe_error)
        /\ process = "exited" /\ ~crashed =>
             inside = 0 /\ IF mode = "none" THEN left = 0 ELSE stdin = "closed"

\* An error is noted for the source's own failure.
ErrorNoted ==
    /\ failed => pipe_error
    /\ pipe_error => failed \/ cleaner # "idle"
    /\ result = "error" => pipe_error

\* Until cleanup every chunk is accounted for, and who finds nothing finds FFmpeg ended.
FramesAccounted ==
    cleaner = "idle" =>
        /\ (~crashed /\ result # "error") =>
             shown + Flag(reader = "frame") + ready + inside + Flag(writer = "write") + left = Chunks
        /\ reader = "nothing" => ready = 0 /\ ~Alive
        /\ closed => result \in {"end", "error"}
        /\ result \in {"end", "error"} => reader = "idle"
        /\ result = "end" => crashed \/ (~failed /\ shown = Chunks /\ process = "exited")

FFmpegInv == SourceTypes /\ Built /\ CleanedUp /\ WriterAlone /\ ErrorNoted /\ FramesAccounted

\* Every step keeps the types.
LEMMA SourceTypesStep ==
    ASSUME FFmpegInv, [FFmpegNext]_ffmpegVars PROVE SourceTypes'
<1> USE FFmpegAssumption DEF FFmpegInv, procVars, pipeVars, calm, still, others, ffmpegVars
<1>1. CASE Spawn
  <2> USE <1>1 DEF Spawn, SourceTypes
  <2>1. held' \in BOOLEAN BY ZenonT(30)
  <2>2. source_open' \in BOOLEAN /\ pipe_error' \in BOOLEAN /\ closed' \in BOOLEAN /\ failed'
        \in BOOLEAN /\ crashed' \in BOOLEAN OBVIOUS
  <2>3. QED BY <2>1, <2>2 DEF Piping
<1>2. CASE ReadHeader BY <1>2 DEF ReadHeader, SourceTypes, Piping
<1>3. CASE HeaderFailed BY <1>3 DEF HeaderFailed, SourceTypes, Piping
<1>4. CASE BuildFailed BY <1>4 DEF BuildFailed, SourceTypes, Piping
<1>5. CASE Encode BY <1>5 DEF Encode, SourceTypes, Piping
<1>6. CASE Exit
  <2> USE <1>6 DEF Exit, SourceTypes
  <2>1. crashed' \in BOOLEAN BY ZenonT(30)
  <2>2. held' \in BOOLEAN /\ source_open' \in BOOLEAN /\ pipe_error' \in BOOLEAN /\ closed'
        \in BOOLEAN /\ failed' \in BOOLEAN OBVIOUS
  <2>3. QED BY <2>1, <2>2 DEF Piping
<1>7. CASE WriterCheck BY <1>7 DEF WriterCheck, SourceTypes, Piping
<1>8. CASE WriterRead
  <2> USE <1>8 DEF WriterRead, SourceTypes
  <2>1. pipe_error' \in BOOLEAN BY ZenonT(30)
  <2>2. failed' \in BOOLEAN BY ZenonT(30)
  <2>3. held' \in BOOLEAN /\ source_open' \in BOOLEAN /\ closed' \in BOOLEAN /\ crashed' \in
        BOOLEAN OBVIOUS
  <2>4. QED BY <2>1, <2>2, <2>3 DEF Piping
<1>9. CASE WriterWrite BY <1>9 DEF WriterWrite, SourceTypes, Piping
<1>10. CASE WriterClose BY <1>10 DEF WriterClose, SourceTypes, Piping
<1>11. CASE ReadVideoFrame
  <2> USE <1>11 DEF ReadVideoFrame, SourceTypes
  <2>1. closed' \in BOOLEAN BY ZenonT(30)
  <2>2. held' \in BOOLEAN /\ source_open' \in BOOLEAN /\ pipe_error' \in BOOLEAN /\ failed'
        \in BOOLEAN /\ crashed' \in BOOLEAN OBVIOUS
  <2>3. QED BY <2>1, <2>2 DEF Piping
<1>12. CASE FrameRead BY <1>12 DEF FrameRead, SourceTypes, Piping
<1>13. CASE Returned
  <2> USE <1>13 DEF Returned, SourceTypes
  <2>1. closed' \in BOOLEAN BY ZenonT(30)
  <2>2. held' \in BOOLEAN /\ source_open' \in BOOLEAN /\ pipe_error' \in BOOLEAN /\ failed'
        \in BOOLEAN /\ crashed' \in BOOLEAN OBVIOUS
  <2>3. QED BY <2>1, <2>2 DEF Piping
<1>14. CASE BeginCleanup BY <1>14 DEF BeginCleanup, SourceTypes, Piping
<1>15. CASE Claim
  <2> USE <1>15 DEF Claim, SourceTypes
  <2>1. held' \in BOOLEAN BY ZenonT(30)
  <2>2. closed' \in BOOLEAN BY ZenonT(30)
  <2>3. source_open' \in BOOLEAN BY ZenonT(30)
  <2>4. pipe_error' \in BOOLEAN /\ failed' \in BOOLEAN /\ crashed' \in BOOLEAN OBVIOUS
  <2>5. QED BY <2>1, <2>2, <2>3, <2>4 DEF Piping
<1>16. CASE Terminate BY <1>16 DEF Terminate, SourceTypes, Piping
<1>17. CASE WaitOrKill BY <1>17 DEF WaitOrKill, SourceTypes, Piping
<1>18. CASE ClosePipes BY <1>18 DEF ClosePipes, SourceTypes, Piping
<1>19. CASE JoinWriter
  <2> USE <1>19 DEF JoinWriter, SourceTypes
  <2>1. source_open' \in BOOLEAN BY ZenonT(30)
  <2>2. held' \in BOOLEAN /\ pipe_error' \in BOOLEAN /\ closed' \in BOOLEAN /\ failed' \in
        BOOLEAN /\ crashed' \in BOOLEAN OBVIOUS
  <2>3. QED BY <2>1, <2>2 DEF Piping
<1>20. CASE UNCHANGED ffmpegVars BY <1>20 DEF SourceTypes, Piping
<1>21. QED BY <1>1, <1>2, <1>3, <1>4, <1>5, <1>6, <1>7, <1>8, <1>9, <1>10, <1>11, <1>12,
       <1>13, <1>14, <1>15, <1>16, <1>17, <1>18, <1>19, <1>20 DEF FFmpegNext, BuildStep,
       WriterStep, ReaderStep, CleanupStep

\* The constructor: there is a process from Spawn on, and when there is none nothing
\* else is there either.
LEMMA BuiltStep ==
    ASSUME FFmpegInv, [FFmpegNext]_ffmpegVars PROVE Built'
<1> USE FFmpegAssumption DEF FFmpegInv, procVars, pipeVars, calm, still, others, ffmpegVars,
        SourceTypes, Built, Alive
<1>1. CASE Spawn BY <1>1 DEF Spawn
<1>2. CASE ReadHeader BY <1>2 DEF ReadHeader
<1>3. CASE HeaderFailed BY <1>3 DEF HeaderFailed
<1>4. CASE BuildFailed BY <1>4 DEF BuildFailed
<1>5. CASE Encode BY <1>5 DEF Encode
<1>6. CASE Exit BY <1>6 DEF Exit
<1>7. CASE WriterCheck BY <1>7 DEF WriterCheck
<1>8. CASE WriterRead BY <1>8 DEF WriterRead
<1>9. CASE WriterWrite BY <1>9 DEF WriterWrite
<1>10. CASE WriterClose BY <1>10 DEF WriterClose
<1>11. CASE ReadVideoFrame BY <1>11 DEF ReadVideoFrame
<1>12. CASE FrameRead BY <1>12 DEF FrameRead
<1>13. CASE Returned BY <1>13 DEF Returned
<1>14. CASE BeginCleanup BY <1>14 DEF BeginCleanup
<1>15. CASE Claim BY <1>15 DEF Claim
<1>16. CASE Terminate BY <1>16 DEF Terminate
<1>17. CASE WaitOrKill BY <1>17 DEF WaitOrKill
<1>18. CASE ClosePipes BY <1>18 DEF ClosePipes
<1>19. CASE JoinWriter BY <1>19 DEF JoinWriter
<1>20. CASE UNCHANGED ffmpegVars BY <1>20
<1> QED BY <1>1, <1>2, <1>3, <1>4, <1>5, <1>6, <1>7, <1>8, <1>9, <1>10, <1>11, <1>12, <1>13,
           <1>14, <1>15, <1>16, <1>17, <1>18, <1>19, <1>20 DEF FFmpegNext, BuildStep,
           WriterStep, ReaderStep, CleanupStep

\* cleanup: a process that was waited for or killed, a pipe that was closed and a
\* source that was closed stay that way.
LEMMA CleanedUpStep ==
    ASSUME FFmpegInv, [FFmpegNext]_ffmpegVars PROVE CleanedUp'
<1> USE FFmpegAssumption DEF FFmpegInv, procVars, pipeVars, calm, still, others, ffmpegVars,
        SourceTypes, Built, CleanedUp, WriterAlone, Alive
<1>1. CASE Spawn BY <1>1 DEF Spawn
<1>2. CASE ReadHeader BY <1>2 DEF ReadHeader
<1>3. CASE HeaderFailed BY <1>3 DEF HeaderFailed
<1>4. CASE BuildFailed BY <1>4 DEF BuildFailed
<1>5. CASE Encode BY <1>5 DEF Encode
<1>6. CASE Exit BY <1>6 DEF Exit
<1>7. CASE WriterCheck BY <1>7 DEF WriterCheck
<1>8. CASE WriterRead BY <1>8 DEF WriterRead
<1>9. CASE WriterWrite BY <1>9 DEF WriterWrite
<1>10. CASE WriterClose BY <1>10 DEF WriterClose
<1>11. CASE ReadVideoFrame BY <1>11 DEF ReadVideoFrame
<1>12. CASE FrameRead BY <1>12 DEF FrameRead
<1>13. CASE Returned BY <1>13 DEF Returned
<1>14. CASE BeginCleanup BY <1>14 DEF BeginCleanup
<1>15. CASE Claim BY <1>15 DEF Claim
<1>16. CASE Terminate BY <1>16 DEF Terminate
<1>17. CASE WaitOrKill BY <1>17 DEF WaitOrKill
<1>18. CASE ClosePipes BY <1>18 DEF ClosePipes
<1>19. CASE JoinWriter BY <1>19 DEF JoinWriter
<1>20. CASE UNCHANGED ffmpegVars BY <1>20
<1> QED BY <1>1, <1>2, <1>3, <1>4, <1>5, <1>6, <1>7, <1>8, <1>9, <1>10, <1>11, <1>12, <1>13,
           <1>14, <1>15, <1>16, <1>17, <1>18, <1>19, <1>20 DEF FFmpegNext, BuildStep,
           WriterStep, ReaderStep, CleanupStep

\* _pipe_writer, until cleanup: only it closes stdin, with its source at its end or
\* an error noted, and FFmpeg cannot end by itself before that.
LEMMA WriterAloneStep ==
    ASSUME FFmpegInv, [FFmpegNext]_ffmpegVars PROVE WriterAlone'
<1> USE FFmpegAssumption DEF FFmpegInv, procVars, pipeVars, calm, still, others, ffmpegVars,
        SourceTypes, Piping, Built, CleanedUp, WriterAlone, ErrorNoted, Alive
<1>1. CASE Spawn BY <1>1 DEF Spawn
<1>2. CASE ReadHeader BY <1>2 DEF ReadHeader
<1>3. CASE HeaderFailed BY <1>3 DEF HeaderFailed
<1>4. CASE BuildFailed BY <1>4 DEF BuildFailed
<1>5. CASE Encode BY <1>5 DEF Encode
<1>6. CASE Exit BY <1>6 DEF Exit
<1>7. CASE WriterCheck BY <1>7 DEF WriterCheck
<1>8. CASE WriterRead BY <1>8 DEF WriterRead
<1>9. CASE WriterWrite BY <1>9 DEF WriterWrite
<1>10. CASE WriterClose BY <1>10 DEF WriterClose
<1>11. CASE ReadVideoFrame BY <1>11 DEF ReadVideoFrame
<1>12. CASE FrameRead BY <1>12 DEF FrameRead
<1>13. CASE Returned BY <1>13 DEF Returned
<1>14. CASE BeginCleanup BY <1>14 DEF BeginCleanup
<1>15. CASE Claim BY <1>15 DEF Claim
<1>16. CASE Terminate BY <1>16 DEF Terminate
<1>17. CASE WaitOrKill BY <1>17 DEF WaitOrKill
<1>18. CASE ClosePipes BY <1>18 DEF ClosePipes
<1>19. CASE JoinWriter BY <1>19 DEF JoinWriter
<1>20. CASE UNCHANGED ffmpegVars BY <1>20
<1> QED BY <1>1, <1>2, <1>3, <1>4, <1>5, <1>6, <1>7, <1>8, <1>9, <1>10, <1>11, <1>12, <1>13,
           <1>14, <1>15, <1>16, <1>17, <1>18, <1>19, <1>20 DEF FFmpegNext, BuildStep,
           WriterStep, ReaderStep, CleanupStep

\* _native_pipe_writer notes an error before anything else can be seen of it.
LEMMA ErrorNotedStep ==
    ASSUME FFmpegInv, [FFmpegNext]_ffmpegVars PROVE ErrorNoted'
<1> USE FFmpegAssumption DEF FFmpegInv, procVars, pipeVars, calm, still, others, ffmpegVars,
        SourceTypes, Built, WriterAlone, ErrorNoted
<1>1. CASE Spawn BY <1>1 DEF Spawn
<1>2. CASE ReadHeader BY <1>2 DEF ReadHeader
<1>3. CASE HeaderFailed BY <1>3 DEF HeaderFailed
<1>4. CASE BuildFailed BY <1>4 DEF BuildFailed
<1>5. CASE Encode BY <1>5 DEF Encode
<1>6. CASE Exit BY <1>6 DEF Exit
<1>7. CASE WriterCheck BY <1>7 DEF WriterCheck
<1>8. CASE WriterRead BY <1>8 DEF WriterRead
<1>9. CASE WriterWrite BY <1>9 DEF WriterWrite
<1>10. CASE WriterClose BY <1>10 DEF WriterClose
<1>11. CASE ReadVideoFrame BY <1>11 DEF ReadVideoFrame
<1>12. CASE FrameRead BY <1>12 DEF FrameRead
<1>13. CASE Returned BY <1>13 DEF Returned
<1>14. CASE BeginCleanup BY <1>14 DEF BeginCleanup
<1>15. CASE Claim BY <1>15 DEF Claim
<1>16. CASE Terminate BY <1>16 DEF Terminate
<1>17. CASE WaitOrKill BY <1>17 DEF WaitOrKill
<1>18. CASE ClosePipes BY <1>18 DEF ClosePipes
<1>19. CASE JoinWriter BY <1>19 DEF JoinWriter
<1>20. CASE UNCHANGED ffmpegVars BY <1>20
<1> QED BY <1>1, <1>2, <1>3, <1>4, <1>5, <1>6, <1>7, <1>8, <1>9, <1>10, <1>11, <1>12, <1>13,
           <1>14, <1>15, <1>16, <1>17, <1>18, <1>19, <1>20 DEF FFmpegNext, BuildStep,
           WriterStep, ReaderStep, CleanupStep

\* Until cleanup every chunk is in the source, in the writer, in a pipe, in the
\* reader or shown; so a read_frame that finds nothing finds the video complete.
LEMMA FramesAccountedStep ==
    ASSUME FFmpegInv, [FFmpegNext]_ffmpegVars PROVE FramesAccounted'
<1> USE FFmpegAssumption DEF FFmpegInv, procVars, pipeVars, calm, still, others, ffmpegVars,
        SourceTypes, Piping, Built, WriterAlone, ErrorNoted, FramesAccounted, Alive, Flag
<1>1. CASE Spawn BY <1>1 DEF Spawn
<1>2. CASE ReadHeader BY <1>2 DEF ReadHeader
<1>3. CASE HeaderFailed BY <1>3 DEF HeaderFailed
<1>4. CASE BuildFailed BY <1>4 DEF BuildFailed
<1>5. CASE Encode BY <1>5 DEF Encode
<1>6. CASE Exit BY <1>6 DEF Exit
<1>7. CASE WriterCheck BY <1>7 DEF WriterCheck
<1>8. CASE WriterRead BY <1>8 DEF WriterRead
<1>9. CASE WriterWrite BY <1>9 DEF WriterWrite
<1>10. CASE WriterClose BY <1>10 DEF WriterClose
<1>11. CASE ReadVideoFrame BY <1>11 DEF ReadVideoFrame
<1>12. CASE FrameRead BY <1>12 DEF FrameRead
<1>13. CASE Returned BY <1>13 DEF Returned
<1>14. CASE BeginCleanup BY <1>14 DEF BeginCleanup
<1>15. CASE Claim BY <1>15 DEF Claim
<1>16. CASE Terminate BY <1>16 DEF Terminate
<1>17. CASE WaitOrKill BY <1>17 DEF WaitOrKill
<1>18. CASE ClosePipes BY <1>18 DEF ClosePipes
<1>19. CASE JoinWriter BY <1>19 DEF JoinWriter
<1>20. CASE UNCHANGED ffmpegVars BY <1>20
<1> QED BY <1>1, <1>2, <1>3, <1>4, <1>5, <1>6, <1>7, <1>8, <1>9, <1>10, <1>11, <1>12, <1>13,
           <1>14, <1>15, <1>16, <1>17, <1>18, <1>19, <1>20 DEF FFmpegNext, BuildStep,
           WriterStep, ReaderStep, CleanupStep

\* A source that is about to be built satisfies the invariant.
LEMMA InitFFmpegInv == FFmpegInit => FFmpegInv
<1> SUFFICES ASSUME FFmpegInit PROVE FFmpegInv OBVIOUS
<1> USE FFmpegAssumption DEF FFmpegInit, FFmpegAssumption
<1>1. SourceTypes
  <2>1. source_open \in BOOLEAN
    <3>1. CASE mode = "none" BY <3>1
    <3>2. CASE mode # "none" BY <3>2
    <3> QED BY <3>1, <3>2
  <2>2. held \in BOOLEAN /\ pipe_error \in BOOLEAN /\ closed \in BOOLEAN /\ failed \in BOOLEAN
        /\ crashed \in BOOLEAN
    OBVIOUS
  <2> QED BY <2>1, <2>2 DEF SourceTypes
<1>2. Built BY DEF Built
<1>3. CleanedUp BY DEF CleanedUp
<1>4. WriterAlone BY DEF WriterAlone, Piping, Alive
<1>5. ErrorNoted BY DEF ErrorNoted
<1>6. FramesAccounted BY DEF FramesAccounted, Flag
<1> QED BY <1>1, <1>2, <1>3, <1>4, <1>5, <1>6 DEF FFmpegInv

\* What the invariant says of the end, of errors and of what is left behind.
LEMMA FFmpegInvSound == FFmpegInv => FFmpegSound
<1> SUFFICES ASSUME FFmpegInv PROVE FFmpegSound OBVIOUS
<1> USE DEF FFmpegInv
<1>1. NothingLeftRunning BY DEF Built, CleanedUp, NothingLeftRunning, Alive
<1>2. EndIsHonest BY DEF FramesAccounted, EndIsHonest
<1>3. ErrorIsReal BY DEF ErrorNoted, ErrorIsReal
<1> QED BY <1>1, <1>2, <1>3 DEF FFmpegSound

\* For any number of chunks and any pipes: after cleanup or a constructor that raised
\* nothing runs or is open, an end is reported only after every frame, and an error
\* only for a source that failed (FFmpegVideoSource).
THEOREM FFmpegIsSound == FFmpegSpec => []FFmpegSound
<1>1. FFmpegInit => FFmpegInv BY InitFFmpegInv
<1>2. FFmpegInv /\ [FFmpegNext]_ffmpegVars => FFmpegInv'
  <2> SUFFICES ASSUME FFmpegInv, [FFmpegNext]_ffmpegVars PROVE FFmpegInv' OBVIOUS
  <2> QED BY SourceTypesStep, BuiltStep, CleanedUpStep, WriterAloneStep, ErrorNotedStep,
             FramesAccountedStep DEF FFmpegInv
<1>3. FFmpegInv => FFmpegSound BY FFmpegInvSound
<1> QED BY <1>1, <1>2, <1>3, PTL DEF FFmpegSpec
==============================================================================

--------------------------- MODULE StreamSession ---------------------------
(***************************************************************************)
(* The session of a StreamClient (stream_client.py): the uploads of        *)
(* previews of the source that plays, and what the client does when the    *)
(* stream becomes unavailable, available again or is deleted.  All of it   *)
(* runs on the event loop and interleaves at the awaits of the preview     *)
(* task and of connect; the end of a player arrives as a callback.  The    *)
(* gateway, the connection (discord's VoiceConnectionState) and the        *)
(* uploads are external.                                                   *)
(***************************************************************************)
EXTENDS Integers, FiniteSets

CONSTANTS
    MaxSources,     \* bound: sources that are played
    MaxTasks,       \* bound: preview tasks
    MaxOutages      \* bound: times the stream or the connection is lost

ASSUME StreamAssumption == {MaxSources, MaxTasks, MaxOutages} \subseteq Nat

VARIABLES
    enabled,        \* stream_preview_enabled
    provider,       \* _stream_preview_provider: NoProvider, Custom or a source
    task,           \* _stream_preview_task, 0 for none
    tasks,          \* task -> where it is
    cancelled,      \* tasks that were cancelled
    playing,        \* the source the player was given last, 0 for none
    picked,         \* the source its thread has picked up
    finishing,      \* sources whose player has ended, and finished is still to be called
    online,         \* is_connected
    unavailable,    \* external: the stream is unavailable
    reconnect_on_available, \* _reconnect_on_available
    connecting,     \* connect() called by on_stream_available: "no", "begun" or "enabling"
    cleaned_up,     \* cleanup() has run
    surprised,      \* ghost: the stream was lost while connect was in its last await
    dropped,        \* ghost: the connection was lost, to come back without connect
    sources, outages    \* counts

previewVars == <<enabled, provider, task, tasks, cancelled>>
playVars == <<playing, picked, finishing, sources>>
linkVars == <<online, unavailable, reconnect_on_available, connecting, cleaned_up, surprised,
              dropped, outages>>
streamVars == <<previewVars, playVars, linkVars>>

NoProvider == 0
Custom == -1
Tasks == 1 .. MaxTasks

\* A StreamClient that has connected.
StreamInit ==
    /\ enabled = FALSE /\ provider = NoProvider /\ task = 0
    /\ tasks = [t \in Tasks |-> "new"] /\ cancelled = {}
    /\ playing = 0 /\ picked = 0 /\ finishing = {} /\ sources = 0
    /\ online = TRUE /\ unavailable = FALSE /\ reconnect_on_available = FALSE
    /\ connecting = "no" /\ cleaned_up = FALSE /\ surprised = FALSE /\ dropped = FALSE
    /\ outages = 0

Running(t) == tasks[t] \notin {"new", "done"}

-----------------------------------------------------------------------------
(************************** the preview settings ***************************)

\* _ensure_stream_preview_task, with the settings on, from and the connection
\* up.  It makes a task if there is none or it is done.
EnsureTask(on, from, up) ==
    IF on /\ from # NoProvider /\ up /\ (task = 0 \/ ~Running(task))
    THEN \E t \in Tasks :
            /\ tasks[t] = "new" /\ \A u \in Tasks : u < t => tasks[u] # "new"
            /\ tasks' = [tasks EXCEPT ![t] = "asleep"]
            /\ task' = t
    ELSE UNCHANGED <<tasks, task>>

\* A mutation of CancelTask: the task is forgotten and runs on.
CancelTaskForgets == task' = 0 /\ UNCHANGED cancelled

\* _cancel_stream_preview_task
CancelTask ==
    /\ task' = 0
    /\ cancelled' = IF task # 0 /\ Running(task) THEN cancelled \cup {task} ELSE cancelled

\* stop_preview_loop
StopPreviewLoop ==
    /\ ~cleaned_up
    /\ enabled' = FALSE
    /\ CancelTask
    /\ UNCHANGED <<provider, tasks, playVars, linkVars>>

\* set_preview_provider with a callable, or with None, which stops the loop.
SetPreviewProvider(p) ==
    /\ ~cleaned_up
    /\ provider' = p
    /\ IF p = NoProvider THEN enabled' = FALSE /\ CancelTask
                         ELSE UNCHANGED <<enabled, task, cancelled>>
    /\ UNCHANGED <<tasks, playVars, linkVars>>

\* start_preview_loop with the provider that is set.
StartPreviewLoop ==
    /\ provider # NoProvider /\ ~cleaned_up
    /\ enabled' = TRUE
    /\ EnsureTask(TRUE, provider, online)
    /\ UNCHANGED <<provider, cancelled, playVars, linkVars>>

\* _set_default_stream_preview_provider: a provider of the user's is kept.
DefaultProvider(source) == IF provider = Custom THEN Custom ELSE source

\* play: the new source becomes the provider, unless the user gives one, or
\* gives None; then a loop that is enabled goes on.
Play(how) ==
    LET source == sources + 1
        from   == CASE how = "source" -> source
                    [] how = "custom" -> Custom
                    [] how = "none" -> DefaultProvider(source)
    IN  /\ online /\ playing = 0 /\ ~cleaned_up
        /\ sources < MaxSources
        /\ sources' = source /\ playing' = source /\ picked' = source
        /\ provider' = from
        /\ enabled' = (enabled \/ how # "none")
        /\ EnsureTask(enabled', from, online)
        /\ UNCHANGED <<cancelled, finishing, linkVars>>

\* set_source of the player: _media_player_source_changed.
ChangeSource ==
    LET source == sources + 1
    IN  /\ playing # 0
        /\ sources < MaxSources
        /\ sources' = source /\ playing' = source
        /\ provider' = DefaultProvider(source)
        /\ EnsureTask(enabled, provider', online)
        /\ UNCHANGED <<enabled, cancelled, picked, finishing, linkVars>>

\* The thread of the player picks up the source it was given.
PickUpSource ==
    /\ playing # picked
    /\ picked' = playing
    /\ UNCHANGED <<previewVars, playing, finishing, sources, linkVars>>

\* stop(), or the end of the source: the thread schedules the callback with the
\* source it has picked up.
StopPlaying ==
    /\ playing' = 0 /\ picked' = 0
    /\ finishing' = IF picked = 0 THEN finishing ELSE finishing \cup {picked}
    /\ UNCHANGED sources

PlayerEnds ==
    /\ playing # 0
    /\ StopPlaying
    /\ UNCHANGED <<previewVars, linkVars>>

\* _media_player_finished, on the event loop: previews of this source stop.
MediaPlayerFinished(source) ==
    /\ source \in finishing
    /\ finishing' = finishing \ {source}
    /\ IF provider = source
       THEN enabled' = FALSE /\ provider' = NoProvider /\ CancelTask
       ELSE UNCHANGED <<enabled, provider, task, cancelled>>
    /\ UNCHANGED <<tasks, playing, picked, sources, linkVars>>

-----------------------------------------------------------------------------
(**************************** the preview task *****************************)

\* _run_stream_preview_loop wakes up: it ends when previews are off or the
\* client is not connected; it reads the provider unless the stream is paused
\* or there is none.
TaskWakes(t, paused) ==
    /\ tasks[t] = "asleep" /\ t \notin cancelled
    /\ IF enabled /\ online
       THEN /\ tasks' = [tasks EXCEPT ![t] = IF paused \/ provider = NoProvider THEN @ ELSE "reading"]
            /\ UNCHANGED task
       ELSE /\ tasks' = [tasks EXCEPT ![t] = "done"]
            /\ task' = IF task = t THEN 0 ELSE task
    /\ UNCHANGED <<enabled, provider, cancelled, playVars, linkVars>>

\* The provider returns an image, which is uploaded, or none, or raises.
TaskReads(t, image) ==
    /\ tasks[t] = "reading" /\ t \notin cancelled
    /\ tasks' = [tasks EXCEPT ![t] = IF image THEN "uploading" ELSE "asleep"]
    /\ UNCHANGED <<enabled, provider, task, cancelled, playVars, linkVars>>

\* The upload ends, or fails.
TaskUploads(t) ==
    /\ tasks[t] = "uploading" /\ t \notin cancelled
    /\ tasks' = [tasks EXCEPT ![t] = "asleep"]
    /\ UNCHANGED <<enabled, provider, task, cancelled, playVars, linkVars>>

\* A cancelled task ends at its await.  It clears _stream_preview_task only if
\* that is still itself.
TaskCancelled(t) ==
    /\ Running(t) /\ t \in cancelled
    /\ tasks' = [tasks EXCEPT ![t] = "done"]
    /\ task' = IF task = t THEN 0 ELSE task
    /\ UNCHANGED <<enabled, provider, cancelled, playVars, linkVars>>

-----------------------------------------------------------------------------
(************************** gateway and connection *************************)

\* on_stream_unavailable of a client that reconnects.  The preview task is
\* cancelled, previews stay enabled.
OnStreamUnavailable ==
    /\ ~unavailable /\ ~cleaned_up
    /\ outages < MaxOutages
    /\ outages' = outages + 1
    /\ unavailable' = TRUE
    /\ StopPlaying
    /\ CancelTask
    /\ reconnect_on_available' = TRUE
    /\ online' = FALSE
    /\ surprised' = (surprised \/ connecting = "enabling")
    /\ UNCHANGED <<enabled, provider, tasks, connecting, cleaned_up, dropped>>

\* on_stream_available: connect is called if an outage asked for it.
OnStreamAvailable ==
    /\ unavailable /\ ~cleaned_up
    /\ unavailable' = FALSE
    /\ connecting' = IF reconnect_on_available /\ ~online THEN "begun" ELSE connecting
    /\ UNCHANGED <<previewVars, playVars, online, reconnect_on_available, cleaned_up, surprised,
                   dropped, outages>>

\* connect has a connection, and awaits enable_video_receive.
Connected ==
    /\ connecting = "begun" /\ ~unavailable
    /\ connecting' = "enabling"
    /\ online' = TRUE
    /\ UNCHANGED <<previewVars, playVars, unavailable, reconnect_on_available, cleaned_up, surprised,
                   dropped, outages>>

\* connect returns: previews go on, and the wish to reconnect is cleared.
ConnectReturns ==
    /\ connecting = "enabling"
    /\ connecting' = "no"
    /\ EnsureTask(enabled, provider, online)
    /\ reconnect_on_available' = FALSE
    /\ UNCHANGED <<enabled, provider, cancelled, playVars, online, unavailable, cleaned_up, surprised,
                   dropped, outages>>

\* connect raises: it timed out, or, once there is a connection, could not send
\* its request; discord then takes care of the connection.
ConnectFails ==
    /\ connecting # "no"
    /\ connecting' = "no"
    /\ dropped' = (dropped \/ connecting = "enabling")
    /\ UNCHANGED <<previewVars, playVars, online, unavailable, reconnect_on_available, cleaned_up,
                   surprised, outages>>

\* The connection is lost and comes back by itself, without connect.
ConnectionDrops ==
    /\ connecting = "no" /\ ~unavailable /\ ~cleaned_up
    /\ online \/ dropped
    /\ online => outages < MaxOutages
    /\ online' = ~online
    /\ dropped' = TRUE
    /\ outages' = IF online THEN outages + 1 ELSE outages
    /\ UNCHANGED <<previewVars, playVars, unavailable, reconnect_on_available, connecting, cleaned_up,
                   surprised>>

\* cleanup: previews and playback end
CleanupClient == enabled' = FALSE /\ CancelTask /\ StopPlaying /\ cleaned_up' = TRUE

\* disconnect, by the user, by on_stream_delete, or by on_stream_unavailable of a
\* client that does not reconnect: the connection is closed and everything is
\* cleaned up.  A connect that is under way is not cancelled by a client that is
\* not connected.
Disconnect ==
    /\ ~cleaned_up
    /\ CleanupClient
    /\ online' = FALSE
    /\ connecting' = IF online THEN "no" ELSE connecting
    /\ UNCHANGED <<provider, tasks, unavailable, reconnect_on_available, surprised, dropped, outages>>

StreamNext ==
    \/ StopPreviewLoop \/ StartPreviewLoop \/ ChangeSource \/ PickUpSource \/ PlayerEnds
    \/ \E p \in {NoProvider, Custom} : SetPreviewProvider(p)
    \/ \E how \in {"source", "custom", "none"} : Play(how)
    \/ \E source \in 1 .. MaxSources : MediaPlayerFinished(source)
    \/ \E t \in Tasks :
          \/ \E b \in BOOLEAN : TaskWakes(t, b) \/ TaskReads(t, b)
          \/ TaskUploads(t) \/ TaskCancelled(t)
    \/ OnStreamUnavailable \/ OnStreamAvailable \/ Connected \/ ConnectReturns \/ ConnectFails
    \/ ConnectionDrops \/ Disconnect

StreamSpec == StreamInit /\ [][StreamNext]_streamVars

-----------------------------------------------------------------------------
\* There is one preview loop at most, the one the client knows of, and none
\* when previews were stopped, the source has finished or the client was
\* cleaned up: no cancelled or forgotten task goes on uploading, also when
\* connect returns after the cleanup.
OnePreviewLoop ==
    \A t \in Tasks : (Running(t) /\ t \notin cancelled) => (t = task /\ enabled /\ ~cleaned_up)

\* Previews that were started go on: while they are enabled, there is a
\* provider and the client is connected, the loop runs, across outages of the
\* stream, changes of the source and players that end late.  Excepted: a
\* connection that was lost and came back by itself, in the middle of which the
\* loop may have ended.
PreviewsGoOn ==
    (enabled /\ provider # NoProvider /\ online /\ connecting = "no" /\ ~dropped) =>
        task # 0 /\ Running(task) /\ task \notin cancelled

\* A client whose stream became unavailable wants to reconnect until it is
\* connected again: an attempt that fails, or is overtaken by another outage,
\* does not end that.  Excepted: an outage in the last await of connect, whose
\* end then clears the wish.
ReconnectNotForgotten ==
    (~online /\ ~cleaned_up /\ ~surprised /\ ~dropped) =>
        reconnect_on_available

\* Across outages, changes of the source and late callbacks a stream client
\* uploads previews in one loop, and does not forget to reconnect.
SessionGoesOn == OnePreviewLoop /\ PreviewsGoOn /\ ReconnectNotForgotten
=============================================================================

---------------------------- MODULE MediaReceive ----------------------------
(***************************************************************************)
(* Receiving media: VoiceClient.listen, set_sink and stop_listening        *)
(* (client.py), the listeners that _ConnectionState keeps on the current   *)
(* UDP socket, and what a StreamClient does to both when its stream        *)
(* becomes unavailable and comes back (stream_client.py).                  *)
(*                                                                         *)
(* Two threads run this code: the event loop, and the dispatcher of the    *)
(* UDP transport, which delivers batches and itself stops listening when a *)
(* callback raises.  Python may switch threads between any two statements; *)
(* a method is as many steps as it has reads and writes that matter.       *)
(*                                                                         *)
(* Sinks, plain callables and after callbacks are numbered by the listen   *)
(* or set_sink call they were passed to, and are new each time.  RTX is    *)
(* enabled.  Decoding is one step that fills the receive state.            *)
(***************************************************************************)
EXTENDS Integers, FiniteSets

CONSTANTS
    MaxTargets,     \* bound: calls of listen and set_sink
    MaxSockets,     \* bound: sockets
    MaxBatches,     \* bound: batches delivered
    MaxBatch,       \* packets a batch decodes to, at most
    MaxStops,       \* bound: calls of stop_listening
    MaxVideo        \* bound: changes of the outgoing video

ASSUME MediaReceiveAssumption ==
    /\ MaxTargets \in Nat /\ MaxSockets \in Nat \ {0} /\ MaxBatches \in Nat
    /\ MaxBatch \in Nat \ {0} /\ MaxStops \in Nat /\ MaxVideo \in Nat

Threads == {"loop", "dispatcher"}
Targets == 1..MaxTargets
None == 0
DispatchSink == -1      \* the method _dispatch_media_sink_packet
Callbacks == {"media", "rtcp"}

VARIABLES
    socket,             \* the current socket
    registered,         \* its listeners: [id, callback]
    next_id,            \* the next id it gives
    udp_listener_ids,   \* callback -> the id it was given, or None
    connected,          \* is_connected(); FALSE between unavailable and reconnect
    socket_listener, rtcp_listener, \* the attribute is set
    media_callback,     \* None, DispatchSink or a callable
    media_sink, media_after,        \* a sink, an after callback, or None
    nack_thread,        \* the NACK retry thread runs
    receive_state,      \* the socket the receive state holds packets of, or None
    video,              \* there are active video streams
    pc,                 \* thread -> where its method is
    after,              \* thread -> the after callback _stop_listening has read
    sink,               \* thread -> the sink it has read
    upto,               \* thread -> the targets there were when it began
    dpc,                \* where the dispatcher is in _handle_socket_packets
    callback,           \* the callback it has read
    left,               \* packets of the batch still to pass on
    target,             \* the target it is about to write to
    targets, batches, stops, changes,   \* history: bounded counters
    sinks, listens,     \* history: targets that are sinks; that listen was given
    stopped,            \* history: targets whose _stop_listening has returned
    cleaned,            \* history: sinks that were cleaned up
    after_calls,        \* history: target -> calls of its after callback
    late,               \* history: target -> packets it got after being stopped
    overlap,            \* history: a method overlapped, other than a stop with a stop
    doubled,            \* history: a stop overlapped with a stop
    via,                \* history: how the last socket came about
    stale               \* history: it came while media was received or sent

client == <<socket_listener, media_callback, media_sink, media_after>>
net == <<socket, registered, next_id, udp_listener_ids, rtcp_listener>>
conn == <<connected, video, via, stale>>
stopping == <<after, sink, upto>>
dispatching == <<dpc, callback, left, target>>
bounds == <<targets, batches, stops, changes, sinks, listens>>
seen == <<stopped, cleaned, after_calls, late>>
vars == <<client, net, conn, nack_thread, receive_state, pc, stopping, dispatching, bounds,
          seen, overlap, doubled>>

Init ==
    /\ socket = 1 /\ registered = {} /\ next_id = 1
    /\ udp_listener_ids = [c \in Callbacks |-> None]
    /\ connected = TRUE /\ via = "connect" /\ stale = FALSE
    /\ socket_listener = FALSE /\ rtcp_listener = FALSE
    /\ media_callback = None /\ media_sink = None /\ media_after = None
    /\ nack_thread = FALSE
    /\ receive_state = None
    /\ video = FALSE
    /\ pc = [t \in Threads |-> "idle"]
    /\ after = [t \in Threads |-> None] /\ sink = [t \in Threads |-> None]
    /\ upto = [t \in Threads |-> 0]
    /\ dpc = "idle" /\ callback = None /\ left = 0 /\ target = None
    /\ targets = 0 /\ batches = 0 /\ stops = 0 /\ changes = 0
    /\ sinks = {} /\ listens = {}
    /\ stopped = {} /\ cleaned = {}
    /\ after_calls = [t \in Targets |-> 0] /\ late = [t \in Targets |-> 0]
    /\ overlap = FALSE /\ doubled = FALSE

is_listening == socket_listener \/ media_callback # None \/ media_sink # None

Goto(t, label) == pc' = [pc EXCEPT ![t] = label]

\* Thread t is in _stop_listening.
Starting == {"listen_attr", "listen_add", "listen_rtcp", "listen_nack", "set_sink"}
Stopping(t) == pc[t] \notin Starting \cup {"idle"}

\* A method begins on t; overlap and doubled record that the other thread is
\* in one.
Begin(t, label) ==
    /\ pc[t] = "idle"
    /\ Goto(t, label)
    /\ overlap' = (overlap \/ \E o \in Threads \ {t} :
                       pc[o] # "idle" /\ ~(label = "remove" /\ Stopping(o)))
    /\ doubled' = (doubled \/ (label = "remove" /\ \E o \in Threads \ {t} : Stopping(o)))

-----------------------------------------------------------------------------
(************************ the listeners of a socket ************************)

\* add_rtp_listener, add_rtcp_listener
AddListener(c) ==
    /\ registered' = registered \cup {[id |-> next_id, callback |-> c]}
    /\ next_id' = next_id + 1
    /\ udp_listener_ids' = [udp_listener_ids EXCEPT ![c] = next_id]

\* remove_socket_listener: whatever has that id on the current socket goes.
RemoveListener(c) ==
    /\ registered' = {l \in registered : l.id # udp_listener_ids[c]}
    /\ udp_listener_ids' = [udp_listener_ids EXCEPT ![c] = None]
    /\ UNCHANGED next_id

EnsureRtcpListener ==
    IF rtcp_listener
    THEN UNCHANGED <<rtcp_listener, registered, next_id, udp_listener_ids>>
    ELSE rtcp_listener' = TRUE /\ AddListener("rtcp")

StopRtcpListener ==
    /\ rtcp_listener' = FALSE
    /\ IF rtcp_listener THEN RemoveListener("rtcp")
       ELSE UNCHANGED <<registered, next_id, udp_listener_ids>>

\* A mutation of StopRtcpIfIdle: only the outgoing video is considered.
StopRtcpIfVideoIdle(sending) ==
    IF sending
    THEN UNCHANGED <<rtcp_listener, registered, next_id, udp_listener_ids>>
    ELSE StopRtcpListener

\* _stop_rtcp_listener_if_idle
StopRtcpIfIdle(sending) ==
    IF is_listening \/ sending
    THEN UNCHANGED <<rtcp_listener, registered, next_id, udp_listener_ids>>
    ELSE StopRtcpListener

-----------------------------------------------------------------------------
(*************************** listen and set_sink ***************************)

NewTarget == targets < MaxTargets /\ targets' = targets + 1

\* listen: the checks, and the sink or callable and its after callback; ...
Listen ==
    /\ connected
    /\ ~is_listening
    /\ NewTarget
    /\ Begin("loop", "listen_attr")
    /\ \/ /\ media_sink' = targets + 1 /\ media_callback' = DispatchSink
          /\ sinks' = sinks \cup {targets + 1}
       \/ /\ media_callback' = targets + 1
          /\ UNCHANGED <<media_sink, sinks>>
    /\ listens' = listens \cup {targets + 1}
    /\ media_after' = targets + 1
    /\ UNCHANGED <<socket_listener, net, conn, nack_thread, receive_state, stopping,
                   dispatching, batches, stops, changes, seen>>

\* ... the listener is noted, ...
ListenNotes ==
    /\ pc["loop"] = "listen_attr"
    /\ socket_listener' = TRUE
    /\ Goto("loop", "listen_add")
    /\ UNCHANGED <<media_callback, media_sink, media_after, net, conn, nack_thread,
                   receive_state, stopping, dispatching, bounds, seen, overlap, doubled>>

\* ... registered with the socket, ...
ListenRegisters ==
    /\ pc["loop"] = "listen_add"
    /\ AddListener("media")
    /\ Goto("loop", "listen_rtcp")
    /\ UNCHANGED <<client, socket, rtcp_listener, conn, nack_thread, receive_state, stopping,
                   dispatching, bounds, seen, overlap, doubled>>

\* ... and the listener for feedback and the retry thread are started.
ListenStartsFeedback ==
    /\ pc["loop"] = "listen_rtcp"
    /\ EnsureRtcpListener
    /\ Goto("loop", "listen_nack")
    /\ UNCHANGED <<client, socket, conn, nack_thread, receive_state, stopping, dispatching,
                   bounds, seen, overlap, doubled>>

ListenStartsRetries ==
    /\ pc["loop"] = "listen_nack"
    /\ nack_thread' = TRUE
    /\ Goto("loop", "idle")
    /\ UNCHANGED <<client, net, conn, receive_state, stopping, dispatching, bounds, seen,
                   overlap, doubled>>

\* set_sink checks, and then replaces the sink.
SetSink ==
    /\ is_listening /\ media_callback # None
    /\ targets < MaxTargets
    /\ Begin("loop", "set_sink")
    /\ UNCHANGED <<client, net, conn, nack_thread, receive_state, stopping, dispatching,
                   bounds, seen>>

SetSinkReplaces ==
    /\ pc["loop"] = "set_sink"
    /\ NewTarget
    /\ sinks' = sinks \cup {targets + 1}
    /\ media_sink' = targets + 1
    /\ media_callback' = DispatchSink
    /\ Goto("loop", "idle")
    /\ UNCHANGED <<socket_listener, media_after, net, conn, nack_thread, receive_state,
                   stopping, dispatching, batches, stops, changes, listens, seen, overlap,
                   doubled>>
-----------------------------------------------------------------------------
(*************** _stop_listening, on either of the threads *****************)

StopBegins(t) ==
    /\ is_listening
    /\ Begin(t, "remove")
    /\ upto' = [upto EXCEPT ![t] = targets]

\* The application stops listening, or the event loop does, when what a
\* callback returned could not be awaited.
stop_listening ==
    /\ stops < MaxStops
    /\ stops' = stops + 1
    /\ StopBegins("loop")
    /\ UNCHANGED <<client, net, conn, nack_thread, receive_state, after, sink, dispatching,
                   targets, batches, changes, sinks, listens, seen>>

StopRemoves(t) ==
    /\ pc[t] = "remove"
    /\ IF socket_listener THEN RemoveListener("media")
       ELSE UNCHANGED <<registered, next_id, udp_listener_ids>>
    /\ Goto(t, "detach")
    /\ UNCHANGED <<client, socket, rtcp_listener, conn, nack_thread, receive_state, stopping,
                   dispatching, bounds, seen, overlap, doubled>>

StopDetaches(t) ==
    /\ pc[t] = "detach"
    /\ socket_listener' = FALSE
    /\ media_callback' = None
    /\ Goto(t, "read_after")
    /\ UNCHANGED <<media_sink, media_after, net, conn, nack_thread, receive_state, stopping,
                   dispatching, bounds, seen, overlap, doubled>>

StopReadsAfter(t) ==
    /\ pc[t] = "read_after"
    /\ after' = [after EXCEPT ![t] = media_after]
    /\ Goto(t, "clear_after")
    /\ UNCHANGED <<client, net, conn, nack_thread, receive_state, sink, upto, dispatching,
                   bounds, seen, overlap, doubled>>

StopClearsAfter(t) ==
    /\ pc[t] = "clear_after"
    /\ media_after' = None
    /\ Goto(t, "read_sink")
    /\ UNCHANGED <<socket_listener, media_callback, media_sink, net, conn, nack_thread,
                   receive_state, stopping, dispatching, bounds, seen, overlap, doubled>>

StopReadsSink(t) ==
    /\ pc[t] = "read_sink"
    /\ sink' = [sink EXCEPT ![t] = media_sink]
    /\ Goto(t, "clear_sink")
    /\ UNCHANGED <<client, net, conn, nack_thread, receive_state, after, upto, dispatching,
                   bounds, seen, overlap, doubled>>

StopClearsSink(t) ==
    /\ pc[t] = "clear_sink"
    /\ media_sink' = None
    /\ Goto(t, "nack")
    /\ UNCHANGED <<socket_listener, media_callback, media_after, net, conn, nack_thread,
                   receive_state, stopping, dispatching, bounds, seen, overlap, doubled>>

\* _reset_receive_transport_state: the retry thread is stopped and joined, ...
StopEndsRetries(t) ==
    /\ pc[t] = "nack"
    /\ nack_thread' = FALSE
    /\ Goto(t, "reset")
    /\ UNCHANGED <<client, net, conn, receive_state, stopping, dispatching, bounds, seen,
                   overlap, doubled>>

\* ... and the receive state is cleared.
StopResets(t) ==
    /\ pc[t] = "reset"
    /\ receive_state' = None
    /\ Goto(t, "rtcp")
    /\ UNCHANGED <<client, net, conn, nack_thread, stopping, dispatching, bounds, seen,
                   overlap, doubled>>

\* _stop_rtcp_listener_if_idle: the check, and then the removal.
StopChecksIdle(t) ==
    /\ pc[t] = "rtcp"
    /\ Goto(t, IF is_listening \/ video THEN "cleanup" ELSE "rtcp_stop")
    /\ UNCHANGED <<client, net, conn, nack_thread, receive_state, stopping, dispatching,
                   bounds, seen, overlap, doubled>>

StopEndsFeedback(t) ==
    /\ pc[t] = "rtcp_stop"
    /\ StopRtcpListener
    /\ Goto(t, "cleanup")
    /\ UNCHANGED <<client, socket, conn, nack_thread, receive_state, stopping, dispatching,
                   bounds, seen, overlap, doubled>>

StopCleansUp(t) ==
    /\ pc[t] = "cleanup"
    /\ cleaned' = cleaned \cup ({sink[t]} \ {None})
    /\ Goto(t, "after")
    /\ UNCHANGED <<client, net, conn, nack_thread, receive_state, stopping, dispatching,
                   bounds, stopped, after_calls, late, overlap, doubled>>

\* The after callback is called, and _stop_listening returns; on the
\* dispatcher that ends the batch.
StopCallsAfter(t) ==
    /\ pc[t] = "after"
    /\ after_calls' = [c \in Targets |-> after_calls[c] + (IF c = after[t] THEN 1 ELSE 0)]
    /\ stopped' = stopped \cup 1..upto[t]
    /\ after' = [after EXCEPT ![t] = None]
    /\ sink' = [sink EXCEPT ![t] = None]
    /\ upto' = [upto EXCEPT ![t] = 0]
    /\ dpc' = IF t = "dispatcher" THEN "idle" ELSE dpc
    /\ Goto(t, "idle")
    /\ UNCHANGED <<client, net, conn, nack_thread, receive_state, callback, left, target,
                   bounds, cleaned, late, overlap, doubled>>

StopStep(t) ==
    \/ StopRemoves(t) \/ StopDetaches(t) \/ StopReadsAfter(t) \/ StopClearsAfter(t)
    \/ StopReadsSink(t) \/ StopClearsSink(t) \/ StopEndsRetries(t) \/ StopResets(t)
    \/ StopChecksIdle(t) \/ StopEndsFeedback(t) \/ StopCleansUp(t) \/ StopCallsAfter(t)

-----------------------------------------------------------------------------
(*************************** the UDP dispatcher ****************************)

\* The transport has a batch for the media listener on the current socket.
Deliver ==
    /\ dpc = "idle"
    /\ \E l \in registered : l.callback = "media"
    /\ batches < MaxBatches
    /\ batches' = batches + 1
    /\ dpc' = "enter"
    /\ UNCHANGED <<client, net, conn, nack_thread, receive_state, pc, stopping, callback, left,
                   target, targets, stops, changes, sinks, listens, seen, overlap, doubled>>

\* A mutation of Current: the callback of the batch before is kept.
CurrentCached == IF callback # None THEN callback ELSE media_callback

\* self._media_callback, read once for the whole batch.
Current == media_callback

handle_socket_packets ==
    /\ dpc = "enter"
    /\ callback' = Current
    /\ dpc' = IF Current = None THEN "idle" ELSE "decode"
    /\ UNCHANGED <<client, net, conn, nack_thread, receive_state, pc, stopping, left, target,
                   bounds, seen, overlap, doubled>>

\* _decode_media_packets fills reorder buffers, depacketizers, NACK tables...
\* A batch that fails to decode passes nothing on.
Decode ==
    /\ dpc = "decode"
    /\ receive_state' = socket
    /\ left' \in 0..MaxBatch
    /\ dpc' = IF left' = 0 THEN "idle" ELSE "dispatch"
    /\ UNCHANGED <<client, net, conn, nack_thread, pc, stopping, callback, target, bounds,
                   seen, overlap, doubled>>

\* _dispatch_media_sink_packet reads the sink anew for every packet.
Destination == IF callback = DispatchSink THEN media_sink ELSE callback

PassOn ==
    /\ dpc = "dispatch"
    /\ target' = Destination
    /\ IF Destination # None
       THEN dpc' = "write" /\ UNCHANGED left
       ELSE left' = left - 1 /\ dpc' = IF left = 1 THEN "idle" ELSE "dispatch"
    /\ UNCHANGED <<client, net, conn, nack_thread, receive_state, pc, stopping, callback,
                   bounds, seen, overlap, doubled>>

\* The target gets the packet ...
Writes ==
    /\ dpc = "write"
    /\ late' = [late EXCEPT ![target] = IF target \in stopped THEN @ + 1 ELSE @]
    /\ left' = left - 1

\* ... and returns, ...
Write ==
    /\ Writes
    /\ dpc' = IF left = 1 THEN "idle" ELSE "dispatch"
    /\ UNCHANGED <<client, net, conn, nack_thread, receive_state, pc, stopping, callback,
                   target, bounds, stopped, cleaned, after_calls, overlap, doubled>>

\* ... or raises, and the dispatcher stops listening.
WriteRaises ==
    /\ Writes
    /\ IF is_listening
       THEN StopBegins("dispatcher") /\ dpc' = "stop"
       ELSE dpc' = "idle" /\ UNCHANGED <<pc, overlap, doubled, upto>>
    /\ UNCHANGED <<client, net, conn, nack_thread, receive_state, after, sink, callback,
                   target, bounds, stopped, cleaned, after_calls>>

-----------------------------------------------------------------------------
(****************** outgoing video and the RTC connection ******************)

\* A synchronous method of the event loop, in one step.
Atomically ==
    /\ pc["loop"] = "idle"
    /\ overlap' = (overlap \/ pc["dispatcher"] # "idle")
    /\ UNCHANGED doubled

\* The listener's part of _apply_selected_video_stream, with RTX negotiated.
apply_selected_video_stream ==
    /\ Atomically
    /\ connected
    /\ changes < MaxVideo
    /\ changes' = changes + 1
    /\ video' = TRUE
    /\ EnsureRtcpListener
    /\ UNCHANGED <<client, socket, connected, via, stale, nack_thread, receive_state, pc, stopping,
                   dispatching, targets, batches, stops, sinks, listens, seen>>

\* The listener's part of stop_video.
stop_video ==
    /\ Atomically
    /\ video
    /\ video' = FALSE
    /\ StopRtcpIfIdle(FALSE)
    /\ UNCHANGED <<client, socket, connected, via, stale, nack_thread, receive_state, pc, stopping,
                   dispatching, bounds, seen>>

\* on_stream_unavailable, when the client is to reconnect.
on_stream_unavailable ==
    /\ Atomically
    /\ connected
    /\ connected' = FALSE
    /\ StopRtcpListener
    /\ nack_thread' = FALSE
    /\ receive_state' = None
    /\ UNCHANGED <<client, socket, video, via, stale, pc, stopping, dispatching, bounds, seen>>

\* _recreate_socket, after the stream was unavailable or its server changed:
\* closing the old socket waits for its dispatcher, the new one has no
\* listeners.  The attributes of the client and _udp_listener_ids stay.
recreate_socket ==
    /\ Atomically
    /\ dpc = "idle"
    /\ socket < MaxSockets
    /\ socket' = socket + 1
    /\ registered' = {} /\ next_id' = 1
    /\ via' = IF connected THEN "server_update" ELSE "unavailable"
    /\ connected' = TRUE
    /\ stale' = (is_listening \/ video)
    /\ UNCHANGED <<client, udp_listener_ids, rtcp_listener, video, nack_thread, receive_state,
                   pc, stopping, dispatching, bounds, seen>>

-----------------------------------------------------------------------------
Next ==
    \/ Listen \/ ListenNotes \/ ListenRegisters \/ ListenStartsFeedback \/ ListenStartsRetries
    \/ SetSink \/ SetSinkReplaces
    \/ stop_listening \/ \E t \in Threads : StopStep(t)
    \/ Deliver \/ handle_socket_packets \/ Decode \/ PassOn \/ Write \/ WriteRaises
    \/ apply_selected_video_stream \/ stop_video \/ on_stream_unavailable \/ recreate_socket

Spec == Init /\ [][Next]_vars

-----------------------------------------------------------------------------
Quiet == dpc = "idle" /\ \A t \in Threads : pc[t] = "idle"
Registered(c) == \E l \in registered : l.callback = c

\* The variables keep their types, and the ids on a socket are unique.
TypeOK ==
    /\ socket \in 1..MaxSockets
    /\ registered \subseteq [id : 1..(next_id - 1), callback : Callbacks]
    /\ \A l, m \in registered : l.id = m.id => l = m
    /\ next_id \in Nat \ {0}
    /\ udp_listener_ids \in [Callbacks -> Nat]
    /\ {connected, socket_listener, rtcp_listener, nack_thread, video} \subseteq BOOLEAN
    /\ {overlap, doubled, stale} \subseteq BOOLEAN
    /\ media_callback \in Targets \cup {None, DispatchSink}
    /\ {media_sink, media_after, target} \subseteq Targets \cup {None}
    /\ receive_state \in 0..socket
    /\ callback \in Targets \cup {None, DispatchSink}
    /\ left \in 0..MaxBatch
    /\ stopped \subseteq Targets /\ cleaned \subseteq sinks
    /\ sinks \cup listens \subseteq 1..targets
    /\ after_calls \in [Targets -> Nat] /\ late \in [Targets -> Nat]

\* A target is passed at most the rest of one batch after _stop_listening has
\* returned, and a sink at most the packet being written, whatever overlaps:
\* the dispatcher reads _media_callback per batch and _media_sink per packet.
LatePacketsBounded ==
    \A t \in Targets : late[t] <= IF t \in sinks THEN 1 ELSE MaxBatch

\* The active sink is one that _stop_listening has not cleaned up.
ActiveSinkIsOpen == media_sink \notin cleaned

\* While nothing is under way, also after the event loop and the dispatcher
\* stopped listening at the same time: no listener is left on any socket that
\* the client's attributes do not ask for, feedback is heard and the retry
\* thread runs only for media that is received or sent, and every listen that
\* has ended has called its after callback, once if its stop was the only one.
\* Excepted is what began while the other thread was in a method, unless both
\* are stops (overlap).
NothingLeft ==
    (Quiet /\ ~overlap) =>
        /\ is_listening = socket_listener
        /\ Registered("media") => socket_listener
        /\ Registered("rtcp") => rtcp_listener
        /\ rtcp_listener => (is_listening \/ video)
        /\ nack_thread => is_listening
        /\ \A t \in listens \ stopped : after_calls[t] = 0 /\ media_after = t
        /\ \A t \in listens \cap stopped : after_calls[t] \in 1..(IF doubled THEN 2 ELSE 1)

\* Nor is anything missing that they ask for, on a socket that was made while
\* nothing was received or sent: one that replaces another meanwhile has no
\* listeners, and the ids that are kept are not its own (stale).
NothingMissing ==
    (Quiet /\ ~overlap /\ ~stale /\ connected) =>
        /\ is_listening => Registered("media") /\ nack_thread
        /\ (is_listening \/ video) => Registered("rtcp")

\* Without overlap other than of two stops, no callback is registered twice
\* with a socket, so that no packet is delivered twice, also across reconnects.
DeliveredOnce ==
    ~overlap => \A l, m \in registered : l.callback = m.callback => l = m

\* The sink in use is open, whatever overlaps.  After listen, set_sink, stops
\* that may overlap, errors and reconnects, the listeners of the socket are
\* those that the client's state asks for and none is there twice: none too
\* many on any socket, none too few on one that was not made while media was
\* received or sent.
ListeningConsistent ==
    TypeOK /\ ActiveSinkIsOpen /\ NothingLeft /\ NothingMissing /\ DeliveredOnce

-----------------------------------------------------------------------------
(****** what the comments and docstrings say and the code does not do ******)

\* on_stream_unavailable: "Keep receive sinks registered across reconnect":
\* after a reconnect a client that was listening hears the new socket.
SinksSurviveReconnect ==
    (Quiet /\ ~overlap /\ connected /\ via = "unavailable" /\ is_listening) =>
        Registered("media")

\* on_stream_unavailable: "drop packet state tied to the old stream RTC
\* transport": what is received after a reconnect starts from a clean state.
OldPacketStateDropped ==
    (Quiet /\ ~overlap /\ via = "unavailable") => receive_state \in {None, socket}

\* listen: "A callback called after listening stops": a listen that has been
\* stopped has called its own after callback.
AfterIsCalled ==
    (Quiet /\ ~is_listening) => \A t \in listens : after_calls[t] > 0

\* listen: a listen that began while the dispatcher was still stopping the one
\* before is itself heard or ended, and leaves no listener without an owner.
NoListenerIsLeft ==
    (Quiet /\ ~is_listening) => ~Registered("media")
=============================================================================

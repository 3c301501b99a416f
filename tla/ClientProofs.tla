---------------------------- MODULE ClientProofs ----------------------------
(***************************************************************************)
(* Proofs about what the two clients keep while listening or streaming     *)
(* stops under them: the sinks and listeners they have registered          *)
(* (MediaReceive, client.py), the frames that wait for DAVE keys           *)
(* (DavePending, client.py) and the session of a stream client             *)
(* (StreamSession, stream_client.py); for every number of targets,         *)
(* sockets, batches, calls, frames and sessions.                           *)
(*                                                                         *)
(* What a stopped target still gets (LateIsBounded) and that the client    *)
(* keeps the listeners it needs (ListeningIsConsistent) are not inductive. *)
(* ReceiveInv adds what is true in the middle of a method: which           *)
(* attributes a step of listen or _stop_listening leaves set, also when    *)
(* both threads stop at once, which of two such stops still has the after  *)
(* callback to call, that what was cleared stays cleared however the other *)
(* thread interferes, and what the dispatcher holds of the batch it is     *)
(* passing on.                                                             *)
(*                                                                         *)
(* A held frame is in one list at a time, so what has to be kept is where  *)
(* each list stands to the others: what a pass has put back is older than  *)
(* what it still has to try, all of it together fits, and a frame without  *)
(* a fate is in one of the three.  Of a session it is enough that a task   *)
(* the client forgets is cancelled, and that connect begins without a      *)
(* connection.                                                             *)
(***************************************************************************)
EXTENDS MediaReceive, DavePending, StreamSession, SequenceTheorems, TLAPS


-----------------------------------------------------------------------------
\* The types, in parts.
ListenerTypes ==
    /\ next_id \in Nat \ {0}
    /\ registered \subseteq [id : 1..(next_id - 1), callback : Callbacks]
    /\ \A l, m \in registered : l.id = m.id => l = m
    /\ udp_listener_ids \in [Callbacks -> Nat]

SocketTypes ==
    /\ ListenerTypes
    /\ socket \in 1..MaxSockets /\ receive_state \in 0..socket
    /\ {connected, socket_listener, rtcp_listener, nack_thread, video} \subseteq BOOLEAN
    /\ {overlap, doubled, stale} \subseteq BOOLEAN

MethodNames == {"idle", "listen_attr", "listen_add", "listen_rtcp", "listen_nack", "set_sink",
                "remove", "detach", "read_after", "clear_after", "read_sink", "clear_sink",
                "nack", "reset", "rtcp", "rtcp_stop", "cleanup", "after"}

MethodTypes ==
    /\ pc \in [Threads -> MethodNames]
    /\ upto \in [Threads -> Nat] /\ \A t \in Threads : upto[t] <= targets
    /\ after \in [Threads -> listens \cup {None}]
    /\ sink \in [Threads -> sinks \cup {None}]

TargetTypes ==
    /\ targets \in 0..MaxTargets
    /\ sinks \subseteq 1..targets /\ listens \subseteq 1..targets
    /\ stopped \subseteq 1..targets /\ cleaned \subseteq sinks
    /\ media_callback \in ((1..targets) \ sinks) \cup {None, DispatchSink}
    /\ media_sink \in sinks \cup {None}
    /\ media_after \in listens \cup {None}
    /\ after_calls \in [Targets -> Nat] /\ late \in [Targets -> Nat]
    /\ \A t \in Targets : after_calls[t] > 0 => t \in listens

BatchTypes ==
    /\ dpc \in {"idle", "enter", "decode", "dispatch", "write", "stop"}
    /\ callback \in ((1..targets) \ sinks) \cup {None, DispatchSink}
    /\ left \in 0..MaxBatch
    /\ target \in (1..targets) \cup {None}
    /\ dpc \in {"decode", "dispatch", "write"} => callback # None
    /\ dpc \in {"dispatch", "write"} => left > 0
    /\ dpc = "write" => /\ target # None
                        /\ target = callback \/ (callback = DispatchSink /\ target \in sinks)
    /\ pc["dispatcher"] # "idle" => dpc = "stop"

Types == SocketTypes /\ MethodTypes /\ TargetTypes /\ BatchTypes

\* Where _stop_listening has cleared the callback, and where the sink too.
Detached == {"read_after", "clear_after", "read_sink", "clear_sink", "nack", "reset", "rtcp",
             "rtcp_stop", "cleanup", "after"}
Cleared == {"nack", "reset", "rtcp", "rtcp_stop", "cleanup", "after"}

\* What has been cleared does not come back: it is new whatever is listened with
\* next.
StaysCleared ==
    \A t \in Threads :
        /\ pc[t] \in Detached => media_callback \notin 1..upto[t]
        /\ pc[t] \in Cleared =>
              /\ media_sink \notin 1..upto[t]
              /\ media_sink # None => media_sink # sink[t]
StoppedIsGone ==
    media_callback \notin stopped /\ media_sink \notin stopped /\ media_sink \notin cleaned

\* Only what the dispatcher holds can be late: for a callable the rest of the
\* batch, for a sink the packet that is being written.
LateIsHeld ==
    /\ \A t \in Targets : late[t] > 0 => t \in stopped
    /\ \A t \in Targets : t \in sinks => late[t] <= 1
    /\ \A t \in Targets : t \notin sinks => late[t] <= MaxBatch
    /\ dpc = "decode" /\ callback \in Targets => late[callback] = 0
    /\ dpc \in {"dispatch", "write"} /\ callback \in Targets => late[callback] + left <= MaxBatch
    /\ dpc = "write" /\ target \in sinks => late[target] = 0
-----------------------------------------------------------------------------
\* Some thread is at one of these places.
At(places) == \E t \in Threads : pc[t] \in places

\* What holds unless something else than a stop overlapped: one method at a
\* time, or two that stop, ...
Exclusive ==
    /\ pc["loop"] \in Starting => pc["dispatcher"] = "idle"
    /\ pc["dispatcher"] \in Starting => pc["loop"] = "idle"
    /\ ~doubled => pc["loop"] = "idle" \/ pc["dispatcher"] = "idle"

\* ... the ids of listeners, their own or those of an earlier socket, ...
KnownIds ==
    /\ \A l \in registered : udp_listener_ids[l.callback] = l.id
    /\ udp_listener_ids["media"] # None =>
            socket_listener /\ ~At({"listen_attr", "listen_add", "detach"})
    /\ udp_listener_ids["rtcp"] # None => rtcp_listener

\* ... the attributes of the client, wherever its methods are, ...
Attributes ==
    /\ At({"listen_attr"}) => ~socket_listener /\ media_callback # None
    /\ At(Starting \ {"listen_attr"}) => socket_listener /\ media_callback # None
    /\ At(Detached) => ~socket_listener /\ media_callback = None
    /\ At(Cleared) => media_sink = None
    /\ ~At(Starting \cup Detached) =>
            /\ socket_listener <=> media_callback # None
            /\ media_sink # None => socket_listener

\* ... what runs for media or is about to be stopped, ...
Needed ==
    /\ rtcp_listener => \/ video \/ socket_listener
                        \/ At(Detached \ {"cleanup", "after"})
    /\ nack_thread => \/ socket_listener
                      \/ At({"read_after", "clear_after", "read_sink", "clear_sink", "nack"})
    /\ At({"rtcp_stop"}) => ~video

\* ... and, unless the socket replaced another while it was needed, that all of
\* it is there.
Steady == ~overlap /\ ~stale /\ connected

Present ==
    /\ \A c \in Callbacks : udp_listener_ids[c] # None => Registered(c)
    /\ rtcp_listener => Registered("rtcp")
    /\ socket_listener /\ ~At({"listen_add", "detach"}) => Registered("media")
    /\ video \/ (socket_listener /\ ~At({"listen_add", "listen_rtcp"})) => rtcp_listener
    /\ socket_listener /\ ~At({"listen_add", "listen_rtcp", "listen_nack"}) => nack_thread

\* The after callback that is still to be called: where it is kept, ...
Past == Detached \ {"read_after", "clear_after"}

AfterStored ==
    /\ \A t \in Threads : pc[t] \notin Past \cup {"clear_after"} => after[t] = None
    /\ pc["loop"] = "clear_after" /\ media_after # None => after["loop"] = media_after
    /\ pc["dispatcher"] = "clear_after" /\ media_after # None => after["dispatcher"] = media_after
    /\ At(Past) => media_after = None
    /\ media_after # None => socket_listener \/ At({"listen_attr", "read_after", "clear_after"})

\* ... which listens have been stopped, ...
StopsAll ==
    /\ \A t \in Threads : Stopping(t) => upto[t] = targets
    /\ media_after \notin stopped
    /\ listens \subseteq stopped \cup {media_after} \/ At(Past)

\* ... and how often it is called: once by each of the stops that have read it.
Held(u) == (IF after["loop"] = u THEN 1 ELSE 0) + (IF after["dispatcher"] = u THEN 1 ELSE 0)

CallsCounted ==
    \A u \in listens :
        IF u = media_after THEN after_calls[u] = 0
        ELSE after_calls[u] + Held(u) \in 1..(IF doubled THEN 2 ELSE 1)

Undisturbed ==
    ~overlap => /\ Exclusive /\ KnownIds /\ Attributes /\ Needed
                /\ AfterStored /\ StopsAll /\ CallsCounted

InSteady == Steady => Present

ReceiveInv == Types /\ StaysCleared /\ StoppedIsGone /\ LateIsHeld /\ Undisturbed /\ InSteady

-----------------------------------------------------------------------------
(********************************** types **********************************)

\* Counting a late packet keeps the type of late.
LEMMA LateTyped ==
    ASSUME late \in [Targets -> Nat], NEW t,
           late' = [late EXCEPT ![t] = IF t \in stopped THEN @ + 1 ELSE @]
    PROVE  late' \in [Targets -> Nat]
  <1>1. CASE t \in Targets
    <2>1. late[t] \in Nat
      BY <1>1
    <2>2. (IF t \in stopped THEN late[t] + 1 ELSE late[t]) \in Nat
      BY <2>1
    <2> QED
      BY <1>1, <2>2
  <1>2. CASE t \notin Targets
    BY <1>2
  <1> QED
    BY <1>1, <1>2

\* The number of a new target is in range and not taken.
LEMMA NewIsInRange ==
    ASSUME NEW n \in Nat, NEW S \in SUBSET (1..n)
    PROVE  S \cup {n + 1} \in SUBSET (1..(n + 1)) /\ S \in SUBSET (1..(n + 1)) /\ n + 1 \notin S
  <1>1. 1..n \subseteq 1..(n + 1) /\ n + 1 \in 1..(n + 1) /\ n + 1 \notin 1..n
    OBVIOUS
  <1> QED
    BY <1>1

\* The methods keep their types.
LEMMA MethodsKept ==
    ASSUME MethodTypes, TargetTypes, [Next]_vars
    PROVE  MethodTypes'
  <1> USE DEF MethodTypes, TargetTypes, MethodNames, Targets, Threads, None
  <1>1. CASE Listen
    BY <1>1 DEF Listen, NewTarget, Begin, is_listening, Goto, client, net, conn, stopping,
       dispatching, bounds, seen
  <1>2. CASE ListenNotes \/ ListenRegisters \/ ListenStartsFeedback \/ ListenStartsRetries
    BY <1>2 DEF ListenNotes, ListenRegisters, ListenStartsFeedback, ListenStartsRetries,
       AddListener, EnsureRtcpListener, Goto, client, net, conn, stopping, dispatching, bounds,
       seen
  <1>3. CASE SetSink
    BY <1>3 DEF SetSink, Begin, is_listening, Goto, client, net, conn, stopping, dispatching,
       bounds, seen
  <1>4. CASE SetSinkReplaces
    <2>1. targets' = targets + 1 /\ sinks' = sinks \cup {targets + 1}
          /\ pc' = [pc EXCEPT !["loop"] = "idle"] /\ UNCHANGED <<upto, after, sink, listens>>
      BY <1>4 DEF SetSinkReplaces, NewTarget, Goto, stopping
    <2>2. \A t \in Threads : upto[t] <= targets'
      BY <2>1
    <2>3. sink \in [Threads -> sinks' \cup {None}]
      BY <2>1
    <2> QED
      BY <2>1, <2>2, <2>3
  <1>5. CASE stop_listening
    BY <1>5 DEF stop_listening, StopBegins, Begin, is_listening, Goto, client, net, conn,
       stopping, dispatching, bounds, seen
  <1>6. ASSUME NEW t \in Threads, StopRemoves(t) \/ StopDetaches(t) PROVE MethodTypes'
    BY <1>6 DEF StopRemoves, StopDetaches, RemoveListener, Goto, client, net, conn, stopping,
       dispatching, bounds, seen
  <1>7. ASSUME NEW t \in Threads,
               StopReadsAfter(t) \/ StopClearsAfter(t)
               \/ StopReadsSink(t) \/ StopClearsSink(t)
        PROVE  MethodTypes'
    BY <1>7 DEF StopReadsAfter, StopClearsAfter, StopReadsSink, StopClearsSink, Goto, client, net,
       conn, stopping, dispatching, bounds, seen
  <1>8. ASSUME NEW t \in Threads,
               StopEndsRetries(t) \/ StopResets(t)
               \/ StopChecksIdle(t) \/ StopEndsFeedback(t)
        PROVE  MethodTypes'
    BY <1>8 DEF StopEndsRetries, StopResets, StopChecksIdle, StopEndsFeedback, is_listening,
       StopRtcpListener, RemoveListener, Goto, client, net, conn, stopping, dispatching, bounds,
       seen
  <1>9. ASSUME NEW t \in Threads, StopCleansUp(t) PROVE MethodTypes'
    BY <1>9 DEF StopCleansUp, Goto, client, net, conn, stopping, dispatching, bounds, seen
  <1>10. ASSUME NEW t \in Threads, StopCallsAfter(t) PROVE MethodTypes'
    BY <1>10 DEF StopCallsAfter, Goto, client, net, conn, stopping, dispatching, bounds, seen
  <1>11. CASE Deliver \/ handle_socket_packets \/ Decode \/ PassOn
    BY <1>11 DEF Deliver, handle_socket_packets, Decode, PassOn, Current, Destination, Goto,
       client, net, conn, stopping, dispatching, bounds, seen
  <1>12. CASE Write \/ WriteRaises
    BY <1>12 DEF Write, WriteRaises, Writes, is_listening, StopBegins, Begin, Goto, client, net,
       conn, stopping, dispatching, bounds, seen
  <1>13. CASE apply_selected_video_stream \/ stop_video \/ on_stream_unavailable
    BY <1>13 DEF apply_selected_video_stream, stop_video, on_stream_unavailable, Atomically,
       EnsureRtcpListener, AddListener, StopRtcpIfIdle, StopRtcpListener, RemoveListener,
       is_listening, Goto, client, net, conn, stopping, dispatching, bounds, seen
  <1>14. CASE recreate_socket
    BY <1>14 DEF recreate_socket, Atomically, Goto, client, net, conn, stopping, dispatching,
       bounds, seen
  <1>15. CASE UNCHANGED vars
    BY <1>15 DEF vars, client, net, conn, stopping, dispatching, bounds, seen
  <1> QED
    BY <1>1, <1>2, <1>3, <1>4, <1>5, <1>6, <1>7, <1>8, <1>9, <1>10, <1>11, <1>12, <1>13, <1>14,
       <1>15 DEF Next, StopStep

\* What was passed to listen and set_sink keeps its types.
LEMMA TargetsKept ==
    ASSUME MethodTypes, TargetTypes, BatchTypes, [Next]_vars
    PROVE  TargetTypes'
  <1> USE DEF MethodTypes, TargetTypes, BatchTypes, Threads, Targets, None, DispatchSink
  <1>1. CASE Listen
    <2>1. /\ targets' = targets + 1 /\ targets < MaxTargets
          /\ \/ /\ sinks' = sinks \cup {targets + 1} /\ media_sink' = targets + 1
                /\ media_callback' = DispatchSink
             \/ sinks' = sinks /\ media_sink' = media_sink /\ media_callback' = targets + 1
          /\ listens' = listens \cup {targets + 1} /\ media_after' = targets + 1
          /\ UNCHANGED <<stopped, cleaned, after_calls, late>>
      BY <1>1 DEF Listen, NewTarget, seen
    <2>2. targets + 1 \notin sinks /\ targets + 1 \in 1..MaxTargets /\ targets + 1 # DispatchSink
      BY <2>1, MediaReceiveAssumption
    <2>3. sinks' \subseteq 1..targets' /\ listens' \subseteq 1..targets'
      <3>1. targets \in Nat /\ sinks \in SUBSET (1..targets) /\ listens \in SUBSET (1..targets)
        BY MediaReceiveAssumption
      <3> HIDE DEF TargetTypes, Targets
      <3> QED
        BY <3>1, <2>1, NewIsInRange
    <2>4. media_callback' \in ((1..targets') \ sinks') \cup {None, DispatchSink}
      BY <2>1, <2>2
    <2>5. media_sink' \in sinks' \cup {None} /\ media_after' \in Targets \cup {None}
      BY <2>1, <2>2
    <2> QED
      BY <2>1, <2>2, <2>3, <2>4, <2>5
  <1>2. CASE ListenNotes \/ ListenRegisters \/ ListenStartsFeedback \/ ListenStartsRetries
    BY <1>2, MediaReceiveAssumption DEF ListenNotes, ListenRegisters, ListenStartsFeedback,
       ListenStartsRetries, AddListener, EnsureRtcpListener, Goto, client, net, conn, stopping,
       dispatching, bounds, seen
  <1>3. CASE SetSink
    BY <1>3, MediaReceiveAssumption DEF SetSink, Begin, is_listening, Goto, client, net, conn,
       stopping, dispatching, bounds, seen
  <1>4. CASE SetSinkReplaces
    <2>1. /\ targets' = targets + 1 /\ targets < MaxTargets
          /\ sinks' = sinks \cup {targets + 1}
          /\ media_sink' = targets + 1 /\ media_callback' = DispatchSink
          /\ UNCHANGED <<media_after, listens, stopped, cleaned, after_calls, late>>
      BY <1>4 DEF SetSinkReplaces, NewTarget, seen
    <2>2. targets + 1 \in 1..MaxTargets
      BY <2>1, MediaReceiveAssumption
    <2>3. sinks' \subseteq 1..targets'
      BY <2>1
    <2> QED
      BY <2>1, <2>2, <2>3
  <1>5. CASE stop_listening
    BY <1>5, MediaReceiveAssumption DEF stop_listening, StopBegins, Begin, is_listening, Goto,
       client, net, conn, stopping, dispatching, bounds, seen
  <1>6. ASSUME NEW t \in Threads, StopRemoves(t) \/ StopDetaches(t) PROVE TargetTypes'
    BY <1>6, MediaReceiveAssumption DEF StopRemoves, StopDetaches, RemoveListener, Goto, client,
       net, conn, stopping, dispatching, bounds, seen
  <1>7. ASSUME NEW t \in Threads,
               StopReadsAfter(t) \/ StopClearsAfter(t)
               \/ StopReadsSink(t) \/ StopClearsSink(t)
        PROVE  TargetTypes'
    BY <1>7, MediaReceiveAssumption DEF StopReadsAfter, StopClearsAfter, StopReadsSink,
       StopClearsSink, Goto, client, net, conn, stopping, dispatching, bounds, seen
  <1>8. ASSUME NEW t \in Threads,
               StopEndsRetries(t) \/ StopResets(t)
               \/ StopChecksIdle(t) \/ StopEndsFeedback(t)
        PROVE  TargetTypes'
    BY <1>8, MediaReceiveAssumption DEF StopEndsRetries, StopResets, StopChecksIdle,
       StopEndsFeedback, is_listening, StopRtcpListener, RemoveListener, Goto, client, net, conn,
       stopping, dispatching, bounds, seen
  <1>9. ASSUME NEW t \in Threads, StopCleansUp(t) PROVE TargetTypes'
    BY <1>9, MediaReceiveAssumption DEF StopCleansUp, Goto, client, net, conn, stopping,
       dispatching, bounds, seen
  <1>10. ASSUME NEW t \in Threads, StopCallsAfter(t) PROVE TargetTypes'
    <2>1. /\ after_calls' = [c \in Targets |-> after_calls[c] + (IF c = after[t] THEN 1 ELSE 0)]
          /\ stopped' = stopped \cup 1..upto[t]
          /\ UNCHANGED <<media_callback, media_sink, media_after, targets, sinks, listens,
                         cleaned, late>>
      BY <1>10 DEF StopCallsAfter, client, bounds
    <2>2. after_calls' \in [Targets -> Nat]
      BY <2>1
    <2>3. stopped' \subseteq 1..targets
      <3>1. upto[t] \in Nat /\ upto[t] <= targets /\ targets \in Nat
        BY <1>10
      <3>2. 1..upto[t] \subseteq 1..targets
        BY <3>1
      <3> QED
        BY <2>1, <3>2
    <2> QED
      BY <2>1, <2>2, <2>3
  <1>11. CASE Deliver \/ handle_socket_packets \/ Decode \/ PassOn
    BY <1>11, MediaReceiveAssumption DEF Deliver, handle_socket_packets, Decode, PassOn, Current,
       Destination, Goto, client, net, conn, stopping, dispatching, bounds, seen
  <1>12. CASE Write
    <2>1. /\ late' = [late EXCEPT ![target] = IF target \in stopped THEN @ + 1 ELSE @]
          /\ UNCHANGED <<media_callback, media_sink, media_after, targets, sinks, listens,
                         stopped, cleaned, after_calls>>
      BY <1>12 DEF Write, Writes, client, bounds
    <2>2. late' \in [Targets -> Nat]
      BY <2>1, LateTyped
    <2> QED
      BY <2>1, <2>2
  <1>13. CASE WriteRaises
    <2>1. /\ late' = [late EXCEPT ![target] = IF target \in stopped THEN @ + 1 ELSE @]
          /\ UNCHANGED <<media_callback, media_sink, media_after, targets, sinks, listens,
                         stopped, cleaned, after_calls>>
      BY <1>13 DEF WriteRaises, Writes, client, bounds
    <2>2. late' \in [Targets -> Nat]
      BY <2>1, LateTyped
    <2> QED
      BY <2>1, <2>2
  <1>14. CASE apply_selected_video_stream \/ stop_video \/ on_stream_unavailable
    BY <1>14, MediaReceiveAssumption DEF apply_selected_video_stream, stop_video,
       on_stream_unavailable, Atomically, EnsureRtcpListener, AddListener, StopRtcpIfIdle,
       StopRtcpListener, RemoveListener, is_listening, Goto, client, net, conn, stopping,
       dispatching, bounds, seen
  <1>15. CASE recreate_socket
    BY <1>15, MediaReceiveAssumption DEF recreate_socket, Atomically, Goto, client, net, conn,
       stopping, dispatching, bounds, seen
  <1>16. CASE UNCHANGED vars
    BY <1>16 DEF vars, client, net, conn, stopping, dispatching, bounds, seen
  <1> QED
    BY <1>1, <1>2, <1>3, <1>4, <1>5, <1>6, <1>7, <1>8, <1>9, <1>10, <1>11, <1>12, <1>13, <1>14,
       <1>15, <1>16 DEF Next, StopStep

\* The dispatcher keeps its types.
LEMMA BatchesKept ==
    ASSUME MethodTypes, TargetTypes, BatchTypes, [Next]_vars
    PROVE  BatchTypes'
  <1> USE DEF MethodTypes, TargetTypes, BatchTypes, Threads, None, DispatchSink
  <1>1. CASE Listen
    BY <1>1, MediaReceiveAssumption, SMTT(30) DEF Listen, NewTarget, Begin, is_listening, Goto,
       client, net,
       conn, stopping, dispatching, bounds, seen
  <1>2. CASE ListenNotes \/ ListenRegisters \/ ListenStartsFeedback \/ ListenStartsRetries
    BY <1>2, MediaReceiveAssumption DEF ListenNotes, ListenRegisters, ListenStartsFeedback,
       ListenStartsRetries, AddListener, EnsureRtcpListener, Goto, client, net, conn, stopping,
       dispatching, bounds, seen
  <1>3. CASE SetSink
    BY <1>3, MediaReceiveAssumption DEF SetSink, Begin, is_listening, Goto, client, net, conn,
       stopping, dispatching, bounds, seen
  <1>4. CASE SetSinkReplaces
    BY <1>4, MediaReceiveAssumption, SMTT(30) DEF SetSinkReplaces, NewTarget, Goto, client, net,
       conn,
       stopping, dispatching, bounds, seen
  <1>5. CASE stop_listening
    BY <1>5, MediaReceiveAssumption DEF stop_listening, StopBegins, Begin, is_listening, Goto,
       client, net, conn, stopping, dispatching, bounds, seen
  <1>6. ASSUME NEW t \in Threads, StopRemoves(t) \/ StopDetaches(t) PROVE BatchTypes'
    BY <1>6, MediaReceiveAssumption DEF StopRemoves, StopDetaches, RemoveListener, Goto, client,
       net, conn, stopping, dispatching, bounds, seen
  <1>7. ASSUME NEW t \in Threads,
               StopReadsAfter(t) \/ StopClearsAfter(t)
               \/ StopReadsSink(t) \/ StopClearsSink(t)
        PROVE  BatchTypes'
    BY <1>7, MediaReceiveAssumption DEF StopReadsAfter, StopClearsAfter, StopReadsSink,
       StopClearsSink, Goto, client, net, conn, stopping, dispatching, bounds, seen
  <1>8. ASSUME NEW t \in Threads,
               StopEndsRetries(t) \/ StopResets(t)
               \/ StopChecksIdle(t) \/ StopEndsFeedback(t)
        PROVE  BatchTypes'
    BY <1>8, MediaReceiveAssumption DEF StopEndsRetries, StopResets, StopChecksIdle,
       StopEndsFeedback, is_listening, StopRtcpListener, RemoveListener, Goto, client, net, conn,
       stopping, dispatching, bounds, seen
  <1>9. ASSUME NEW t \in Threads, StopCleansUp(t) \/ StopCallsAfter(t) PROVE BatchTypes'
    BY <1>9, MediaReceiveAssumption DEF StopCleansUp, StopCallsAfter, Goto, client, net, conn,
       stopping, dispatching, bounds, seen
  <1>10. CASE Deliver \/ handle_socket_packets \/ Decode
    BY <1>10, MediaReceiveAssumption DEF Deliver, handle_socket_packets, Decode, Current, Goto,
       client, net, conn, stopping, dispatching, bounds, seen
  <1>11. CASE PassOn
    <2>1. dpc = "dispatch" /\ target' = Destination /\ UNCHANGED <<pc, callback, targets, sinks>>
      BY <1>11 DEF PassOn, bounds
    <2>2. \/ Destination # None /\ dpc' = "write" /\ left' = left
          \/ /\ Destination = None /\ left' = left - 1
             /\ dpc' = IF left = 1 THEN "idle" ELSE "dispatch"
      BY <1>11 DEF PassOn
    <2>3. /\ Destination \in (1..targets) \cup {None}
          /\ Destination # None => \/ Destination = callback
                                   \/ callback = DispatchSink /\ Destination \in sinks
      BY <2>1 DEF Destination
    <2>4. left > 0 /\ left - 1 \in 0..MaxBatch /\ (left # 1 => left - 1 > 0)
      <3>1. left \in 0..MaxBatch /\ left > 0
        BY <2>1
      <3> QED
        BY <3>1, MediaReceiveAssumption
    <2> HIDE DEF MethodTypes, TargetTypes
    <2> QED
      BY <2>1, <2>2, <2>3, <2>4
  <1>12. CASE Write \/ WriteRaises
    BY <1>12, MediaReceiveAssumption DEF Write, WriteRaises, Writes, is_listening, StopBegins,
       Begin, Goto, client, net, conn, stopping, dispatching, bounds, seen
  <1>13. CASE apply_selected_video_stream \/ stop_video \/ on_stream_unavailable
    BY <1>13, MediaReceiveAssumption DEF apply_selected_video_stream, stop_video,
       on_stream_unavailable, Atomically, EnsureRtcpListener, AddListener, StopRtcpIfIdle,
       StopRtcpListener, RemoveListener, is_listening, Goto, client, net, conn, stopping,
       dispatching, bounds, seen
  <1>14. CASE recreate_socket
    BY <1>14, MediaReceiveAssumption DEF recreate_socket, Atomically, Goto, client, net, conn,
       stopping, dispatching, bounds, seen
  <1>15. CASE UNCHANGED vars
    BY <1>15 DEF vars, client, net, conn, stopping, dispatching, bounds, seen
  <1> QED
    BY <1>1, <1>2, <1>3, <1>4, <1>5, <1>6, <1>7, <1>8, <1>9, <1>10, <1>11, <1>12, <1>13, <1>14,
       <1>15 DEF Next, StopStep

\* A listener gets an id that no other has.
LEMMA AddKeepsTypes ==
    ASSUME ListenerTypes, NEW c \in Callbacks, AddListener(c)
    PROVE  ListenerTypes'
  <1> DEFINE new == [id |-> next_id, callback |-> c]
  <1>1. /\ registered' = registered \cup {new} /\ next_id' = next_id + 1
        /\ udp_listener_ids' = [udp_listener_ids EXCEPT ![c] = next_id]
    BY DEF AddListener
  <1>2. next_id' \in Nat \ {0} /\ 1..(next_id - 1) \subseteq 1..(next_id' - 1)
        /\ next_id \in 1..(next_id' - 1) /\ next_id \notin 1..(next_id - 1)
    BY <1>1 DEF ListenerTypes
  <1>3. new.id = next_id /\ \A l \in registered : l.id # next_id
    BY <1>2 DEF ListenerTypes
  <1>4. new \in [id : 1..(next_id' - 1), callback : Callbacks]
    BY <1>2
  <1>5. registered' \subseteq [id : 1..(next_id' - 1), callback : Callbacks]
    BY <1>1, <1>2, <1>4 DEF ListenerTypes
  <1>6. udp_listener_ids' \in [Callbacks -> Nat]
    BY <1>1 DEF ListenerTypes
  <1>7. \A l, m \in registered' : l.id = m.id => l = m
    <2> HIDE DEF new
    <2> QED
      BY <1>1, <1>3 DEF ListenerTypes
  <1> QED
    BY <1>2, <1>5, <1>6, <1>7 DEF ListenerTypes

\* Removing one leaves fewer.
LEMMA RemoveKeepsTypes ==
    ASSUME ListenerTypes, NEW c \in Callbacks, RemoveListener(c)
    PROVE  ListenerTypes'
  BY DEF ListenerTypes, RemoveListener, None

\* What the methods do to the listener for feedback.
LEMMA FeedbackKeepsTypes ==
    ASSUME ListenerTypes, EnsureRtcpListener \/ StopRtcpListener \/ StopRtcpIfIdle(FALSE)
    PROVE  ListenerTypes' /\ rtcp_listener' \in {rtcp_listener, TRUE, FALSE}
  <1>1. "rtcp" \in Callbacks
    BY DEF Callbacks
  <1>2. /\ \/ AddListener("rtcp") \/ RemoveListener("rtcp")
           \/ UNCHANGED <<registered, next_id, udp_listener_ids>>
        /\ rtcp_listener' \in {rtcp_listener, TRUE, FALSE}
    BY DEF EnsureRtcpListener, StopRtcpListener, StopRtcpIfIdle
  <1> QED
    BY <1>1, <1>2, AddKeepsTypes, RemoveKeepsTypes DEF ListenerTypes

\* The socket and its listeners keep their types.
LEMMA SocketsKept ==
    ASSUME SocketTypes, [Next]_vars
    PROVE  SocketTypes'
  <1>1. CASE Listen
    BY <1>1 DEF SocketTypes, ListenerTypes, None, Listen, NewTarget, Begin, is_listening, Goto,
       client, net, conn, stopping, dispatching, bounds, seen
  <1>2. CASE ListenNotes \/ ListenStartsRetries
    BY <1>2 DEF SocketTypes, ListenerTypes, None, ListenNotes, ListenStartsRetries, Goto, client,
       net, conn, stopping, dispatching, bounds, seen
  <1>3. CASE ListenRegisters
    <2>1. AddListener("media") /\ "media" \in Callbacks
      BY <1>3 DEF ListenRegisters, Callbacks
    <2>2. UNCHANGED <<socket, connected, socket_listener, rtcp_listener, nack_thread, video,
                    overlap, doubled, via, stale, receive_state>>
      BY <1>3 DEF ListenRegisters, client, conn
    <2> QED
      BY <2>1, <2>2, AddKeepsTypes DEF SocketTypes
  <1>4. CASE ListenStartsFeedback
    <2>1. EnsureRtcpListener \/ StopRtcpListener \/ StopRtcpIfIdle(FALSE)
      BY <1>4 DEF ListenStartsFeedback
    <2>2. UNCHANGED <<socket, connected, socket_listener, nack_thread, video,
                    overlap, doubled, via, stale, receive_state>>
      BY <1>4 DEF ListenStartsFeedback, client, conn
    <2> QED
      BY <2>1, <2>2, FeedbackKeepsTypes DEF SocketTypes
  <1>5. CASE SetSink
    BY <1>5 DEF SocketTypes, ListenerTypes, None, SetSink, Begin, is_listening, Goto, client, net,
       conn, stopping, dispatching, bounds, seen
  <1>6. CASE SetSinkReplaces
    BY <1>6 DEF SocketTypes, ListenerTypes, None, SetSinkReplaces, NewTarget, Goto, client, net,
       conn, stopping, dispatching, bounds, seen
  <1>7. CASE stop_listening
    BY <1>7 DEF SocketTypes, ListenerTypes, None, stop_listening, StopBegins, Begin, is_listening,
       Goto, client, net, conn, stopping, dispatching, bounds, seen
  <1>8. ASSUME NEW t \in Threads, StopDetaches(t) PROVE SocketTypes'
    BY <1>8 DEF SocketTypes, ListenerTypes, None, StopDetaches, Goto, client, net, conn, stopping,
       dispatching, bounds, seen
  <1>9. ASSUME NEW t \in Threads, StopRemoves(t) PROVE SocketTypes'
    <2>1. \/ RemoveListener("media") /\ "media" \in Callbacks
          \/ UNCHANGED <<registered, next_id, udp_listener_ids>>
      BY <1>9 DEF StopRemoves, Callbacks
    <2>2. UNCHANGED <<socket, connected, socket_listener, rtcp_listener, nack_thread, video,
                    overlap, doubled, via, stale, receive_state>>
      BY <1>9 DEF StopRemoves, client, conn
    <2> QED
      BY <2>1, <2>2, RemoveKeepsTypes DEF SocketTypes, ListenerTypes
  <1>10. ASSUME NEW t \in Threads,
                StopReadsAfter(t) \/ StopClearsAfter(t)
                \/ StopReadsSink(t) \/ StopClearsSink(t)
        PROVE  SocketTypes'
    BY <1>10 DEF SocketTypes, ListenerTypes, None, StopReadsAfter, StopClearsAfter, StopReadsSink,
       StopClearsSink, Goto, client, net, conn, stopping, dispatching, bounds, seen
  <1>11. ASSUME NEW t \in Threads, StopEndsRetries(t) PROVE SocketTypes'
    BY <1>11 DEF SocketTypes, ListenerTypes, None, StopEndsRetries, Goto, client, net, conn,
       stopping, dispatching, bounds, seen
  <1>12. ASSUME NEW t \in Threads, StopResets(t) PROVE SocketTypes'
    BY <1>12, MediaReceiveAssumption DEF SocketTypes, ListenerTypes, None, StopResets, Goto,
       client, net, conn, stopping, dispatching, bounds, seen
  <1>13. ASSUME NEW t \in Threads, StopChecksIdle(t) PROVE SocketTypes'
    BY <1>13 DEF SocketTypes, ListenerTypes, None, StopChecksIdle, is_listening, Goto, client,
       net, conn, stopping, dispatching, bounds, seen
  <1>14. ASSUME NEW t \in Threads, StopEndsFeedback(t) PROVE SocketTypes'
    <2>1. EnsureRtcpListener \/ StopRtcpListener \/ StopRtcpIfIdle(FALSE)
      BY <1>14 DEF StopEndsFeedback
    <2>2. UNCHANGED <<socket, connected, socket_listener, nack_thread, video,
                    overlap, doubled, via, stale, receive_state>>
      BY <1>14 DEF StopEndsFeedback, client, conn
    <2> QED
      BY <2>1, <2>2, FeedbackKeepsTypes DEF SocketTypes
  <1>15. ASSUME NEW t \in Threads, StopCleansUp(t) \/ StopCallsAfter(t) PROVE SocketTypes'
    BY <1>15 DEF SocketTypes, ListenerTypes, None, StopCleansUp, StopCallsAfter, Goto, client,
       net, conn, stopping, dispatching, bounds, seen
  <1>16. CASE Deliver \/ handle_socket_packets \/ PassOn
    BY <1>16 DEF SocketTypes, ListenerTypes, None, Deliver, handle_socket_packets, PassOn,
       Current, Destination, Goto, client, net, conn, stopping, dispatching, bounds, seen
  <1>17. CASE Decode
    BY <1>17, MediaReceiveAssumption DEF SocketTypes, ListenerTypes, None, Decode, Goto, client,
       net, conn, stopping, dispatching, bounds, seen
  <1>18. CASE Write \/ WriteRaises
    BY <1>18 DEF SocketTypes, ListenerTypes, None, Write, WriteRaises, Writes, is_listening,
       StopBegins, Begin, Goto, client, net, conn, stopping, dispatching, bounds, seen
  <1>19. CASE apply_selected_video_stream
    <2>1. EnsureRtcpListener \/ StopRtcpListener \/ StopRtcpIfIdle(FALSE)
      BY <1>19 DEF apply_selected_video_stream
    <2>2. /\ UNCHANGED <<socket, connected, socket_listener, nack_thread, receive_state>>
          /\ video' = TRUE
      BY <1>19 DEF apply_selected_video_stream, client, None
    <2>3. {overlap', doubled', stale'} \subseteq BOOLEAN
      BY <1>19 DEF apply_selected_video_stream, Atomically, SocketTypes
    <2>4. ListenerTypes' /\ rtcp_listener' \in BOOLEAN
      BY <2>1, FeedbackKeepsTypes DEF SocketTypes
    <2>5. {connected', nack_thread', video', socket_listener'} \subseteq BOOLEAN
      BY <2>2 DEF SocketTypes
    <2>6. socket' \in 1..MaxSockets /\ receive_state' \in 0..socket'
      BY <2>2, MediaReceiveAssumption DEF SocketTypes
    <2> QED
      BY <2>3, <2>4, <2>5, <2>6 DEF SocketTypes
  <1>20. CASE stop_video
    <2>1. EnsureRtcpListener \/ StopRtcpListener \/ StopRtcpIfIdle(FALSE)
      BY <1>20 DEF stop_video
    <2>2. /\ UNCHANGED <<socket, connected, socket_listener, nack_thread, receive_state>>
          /\ video' = FALSE
      BY <1>20 DEF stop_video, client, None
    <2>3. {overlap', doubled', stale'} \subseteq BOOLEAN
      BY <1>20 DEF stop_video, Atomically, SocketTypes
    <2>4. ListenerTypes' /\ rtcp_listener' \in BOOLEAN
      BY <2>1, FeedbackKeepsTypes DEF SocketTypes
    <2>5. {connected', nack_thread', video', socket_listener'} \subseteq BOOLEAN
      BY <2>2 DEF SocketTypes
    <2>6. socket' \in 1..MaxSockets /\ receive_state' \in 0..socket'
      BY <2>2, MediaReceiveAssumption DEF SocketTypes
    <2> QED
      BY <2>3, <2>4, <2>5, <2>6 DEF SocketTypes
  <1>21. CASE on_stream_unavailable
    <2>1. EnsureRtcpListener \/ StopRtcpListener \/ StopRtcpIfIdle(FALSE)
      BY <1>21 DEF on_stream_unavailable
    <2>2. /\ UNCHANGED <<socket, socket_listener, video>>
          /\ connected' = FALSE /\ nack_thread' = FALSE /\ receive_state' = 0
      BY <1>21 DEF on_stream_unavailable, client, None
    <2>3. {overlap', doubled', stale'} \subseteq BOOLEAN
      BY <1>21 DEF on_stream_unavailable, Atomically, SocketTypes
    <2>4. ListenerTypes' /\ rtcp_listener' \in BOOLEAN
      BY <2>1, FeedbackKeepsTypes DEF SocketTypes
    <2>5. {connected', nack_thread', video', socket_listener'} \subseteq BOOLEAN
      BY <2>2 DEF SocketTypes
    <2>6. socket' \in 1..MaxSockets /\ receive_state' \in 0..socket'
      BY <2>2, MediaReceiveAssumption DEF SocketTypes
    <2> QED
      BY <2>3, <2>4, <2>5, <2>6 DEF SocketTypes
  <1>22. CASE recreate_socket
    <2>1. /\ socket \in 1..MaxSockets /\ socket < MaxSockets /\ socket' = socket + 1
          /\ receive_state \in 0..socket /\ UNCHANGED receive_state
      BY <1>22 DEF recreate_socket, SocketTypes
    <2>2. socket' \in 1..MaxSockets /\ receive_state' \in 0..socket'
      BY <2>1, MediaReceiveAssumption
    <2>3. registered' = {} /\ next_id' = 1 /\ UNCHANGED udp_listener_ids
      BY <1>22 DEF recreate_socket
    <2>4. ListenerTypes'
      BY <2>3 DEF SocketTypes, ListenerTypes
    <2>5. /\ connected' = TRUE /\ UNCHANGED <<socket_listener, rtcp_listener, nack_thread,
                         video>>
          /\ overlap' = (overlap \/ pc["dispatcher"] # "idle") /\ UNCHANGED doubled
          /\ stale' = (is_listening \/ video)
      BY <1>22 DEF recreate_socket, client, Atomically
    <2>6. stale' \in BOOLEAN
      BY <2>5 DEF is_listening
    <2> QED
      BY <2>2, <2>4, <2>5, <2>6 DEF SocketTypes
  <1>23. CASE UNCHANGED vars
    BY <1>23 DEF SocketTypes, ListenerTypes, None, vars, client, net, conn, stopping, dispatching,
       bounds, seen
  <1> QED
    BY <1>1, <1>2, <1>3, <1>4, <1>5, <1>6, <1>7, <1>8, <1>9, <1>10, <1>11, <1>12, <1>13, <1>14,
       <1>15, <1>16, <1>17, <1>18, <1>19, <1>20, <1>21, <1>22, <1>23 DEF Next, StopStep

-----------------------------------------------------------------------------
(******************* the dispatcher and what was stopped *******************)

\* What _stop_listening cleared stays cleared.
LEMMA ClearedKept ==
    ASSUME MethodTypes, TargetTypes, StaysCleared, [Next]_vars
    PROVE  StaysCleared'
  <1> USE DEF MethodTypes, TargetTypes, MethodNames, StaysCleared, Detached, Cleared, Threads,
     Targets, None, DispatchSink
  <1>1. CASE Listen
    BY <1>1, MediaReceiveAssumption, SMTT(30) DEF Listen, NewTarget, Begin, is_listening, Goto,
       client, net,
       conn, stopping, dispatching, bounds, seen
  <1>2. CASE ListenNotes \/ ListenRegisters \/ ListenStartsFeedback \/ ListenStartsRetries
    <2>1. CASE ListenNotes
      BY <2>1, MediaReceiveAssumption DEF ListenNotes, AddListener, EnsureRtcpListener, Goto,
         client, net, conn, stopping, dispatching, bounds, seen
    <2>2. CASE ListenRegisters
      BY <2>2, MediaReceiveAssumption DEF ListenRegisters, AddListener, EnsureRtcpListener, Goto,
         client, net, conn, stopping, dispatching, bounds, seen
    <2>3. CASE ListenStartsFeedback
      BY <2>3, MediaReceiveAssumption DEF ListenStartsFeedback, AddListener, EnsureRtcpListener,
         Goto, client, net, conn, stopping, dispatching, bounds, seen
    <2>4. CASE ListenStartsRetries
      BY <2>4, MediaReceiveAssumption DEF ListenStartsRetries, AddListener, EnsureRtcpListener,
         Goto, client, net, conn, stopping, dispatching, bounds, seen
    <2> QED
      BY <1>2, <2>1, <2>2, <2>3, <2>4
  <1>3. CASE SetSink
    BY <1>3, MediaReceiveAssumption DEF SetSink, Begin, is_listening, Goto, client, net, conn,
       stopping, dispatching, bounds, seen
  <1>4. CASE SetSinkReplaces
    BY <1>4, MediaReceiveAssumption, SMTT(30) DEF SetSinkReplaces, NewTarget, Goto, client, net,
       conn,
       stopping, dispatching, bounds, seen
  <1>5. CASE stop_listening
    BY <1>5, MediaReceiveAssumption DEF stop_listening, StopBegins, Begin, is_listening, Goto,
       client, net, conn, stopping, dispatching, bounds, seen
  <1>6. ASSUME NEW t \in Threads, StopRemoves(t) PROVE StaysCleared'
    BY <1>6, MediaReceiveAssumption DEF StopRemoves, RemoveListener, Goto, client, net, conn,
       stopping, dispatching, bounds, seen
  <1>7. ASSUME NEW t \in Threads, StopDetaches(t) PROVE StaysCleared'
    BY <1>7, MediaReceiveAssumption DEF StopDetaches, Goto, client, net, conn, stopping,
       dispatching, bounds, seen
  <1>8. ASSUME NEW t \in Threads, StopClearsSink(t) PROVE StaysCleared'
    BY <1>8, MediaReceiveAssumption DEF StopClearsSink, Goto, client, net, conn, stopping,
       dispatching, bounds, seen
  <1>9. ASSUME NEW t \in Threads, StopReadsAfter(t) PROVE StaysCleared'
    BY <1>9, MediaReceiveAssumption DEF StopReadsAfter, Goto, client, net, conn, stopping,
       dispatching, bounds, seen
  <1>10. ASSUME NEW t \in Threads, StopClearsAfter(t) PROVE StaysCleared'
    BY <1>10, MediaReceiveAssumption DEF StopClearsAfter, Goto, client, net, conn, stopping,
       dispatching, bounds, seen
  <1>11. ASSUME NEW t \in Threads, StopReadsSink(t) PROVE StaysCleared'
    BY <1>11, MediaReceiveAssumption DEF StopReadsSink, Goto, client, net, conn, stopping,
       dispatching, bounds, seen
  <1>12. ASSUME NEW t \in Threads,
                StopEndsRetries(t) \/ StopResets(t)
                \/ StopChecksIdle(t) \/ StopEndsFeedback(t)
        PROVE  StaysCleared'
    <2>1. CASE StopEndsRetries(t)
      BY <2>1, MediaReceiveAssumption DEF StopEndsRetries, is_listening, StopRtcpListener,
         RemoveListener, Goto, client, net, conn, stopping, dispatching, bounds, seen
    <2>2. CASE StopResets(t)
      BY <2>2, MediaReceiveAssumption DEF StopResets, is_listening, StopRtcpListener,
         RemoveListener, Goto, client, net, conn, stopping, dispatching, bounds, seen
    <2>3. CASE StopChecksIdle(t)
      BY <2>3, MediaReceiveAssumption DEF StopChecksIdle, is_listening, StopRtcpListener,
         RemoveListener, Goto, client, net, conn, stopping, dispatching, bounds, seen
    <2>4. CASE StopEndsFeedback(t)
      BY <2>4, MediaReceiveAssumption DEF StopEndsFeedback, is_listening, StopRtcpListener,
         RemoveListener, Goto, client, net, conn, stopping, dispatching, bounds, seen
    <2> QED
      BY <1>12, <2>1, <2>2, <2>3, <2>4
  <1>13. ASSUME NEW t \in Threads, StopCleansUp(t) \/ StopCallsAfter(t) PROVE StaysCleared'
    <2>1. CASE StopCleansUp(t)
      BY <2>1, MediaReceiveAssumption DEF StopCleansUp, Goto, client, net, conn, stopping,
         dispatching, bounds, seen
    <2>2. CASE StopCallsAfter(t)
      BY <2>2, MediaReceiveAssumption DEF StopCallsAfter, Goto, client, net, conn, stopping,
         dispatching, bounds, seen
    <2> QED
      BY <1>13, <2>1, <2>2
  <1>14. CASE Deliver \/ handle_socket_packets \/ Decode \/ PassOn
    BY <1>14, MediaReceiveAssumption DEF Deliver, handle_socket_packets, Decode, PassOn, Current,
       Destination, Goto, client, net, conn, stopping, dispatching, bounds, seen
  <1>15. CASE Write
    BY <1>15, MediaReceiveAssumption DEF Write, Writes, Goto, client, net, conn, stopping,
       dispatching, bounds, seen
  <1>16. CASE WriteRaises
    BY <1>16, MediaReceiveAssumption, SMTT(30) DEF WriteRaises, Writes, is_listening, StopBegins,
       Begin, Goto, client, net, conn, stopping, dispatching, bounds, seen
  <1>17. CASE apply_selected_video_stream \/ stop_video \/ on_stream_unavailable
    BY <1>17, MediaReceiveAssumption DEF apply_selected_video_stream, stop_video,
       on_stream_unavailable, Atomically, EnsureRtcpListener, AddListener, StopRtcpIfIdle,
       StopRtcpListener, RemoveListener, is_listening, Goto, client, net, conn, stopping,
       dispatching, bounds, seen
  <1>18. CASE recreate_socket
    BY <1>18, MediaReceiveAssumption DEF recreate_socket, Atomically, Goto, client, net, conn,
       stopping, dispatching, bounds, seen
  <1>19. CASE UNCHANGED vars
    BY <1>19 DEF vars, client, net, conn, stopping, dispatching, bounds, seen
  <1> QED
    BY <1>1, <1>2, <1>3, <1>4, <1>5, <1>6, <1>7, <1>8, <1>9, <1>10, <1>11, <1>12, <1>13, <1>14,
       <1>15, <1>16, <1>17, <1>18, <1>19 DEF Next, StopStep

\* What was stopped is not used again.
LEMMA StoppedKept ==
    ASSUME MethodTypes, TargetTypes, StaysCleared, StoppedIsGone, [Next]_vars
    PROVE  StoppedIsGone'
  <1> USE DEF MethodTypes, TargetTypes, StaysCleared, StoppedIsGone, Cleared, Detached, Threads,
     Targets, None, DispatchSink
  <1>1. CASE Listen
    BY <1>1, MediaReceiveAssumption, SMTT(30) DEF Listen, NewTarget, Begin, is_listening, Goto,
       client, net,
       conn, stopping, dispatching, bounds, seen
  <1>2. CASE ListenNotes \/ ListenRegisters \/ ListenStartsFeedback \/ ListenStartsRetries
    BY <1>2, MediaReceiveAssumption DEF ListenNotes, ListenRegisters, ListenStartsFeedback,
       ListenStartsRetries, AddListener, EnsureRtcpListener, Goto, client, net, conn, stopping,
       dispatching, bounds, seen
  <1>3. CASE SetSink
    BY <1>3, MediaReceiveAssumption DEF SetSink, Begin, is_listening, Goto, client, net, conn,
       stopping, dispatching, bounds, seen
  <1>4. CASE SetSinkReplaces
    BY <1>4, MediaReceiveAssumption, SMTT(30) DEF SetSinkReplaces, NewTarget, Goto, client, net,
       conn,
       stopping, dispatching, bounds, seen
  <1>5. CASE stop_listening
    BY <1>5, MediaReceiveAssumption DEF stop_listening, StopBegins, Begin, is_listening, Goto,
       client, net, conn, stopping, dispatching, bounds, seen
  <1>6. ASSUME NEW t \in Threads, StopRemoves(t) \/ StopDetaches(t) PROVE StoppedIsGone'
    BY <1>6, MediaReceiveAssumption DEF StopRemoves, StopDetaches, RemoveListener, Goto, client,
       net, conn, stopping, dispatching, bounds, seen
  <1>7. ASSUME NEW t \in Threads,
               StopReadsAfter(t) \/ StopClearsAfter(t)
               \/ StopReadsSink(t) \/ StopClearsSink(t)
        PROVE  StoppedIsGone'
    BY <1>7, MediaReceiveAssumption DEF StopReadsAfter, StopClearsAfter, StopReadsSink,
       StopClearsSink, Goto, client, net, conn, stopping, dispatching, bounds, seen
  <1>8. ASSUME NEW t \in Threads,
               StopEndsRetries(t) \/ StopResets(t)
               \/ StopChecksIdle(t) \/ StopEndsFeedback(t)
        PROVE  StoppedIsGone'
    BY <1>8, MediaReceiveAssumption DEF StopEndsRetries, StopResets, StopChecksIdle,
       StopEndsFeedback, is_listening, StopRtcpListener, RemoveListener, Goto, client, net, conn,
       stopping, dispatching, bounds, seen
  <1>9. ASSUME NEW t \in Threads, StopCleansUp(t) \/ StopCallsAfter(t) PROVE StoppedIsGone'
    BY <1>9, MediaReceiveAssumption DEF StopCleansUp, StopCallsAfter, Goto, client, net, conn,
       stopping, dispatching, bounds, seen
  <1>10. CASE Deliver \/ handle_socket_packets \/ Decode \/ PassOn
    BY <1>10, MediaReceiveAssumption DEF Deliver, handle_socket_packets, Decode, PassOn, Current,
       Destination, Goto, client, net, conn, stopping, dispatching, bounds, seen
  <1>11. CASE Write \/ WriteRaises
    BY <1>11, MediaReceiveAssumption DEF Write, WriteRaises, Writes, is_listening, StopBegins,
       Begin, Goto, client, net, conn, stopping, dispatching, bounds, seen
  <1>12. CASE apply_selected_video_stream \/ stop_video \/ on_stream_unavailable
    BY <1>12, MediaReceiveAssumption DEF apply_selected_video_stream, stop_video,
       on_stream_unavailable, Atomically, EnsureRtcpListener, AddListener, StopRtcpIfIdle,
       StopRtcpListener, RemoveListener, is_listening, Goto, client, net, conn, stopping,
       dispatching, bounds, seen
  <1>13. CASE recreate_socket
    BY <1>13, MediaReceiveAssumption DEF recreate_socket, Atomically, Goto, client, net, conn,
       stopping, dispatching, bounds, seen
  <1>14. CASE UNCHANGED vars
    BY <1>14 DEF vars, client, net, conn, stopping, dispatching, bounds, seen
  <1> QED
    BY <1>1, <1>2, <1>3, <1>4, <1>5, <1>6, <1>7, <1>8, <1>9, <1>10, <1>11, <1>12, <1>13, <1>14 DEF
       Next, StopStep

\* A new target has been passed nothing.
LEMMA NewIsNotLate ==
    ASSUME TargetTypes, BatchTypes, LateIsHeld,
           sinks' = sinks \/ sinks' = sinks \cup {targets + 1},
           UNCHANGED <<late, stopped, dpc, callback, left, target>>
    PROVE  LateIsHeld'
  <1>1. /\ targets \in Nat /\ stopped \in SUBSET (1..targets) /\ sinks \in SUBSET (1..targets)
        /\ late \in [Targets -> Nat]
    BY MediaReceiveAssumption DEF TargetTypes
  <1>2. targets + 1 \notin stopped /\ targets + 1 \notin sinks
    BY <1>1, NewIsInRange
  <1>3. target # targets + 1
    BY <1>1 DEF BatchTypes, None
  <1>4. \A t \in Targets : t \in sinks' => late[t] <= 1
    BY <1>1, <1>2 DEF LateIsHeld
  <1>5. target \in sinks' => target \in sinks
    BY <1>3
  <1> QED
    BY <1>4, <1>5 DEF LateIsHeld

\* The packet being written is the last of a stopped sink, and one less of the
\* batch of a stopped callable.
LEMMA WrittenIsHeld ==
    ASSUME TargetTypes, BatchTypes, LateIsHeld, Writes,
           dpc' = "dispatch" \/ dpc' = "idle" \/ dpc' = "stop",
           UNCHANGED <<sinks, stopped, callback>>
    PROVE  LateIsHeld'
  <1>1. /\ dpc = "write" /\ left' = left - 1 /\ left \in Nat /\ left > 0
        /\ late' = [late EXCEPT ![target] = IF target \in stopped THEN @ + 1 ELSE @]
        /\ target \in 1..targets
        /\ target = callback \/ (callback = DispatchSink /\ target \in sinks)
    BY MediaReceiveAssumption DEF Writes, BatchTypes, None
  <1>2. late \in [Targets -> Nat] /\ DispatchSink \notin Targets
    BY DEF TargetTypes, Targets, DispatchSink
  <1>3. \A t \in Targets : late[t] \in Nat
    BY <1>2
  <1>4. \A t \in Targets : late'[t] = IF t = target /\ t \in stopped THEN late[t] + 1 ELSE late[t]
    BY <1>1, <1>2
  <1>5. ASSUME NEW t \in Targets
        PROVE  /\ late'[t] > 0 => t \in stopped
               /\ t \in sinks => late'[t] <= 1
               /\ t \notin sinks => late'[t] <= MaxBatch
    <2>1. late'[t] = IF t = target /\ t \in stopped THEN late[t] + 1 ELSE late[t]
      BY <1>4
    <2>2. late[t] \in Nat /\ MaxBatch \in Nat
      BY <1>3, MediaReceiveAssumption
    <2>3. /\ late[t] > 0 => t \in stopped
          /\ t \in sinks => late[t] <= 1
          /\ t \notin sinks => late[t] <= MaxBatch
      BY DEF LateIsHeld
    <2>4. t = target /\ t \in sinks => late[t] = 0
      BY <1>1 DEF LateIsHeld
    <2>5. t = target /\ t \notin sinks => late[t] + left <= MaxBatch
      BY <1>1, <1>2 DEF LateIsHeld
    <2> QED
      BY <1>1, <2>1, <2>2, <2>3, <2>4, <2>5
  <1>6. callback \in Targets => late'[callback] + left' <= MaxBatch
    <2>1. SUFFICES ASSUME callback \in Targets PROVE late'[callback] + left' <= MaxBatch
      OBVIOUS
    <2>2. late[callback] + left <= MaxBatch /\ late[callback] \in Nat
      BY <1>1, <1>3, <2>1 DEF LateIsHeld
    <2>3. late'[callback] = late[callback] \/ late'[callback] = late[callback] + 1
      BY <1>4, <2>1
    <2> QED
      BY <1>1, <2>2, <2>3, MediaReceiveAssumption
  <1> QED
    BY <1>5, <1>6 DEF LateIsHeld

\* Only what the dispatcher holds becomes late.
LEMMA LateKept ==
    ASSUME MethodTypes, TargetTypes, BatchTypes, StoppedIsGone, LateIsHeld, [Next]_vars
    PROVE  LateIsHeld'
  <1>1. CASE Listen
    BY <1>1, NewIsNotLate DEF Listen, dispatching, seen
  <1>2. CASE ListenNotes \/ ListenRegisters \/ ListenStartsFeedback \/ ListenStartsRetries
    BY <1>2, MediaReceiveAssumption DEF LateIsHeld, TargetTypes, BatchTypes, Targets, None,
       DispatchSink, ListenNotes, ListenRegisters, ListenStartsFeedback, ListenStartsRetries,
       AddListener, EnsureRtcpListener, Goto, client, net, conn, stopping, dispatching, bounds,
       seen
  <1>3. CASE SetSink
    BY <1>3, MediaReceiveAssumption DEF LateIsHeld, TargetTypes, BatchTypes, Targets, None,
       DispatchSink, SetSink, Begin, is_listening, Goto, client, net, conn, stopping, dispatching,
       bounds, seen
  <1>4. CASE SetSinkReplaces
    BY <1>4, NewIsNotLate DEF SetSinkReplaces, dispatching, seen
  <1>5. CASE stop_listening
    BY <1>5, MediaReceiveAssumption DEF LateIsHeld, TargetTypes, BatchTypes, Targets, None,
       DispatchSink, stop_listening, StopBegins, Begin, is_listening, Goto, client, net, conn,
       stopping, dispatching, bounds, seen
  <1>6. ASSUME NEW t \in Threads, StopRemoves(t) \/ StopDetaches(t) PROVE LateIsHeld'
    BY <1>6, MediaReceiveAssumption DEF LateIsHeld, TargetTypes, BatchTypes, Targets, None,
       DispatchSink, StopRemoves, StopDetaches, RemoveListener, Goto, client, net, conn, stopping,
       dispatching, bounds, seen
  <1>7. ASSUME NEW t \in Threads,
               StopReadsAfter(t) \/ StopClearsAfter(t)
               \/ StopReadsSink(t) \/ StopClearsSink(t)
        PROVE  LateIsHeld'
    BY <1>7, MediaReceiveAssumption DEF LateIsHeld, TargetTypes, BatchTypes, Targets, None,
       DispatchSink, StopReadsAfter, StopClearsAfter, StopReadsSink, StopClearsSink, Goto, client,
       net, conn, stopping, dispatching, bounds, seen
  <1>8. ASSUME NEW t \in Threads,
               StopEndsRetries(t) \/ StopResets(t)
               \/ StopChecksIdle(t) \/ StopEndsFeedback(t)
        PROVE  LateIsHeld'
    BY <1>8, MediaReceiveAssumption DEF LateIsHeld, TargetTypes, BatchTypes, Targets, None,
       DispatchSink, StopEndsRetries, StopResets, StopChecksIdle, StopEndsFeedback, is_listening,
       StopRtcpListener, RemoveListener, Goto, client, net, conn, stopping, dispatching, bounds,
       seen
  <1>9. ASSUME NEW t \in Threads, StopCleansUp(t) PROVE LateIsHeld'
    BY <1>9, MediaReceiveAssumption DEF LateIsHeld, TargetTypes, BatchTypes, Targets, None,
       DispatchSink, StopCleansUp, Goto, client, net, conn, stopping, dispatching, bounds, seen
  <1>10. ASSUME NEW t \in Threads, StopCallsAfter(t) PROVE LateIsHeld'
    BY <1>10, MediaReceiveAssumption DEF LateIsHeld, TargetTypes, BatchTypes, Targets, None,
       DispatchSink, MethodTypes, StopCallsAfter, Goto, client, net, conn, stopping, dispatching,
       bounds, seen
  <1>11. CASE Deliver
    BY <1>11, MediaReceiveAssumption DEF LateIsHeld, TargetTypes, BatchTypes, Targets, None,
       DispatchSink, Deliver, Goto, client, net, conn, stopping, dispatching, bounds, seen
  <1>12. CASE handle_socket_packets
    BY <1>12, MediaReceiveAssumption DEF LateIsHeld, TargetTypes, BatchTypes, Targets, None,
       DispatchSink, StoppedIsGone, handle_socket_packets, Current, Goto, client, net, conn,
       stopping, dispatching, bounds, seen
  <1>13. CASE Decode
    BY <1>13, MediaReceiveAssumption DEF LateIsHeld, TargetTypes, BatchTypes, Targets, None,
       DispatchSink, Decode, Goto, client, net, conn, stopping, dispatching, bounds, seen
  <1>14. CASE PassOn
    BY <1>14, MediaReceiveAssumption DEF LateIsHeld, TargetTypes, BatchTypes, Targets, None,
       DispatchSink, StoppedIsGone, PassOn, Destination, Goto, client, net, conn, stopping,
       dispatching, bounds, seen
  <1>15. CASE Write
    <2>1. Writes /\ dpc' \in {"dispatch", "idle"} /\ UNCHANGED <<sinks, stopped, callback>>
      BY <1>15 DEF Write, bounds
    <2> QED
      BY <2>1, WrittenIsHeld
  <1>16. CASE WriteRaises
    <2>1. Writes /\ dpc' \in {"stop", "idle"} /\ UNCHANGED <<sinks, stopped, callback>>
      BY <1>16 DEF WriteRaises, bounds
    <2> QED
      BY <2>1, WrittenIsHeld
  <1>17. CASE apply_selected_video_stream \/ stop_video \/ on_stream_unavailable
    BY <1>17, MediaReceiveAssumption DEF LateIsHeld, TargetTypes, BatchTypes, Targets, None,
       DispatchSink, apply_selected_video_stream, stop_video, on_stream_unavailable, Atomically,
       EnsureRtcpListener, AddListener, StopRtcpIfIdle, StopRtcpListener, RemoveListener,
       is_listening, Goto, client, net, conn, stopping, dispatching, bounds, seen
  <1>18. CASE recreate_socket
    BY <1>18, MediaReceiveAssumption DEF LateIsHeld, TargetTypes, BatchTypes, Targets, None,
       DispatchSink, recreate_socket, Atomically, Goto, client, net, conn, stopping, dispatching,
       bounds, seen
  <1>19. CASE UNCHANGED vars
    BY <1>19, MediaReceiveAssumption DEF LateIsHeld, TargetTypes, BatchTypes, Targets, None,
       DispatchSink, vars, client, net, conn, stopping, dispatching, bounds, seen
  <1> QED
    BY <1>1, <1>2, <1>3, <1>4, <1>5, <1>6, <1>7, <1>8, <1>9, <1>10, <1>11, <1>12, <1>13, <1>14,
       <1>15, <1>16, <1>17, <1>18, <1>19 DEF Next, StopStep

-----------------------------------------------------------------------------
(****************** methods of which none or two stops overlap **************)

\* What has overlapped stays so.
LEMMA OverlapStays ==
    ASSUME [Next]_vars, ~overlap'
    PROVE  ~overlap
  <1>1. CASE Listen
    BY <1>1 DEF Listen, NewTarget, Begin, Stopping, Starting, is_listening, Goto, client, net,
       conn, stopping, dispatching, bounds, seen
  <1>2. CASE ListenNotes
    BY <1>2 DEF ListenNotes, Goto, client, net, conn, stopping, dispatching, bounds, seen
  <1>3. CASE ListenRegisters
    BY <1>3 DEF ListenRegisters, AddListener, Goto, client, net, conn, stopping, dispatching,
       bounds, seen
  <1>4. CASE ListenStartsFeedback
    BY <1>4 DEF ListenStartsFeedback, EnsureRtcpListener, AddListener, Goto, client, net, conn,
       stopping, dispatching, bounds, seen
  <1>5. CASE ListenStartsRetries
    BY <1>5 DEF ListenStartsRetries, Goto, client, net, conn, stopping, dispatching, bounds,
       seen
  <1>6. CASE SetSink
    BY <1>6 DEF SetSink, Begin, Stopping, Starting, is_listening, Goto, client, net, conn,
       stopping, dispatching, bounds, seen
  <1>7. CASE SetSinkReplaces
    BY <1>7 DEF SetSinkReplaces, NewTarget, Goto, client, net, conn, stopping, dispatching,
       bounds, seen
  <1>8. CASE stop_listening
    BY <1>8 DEF stop_listening, StopBegins, Begin, Stopping, Starting, is_listening, Goto,
       client, net, conn, stopping, dispatching, bounds, seen
  <1>9. ASSUME NEW t \in Threads, StopRemoves(t) PROVE ~overlap
    BY <1>9 DEF StopRemoves, RemoveListener, Goto, client, net, conn, stopping, dispatching,
       bounds, seen
  <1>10. ASSUME NEW t \in Threads, StopDetaches(t) PROVE ~overlap
    BY <1>10 DEF StopDetaches, Goto, client, net, conn, stopping, dispatching, bounds, seen
  <1>11. ASSUME NEW t \in Threads, StopReadsAfter(t) PROVE ~overlap
    BY <1>11 DEF StopReadsAfter, Goto, client, net, conn, stopping, dispatching, bounds, seen
  <1>12. ASSUME NEW t \in Threads, StopClearsAfter(t) PROVE ~overlap
    BY <1>12 DEF StopClearsAfter, Goto, client, net, conn, stopping, dispatching, bounds, seen
  <1>13. ASSUME NEW t \in Threads, StopReadsSink(t) PROVE ~overlap
    BY <1>13 DEF StopReadsSink, Goto, client, net, conn, stopping, dispatching, bounds, seen
  <1>14. ASSUME NEW t \in Threads, StopClearsSink(t) PROVE ~overlap
    BY <1>14 DEF StopClearsSink, Goto, client, net, conn, stopping, dispatching, bounds, seen
  <1>15. ASSUME NEW t \in Threads, StopEndsRetries(t) PROVE ~overlap
    BY <1>15 DEF StopEndsRetries, Goto, client, net, conn, stopping, dispatching, bounds, seen
  <1>16. ASSUME NEW t \in Threads, StopResets(t) PROVE ~overlap
    BY <1>16 DEF StopResets, Goto, client, net, conn, stopping, dispatching, bounds, seen
  <1>17. ASSUME NEW t \in Threads, StopChecksIdle(t) PROVE ~overlap
    BY <1>17 DEF StopChecksIdle, is_listening, Goto, client, net, conn, stopping, dispatching,
       bounds, seen
  <1>18. ASSUME NEW t \in Threads, StopEndsFeedback(t) PROVE ~overlap
    BY <1>18 DEF StopEndsFeedback, StopRtcpListener, RemoveListener, Goto, client, net, conn,
       stopping, dispatching, bounds, seen
  <1>19. ASSUME NEW t \in Threads, StopCleansUp(t) PROVE ~overlap
    BY <1>19 DEF StopCleansUp, Goto, client, net, conn, stopping, dispatching, bounds, seen
  <1>20. ASSUME NEW t \in Threads, StopCallsAfter(t) PROVE ~overlap
    BY <1>20 DEF StopCallsAfter, Goto, client, net, conn, stopping, dispatching, bounds, seen
  <1>21. CASE Deliver \/ handle_socket_packets \/ Decode \/ PassOn \/ Write
    BY <1>21 DEF Deliver, handle_socket_packets, Decode, PassOn, Write, Current, Destination,
       Writes, Goto, client, net, conn, stopping, dispatching, bounds, seen
  <1>22. CASE WriteRaises
    BY <1>22 DEF WriteRaises, Writes, StopBegins, Begin, Stopping, Starting, is_listening, Goto,
       client, net, conn, stopping, dispatching, bounds, seen
  <1>23. CASE apply_selected_video_stream
    BY <1>23 DEF apply_selected_video_stream, Atomically, EnsureRtcpListener, AddListener, Goto,
       client, net, conn, stopping, dispatching, bounds, seen
  <1>24. CASE stop_video
    BY <1>24 DEF stop_video, Atomically, StopRtcpIfIdle, StopRtcpListener, RemoveListener,
       is_listening, Goto, client, net, conn, stopping, dispatching, bounds, seen
  <1>25. CASE on_stream_unavailable
    BY <1>25 DEF on_stream_unavailable, Atomically, StopRtcpListener, RemoveListener, Goto,
       client, net, conn, stopping, dispatching, bounds, seen
  <1>26. CASE recreate_socket
    BY <1>26 DEF recreate_socket, Atomically, is_listening, Goto, client, net, conn, stopping,
       dispatching, bounds, seen
  <1>27. CASE UNCHANGED vars
    BY <1>27 DEF vars, client, net, conn, stopping, dispatching, bounds, seen
  <1> QED
    BY <1>1, <1>2, <1>3, <1>4, <1>5, <1>6, <1>7, <1>8, <1>9, <1>10, <1>11, <1>12, <1>13, <1>14,
       <1>15, <1>16, <1>17, <1>18, <1>19, <1>20, <1>21, <1>22, <1>23, <1>24, <1>25, <1>26, <1>27
       DEF Next, StopStep

\* Listen begins while nothing is under way and nothing is listened with.
LEMMA ListenBegins ==
    ASSUME Types, Undisturbed, Listen, ~overlap'
    PROVE  /\ ~overlap /\ pc["loop"] = "idle" /\ pc["dispatcher"] = "idle"
           /\ pc' = [pc EXCEPT !["loop"] = "listen_attr"]
           /\ ~socket_listener /\ media_callback = None /\ media_sink = None
           /\ media_after = None /\ media_after' = targets + 1
           /\ media_callback' # None /\ UNCHANGED <<socket_listener, doubled>>
           /\ listens' = listens \cup {targets + 1} /\ targets + 1 \notin listens
           /\ targets + 1 \notin stopped /\ targets + 1 # None /\ None \notin listens
           /\ targets' = targets + 1 /\ targets + 1 \in Targets
           /\ UNCHANGED <<after, upto, stopped, after_calls>>
  <1>1. /\ ~overlap /\ pc["loop"] = "idle" /\ pc["dispatcher"] = "idle"
        /\ pc' = [pc EXCEPT !["loop"] = "listen_attr"] /\ ~is_listening
        /\ media_after' = targets + 1 /\ targets' = targets + 1
        /\ listens' = listens \cup {targets + 1}
        /\ UNCHANGED <<socket_listener, after, upto, stopped, after_calls>>
    BY DEF Listen, NewTarget, Begin, Goto, Threads, stopping, seen
  <1>2. ~socket_listener /\ media_callback = None /\ media_sink = None
    BY DEF Listen, is_listening
  <1>3. media_after = None
    BY <1>1, <1>2 DEF Undisturbed, AfterStored, At, Threads
  <1>4. targets \in Nat /\ listens \in SUBSET (1..targets) /\ stopped \in SUBSET (1..targets)
        /\ targets + 1 \in Targets
    BY MediaReceiveAssumption DEF Types, TargetTypes, Targets, Listen, NewTarget
  <1>5. targets + 1 \notin listens /\ targets + 1 \notin stopped /\ None \notin listens
        /\ targets + 1 # None
    BY <1>4, NewIsInRange DEF None
  <1>6. media_callback' \in {targets + 1, DispatchSink}
    BY DEF Listen
  <1>7. media_callback' # None
    BY <1>4, <1>6 DEF None, DispatchSink
  <1>8. UNCHANGED doubled
    BY DEF Listen, Begin, Types, SocketTypes
  <1> QED
    BY <1>1, <1>2, <1>3, <1>4, <1>5, <1>7, <1>8

\* What does not touch the after callback leaves its calls as they are.
LEMMA CallsSame ==
    ASSUME Types, Undisturbed, ~overlap, doubled => doubled',
           UNCHANGED <<after, after_calls, listens, media_after>>
    PROVE  CallsCounted'
  <1> HIDE DEF Types
  <1>1. ASSUME NEW u \in listens, u # media_after
        PROVE  after_calls[u] + Held(u) \in 1..(IF doubled' THEN 2 ELSE 1)
    <2>1. after_calls[u] + Held(u) \in 1..(IF doubled THEN 2 ELSE 1)
      BY <1>1 DEF Undisturbed, CallsCounted
    <2> QED
      BY <2>1
  <1>2. \A u : Held(u)' = Held(u)
    BY DEF Held
  <1> QED
    BY <1>1, <1>2 DEF Undisturbed, CallsCounted

\* A method is alone, or both are stops.
LEMMA ExclusiveKept ==
    ASSUME Types, Undisturbed, [Next]_vars, ~overlap'
    PROVE  Exclusive'
  <1> USE DEF Types, MethodTypes, MethodNames, BatchTypes, Threads, Undisturbed, Starting,
     Stopping, None, Exclusive
  <1>0. ~overlap
    BY OverlapStays
  <1>1. CASE Listen
    BY <1>1, <1>0 DEF Listen, NewTarget, Begin, Stopping, Starting, is_listening, Goto, client,
       net, conn, stopping, dispatching, bounds, seen
  <1>2. CASE ListenNotes
    BY <1>2, <1>0 DEF ListenNotes, Goto, client, net, conn, stopping, dispatching, bounds, seen
  <1>3. CASE ListenRegisters
    BY <1>3, <1>0 DEF ListenRegisters, AddListener, Goto, client, net, conn, stopping,
       dispatching, bounds, seen
  <1>4. CASE ListenStartsFeedback
    BY <1>4, <1>0 DEF ListenStartsFeedback, EnsureRtcpListener, AddListener, Goto, client, net,
       conn, stopping, dispatching, bounds, seen
  <1>5. CASE ListenStartsRetries
    BY <1>5, <1>0 DEF ListenStartsRetries, Goto, client, net, conn, stopping, dispatching,
       bounds, seen
  <1>6. CASE SetSink
    BY <1>6, <1>0 DEF SetSink, Begin, Stopping, Starting, is_listening, Goto, client, net, conn,
       stopping, dispatching, bounds, seen
  <1>7. CASE SetSinkReplaces
    BY <1>7, <1>0 DEF SetSinkReplaces, NewTarget, Goto, client, net, conn, stopping,
       dispatching, bounds, seen
  <1>8. CASE stop_listening
    BY <1>8, <1>0 DEF stop_listening, StopBegins, Begin, Stopping, Starting, is_listening, Goto,
       client, net, conn, stopping, dispatching, bounds, seen
  <1>9. ASSUME NEW t \in Threads, StopRemoves(t) PROVE Exclusive'
    BY <1>9, <1>0 DEF StopRemoves, RemoveListener, Goto, client, net, conn, stopping,
       dispatching, bounds, seen
  <1>10. ASSUME NEW t \in Threads, StopDetaches(t) PROVE Exclusive'
    BY <1>10, <1>0 DEF StopDetaches, Goto, client, net, conn, stopping, dispatching, bounds,
       seen
  <1>11. ASSUME NEW t \in Threads, StopReadsAfter(t) PROVE Exclusive'
    BY <1>11, <1>0 DEF StopReadsAfter, Goto, client, net, conn, stopping, dispatching, bounds,
       seen
  <1>12. ASSUME NEW t \in Threads, StopClearsAfter(t) PROVE Exclusive'
    BY <1>12, <1>0 DEF StopClearsAfter, Goto, client, net, conn, stopping, dispatching, bounds,
       seen
  <1>13. ASSUME NEW t \in Threads, StopReadsSink(t) PROVE Exclusive'
    BY <1>13, <1>0 DEF StopReadsSink, Goto, client, net, conn, stopping, dispatching, bounds,
       seen
  <1>14. ASSUME NEW t \in Threads, StopClearsSink(t) PROVE Exclusive'
    BY <1>14, <1>0 DEF StopClearsSink, Goto, client, net, conn, stopping, dispatching, bounds,
       seen
  <1>15. ASSUME NEW t \in Threads, StopEndsRetries(t) PROVE Exclusive'
    BY <1>15, <1>0 DEF StopEndsRetries, Goto, client, net, conn, stopping, dispatching, bounds,
       seen
  <1>16. ASSUME NEW t \in Threads, StopResets(t) PROVE Exclusive'
    BY <1>16, <1>0 DEF StopResets, Goto, client, net, conn, stopping, dispatching, bounds, seen
  <1>17. ASSUME NEW t \in Threads, StopChecksIdle(t) PROVE Exclusive'
    BY <1>17, <1>0 DEF StopChecksIdle, is_listening, Goto, client, net, conn, stopping,
       dispatching, bounds, seen
  <1>18. ASSUME NEW t \in Threads, StopEndsFeedback(t) PROVE Exclusive'
    BY <1>18, <1>0 DEF StopEndsFeedback, StopRtcpListener, RemoveListener, Goto, client, net,
       conn, stopping, dispatching, bounds, seen
  <1>19. ASSUME NEW t \in Threads, StopCleansUp(t) PROVE Exclusive'
    BY <1>19, <1>0 DEF StopCleansUp, Goto, client, net, conn, stopping, dispatching, bounds,
       seen
  <1>20. ASSUME NEW t \in Threads, StopCallsAfter(t) PROVE Exclusive'
    BY <1>20, <1>0 DEF StopCallsAfter, Goto, client, net, conn, stopping, dispatching, bounds,
       seen
  <1>21. CASE Deliver \/ handle_socket_packets \/ Decode \/ PassOn \/ Write
    BY <1>21, <1>0 DEF Deliver, handle_socket_packets, Decode, PassOn, Write, Current,
       Destination, Writes, Goto, client, net, conn, stopping, dispatching, bounds, seen
  <1>22. CASE WriteRaises
    BY <1>22, <1>0 DEF WriteRaises, Writes, StopBegins, Begin, Stopping, Starting, is_listening,
       Goto, client, net, conn, stopping, dispatching, bounds, seen
  <1>23. CASE apply_selected_video_stream
    BY <1>23, <1>0 DEF apply_selected_video_stream, Atomically, EnsureRtcpListener, AddListener,
       Goto, client, net, conn, stopping, dispatching, bounds, seen
  <1>24. CASE stop_video
    BY <1>24, <1>0 DEF stop_video, Atomically, StopRtcpIfIdle, StopRtcpListener, RemoveListener,
       is_listening, Goto, client, net, conn, stopping, dispatching, bounds, seen
  <1>25. CASE on_stream_unavailable
    BY <1>25, <1>0 DEF on_stream_unavailable, Atomically, StopRtcpListener, RemoveListener,
       Goto, client, net, conn, stopping, dispatching, bounds, seen
  <1>26. CASE recreate_socket
    BY <1>26, <1>0 DEF recreate_socket, Atomically, is_listening, Goto, client, net, conn,
       stopping, dispatching, bounds, seen
  <1>27. CASE UNCHANGED vars
    BY <1>27, <1>0 DEF vars, client, net, conn, stopping, dispatching, bounds, seen
  <1> QED
    BY <1>1, <1>2, <1>3, <1>4, <1>5, <1>6, <1>7, <1>8, <1>9, <1>10, <1>11, <1>12, <1>13, <1>14,
       <1>15, <1>16, <1>17, <1>18, <1>19, <1>20, <1>21, <1>22, <1>23, <1>24, <1>25, <1>26, <1>27
       DEF Next, StopStep

\* The client knows the ids of its listeners.
LEMMA IdsKept ==
    ASSUME Types, Undisturbed, [Next]_vars, ~overlap'
    PROVE  KnownIds'
  <1> USE DEF Types, MethodTypes, MethodNames, SocketTypes, BatchTypes, Threads, Undisturbed,
     Starting, Stopping, Detached, Cleared, At, None, DispatchSink, ListenerTypes, Callbacks,
     Exclusive, KnownIds, Attributes
  <1>0. ~overlap
    BY OverlapStays
  <1>1. CASE Listen
    BY <1>1, <1>0 DEF Listen, NewTarget, Begin, Stopping, Starting, is_listening, Goto, client,
       net, conn, stopping, dispatching, bounds, seen
  <1>2. CASE ListenNotes
    BY <1>2, <1>0 DEF ListenNotes, Goto, client, net, conn, stopping, dispatching, bounds, seen
  <1>3. CASE ListenRegisters
    BY <1>3, <1>0 DEF ListenRegisters, AddListener, Goto, client, net, conn, stopping,
       dispatching, bounds, seen
  <1>4. CASE ListenStartsFeedback
    BY <1>4, <1>0 DEF ListenStartsFeedback, EnsureRtcpListener, AddListener, Goto, client, net,
       conn, stopping, dispatching, bounds, seen
  <1>5. CASE ListenStartsRetries
    BY <1>5, <1>0 DEF ListenStartsRetries, Goto, client, net, conn, stopping, dispatching,
       bounds, seen
  <1>6. CASE SetSink
    BY <1>6, <1>0 DEF SetSink, Begin, Stopping, Starting, is_listening, Goto, client, net, conn,
       stopping, dispatching, bounds, seen
  <1>7. CASE SetSinkReplaces
    BY <1>7, <1>0 DEF SetSinkReplaces, NewTarget, Goto, client, net, conn, stopping,
       dispatching, bounds, seen
  <1>8. CASE stop_listening
    BY <1>8, <1>0 DEF stop_listening, StopBegins, Begin, Stopping, Starting, is_listening, Goto,
       client, net, conn, stopping, dispatching, bounds, seen
  <1>9. ASSUME NEW t \in Threads, StopRemoves(t) PROVE KnownIds'
    BY <1>9, <1>0 DEF StopRemoves, RemoveListener, Goto, client, net, conn, stopping,
       dispatching, bounds, seen
  <1>10. ASSUME NEW t \in Threads, StopDetaches(t) PROVE KnownIds'
    BY <1>10, <1>0 DEF StopDetaches, Goto, client, net, conn, stopping, dispatching, bounds,
       seen
  <1>11. ASSUME NEW t \in Threads, StopReadsAfter(t) PROVE KnownIds'
    BY <1>11, <1>0 DEF StopReadsAfter, Goto, client, net, conn, stopping, dispatching, bounds,
       seen
  <1>12. ASSUME NEW t \in Threads, StopClearsAfter(t) PROVE KnownIds'
    BY <1>12, <1>0 DEF StopClearsAfter, Goto, client, net, conn, stopping, dispatching, bounds,
       seen
  <1>13. ASSUME NEW t \in Threads, StopReadsSink(t) PROVE KnownIds'
    BY <1>13, <1>0 DEF StopReadsSink, Goto, client, net, conn, stopping, dispatching, bounds,
       seen
  <1>14. ASSUME NEW t \in Threads, StopClearsSink(t) PROVE KnownIds'
    BY <1>14, <1>0 DEF StopClearsSink, Goto, client, net, conn, stopping, dispatching, bounds,
       seen
  <1>15. ASSUME NEW t \in Threads, StopEndsRetries(t) PROVE KnownIds'
    BY <1>15, <1>0 DEF StopEndsRetries, Goto, client, net, conn, stopping, dispatching, bounds,
       seen
  <1>16. ASSUME NEW t \in Threads, StopResets(t) PROVE KnownIds'
    BY <1>16, <1>0 DEF StopResets, Goto, client, net, conn, stopping, dispatching, bounds, seen
  <1>17. ASSUME NEW t \in Threads, StopChecksIdle(t) PROVE KnownIds'
    BY <1>17, <1>0 DEF StopChecksIdle, is_listening, Goto, client, net, conn, stopping,
       dispatching, bounds, seen
  <1>18. ASSUME NEW t \in Threads, StopEndsFeedback(t) PROVE KnownIds'
    BY <1>18, <1>0 DEF StopEndsFeedback, StopRtcpListener, RemoveListener, Goto, client, net,
       conn, stopping, dispatching, bounds, seen
  <1>19. ASSUME NEW t \in Threads, StopCleansUp(t) PROVE KnownIds'
    BY <1>19, <1>0 DEF StopCleansUp, Goto, client, net, conn, stopping, dispatching, bounds,
       seen
  <1>20. ASSUME NEW t \in Threads, StopCallsAfter(t) PROVE KnownIds'
    BY <1>20, <1>0 DEF StopCallsAfter, Goto, client, net, conn, stopping, dispatching, bounds,
       seen
  <1>21. CASE Deliver \/ handle_socket_packets \/ Decode \/ PassOn \/ Write
    BY <1>21, <1>0 DEF Deliver, handle_socket_packets, Decode, PassOn, Write, Current,
       Destination, Writes, Goto, client, net, conn, stopping, dispatching, bounds, seen
  <1>22. CASE WriteRaises
    BY <1>22, <1>0 DEF WriteRaises, Writes, StopBegins, Begin, Stopping, Starting, is_listening,
       Goto, client, net, conn, stopping, dispatching, bounds, seen
  <1>23. CASE apply_selected_video_stream
    BY <1>23, <1>0 DEF apply_selected_video_stream, Atomically, EnsureRtcpListener, AddListener,
       Goto, client, net, conn, stopping, dispatching, bounds, seen
  <1>24. CASE stop_video
    BY <1>24, <1>0 DEF stop_video, Atomically, StopRtcpIfIdle, StopRtcpListener, RemoveListener,
       is_listening, Goto, client, net, conn, stopping, dispatching, bounds, seen
  <1>25. CASE on_stream_unavailable
    BY <1>25, <1>0 DEF on_stream_unavailable, Atomically, StopRtcpListener, RemoveListener,
       Goto, client, net, conn, stopping, dispatching, bounds, seen
  <1>26. CASE recreate_socket
    BY <1>26, <1>0 DEF recreate_socket, Atomically, is_listening, Goto, client, net, conn,
       stopping, dispatching, bounds, seen
  <1>27. CASE UNCHANGED vars
    BY <1>27, <1>0 DEF vars, client, net, conn, stopping, dispatching, bounds, seen
  <1> QED
    BY <1>1, <1>2, <1>3, <1>4, <1>5, <1>6, <1>7, <1>8, <1>9, <1>10, <1>11, <1>12, <1>13, <1>14,
       <1>15, <1>16, <1>17, <1>18, <1>19, <1>20, <1>21, <1>22, <1>23, <1>24, <1>25, <1>26, <1>27
       DEF Next, StopStep

\* The attributes follow the methods.
LEMMA AttributesKept ==
    ASSUME Types, Undisturbed, [Next]_vars, ~overlap'
    PROVE  Attributes'
  <1> USE DEF Types, MethodTypes, MethodNames, SocketTypes, TargetTypes, BatchTypes, Threads,
     Undisturbed, Starting, Stopping, Detached, Cleared, At, None, DispatchSink, Exclusive,
     Attributes
  <1>0. ~overlap
    BY OverlapStays
  <1>1. CASE Listen
    BY <1>1, ListenBegins
  <1>2. CASE ListenNotes
    BY <1>2, <1>0 DEF ListenNotes, Goto, client, net, conn, stopping, dispatching, bounds, seen
  <1>3. CASE ListenRegisters
    BY <1>3, <1>0 DEF ListenRegisters, AddListener, Goto, client, net, conn, stopping,
       dispatching, bounds, seen
  <1>4. CASE ListenStartsFeedback
    BY <1>4, <1>0 DEF ListenStartsFeedback, EnsureRtcpListener, AddListener, Goto, client, net,
       conn, stopping, dispatching, bounds, seen
  <1>5. CASE ListenStartsRetries
    BY <1>5, <1>0 DEF ListenStartsRetries, Goto, client, net, conn, stopping, dispatching,
       bounds, seen
  <1>6. CASE SetSink
    BY <1>6, <1>0 DEF SetSink, Begin, Stopping, Starting, is_listening, Goto, client, net, conn,
       stopping, dispatching, bounds, seen
  <1>7. CASE SetSinkReplaces
    BY <1>7, <1>0 DEF SetSinkReplaces, NewTarget, Goto, client, net, conn, stopping,
       dispatching, bounds, seen
  <1>8. CASE stop_listening
    BY <1>8, <1>0 DEF stop_listening, StopBegins, Begin, Stopping, Starting, is_listening, Goto,
       client, net, conn, stopping, dispatching, bounds, seen
  <1>9. ASSUME NEW t \in Threads, StopRemoves(t) PROVE Attributes'
    BY <1>9, <1>0 DEF StopRemoves, RemoveListener, Goto, client, net, conn, stopping,
       dispatching, bounds, seen
  <1>10. ASSUME NEW t \in Threads, StopDetaches(t) PROVE Attributes'
    BY <1>10, <1>0 DEF StopDetaches, Goto, client, net, conn, stopping, dispatching, bounds,
       seen
  <1>11. ASSUME NEW t \in Threads, StopReadsAfter(t) PROVE Attributes'
    BY <1>11, <1>0 DEF StopReadsAfter, Goto, client, net, conn, stopping, dispatching, bounds,
       seen
  <1>12. ASSUME NEW t \in Threads, StopClearsAfter(t) PROVE Attributes'
    BY <1>12, <1>0 DEF StopClearsAfter, Goto, client, net, conn, stopping, dispatching, bounds,
       seen
  <1>13. ASSUME NEW t \in Threads, StopReadsSink(t) PROVE Attributes'
    BY <1>13, <1>0 DEF StopReadsSink, Goto, client, net, conn, stopping, dispatching, bounds,
       seen
  <1>14. ASSUME NEW t \in Threads, StopClearsSink(t) PROVE Attributes'
    BY <1>14, <1>0 DEF StopClearsSink, Goto, client, net, conn, stopping, dispatching, bounds,
       seen
  <1>15. ASSUME NEW t \in Threads, StopEndsRetries(t) PROVE Attributes'
    BY <1>15, <1>0 DEF StopEndsRetries, Goto, client, net, conn, stopping, dispatching, bounds,
       seen
  <1>16. ASSUME NEW t \in Threads, StopResets(t) PROVE Attributes'
    BY <1>16, <1>0 DEF StopResets, Goto, client, net, conn, stopping, dispatching, bounds, seen
  <1>17. ASSUME NEW t \in Threads, StopChecksIdle(t) PROVE Attributes'
    BY <1>17, <1>0 DEF StopChecksIdle, is_listening, Goto, client, net, conn, stopping,
       dispatching, bounds, seen
  <1>18. ASSUME NEW t \in Threads, StopEndsFeedback(t) PROVE Attributes'
    BY <1>18, <1>0 DEF StopEndsFeedback, StopRtcpListener, RemoveListener, Goto, client, net,
       conn, stopping, dispatching, bounds, seen
  <1>19. ASSUME NEW t \in Threads, StopCleansUp(t) PROVE Attributes'
    BY <1>19, <1>0 DEF StopCleansUp, Goto, client, net, conn, stopping, dispatching, bounds,
       seen
  <1>20. ASSUME NEW t \in Threads, StopCallsAfter(t) PROVE Attributes'
    BY <1>20, <1>0 DEF StopCallsAfter, Goto, client, net, conn, stopping, dispatching, bounds,
       seen
  <1>21. CASE Deliver \/ handle_socket_packets \/ Decode \/ PassOn \/ Write
    BY <1>21, <1>0 DEF Deliver, handle_socket_packets, Decode, PassOn, Write, Current,
       Destination, Writes, Goto, client, net, conn, stopping, dispatching, bounds, seen
  <1>22. CASE WriteRaises
    BY <1>22, <1>0 DEF WriteRaises, Writes, StopBegins, Begin, Stopping, Starting, is_listening,
       Goto, client, net, conn, stopping, dispatching, bounds, seen
  <1>23. CASE apply_selected_video_stream
    BY <1>23, <1>0 DEF apply_selected_video_stream, Atomically, EnsureRtcpListener, AddListener,
       Goto, client, net, conn, stopping, dispatching, bounds, seen
  <1>24. CASE stop_video
    BY <1>24, <1>0 DEF stop_video, Atomically, StopRtcpIfIdle, StopRtcpListener, RemoveListener,
       is_listening, Goto, client, net, conn, stopping, dispatching, bounds, seen
  <1>25. CASE on_stream_unavailable
    BY <1>25, <1>0 DEF on_stream_unavailable, Atomically, StopRtcpListener, RemoveListener,
       Goto, client, net, conn, stopping, dispatching, bounds, seen
  <1>26. CASE recreate_socket
    BY <1>26, <1>0 DEF recreate_socket, Atomically, is_listening, Goto, client, net, conn,
       stopping, dispatching, bounds, seen
  <1>27. CASE UNCHANGED vars
    BY <1>27, <1>0 DEF vars, client, net, conn, stopping, dispatching, bounds, seen
  <1> QED
    BY <1>1, <1>2, <1>3, <1>4, <1>5, <1>6, <1>7, <1>8, <1>9, <1>10, <1>11, <1>12, <1>13, <1>14,
       <1>15, <1>16, <1>17, <1>18, <1>19, <1>20, <1>21, <1>22, <1>23, <1>24, <1>25, <1>26, <1>27
       DEF Next, StopStep

\* What runs is needed or about to be stopped.
LEMMA NeededKept ==
    ASSUME Types, Undisturbed, [Next]_vars, ~overlap'
    PROVE  Needed'
  <1> USE DEF Types, MethodTypes, MethodNames, SocketTypes, TargetTypes, BatchTypes, Threads,
     Undisturbed, Starting, Stopping, Detached, Cleared, At, None, DispatchSink, Exclusive,
     Attributes, Needed
  <1>0. ~overlap
    BY OverlapStays
  <1>1. CASE Listen
    BY <1>1, <1>0 DEF Listen, NewTarget, Begin, Stopping, Starting, is_listening, Goto, client,
       net, conn, stopping, dispatching, bounds, seen
  <1>2. CASE ListenNotes
    BY <1>2, <1>0 DEF ListenNotes, Goto, client, net, conn, stopping, dispatching, bounds, seen
  <1>3. CASE ListenRegisters
    BY <1>3, <1>0 DEF ListenRegisters, AddListener, Goto, client, net, conn, stopping,
       dispatching, bounds, seen
  <1>4. CASE ListenStartsFeedback
    BY <1>4, <1>0 DEF ListenStartsFeedback, EnsureRtcpListener, AddListener, Goto, client, net,
       conn, stopping, dispatching, bounds, seen
  <1>5. CASE ListenStartsRetries
    BY <1>5, <1>0 DEF ListenStartsRetries, Goto, client, net, conn, stopping, dispatching,
       bounds, seen
  <1>6. CASE SetSink
    BY <1>6, <1>0 DEF SetSink, Begin, Stopping, Starting, is_listening, Goto, client, net, conn,
       stopping, dispatching, bounds, seen
  <1>7. CASE SetSinkReplaces
    BY <1>7, <1>0 DEF SetSinkReplaces, NewTarget, Goto, client, net, conn, stopping,
       dispatching, bounds, seen
  <1>8. CASE stop_listening
    BY <1>8, <1>0 DEF stop_listening, StopBegins, Begin, Stopping, Starting, is_listening, Goto,
       client, net, conn, stopping, dispatching, bounds, seen
  <1>9. ASSUME NEW t \in Threads, StopRemoves(t) PROVE Needed'
    BY <1>9, <1>0 DEF StopRemoves, RemoveListener, Goto, client, net, conn, stopping,
       dispatching, bounds, seen
  <1>10. ASSUME NEW t \in Threads, StopDetaches(t) PROVE Needed'
    BY <1>10, <1>0 DEF StopDetaches, Goto, client, net, conn, stopping, dispatching, bounds,
       seen
  <1>11. ASSUME NEW t \in Threads, StopReadsAfter(t) PROVE Needed'
    BY <1>11, <1>0 DEF StopReadsAfter, Goto, client, net, conn, stopping, dispatching, bounds,
       seen
  <1>12. ASSUME NEW t \in Threads, StopClearsAfter(t) PROVE Needed'
    BY <1>12, <1>0 DEF StopClearsAfter, Goto, client, net, conn, stopping, dispatching, bounds,
       seen
  <1>13. ASSUME NEW t \in Threads, StopReadsSink(t) PROVE Needed'
    BY <1>13, <1>0 DEF StopReadsSink, Goto, client, net, conn, stopping, dispatching, bounds,
       seen
  <1>14. ASSUME NEW t \in Threads, StopClearsSink(t) PROVE Needed'
    BY <1>14, <1>0 DEF StopClearsSink, Goto, client, net, conn, stopping, dispatching, bounds,
       seen
  <1>15. ASSUME NEW t \in Threads, StopEndsRetries(t) PROVE Needed'
    BY <1>15, <1>0 DEF StopEndsRetries, Goto, client, net, conn, stopping, dispatching, bounds,
       seen
  <1>16. ASSUME NEW t \in Threads, StopResets(t) PROVE Needed'
    BY <1>16, <1>0 DEF StopResets, Goto, client, net, conn, stopping, dispatching, bounds, seen
  <1>17. ASSUME NEW t \in Threads, StopChecksIdle(t) PROVE Needed'
    BY <1>17, <1>0 DEF StopChecksIdle, is_listening, Goto, client, net, conn, stopping,
       dispatching, bounds, seen
  <1>18. ASSUME NEW t \in Threads, StopEndsFeedback(t) PROVE Needed'
    BY <1>18, <1>0 DEF StopEndsFeedback, StopRtcpListener, RemoveListener, Goto, client, net,
       conn, stopping, dispatching, bounds, seen
  <1>19. ASSUME NEW t \in Threads, StopCleansUp(t) PROVE Needed'
    BY <1>19, <1>0 DEF StopCleansUp, Goto, client, net, conn, stopping, dispatching, bounds,
       seen
  <1>20. ASSUME NEW t \in Threads, StopCallsAfter(t) PROVE Needed'
    BY <1>20, <1>0 DEF StopCallsAfter, Goto, client, net, conn, stopping, dispatching, bounds,
       seen
  <1>21. CASE Deliver \/ handle_socket_packets \/ Decode \/ PassOn \/ Write
    BY <1>21, <1>0 DEF Deliver, handle_socket_packets, Decode, PassOn, Write, Current,
       Destination, Writes, Goto, client, net, conn, stopping, dispatching, bounds, seen
  <1>22. CASE WriteRaises
    BY <1>22, <1>0 DEF WriteRaises, Writes, StopBegins, Begin, Stopping, Starting, is_listening,
       Goto, client, net, conn, stopping, dispatching, bounds, seen
  <1>23. CASE apply_selected_video_stream
    BY <1>23, <1>0 DEF apply_selected_video_stream, Atomically, EnsureRtcpListener, AddListener,
       Goto, client, net, conn, stopping, dispatching, bounds, seen
  <1>24. CASE stop_video
    BY <1>24, <1>0 DEF stop_video, Atomically, StopRtcpIfIdle, StopRtcpListener, RemoveListener,
       is_listening, Goto, client, net, conn, stopping, dispatching, bounds, seen
  <1>25. CASE on_stream_unavailable
    BY <1>25, <1>0 DEF on_stream_unavailable, Atomically, StopRtcpListener, RemoveListener,
       Goto, client, net, conn, stopping, dispatching, bounds, seen
  <1>26. CASE recreate_socket
    BY <1>26, <1>0 DEF recreate_socket, Atomically, is_listening, Goto, client, net, conn,
       stopping, dispatching, bounds, seen
  <1>27. CASE UNCHANGED vars
    BY <1>27, <1>0 DEF vars, client, net, conn, stopping, dispatching, bounds, seen
  <1> QED
    BY <1>1, <1>2, <1>3, <1>4, <1>5, <1>6, <1>7, <1>8, <1>9, <1>10, <1>11, <1>12, <1>13, <1>14,
       <1>15, <1>16, <1>17, <1>18, <1>19, <1>20, <1>21, <1>22, <1>23, <1>24, <1>25, <1>26, <1>27
       DEF Next, StopStep

\* The after callback is kept in one place.
LEMMA AfterStoredKept ==
    ASSUME Types, Undisturbed, [Next]_vars, ~overlap'
    PROVE  AfterStored'
  <1> USE DEF Types, MethodTypes, MethodNames, SocketTypes, TargetTypes, BatchTypes, Threads,
     Undisturbed, Starting, Stopping, Detached, Cleared, Past, At, None, DispatchSink,
     Exclusive, Attributes, AfterStored
  <1>0. ~overlap
    BY OverlapStays
  <1>1. CASE Listen
    BY <1>1, <1>0 DEF Listen, NewTarget, Begin, Stopping, Starting, is_listening, Goto, client,
       net, conn, stopping, dispatching, bounds, seen
  <1>2. CASE ListenNotes
    BY <1>2, <1>0 DEF ListenNotes, Goto, client, net, conn, stopping, dispatching, bounds, seen
  <1>3. CASE ListenRegisters
    BY <1>3, <1>0 DEF ListenRegisters, AddListener, Goto, client, net, conn, stopping,
       dispatching, bounds, seen
  <1>4. CASE ListenStartsFeedback
    BY <1>4, <1>0 DEF ListenStartsFeedback, EnsureRtcpListener, AddListener, Goto, client, net,
       conn, stopping, dispatching, bounds, seen
  <1>5. CASE ListenStartsRetries
    BY <1>5, <1>0 DEF ListenStartsRetries, Goto, client, net, conn, stopping, dispatching,
       bounds, seen
  <1>6. CASE SetSink
    BY <1>6, <1>0 DEF SetSink, Begin, Stopping, Starting, is_listening, Goto, client, net, conn,
       stopping, dispatching, bounds, seen
  <1>7. CASE SetSinkReplaces
    BY <1>7, <1>0 DEF SetSinkReplaces, NewTarget, Goto, client, net, conn, stopping,
       dispatching, bounds, seen
  <1>8. CASE stop_listening
    BY <1>8, <1>0 DEF stop_listening, StopBegins, Begin, Stopping, Starting, is_listening, Goto,
       client, net, conn, stopping, dispatching, bounds, seen
  <1>9. ASSUME NEW t \in Threads, StopRemoves(t) PROVE AfterStored'
    BY <1>9, <1>0 DEF StopRemoves, RemoveListener, Goto, client, net, conn, stopping,
       dispatching, bounds, seen
  <1>10. ASSUME NEW t \in Threads, StopDetaches(t) PROVE AfterStored'
    BY <1>10, <1>0 DEF StopDetaches, Goto, client, net, conn, stopping, dispatching, bounds,
       seen
  <1>11. ASSUME NEW t \in Threads, StopReadsAfter(t) PROVE AfterStored'
    BY <1>11, <1>0 DEF StopReadsAfter, Goto, client, net, conn, stopping, dispatching, bounds,
       seen
  <1>12. ASSUME NEW t \in Threads, StopClearsAfter(t) PROVE AfterStored'
    BY <1>12, <1>0 DEF StopClearsAfter, Goto, client, net, conn, stopping, dispatching, bounds,
       seen
  <1>13. ASSUME NEW t \in Threads, StopReadsSink(t) PROVE AfterStored'
    BY <1>13, <1>0 DEF StopReadsSink, Goto, client, net, conn, stopping, dispatching, bounds,
       seen
  <1>14. ASSUME NEW t \in Threads, StopClearsSink(t) PROVE AfterStored'
    BY <1>14, <1>0 DEF StopClearsSink, Goto, client, net, conn, stopping, dispatching, bounds,
       seen
  <1>15. ASSUME NEW t \in Threads, StopEndsRetries(t) PROVE AfterStored'
    BY <1>15, <1>0 DEF StopEndsRetries, Goto, client, net, conn, stopping, dispatching, bounds,
       seen
  <1>16. ASSUME NEW t \in Threads, StopResets(t) PROVE AfterStored'
    BY <1>16, <1>0 DEF StopResets, Goto, client, net, conn, stopping, dispatching, bounds, seen
  <1>17. ASSUME NEW t \in Threads, StopChecksIdle(t) PROVE AfterStored'
    BY <1>17, <1>0 DEF StopChecksIdle, is_listening, Goto, client, net, conn, stopping,
       dispatching, bounds, seen
  <1>18. ASSUME NEW t \in Threads, StopEndsFeedback(t) PROVE AfterStored'
    BY <1>18, <1>0 DEF StopEndsFeedback, StopRtcpListener, RemoveListener, Goto, client, net,
       conn, stopping, dispatching, bounds, seen
  <1>19. ASSUME NEW t \in Threads, StopCleansUp(t) PROVE AfterStored'
    BY <1>19, <1>0 DEF StopCleansUp, Goto, client, net, conn, stopping, dispatching, bounds,
       seen
  <1>20. ASSUME NEW t \in Threads, StopCallsAfter(t) PROVE AfterStored'
    BY <1>20, <1>0 DEF StopCallsAfter, Goto, client, net, conn, stopping, dispatching, bounds,
       seen
  <1>21. CASE Deliver \/ handle_socket_packets \/ Decode \/ PassOn \/ Write
    BY <1>21, <1>0 DEF Deliver, handle_socket_packets, Decode, PassOn, Write, Current,
       Destination, Writes, Goto, client, net, conn, stopping, dispatching, bounds, seen
  <1>22. CASE WriteRaises
    BY <1>22, <1>0 DEF WriteRaises, Writes, StopBegins, Begin, Stopping, Starting, is_listening,
       Goto, client, net, conn, stopping, dispatching, bounds, seen
  <1>23. CASE apply_selected_video_stream
    BY <1>23, <1>0 DEF apply_selected_video_stream, Atomically, EnsureRtcpListener, AddListener,
       Goto, client, net, conn, stopping, dispatching, bounds, seen
  <1>24. CASE stop_video
    BY <1>24, <1>0 DEF stop_video, Atomically, StopRtcpIfIdle, StopRtcpListener, RemoveListener,
       is_listening, Goto, client, net, conn, stopping, dispatching, bounds, seen
  <1>25. CASE on_stream_unavailable
    BY <1>25, <1>0 DEF on_stream_unavailable, Atomically, StopRtcpListener, RemoveListener,
       Goto, client, net, conn, stopping, dispatching, bounds, seen
  <1>26. CASE recreate_socket
    BY <1>26, <1>0 DEF recreate_socket, Atomically, is_listening, Goto, client, net, conn,
       stopping, dispatching, bounds, seen
  <1>27. CASE UNCHANGED vars
    BY <1>27, <1>0 DEF vars, client, net, conn, stopping, dispatching, bounds, seen
  <1> QED
    BY <1>1, <1>2, <1>3, <1>4, <1>5, <1>6, <1>7, <1>8, <1>9, <1>10, <1>11, <1>12, <1>13, <1>14,
       <1>15, <1>16, <1>17, <1>18, <1>19, <1>20, <1>21, <1>22, <1>23, <1>24, <1>25, <1>26, <1>27
       DEF Next, StopStep

\* A stop is one of all listens.
LEMMA StopsKept ==
    ASSUME Types, Undisturbed, [Next]_vars, ~overlap'
    PROVE  StopsAll'
  <1> USE DEF Types, MethodTypes, MethodNames, SocketTypes, TargetTypes, BatchTypes, Threads,
     Undisturbed, Starting, Stopping, Detached, Cleared, Past, At, None, DispatchSink,
     Exclusive, Attributes, AfterStored, StopsAll
  <1>0. ~overlap
    BY OverlapStays
  <1>1. CASE Listen
    <2>1. listens \subseteq stopped
      BY <1>1, ListenBegins
    <2> QED
      BY <1>1, <2>1, ListenBegins
  <1>2. CASE ListenNotes
    BY <1>2, <1>0 DEF ListenNotes, Goto, client, net, conn, stopping, dispatching, bounds, seen
  <1>3. CASE ListenRegisters
    BY <1>3, <1>0 DEF ListenRegisters, AddListener, Goto, client, net, conn, stopping,
       dispatching, bounds, seen
  <1>4. CASE ListenStartsFeedback
    BY <1>4, <1>0 DEF ListenStartsFeedback, EnsureRtcpListener, AddListener, Goto, client, net,
       conn, stopping, dispatching, bounds, seen
  <1>5. CASE ListenStartsRetries
    BY <1>5, <1>0 DEF ListenStartsRetries, Goto, client, net, conn, stopping, dispatching,
       bounds, seen
  <1>6. CASE SetSink
    BY <1>6, <1>0 DEF SetSink, Begin, Stopping, Starting, is_listening, Goto, client, net, conn,
       stopping, dispatching, bounds, seen
  <1>7. CASE SetSinkReplaces
    BY <1>7, <1>0 DEF SetSinkReplaces, NewTarget, Goto, client, net, conn, stopping,
       dispatching, bounds, seen
  <1>8. CASE stop_listening
    BY <1>8, <1>0 DEF stop_listening, StopBegins, Begin, Stopping, Starting, is_listening, Goto,
       client, net, conn, stopping, dispatching, bounds, seen
  <1>9. ASSUME NEW t \in Threads, StopRemoves(t) PROVE StopsAll'
    BY <1>9, <1>0 DEF StopRemoves, RemoveListener, Goto, client, net, conn, stopping,
       dispatching, bounds, seen
  <1>10. ASSUME NEW t \in Threads, StopDetaches(t) PROVE StopsAll'
    BY <1>10, <1>0 DEF StopDetaches, Goto, client, net, conn, stopping, dispatching, bounds,
       seen
  <1>11. ASSUME NEW t \in Threads, StopReadsAfter(t) PROVE StopsAll'
    BY <1>11, <1>0 DEF StopReadsAfter, Goto, client, net, conn, stopping, dispatching, bounds,
       seen
  <1>12. ASSUME NEW t \in Threads, StopClearsAfter(t) PROVE StopsAll'
    BY <1>12, <1>0 DEF StopClearsAfter, Goto, client, net, conn, stopping, dispatching, bounds,
       seen
  <1>13. ASSUME NEW t \in Threads, StopReadsSink(t) PROVE StopsAll'
    BY <1>13, <1>0 DEF StopReadsSink, Goto, client, net, conn, stopping, dispatching, bounds,
       seen
  <1>14. ASSUME NEW t \in Threads, StopClearsSink(t) PROVE StopsAll'
    BY <1>14, <1>0 DEF StopClearsSink, Goto, client, net, conn, stopping, dispatching, bounds,
       seen
  <1>15. ASSUME NEW t \in Threads, StopEndsRetries(t) PROVE StopsAll'
    BY <1>15, <1>0 DEF StopEndsRetries, Goto, client, net, conn, stopping, dispatching, bounds,
       seen
  <1>16. ASSUME NEW t \in Threads, StopResets(t) PROVE StopsAll'
    BY <1>16, <1>0 DEF StopResets, Goto, client, net, conn, stopping, dispatching, bounds, seen
  <1>17. ASSUME NEW t \in Threads, StopChecksIdle(t) PROVE StopsAll'
    BY <1>17, <1>0 DEF StopChecksIdle, is_listening, Goto, client, net, conn, stopping,
       dispatching, bounds, seen
  <1>18. ASSUME NEW t \in Threads, StopEndsFeedback(t) PROVE StopsAll'
    BY <1>18, <1>0 DEF StopEndsFeedback, StopRtcpListener, RemoveListener, Goto, client, net,
       conn, stopping, dispatching, bounds, seen
  <1>19. ASSUME NEW t \in Threads, StopCleansUp(t) PROVE StopsAll'
    BY <1>19, <1>0 DEF StopCleansUp, Goto, client, net, conn, stopping, dispatching, bounds,
       seen
  <1>20. ASSUME NEW t \in Threads, StopCallsAfter(t) PROVE StopsAll'
    BY <1>20, <1>0 DEF StopCallsAfter, Goto, client, net, conn, stopping, dispatching, bounds,
       seen
  <1>21. CASE Deliver \/ handle_socket_packets \/ Decode \/ PassOn \/ Write
    BY <1>21, <1>0 DEF Deliver, handle_socket_packets, Decode, PassOn, Write, Current,
       Destination, Writes, Goto, client, net, conn, stopping, dispatching, bounds, seen
  <1>22. CASE WriteRaises
    BY <1>22, <1>0 DEF WriteRaises, Writes, StopBegins, Begin, Stopping, Starting, is_listening,
       Goto, client, net, conn, stopping, dispatching, bounds, seen
  <1>23. CASE apply_selected_video_stream
    BY <1>23, <1>0 DEF apply_selected_video_stream, Atomically, EnsureRtcpListener, AddListener,
       Goto, client, net, conn, stopping, dispatching, bounds, seen
  <1>24. CASE stop_video
    BY <1>24, <1>0 DEF stop_video, Atomically, StopRtcpIfIdle, StopRtcpListener, RemoveListener,
       is_listening, Goto, client, net, conn, stopping, dispatching, bounds, seen
  <1>25. CASE on_stream_unavailable
    BY <1>25, <1>0 DEF on_stream_unavailable, Atomically, StopRtcpListener, RemoveListener,
       Goto, client, net, conn, stopping, dispatching, bounds, seen
  <1>26. CASE recreate_socket
    BY <1>26, <1>0 DEF recreate_socket, Atomically, is_listening, Goto, client, net, conn,
       stopping, dispatching, bounds, seen
  <1>27. CASE UNCHANGED vars
    BY <1>27, <1>0 DEF vars, client, net, conn, stopping, dispatching, bounds, seen
  <1> QED
    BY <1>1, <1>2, <1>3, <1>4, <1>5, <1>6, <1>7, <1>8, <1>9, <1>10, <1>11, <1>12, <1>13, <1>14,
       <1>15, <1>16, <1>17, <1>18, <1>19, <1>20, <1>21, <1>22, <1>23, <1>24, <1>25, <1>26, <1>27
       DEF Next, StopStep

\* What has read the after callback will call it, once.
LEMMA CallsKept ==
    ASSUME Types, Undisturbed, [Next]_vars, ~overlap'
    PROVE  CallsCounted'
  <1> USE DEF Types, MethodTypes, MethodNames, TargetTypes, BatchTypes, Threads, Undisturbed,
     Starting, Stopping, Detached, Cleared, Past, At, None, DispatchSink, Exclusive,
     AfterStored, CallsCounted, Held
  <1>0. ~overlap
    BY OverlapStays
  <1>1. CASE Listen
    <2> DEFINE new == targets + 1
    <2>1. /\ media_after = None /\ media_after' = new /\ listens' = listens \cup {new}
          /\ new \notin listens /\ new # None /\ None \notin listens /\ new \in Targets
          /\ UNCHANGED <<after, after_calls, doubled>>
      BY <1>1, ListenBegins
    <2>2. after_calls[new] = 0
      BY <2>1
    <2> HIDE DEF new
    <2> QED
      BY <2>1, <2>2, <1>0
  <1>2. CASE ListenNotes
    BY <1>2, <1>0 DEF ListenNotes, Goto, client, net, conn, stopping, dispatching, bounds, seen
  <1>3. CASE ListenRegisters
    BY <1>3, <1>0 DEF ListenRegisters, AddListener, Goto, client, net, conn, stopping,
       dispatching, bounds, seen
  <1>4. CASE ListenStartsFeedback
    BY <1>4, <1>0 DEF ListenStartsFeedback, EnsureRtcpListener, AddListener, Goto, client, net,
       conn, stopping, dispatching, bounds, seen
  <1>5. CASE ListenStartsRetries
    BY <1>5, <1>0 DEF ListenStartsRetries, Goto, client, net, conn, stopping, dispatching,
       bounds, seen
  <1>6. CASE SetSink
    BY <1>6, <1>0 DEF SetSink, Begin, Stopping, Starting, is_listening, Goto, client, net, conn,
       stopping, dispatching, bounds, seen
  <1>7. CASE SetSinkReplaces
    BY <1>7, <1>0 DEF SetSinkReplaces, NewTarget, Goto, client, net, conn, stopping,
       dispatching, bounds, seen
  <1>8. CASE stop_listening
    <2>1. UNCHANGED <<after, after_calls, listens, media_after>>
      BY <1>8 DEF stop_listening, client, seen
    <2>2. doubled => doubled'
      BY <1>8 DEF stop_listening, StopBegins, Begin
    <2> QED
      BY <2>1, <2>2, <1>0, CallsSame
  <1>9. ASSUME NEW t \in Threads, StopRemoves(t) PROVE CallsCounted'
    BY <1>9, <1>0 DEF StopRemoves, RemoveListener, Goto, client, net, conn, stopping,
       dispatching, bounds, seen
  <1>10. ASSUME NEW t \in Threads, StopDetaches(t) PROVE CallsCounted'
    BY <1>10, <1>0 DEF StopDetaches, Goto, client, net, conn, stopping, dispatching, bounds,
       seen
  <1>11. ASSUME NEW t \in Threads, StopReadsAfter(t) PROVE CallsCounted'
    BY <1>11, <1>0 DEF StopReadsAfter, Goto, client, net, conn, stopping, dispatching, bounds,
       seen
  <1>12. ASSUME NEW t \in Threads, StopClearsAfter(t) PROVE CallsCounted'
    BY <1>12, <1>0 DEF StopClearsAfter, Goto, client, net, conn, stopping, dispatching, bounds,
       seen
  <1>13. ASSUME NEW t \in Threads, StopReadsSink(t) PROVE CallsCounted'
    BY <1>13, <1>0 DEF StopReadsSink, Goto, client, net, conn, stopping, dispatching, bounds,
       seen
  <1>14. ASSUME NEW t \in Threads, StopClearsSink(t) PROVE CallsCounted'
    BY <1>14, <1>0 DEF StopClearsSink, Goto, client, net, conn, stopping, dispatching, bounds,
       seen
  <1>15. ASSUME NEW t \in Threads, StopEndsRetries(t) PROVE CallsCounted'
    BY <1>15, <1>0 DEF StopEndsRetries, Goto, client, net, conn, stopping, dispatching, bounds,
       seen
  <1>16. ASSUME NEW t \in Threads, StopResets(t) PROVE CallsCounted'
    BY <1>16, <1>0 DEF StopResets, Goto, client, net, conn, stopping, dispatching, bounds, seen
  <1>17. ASSUME NEW t \in Threads, StopChecksIdle(t) PROVE CallsCounted'
    BY <1>17, <1>0 DEF StopChecksIdle, is_listening, Goto, client, net, conn, stopping,
       dispatching, bounds, seen
  <1>18. ASSUME NEW t \in Threads, StopEndsFeedback(t) PROVE CallsCounted'
    BY <1>18, <1>0 DEF StopEndsFeedback, StopRtcpListener, RemoveListener, Goto, client, net,
       conn, stopping, dispatching, bounds, seen
  <1>19. ASSUME NEW t \in Threads, StopCleansUp(t) PROVE CallsCounted'
    BY <1>19, <1>0 DEF StopCleansUp, Goto, client, net, conn, stopping, dispatching, bounds,
       seen
  <1>20. ASSUME NEW t \in Threads, StopCallsAfter(t) PROVE CallsCounted'
    <2>1. /\ pc[t] = "after" /\ after' = [after EXCEPT ![t] = None]
          /\ after_calls' = [c \in Targets |-> after_calls[c] + (IF c = after[t] THEN 1 ELSE 0)]
          /\ UNCHANGED <<listens, media_after, doubled>>
      BY <1>20 DEF StopCallsAfter, client, bounds
    <2>2. media_after = None
      BY <2>1, <1>0
    <2>3. ASSUME NEW u \in listens
          PROVE  after_calls'[u] + Held(u)' = after_calls[u] + Held(u)
      <3>1. u \in Targets /\ u # None /\ after_calls[u] \in Nat
        BY MediaReceiveAssumption DEF Targets
      <3>2. after_calls'[u] = after_calls[u] + (IF u = after[t] THEN 1 ELSE 0)
        BY <2>1, <3>1
      <3>3. CASE t = "loop"
        <4>1. Held(u)' = IF after["dispatcher"] = u THEN 1 ELSE 0
          BY <2>1, <3>1, <3>3
        <4> QED
          BY <3>1, <3>2, <3>3, <4>1
      <3>4. CASE t = "dispatcher"
        <4>1. Held(u)' = IF after["loop"] = u THEN 1 ELSE 0
          BY <2>1, <3>1, <3>4
        <4> QED
          BY <3>1, <3>2, <3>4, <4>1
      <3> QED
        BY <3>3, <3>4
    <2>4. ASSUME NEW u \in listens PROVE u # media_after
      BY <2>2
    <2> QED
      BY <2>1, <2>3, <2>4, <1>0
  <1>21. CASE Deliver \/ handle_socket_packets \/ Decode \/ PassOn \/ Write
    <2>1. UNCHANGED <<after, after_calls, listens, media_after, doubled>>
      BY <1>21 DEF Deliver, handle_socket_packets, Decode, PassOn, Write, client, stopping, bounds,
         seen
    <2> QED
      BY <2>1, <1>0, CallsSame
  <1>22. CASE WriteRaises
    <2>1. UNCHANGED <<after, after_calls, listens, media_after>>
      BY <1>22 DEF WriteRaises, client, bounds
    <2>2. doubled => doubled'
      BY <1>22 DEF WriteRaises, StopBegins, Begin
    <2> QED
      BY <2>1, <2>2, <1>0, CallsSame
  <1>23. CASE apply_selected_video_stream
    BY <1>23, <1>0 DEF apply_selected_video_stream, Atomically, EnsureRtcpListener, AddListener,
       Goto, client, net, conn, stopping, dispatching, bounds, seen
  <1>24. CASE stop_video
    BY <1>24, <1>0 DEF stop_video, Atomically, StopRtcpIfIdle, StopRtcpListener, RemoveListener,
       is_listening, Goto, client, net, conn, stopping, dispatching, bounds, seen
  <1>25. CASE on_stream_unavailable
    BY <1>25, <1>0 DEF on_stream_unavailable, Atomically, StopRtcpListener, RemoveListener,
       Goto, client, net, conn, stopping, dispatching, bounds, seen
  <1>26. CASE recreate_socket
    BY <1>26, <1>0 DEF recreate_socket, Atomically, is_listening, Goto, client, net, conn,
       stopping, dispatching, bounds, seen
  <1>27. CASE UNCHANGED vars
    BY <1>27, <1>0 DEF vars, client, net, conn, stopping, dispatching, bounds, seen
  <1> QED
    BY <1>1, <1>2, <1>3, <1>4, <1>5, <1>6, <1>7, <1>8, <1>9, <1>10, <1>11, <1>12, <1>13, <1>14,
       <1>15, <1>16, <1>17, <1>18, <1>19, <1>20, <1>21, <1>22, <1>23, <1>24, <1>25, <1>26, <1>27
       DEF Next, StopStep

-----------------------------------------------------------------------------
(************************ nothing that is needed is missing ***************)

\* What is registered after a listener is added, ...
LEMMA Added ==
    ASSUME NEW c, AddListener(c)
    PROVE  \A e : Registered(e)' <=> Registered(e) \/ e = c
  <1> DEFINE new == [id |-> next_id, callback |-> c]
  <1>1. registered' = registered \cup {new} /\ new.callback = c
    BY DEF AddListener
  <1> HIDE DEF new
  <1> QED
    BY <1>1 DEF Registered

\* ... and after one is removed whose id, if it has one, is of this socket.
LEMMA Removed ==
    ASSUME ListenerTypes, KnownIds, NEW c, RemoveListener(c),
           udp_listener_ids[c] # None => Registered(c)
    PROVE  \A e : Registered(e)' <=> Registered(e) /\ e # c
  <1>1. CASE udp_listener_ids[c] = None
    <2>1. registered' = registered
      BY <1>1 DEF RemoveListener, ListenerTypes, None
    <2>2. ~Registered(c)
      BY <1>1 DEF Registered, KnownIds, ListenerTypes, None
    <2> QED
      BY <2>1, <2>2 DEF Registered
  <1>2. CASE udp_listener_ids[c] # None
    <2>1. PICK k \in registered : k.callback = c
      BY <1>2 DEF Registered
    <2>2. udp_listener_ids[c] = k.id
      BY <2>1 DEF KnownIds
    <2>3. \A l \in registered : l.id = k.id <=> l.callback = c
      BY <2>1, <2>2 DEF KnownIds, ListenerTypes
    <2>4. registered' = {l \in registered : l.callback # c}
      BY <2>2, <2>3 DEF RemoveListener
    <2> QED
      BY <2>4 DEF Registered
  <1> QED
    BY <1>1, <1>2

\* What the methods do to the listener for feedback, ...
LEMMA FeedbackStarts ==
    ASSUME Present, EnsureRtcpListener
    PROVE  /\ rtcp_listener' = TRUE /\ Registered("rtcp")'
           /\ Registered("media")' <=> Registered("media")
           /\ udp_listener_ids'["media"] = udp_listener_ids["media"]
  <1>1. CASE rtcp_listener
    BY <1>1 DEF EnsureRtcpListener, Present, Registered
  <1>2. CASE ~rtcp_listener
    <2>1. rtcp_listener' = TRUE /\ AddListener("rtcp")
      BY <1>2 DEF EnsureRtcpListener
    <2>2. udp_listener_ids'["media"] = udp_listener_ids["media"]
      BY <2>1 DEF AddListener
    <2> QED
      BY <2>1, <2>2, Added
  <1> QED
    BY <1>1, <1>2

LEMMA FeedbackStops ==
    ASSUME Types, Present, KnownIds, StopRtcpListener
    PROVE  /\ rtcp_listener' = FALSE /\ udp_listener_ids'["rtcp"] = None
           /\ Registered("media")' <=> Registered("media")
           /\ udp_listener_ids'["media"] = udp_listener_ids["media"]
  <1>1. CASE rtcp_listener
    <2>1. rtcp_listener' = FALSE /\ RemoveListener("rtcp")
      BY <1>1 DEF StopRtcpListener
    <2>2. udp_listener_ids["rtcp"] # None => Registered("rtcp")
      BY DEF Present, Callbacks
    <2>3. udp_listener_ids'["rtcp"] = None /\ udp_listener_ids'["media"] = udp_listener_ids["media"]
      BY <2>1 DEF RemoveListener, Types, SocketTypes, ListenerTypes, Callbacks
    <2> QED
      BY <2>1, <2>2, <2>3, Removed DEF Types, SocketTypes
  <1>2. CASE ~rtcp_listener
    <2>1. udp_listener_ids["rtcp"] = None
      BY <1>2 DEF KnownIds
    <2> QED
      BY <1>2, <2>1 DEF StopRtcpListener, Registered
  <1> QED
    BY <1>1, <1>2

\* Nothing that is needed is missing on a steady socket.
LEMMA PresentKept ==
    ASSUME Types, Undisturbed, InSteady, [Next]_vars, ~overlap'
    PROVE  InSteady'
  <1>0. ~overlap
    BY OverlapStays
  <1>1. CASE Listen
    BY <1>1, <1>0 DEF MethodTypes, MethodNames, Threads, SocketTypes, Types, BatchTypes,
       Undisturbed, Exclusive, Attributes, InSteady, Steady, Present, Registered, Detached,
       Cleared, Starting, Stopping, At, None, Listen, NewTarget, Begin, Stopping, Starting,
       is_listening, Goto, client, net, conn, stopping, dispatching, bounds, seen
  <1>2. CASE ListenNotes
    BY <1>2, <1>0 DEF MethodTypes, MethodNames, Threads, SocketTypes, Types, BatchTypes,
       Undisturbed, Exclusive, Attributes, InSteady, Steady, Present, Registered, Detached,
       Cleared, Starting, Stopping, At, None, ListenNotes, Goto, client, net, conn, stopping,
       dispatching, bounds, seen
  <1>3. CASE ListenRegisters
    <2>1. SUFFICES ASSUME Steady' PROVE Present'
      BY DEF InSteady
    <2>2. /\ pc["loop"] = "listen_add" /\ pc' = [pc EXCEPT !["loop"] = "listen_rtcp"]
          /\ UNCHANGED <<connected, stale, overlap, socket_listener, rtcp_listener, nack_thread,
                         video>>
          /\ AddListener("media") /\ udp_listener_ids'["rtcp"] = udp_listener_ids["rtcp"]
      BY <1>3 DEF ListenRegisters, Goto, client, conn, AddListener
    <2>3. Present /\ Exclusive /\ Attributes
      BY <1>0, <2>1, <2>2 DEF Steady, InSteady, Undisturbed
    <2>4. \A e : Registered(e)' <=> Registered(e) \/ e = "media"
      BY <2>2, Added
    <2> QED
      BY <2>2, <2>3, <2>4 DEF Present, Callbacks, Exclusive, Attributes, At, Threads, Starting,
         MethodTypes, SocketTypes, Types
  <1>4. CASE ListenStartsFeedback
    <2>1. SUFFICES ASSUME Steady' PROVE Present'
      BY DEF InSteady
    <2>2. /\ pc["loop"] = "listen_rtcp" /\ pc' = [pc EXCEPT !["loop"] = "listen_nack"]
          /\ UNCHANGED <<connected, stale, overlap, socket_listener, nack_thread, video>>
          /\ EnsureRtcpListener
      BY <1>4 DEF ListenStartsFeedback, Goto, client, conn
    <2>3. Present /\ Exclusive
      BY <1>0, <2>1, <2>2 DEF Steady, InSteady, Undisturbed
    <2> QED
      BY <2>2, <2>3, FeedbackStarts DEF Present, Callbacks, Exclusive, At, Threads, Starting,
         MethodTypes, SocketTypes, Types
  <1>5. CASE ListenStartsRetries
    BY <1>5, <1>0 DEF MethodTypes, MethodNames, Threads, SocketTypes, Types, BatchTypes,
       Undisturbed, Exclusive, Attributes, InSteady, Steady, Present, Registered, Detached,
       Cleared, Starting, Stopping, At, None, ListenStartsRetries, Goto, client, net, conn,
       stopping, dispatching, bounds, seen
  <1>6. CASE SetSink
    BY <1>6, <1>0 DEF MethodTypes, MethodNames, Threads, SocketTypes, Types, BatchTypes,
       Undisturbed, Exclusive, Attributes, InSteady, Steady, Present, Registered, Detached,
       Cleared, Starting, Stopping, At, None, SetSink, Begin, Stopping, Starting, is_listening,
       Goto, client, net, conn, stopping, dispatching, bounds, seen
  <1>7. CASE SetSinkReplaces
    BY <1>7, <1>0 DEF MethodTypes, MethodNames, Threads, SocketTypes, Types, BatchTypes,
       Undisturbed, Exclusive, Attributes, InSteady, Steady, Present, Registered, Detached,
       Cleared, Starting, Stopping, At, None, SetSinkReplaces, NewTarget, Goto, client, net,
       conn, stopping, dispatching, bounds, seen
  <1>8. CASE stop_listening
    BY <1>8, <1>0 DEF MethodTypes, MethodNames, Threads, SocketTypes, Types, BatchTypes,
       Undisturbed, Exclusive, Attributes, InSteady, Steady, Present, Registered, Detached,
       Cleared, Starting, Stopping, At, None, stop_listening, StopBegins, Begin, Stopping,
       Starting, is_listening, Goto, client, net, conn, stopping, dispatching, bounds, seen
  <1>9. ASSUME NEW t \in Threads, StopRemoves(t) PROVE InSteady'
    <2>1. SUFFICES ASSUME Steady' PROVE Present'
      BY DEF InSteady
    <2>2. /\ pc[t] = "remove" /\ pc' = [pc EXCEPT ![t] = "detach"]
          /\ UNCHANGED <<connected, stale, overlap, socket_listener, rtcp_listener, nack_thread,
                         video>>
          /\ (socket_listener => RemoveListener("media"))
          /\ (~socket_listener => UNCHANGED <<registered, udp_listener_ids>>)
      BY <1>9 DEF StopRemoves, Goto, client, conn
    <2>3. Present /\ Exclusive /\ KnownIds
      BY <1>0, <2>1, <2>2 DEF Steady, InSteady, Undisturbed
    <2>4. /\ Registered("rtcp")' <=> Registered("rtcp")
          /\ udp_listener_ids'["rtcp"] = udp_listener_ids["rtcp"]
          /\ udp_listener_ids'["media"] = None
      <3>1. CASE socket_listener
        <4>1. RemoveListener("media") /\ (udp_listener_ids["media"] # None => Registered("media"))
          BY <2>2, <2>3, <3>1 DEF Present, Callbacks
        <4> QED
          BY <2>3, <4>1, Removed DEF RemoveListener, Types, SocketTypes, ListenerTypes, Callbacks
      <3>2. CASE ~socket_listener
        BY <2>2, <2>3, <3>2 DEF Registered, KnownIds
      <3> QED
        BY <3>1, <3>2
    <2> QED
      BY <2>2, <2>3, <2>4 DEF Present, Callbacks, Exclusive, At, Threads, Starting,
         MethodTypes, SocketTypes, Types
  <1>10. ASSUME NEW t \in Threads, StopDetaches(t) PROVE InSteady'
    BY <1>10, <1>0 DEF MethodTypes, MethodNames, Threads, SocketTypes, Types, BatchTypes,
       Undisturbed, Exclusive, Attributes, InSteady, Steady, Present, Registered, Detached,
       Cleared, Starting, Stopping, At, None, StopDetaches, Goto, client, net, conn, stopping,
       dispatching, bounds, seen
  <1>11. ASSUME NEW t \in Threads, StopReadsAfter(t) PROVE InSteady'
    BY <1>11, <1>0 DEF MethodTypes, MethodNames, Threads, SocketTypes, Types, BatchTypes,
       Undisturbed, Exclusive, Attributes, InSteady, Steady, Present, Registered, Detached,
       Cleared, Starting, Stopping, At, None, StopReadsAfter, Goto, client, net, conn, stopping,
       dispatching, bounds, seen
  <1>12. ASSUME NEW t \in Threads, StopClearsAfter(t) PROVE InSteady'
    BY <1>12, <1>0 DEF MethodTypes, MethodNames, Threads, SocketTypes, Types, BatchTypes,
       Undisturbed, Exclusive, Attributes, InSteady, Steady, Present, Registered, Detached,
       Cleared, Starting, Stopping, At, None, StopClearsAfter, Goto, client, net, conn,
       stopping, dispatching, bounds, seen
  <1>13. ASSUME NEW t \in Threads, StopReadsSink(t) PROVE InSteady'
    BY <1>13, <1>0 DEF MethodTypes, MethodNames, Threads, SocketTypes, Types, BatchTypes,
       Undisturbed, Exclusive, Attributes, InSteady, Steady, Present, Registered, Detached,
       Cleared, Starting, Stopping, At, None, StopReadsSink, Goto, client, net, conn, stopping,
       dispatching, bounds, seen
  <1>14. ASSUME NEW t \in Threads, StopClearsSink(t) PROVE InSteady'
    BY <1>14, <1>0 DEF MethodTypes, MethodNames, Threads, SocketTypes, Types, BatchTypes,
       Undisturbed, Exclusive, Attributes, InSteady, Steady, Present, Registered, Detached,
       Cleared, Starting, Stopping, At, None, StopClearsSink, Goto, client, net, conn, stopping,
       dispatching, bounds, seen
  <1>15. ASSUME NEW t \in Threads, StopEndsRetries(t) PROVE InSteady'
    BY <1>15, <1>0 DEF MethodTypes, MethodNames, Threads, SocketTypes, Types, BatchTypes,
       Undisturbed, Exclusive, Attributes, InSteady, Steady, Present, Registered, Detached,
       Cleared, Starting, Stopping, At, None, StopEndsRetries, Goto, client, net, conn,
       stopping, dispatching, bounds, seen
  <1>16. ASSUME NEW t \in Threads, StopResets(t) PROVE InSteady'
    BY <1>16, <1>0 DEF MethodTypes, MethodNames, Threads, SocketTypes, Types, BatchTypes,
       Undisturbed, Exclusive, Attributes, InSteady, Steady, Present, Registered, Detached,
       Cleared, Starting, Stopping, At, None, StopResets, Goto, client, net, conn, stopping,
       dispatching, bounds, seen
  <1>17. ASSUME NEW t \in Threads, StopChecksIdle(t) PROVE InSteady'
    BY <1>17, <1>0 DEF MethodTypes, MethodNames, Threads, SocketTypes, Types, BatchTypes,
       Undisturbed, Exclusive, Attributes, InSteady, Steady, Present, Registered, Detached,
       Cleared, Starting, Stopping, At, None, StopChecksIdle, is_listening, Goto, client, net,
       conn, stopping, dispatching, bounds, seen
  <1>18. ASSUME NEW t \in Threads, StopEndsFeedback(t) PROVE InSteady'
    <2>1. SUFFICES ASSUME Steady' PROVE Present'
      BY DEF InSteady
    <2>2. /\ pc[t] = "rtcp_stop" /\ pc' = [pc EXCEPT ![t] = "cleanup"]
          /\ UNCHANGED <<connected, stale, overlap, socket_listener, nack_thread, video>>
          /\ StopRtcpListener
      BY <1>18 DEF StopEndsFeedback, Goto, client, conn
    <2>3. Present /\ Exclusive /\ KnownIds /\ Attributes /\ Needed
      BY <1>0, <2>1, <2>2 DEF Steady, InSteady, Undisturbed
    <2>4. ~video /\ ~socket_listener
      BY <2>2, <2>3 DEF Needed, Attributes, At, Detached
    <2> QED
      BY <2>2, <2>3, <2>4, FeedbackStops DEF Present, Callbacks
  <1>19. ASSUME NEW t \in Threads, StopCleansUp(t) PROVE InSteady'
    BY <1>19, <1>0 DEF MethodTypes, MethodNames, Threads, SocketTypes, Types, BatchTypes,
       Undisturbed, Exclusive, Attributes, InSteady, Steady, Present, Registered, Detached,
       Cleared, Starting, Stopping, At, None, StopCleansUp, Goto, client, net, conn, stopping,
       dispatching, bounds, seen
  <1>20. ASSUME NEW t \in Threads, StopCallsAfter(t) PROVE InSteady'
    BY <1>20, <1>0 DEF MethodTypes, MethodNames, Threads, SocketTypes, Types, BatchTypes,
       Undisturbed, Exclusive, Attributes, InSteady, Steady, Present, Registered, Detached,
       Cleared, Starting, Stopping, At, None, StopCallsAfter, Goto, client, net, conn, stopping,
       dispatching, bounds, seen
  <1>21. CASE Deliver \/ handle_socket_packets \/ Decode \/ PassOn \/ Write
    BY <1>21, <1>0 DEF MethodTypes, MethodNames, Threads, SocketTypes, Types, BatchTypes,
       Undisturbed, Exclusive, Attributes, InSteady, Steady, Present, Registered, Detached,
       Cleared, Starting, Stopping, At, None, Deliver, handle_socket_packets, Decode, PassOn,
       Write, Current, Destination, Writes, Goto, client, net, conn, stopping, dispatching,
       bounds, seen
  <1>22. CASE WriteRaises
    BY <1>22, <1>0 DEF MethodTypes, MethodNames, Threads, SocketTypes, Types, BatchTypes,
       Undisturbed, Exclusive, Attributes, InSteady, Steady, Present, Registered, Detached,
       Cleared, Starting, Stopping, At, None, WriteRaises, Writes, StopBegins, Begin, Stopping,
       Starting, is_listening, Goto, client, net, conn, stopping, dispatching, bounds, seen
  <1>23. CASE apply_selected_video_stream
    <2>1. SUFFICES ASSUME Steady' PROVE Present'
      BY DEF InSteady
    <2>2. /\ UNCHANGED <<connected, stale, socket_listener, nack_thread, pc>>
          /\ EnsureRtcpListener
      BY <1>23 DEF apply_selected_video_stream, client
    <2>3. Present
      BY <1>0, <2>1, <2>2 DEF Steady, InSteady
    <2> QED
      BY <2>2, <2>3, FeedbackStarts DEF Present, Callbacks, At
  <1>24. CASE stop_video
    <2>1. SUFFICES ASSUME Steady' PROVE Present'
      BY DEF InSteady
    <2>2. /\ pc["loop"] = "idle" /\ pc["dispatcher"] = "idle"
          /\ UNCHANGED <<connected, stale, socket_listener, nack_thread, pc>>
          /\ video = TRUE /\ video' = FALSE /\ StopRtcpIfIdle(FALSE)
      BY <1>24, <2>1 DEF stop_video, Atomically, Steady, client, Types, SocketTypes, MethodTypes
    <2>3. Present /\ KnownIds /\ Attributes
      BY <1>0, <2>1, <2>2 DEF Steady, InSteady, Undisturbed
    <2>4. ~At(Starting \cup Detached)
      BY <2>2 DEF At, Threads, Starting, Detached
    <2>5. CASE is_listening
      <3>1. UNCHANGED <<registered, udp_listener_ids, rtcp_listener>>
        BY <2>2, <2>5 DEF StopRtcpIfIdle
      <3>2. rtcp_listener
        BY <2>2, <2>3 DEF Present
      <3> QED
        BY <2>2, <2>3, <3>1, <3>2 DEF Present, Registered, At
    <2>6. CASE ~is_listening
      <3>1. StopRtcpListener /\ ~socket_listener
        BY <2>2, <2>6 DEF StopRtcpIfIdle, is_listening
      <3> QED
        BY <2>2, <2>3, <3>1, FeedbackStops DEF Present, Callbacks
    <2> QED
      BY <2>5, <2>6
  <1>25. CASE on_stream_unavailable
    BY <1>25, <1>0 DEF MethodTypes, MethodNames, Threads, SocketTypes, Types, BatchTypes,
       Undisturbed, Exclusive, Attributes, InSteady, Steady, Present, Registered, Detached,
       Cleared, Starting, Stopping, At, None, on_stream_unavailable, Atomically,
       StopRtcpListener, RemoveListener, Goto, client, net, conn, stopping, dispatching, bounds,
       seen
  <1>26. CASE recreate_socket
    <2>1. SUFFICES ASSUME Steady' PROVE Present'
      BY DEF InSteady
    <2>2. /\ pc["loop"] = "idle" /\ dpc = "idle" /\ stale' = (is_listening \/ video)
          /\ UNCHANGED <<udp_listener_ids, socket_listener, rtcp_listener, video, nack_thread>>
      BY <1>26 DEF recreate_socket, Atomically, client
    <2>3. pc["dispatcher"] = "idle"
      BY <2>2 DEF Types, BatchTypes
    <2>4. ~socket_listener /\ ~video
      BY <2>1, <2>2 DEF Steady, is_listening
    <2>5. ~rtcp_listener
      BY <1>0, <2>2, <2>3, <2>4 DEF Undisturbed, Needed, At, Threads, Detached
    <2>6. \A c \in Callbacks : udp_listener_ids[c] = None
      BY <1>0, <2>4, <2>5 DEF Undisturbed, KnownIds, Callbacks
    <2> QED
      BY <2>2, <2>4, <2>5, <2>6 DEF Present
  <1>27. CASE UNCHANGED vars
    BY <1>27, <1>0 DEF MethodTypes, MethodNames, Threads, SocketTypes, Types, BatchTypes,
       Undisturbed, Exclusive, Attributes, InSteady, Steady, Present, Registered, Detached,
       Cleared, Starting, Stopping, At, None, vars, client, net, conn, stopping, dispatching,
       bounds, seen
  <1> QED
    BY <1>1, <1>2, <1>3, <1>4, <1>5, <1>6, <1>7, <1>8, <1>9, <1>10, <1>11, <1>12, <1>13, <1>14,
       <1>15, <1>16, <1>17, <1>18, <1>19, <1>20, <1>21, <1>22, <1>23, <1>24, <1>25, <1>26, <1>27
       DEF Next, StopStep
-----------------------------------------------------------------------------
(******************************* conclusions *******************************)

\* The invariant holds at the start.
LEMMA InvAtStart ==
    ASSUME Init
    PROVE  ReceiveInv
  <1>1. SocketTypes
    <2>1. socket \in 1..MaxSockets /\ receive_state \in 0..socket
      BY MediaReceiveAssumption DEF Init, None
    <2>2. ListenerTypes
      BY DEF Init, ListenerTypes, None
    <2> QED
      BY <2>1, <2>2 DEF Init, SocketTypes
  <1>2. MethodTypes
    BY DEF Init, MethodTypes, MethodNames, None, Threads
  <1>3. TargetTypes
    BY MediaReceiveAssumption DEF Init, TargetTypes, None, Targets
  <1>4. BatchTypes
    BY MediaReceiveAssumption DEF Init, BatchTypes, None, Threads
  <1>5. StaysCleared /\ StoppedIsGone
    BY DEF Init, StaysCleared, StoppedIsGone, Detached, Cleared, None, Threads
  <1>6. LateIsHeld
    BY MediaReceiveAssumption DEF Init, LateIsHeld, None, Targets
  <1>7. \A t \in Threads : pc[t] = "idle"
    BY DEF Init
  <1>8. Exclusive /\ KnownIds /\ Attributes /\ Needed
    BY <1>7 DEF Init, Exclusive, KnownIds, Attributes, Needed, At, Threads, Starting, Detached,
       Cleared, Callbacks, None
  <1>9. AfterStored /\ StopsAll /\ CallsCounted
    BY <1>7 DEF Init, AfterStored, StopsAll, CallsCounted, At, Threads, Starting, Stopping,
       Detached, Past, None
  <1>10. InSteady
    BY DEF Init, InSteady, Present
  <1> QED
    BY <1>1, <1>2, <1>3, <1>4, <1>5, <1>6, <1>8, <1>9, <1>10 DEF ReceiveInv, Types, Undisturbed

\* Every step preserves it.
LEMMA InvKept ==
    ASSUME ReceiveInv, [Next]_vars
    PROVE  ReceiveInv'
  <1> USE DEF ReceiveInv
  <1>1. Types'
    BY SocketsKept, MethodsKept, TargetsKept, BatchesKept DEF Types
  <1>2. StaysCleared' /\ StoppedIsGone' /\ LateIsHeld'
    BY ClearedKept, StoppedKept, LateKept DEF Types
  <1>3. ASSUME ~overlap'
        PROVE  /\ Exclusive' /\ KnownIds' /\ Attributes' /\ Needed'
               /\ AfterStored' /\ StopsAll' /\ CallsCounted' /\ InSteady'
    BY <1>3, ExclusiveKept, IdsKept, AttributesKept, NeededKept, AfterStoredKept, StopsKept,
       CallsKept, PresentKept
  <1> QED
    BY <1>1, <1>2, <1>3 DEF Undisturbed, InSteady, Steady

\* It implies the types that the runs check, ...
LEMMA InvGivesTypes ==
    ASSUME ReceiveInv
    PROVE  TypeOK
  <1> USE DEF ReceiveInv, Types
  <1>1. 1..targets \subseteq Targets
    BY MediaReceiveAssumption DEF TargetTypes, Targets
  <1>2. /\ media_callback \in Targets \cup {None, DispatchSink}
        /\ callback \in Targets \cup {None, DispatchSink}
        /\ target \in Targets \cup {None}
    BY <1>1 DEF TargetTypes, BatchTypes
  <1>3. media_sink \in Targets \cup {None} /\ media_after \in Targets \cup {None}
    BY <1>1 DEF TargetTypes
  <1>4. stopped \subseteq Targets /\ sinks \cup listens \subseteq 1..targets
    BY <1>1 DEF TargetTypes
  <1> QED
    BY <1>2, <1>3, <1>4 DEF TypeOK, SocketTypes, ListenerTypes, TargetTypes, BatchTypes

\* ... that is_listening is whether there is a listener, ...
LEMMA InvGivesListening ==
    ASSUME ReceiveInv, Quiet, ~overlap
    PROVE  is_listening <=> socket_listener
  <1>1. Attributes /\ ~At(Starting \cup Detached)
    BY DEF ReceiveInv, Undisturbed, Quiet, At, Threads, Starting, Detached
  <1> QED
    BY <1>1 DEF Attributes, is_listening

\* ... that nothing is left, ...
LEMMA InvGivesNothingLeft ==
    ASSUME ReceiveInv
    PROVE  NothingLeft
  <1>1. SUFFICES ASSUME Quiet, ~overlap
                 PROVE  /\ is_listening = socket_listener
                        /\ Registered("media") => socket_listener
                        /\ Registered("rtcp") => rtcp_listener
                        /\ rtcp_listener => (is_listening \/ video)
                        /\ nack_thread => is_listening
                        /\ \A t \in listens \ stopped : after_calls[t] = 0 /\ media_after = t
                        /\ \A t \in listens \cap stopped :
                              after_calls[t] \in 1..(IF doubled THEN 2 ELSE 1)
    BY DEF NothingLeft
  <1>2. \A t \in Threads : pc[t] = "idle"
    BY <1>1 DEF Quiet
  <1>3. KnownIds /\ Needed /\ AfterStored /\ StopsAll /\ CallsCounted
    BY <1>1 DEF ReceiveInv, Undisturbed
  <1>4. is_listening <=> socket_listener
    BY <1>1, InvGivesListening
  <1>5. is_listening = socket_listener
    BY <1>4 DEF is_listening, ReceiveInv, Types, SocketTypes
  <1>6. Registered("media") => socket_listener
    BY <1>3 DEF KnownIds, Registered, ReceiveInv, Types, SocketTypes, ListenerTypes, None
  <1>7. Registered("rtcp") => rtcp_listener
    BY <1>3 DEF KnownIds, Registered, ReceiveInv, Types, SocketTypes, ListenerTypes, None
  <1>8. (rtcp_listener => (is_listening \/ video)) /\ (nack_thread => is_listening)
    BY <1>2, <1>3, <1>4 DEF Needed, At, Detached
  <1>9. listens \subseteq stopped \cup {media_after} /\ media_after \notin stopped
    BY <1>2, <1>3 DEF StopsAll, At, Past, Detached
  <1>10. \A t \in listens \ stopped : after_calls[t] = 0 /\ media_after = t
    BY <1>3, <1>9 DEF CallsCounted
  <1>11. ASSUME NEW t \in listens \cap stopped
         PROVE  after_calls[t] \in 1..(IF doubled THEN 2 ELSE 1)
    <2>1. after_calls[t] + Held(t) \in 1..(IF doubled THEN 2 ELSE 1)
      BY <1>3, <1>9 DEF CallsCounted
    <2>2. after["loop"] = None /\ after["dispatcher"] = None
      BY <1>2, <1>3 DEF AfterStored, Threads, Past, Detached
    <2>3. t # None /\ after_calls[t] \in Nat
      BY MediaReceiveAssumption DEF ReceiveInv, Types, TargetTypes, None, Targets
    <2>4. Held(t) = 0
      BY <2>2, <2>3 DEF Held
    <2> QED
      BY <2>1, <2>3, <2>4
  <1> QED
    BY <1>5, <1>6, <1>7, <1>8, <1>10, <1>11

\* ... that nothing is missing on a steady socket, ...
LEMMA InvGivesNothingMissing ==
    ASSUME ReceiveInv
    PROVE  NothingMissing
  <1>1. SUFFICES ASSUME Quiet, ~overlap, ~stale, connected
                 PROVE  /\ is_listening => Registered("media") /\ nack_thread
                        /\ (is_listening \/ video) => Registered("rtcp")
    BY DEF NothingMissing
  <1>2. Present
    BY <1>1 DEF ReceiveInv, InSteady, Steady
  <1>3. is_listening <=> socket_listener
    BY <1>1, InvGivesListening
  <1>4. \A t \in Threads : pc[t] = "idle"
    BY <1>1 DEF Quiet
  <1>5. /\ ~At({"listen_add", "detach"}) /\ ~At({"listen_add", "listen_rtcp"})
        /\ ~At({"listen_add", "listen_rtcp", "listen_nack"})
    BY <1>4 DEF At
  <1> QED
    BY <1>2, <1>3, <1>5 DEF Present

\* ... and that nothing is registered twice.
LEMMA InvGivesOnce ==
    ASSUME ReceiveInv
    PROVE  DeliveredOnce
  <1>1. SUFFICES ASSUME ~overlap, NEW l \in registered, NEW m \in registered,
                        l.callback = m.callback
                 PROVE  l = m
    BY DEF DeliveredOnce
  <1>2. l.id = m.id
    BY <1>1 DEF ReceiveInv, Undisturbed, KnownIds
  <1> QED
    BY <1>2 DEF ReceiveInv, Types, SocketTypes, ListenerTypes

\* The invariant is one of the specification.
LEMMA ReceiveInvariant == Spec => []ReceiveInv
  BY InvAtStart, InvKept, PTL DEF Spec

\* listen, set_sink, _stop_listening on either thread and the dispatcher's
\* per-batch and per-packet reads: what a stopped target still gets is the
\* rest of one batch, and for a sink the one packet being written.
THEOREM LateIsBounded == Spec => []LatePacketsBounded
  <1>1. ReceiveInv => LatePacketsBounded
    BY DEF ReceiveInv, LateIsHeld, LatePacketsBounded
  <1> QED
    BY <1>1, ReceiveInvariant, PTL

\* listen, set_sink, _stop_listening on both threads, video and reconnects: the
\* sink in use has not been cleaned up, whatever overlaps.  While nothing
\* other than two stops has overlapped, nothing is registered twice, and
\* whenever no method is under way no listener or retry thread is left that
\* nothing needs, on any socket, and none is missing on one that was not made
\* while media was received or sent; every listen that has ended has called
\* its after callback, once if its stop was the only one.
THEOREM ListeningIsConsistent == Spec => []ListeningConsistent
  <1>1. ReceiveInv => ListeningConsistent
    BY InvGivesTypes, InvGivesNothingLeft, InvGivesNothingMissing, InvGivesOnce
       DEF ReceiveInv, StoppedIsGone, ActiveSinkIsOpen, ListeningConsistent
  <1> QED
    BY <1>1, ReceiveInvariant, PTL

-----------------------------------------------------------------------------
(***************************** the held frames *****************************)

Frame == [id : Arrivals, user : Users \cup {NoUser}, queued_at : Nat]

FateNames == {"waits", "expired", "failed", "raced", "dropped", "delivered", "cleared"}

DaveTypes ==
    /\ held \in Seq(Frame) /\ kept \in Seq(Frame) /\ packets_out \in Seq(Frame)
    /\ phase \in {"idle", "pass", "pop", "packets"}
    /\ clock \in Nat /\ began \in Nat /\ began <= clock
    /\ listener \in Nat /\ relistens \in Nat
    /\ arrivals \in 0 .. MaxArrivals
    /\ fate \in [Arrivals -> FateNames]
    /\ born \in [Arrivals -> Nat] /\ to \in [Arrivals -> Int]

\* A list in the order in which its frames came.
InOrder(list) ==
    \A i, j \in DOMAIN list :
        i < j => list[i].id < list[j].id /\ list[i].queued_at <= list[j].queued_at

\* Where the frames are that wait, and what a pass has put back: all of it is
\* older than what it still has to try, and was young enough when it began.
Lists ==
    /\ InOrder(held) /\ InOrder(kept)
    /\ \A i, j \in DOMAIN packets_out : packets_out[i].id = packets_out[j].id => i = j
    /\ \A i \in DOMAIN kept, j \in DOMAIN held :
            kept[i].id < held[j].id /\ kept[i].queued_at <= held[j].queued_at
    /\ Ids(packets_out) \cap (Ids(held) \cup Ids(kept)) = {}
    /\ \A i \in DOMAIN kept : ~TooOld(kept[i], began)
    /\ \A i \in DOMAIN held : held[i].queued_at <= clock
    /\ \A i \in DOMAIN kept : kept[i].queued_at <= clock
    /\ phase \in {"idle", "packets"} => kept = <<>>
    /\ phase = "idle" => packets_out = <<>>
    /\ Len(held) + Len(kept) <= MaxHeld

\* A frame has a fate once it waits nowhere.
Waiting == Ids(held) \cup Ids(kept) \cup Ids(packets_out)
Fates ==
    /\ Waiting = {f \in 1 .. arrivals : fate[f] = "waits"}
    /\ \A f \in Arrivals : f > arrivals => fate[f] = "waits" /\ to[f] = -1

\* A frame that waits came in the session that listens, or was raced.
Sessions ==
    \A f \in Waiting :
        f \in raced \/ (born[f] = relistens /\ (phase = "idle" \/ listener = relistens))

\* OldestGiveWay, of the two lists apart.
GiveWay ==
    \A f \in Arrivals : fate[f] \in {"expired", "dropped"} =>
        \A g \in Ids(held) \cup Ids(kept) : f < g

DaveInv == DaveTypes /\ Lists /\ Fates /\ Sessions /\ SessionsApart /\ GiveWay

-----------------------------------------------------------------------------
(***************************** lists of frames *****************************)

\* The numbers in a list that a frame is appended to, ...
LEMMA IdsOfAppend ==
    ASSUME NEW s \in Seq(Frame), NEW x \in Frame
    PROVE  Ids(Append(s, x)) = Ids(s) \cup {x.id}
  <1> DEFINE r == Append(s, x)
  <1>1. Len(r) = Len(s) + 1 /\ r[Len(s) + 1] = x /\ \A i \in 1 .. Len(s) : r[i] = s[i]
    OBVIOUS
  <1>2. Len(s) \in Nat /\ DOMAIN s = 1 .. Len(s) /\ DOMAIN r = 1 .. Len(r)
    OBVIOUS
  <1> HIDE DEF r
  <1>3. \A i \in DOMAIN r : i \in DOMAIN s \/ i = Len(s) + 1
    BY <1>1, <1>2
  <1>4. Len(s) + 1 \in DOMAIN r /\ \A i \in DOMAIN s : i \in DOMAIN r
    BY <1>1, <1>2
  <1>5. Ids(r) = Ids(s) \cup {x.id}
    BY <1>1, <1>2, <1>3, <1>4 DEF Ids
  <1> QED
    BY <1>5 DEF r

\* ... and in a list whose first one is taken, ...
LEMMA IdsOfTail ==
    ASSUME NEW s \in Seq(Frame), s # <<>>
    PROVE  Ids(s) = {Head(s).id} \cup Ids(Tail(s))
  <1> DEFINE r == Tail(s)
  <1>1. Len(s) \in Nat \ {0} /\ Len(r) = Len(s) - 1 /\ Head(s) = s[1]
        /\ \A i \in 1 .. Len(r) : r[i] = s[i + 1]
    OBVIOUS
  <1>2. DOMAIN s = 1 .. Len(s) /\ DOMAIN r = 1 .. Len(r)
    OBVIOUS
  <1> HIDE DEF r
  <1>3. \A i \in DOMAIN s : i = 1 \/ (i - 1 \in DOMAIN r /\ r[i - 1] = s[i])
    <2>1. \A i \in DOMAIN s : i # 1 => i - 1 \in DOMAIN r /\ (i - 1) + 1 = i
      BY <1>1, <1>2
    <2> QED
      BY <1>1, <1>2, <2>1
  <1>4. 1 \in DOMAIN s /\ \A i \in DOMAIN r : i + 1 \in DOMAIN s /\ r[i] = s[i + 1]
    BY <1>1, <1>2
  <1>5. Ids(s) = {s[1].id} \cup Ids(r)
    BY <1>3, <1>4 DEF Ids
  <1> QED
    BY <1>1, <1>5 DEF r

\* ... and in the two parts of a list.
LEMMA IdsOfParts ==
    ASSUME NEW s \in Seq(Frame), NEW n \in 0 .. Len(s)
    PROVE  Ids(s) = Ids(SubSeq(s, 1, n)) \cup Ids(SubSeq(s, n + 1, Len(s)))
  <1> DEFINE a == SubSeq(s, 1, n)
             b == SubSeq(s, n + 1, Len(s))
  <1>1. Len(s) \in Nat /\ n \in Nat /\ n <= Len(s) /\ DOMAIN s = 1 .. Len(s)
    OBVIOUS
  <1>2. Len(a) = n /\ DOMAIN a = 1 .. n /\ \A i \in 1 .. n : a[i] = s[i]
    BY <1>1
  <1>3. DOMAIN b = 1 .. (Len(s) - n) /\ \A i \in 1 .. (Len(s) - n) : b[i] = s[n + i]
    BY <1>1
  <1> HIDE DEF a, b
  <1>4. \A i \in DOMAIN s : i \in DOMAIN a \/ (i - n \in DOMAIN b /\ n + (i - n) = i)
    BY <1>1, <1>2, <1>3
  <1>5. \A i \in DOMAIN s : \/ i \in DOMAIN a /\ a[i] = s[i]
                            \/ i - n \in DOMAIN b /\ b[i - n] = s[i]
    BY <1>2, <1>3, <1>4
  <1>6. \A i \in DOMAIN a : i \in DOMAIN s /\ a[i] = s[i]
    BY <1>1, <1>2
  <1>7. \A i \in DOMAIN b : n + i \in DOMAIN s /\ b[i] = s[n + i]
    BY <1>1, <1>3
  <1>8. Ids(s) = Ids(a) \cup Ids(b)
    BY <1>5, <1>6, <1>7 DEF Ids
  <1> QED
    BY <1>8 DEF a, b

\* A list stays in order when a younger frame is appended, ...
LEMMA OrderedAppend ==
    ASSUME NEW s \in Seq(Frame), NEW x \in Frame, InOrder(s),
           \A i \in DOMAIN s : s[i].id < x.id /\ s[i].queued_at <= x.queued_at
    PROVE  InOrder(Append(s, x))
  <1> DEFINE r == Append(s, x)
  <1>1. Len(s) \in Nat /\ DOMAIN s = 1 .. Len(s) /\ DOMAIN r = 1 .. (Len(s) + 1)
    OBVIOUS
  <1>2. r[Len(s) + 1] = x /\ \A i \in 1 .. Len(s) : r[i] = s[i]
    OBVIOUS
  <1> HIDE DEF r
  <1>3. ASSUME NEW i \in DOMAIN r, NEW j \in DOMAIN r, i < j
        PROVE  r[i].id < r[j].id /\ r[i].queued_at <= r[j].queued_at
    <2>1. i \in DOMAIN s /\ (j \in DOMAIN s \/ j = Len(s) + 1)
      BY <1>1, <1>3
    <2> QED
      BY <1>1, <1>2, <1>3, <2>1 DEF InOrder
  <1> QED
    BY <1>3 DEF InOrder, r

\* ... and when the first is taken, which is the oldest, ...
LEMMA OrderedTail ==
    ASSUME NEW s \in Seq(Frame), s # <<>>, InOrder(s)
    PROVE  /\ Tail(s) \in Seq(Frame) /\ Head(s) \in Frame /\ Len(Tail(s)) = Len(s) - 1
           /\ Head(s) = s[1] /\ 1 \in DOMAIN s
           /\ InOrder(Tail(s))
           /\ \A i \in DOMAIN Tail(s) :
                /\ Head(s).id < Tail(s)[i].id /\ Head(s).queued_at <= Tail(s)[i].queued_at
                /\ i + 1 \in DOMAIN s /\ Tail(s)[i] = s[i + 1]
  <1> DEFINE r == Tail(s)
  <1>1. Len(s) \in Nat \ {0} /\ Len(r) = Len(s) - 1 /\ Head(s) = s[1] /\ r \in Seq(Frame)
        /\ \A i \in 1 .. Len(r) : r[i] = s[i + 1]
    OBVIOUS
  <1>2. DOMAIN s = 1 .. Len(s) /\ DOMAIN r = 1 .. Len(r)
    OBVIOUS
  <1>3. s[1] \in Frame
    BY <1>1, <1>2
  <1> HIDE DEF r
  <1>4. 1 \in DOMAIN s /\ \A i \in DOMAIN r : i + 1 \in DOMAIN s /\ r[i] = s[i + 1] /\ i + 1 > 1
    BY <1>1, <1>2
  <1>5. ASSUME NEW i \in DOMAIN r
        PROVE  s[1].id < r[i].id /\ s[1].queued_at <= r[i].queued_at
    BY <1>4 DEF InOrder
  <1>6. ASSUME NEW i \in DOMAIN r, NEW j \in DOMAIN r, i < j
        PROVE  r[i].id < r[j].id /\ r[i].queued_at <= r[j].queued_at
    <2>1. i + 1 < j + 1
      BY <1>2, <1>1, <1>6
    <2> QED
      BY <1>4, <2>1 DEF InOrder
  <1>7. InOrder(r)
    BY <1>6 DEF InOrder
  <1> QED
    BY <1>1, <1>3, <1>4, <1>5, <1>7 DEF r

\* ... and so does what is left when some of the oldest give way.
LEMMA OrderedParts ==
    ASSUME NEW s \in Seq(Frame), NEW n \in 0 .. Len(s), InOrder(s)
    PROVE  /\ SubSeq(s, n + 1, Len(s)) \in Seq(Frame)
           /\ Len(SubSeq(s, n + 1, Len(s))) = Len(s) - n
           /\ InOrder(SubSeq(s, n + 1, Len(s)))
           /\ \A i \in DOMAIN SubSeq(s, n + 1, Len(s)) :
                 n + i \in DOMAIN s /\ SubSeq(s, n + 1, Len(s))[i] = s[n + i]
           /\ \A f \in Ids(SubSeq(s, 1, n)), g \in Ids(SubSeq(s, n + 1, Len(s))) : f < g
  <1> DEFINE a == SubSeq(s, 1, n)
             b == SubSeq(s, n + 1, Len(s))
  <1>1. Len(s) \in Nat /\ n \in Nat /\ n <= Len(s) /\ DOMAIN s = 1 .. Len(s)
    OBVIOUS
  <1>2. DOMAIN a = 1 .. n /\ \A i \in 1 .. n : a[i] = s[i]
    BY <1>1
  <1>3. DOMAIN b = 1 .. (Len(s) - n) /\ \A i \in 1 .. (Len(s) - n) : b[i] = s[n + i]
    BY <1>1
  <1>4. b \in Seq(Frame) /\ Len(b) = Len(s) - n
    <2> DEFINE k == IF n + 1 <= Len(s) THEN Len(s) - (n + 1) + 1 ELSE 0
    <2>1. n + 1 \in Int /\ Len(s) \in Int /\ \A i \in (n + 1) .. Len(s) : s[i] \in Frame
      BY <1>1
    <2>2. b \in Seq(Frame) /\ Len(b) = k
      BY <2>1, SubSeqProperties
    <2>3. \A l \in Nat, m \in Nat : m <= l => (IF m + 1 <= l THEN l - (m + 1) + 1 ELSE 0) = l - m
      OBVIOUS
    <2>4. k = Len(s) - n
      BY <1>1, <2>3, Zenon
    <2> HIDE DEF b, k
    <2> QED
      BY <2>2, <2>4
  <1> HIDE DEF a, b
  <1>5. \A i \in DOMAIN b : n + i \in DOMAIN s /\ b[i] = s[n + i] /\ i \in Int
    BY <1>1, <1>3
  <1>6. ASSUME NEW i \in DOMAIN b, NEW j \in DOMAIN b, i < j
        PROVE  b[i].id < b[j].id /\ b[i].queued_at <= b[j].queued_at
    <2>1. n + i < n + j
      BY <1>1, <1>5, <1>6
    <2> QED
      BY <1>5, <2>1 DEF InOrder
  <1>7. ASSUME NEW i \in DOMAIN a, NEW j \in DOMAIN b
        PROVE  a[i].id < b[j].id
    <2>1. i \in DOMAIN s /\ i < n + j /\ a[i] = s[i]
      BY <1>1, <1>2, <1>3
    <2> QED
      BY <1>5, <2>1 DEF InOrder
  <1>8. \A f \in Ids(a), g \in Ids(b) : f < g
    BY <1>7 DEF Ids
  <1>9. InOrder(b)
    BY <1>6 DEF InOrder
  <1> QED
    BY <1>4, <1>5, <1>8, <1>9 DEF a, b

\* The numbers in no list, and in a list.
LEMMA IdsOfNone == Ids(<<>>) = {}
  BY DEF Ids

\* Frames of a list have the numbers of frames.
LEMMA IdsAreArrivals ==
    ASSUME NEW s \in Seq(Frame)
    PROVE  Ids(s) \subseteq Arrivals /\ \A i \in DOMAIN s : s[i] \in Frame /\ s[i].id \in Ids(s)
  <1>1. \A i \in DOMAIN s : s[i] \in Frame
    OBVIOUS
  <1>2. \A i \in DOMAIN s : s[i].id \in Arrivals
    BY <1>1 DEF Frame
  <1>3. Ids(s) \subseteq Arrivals
    BY <1>2 DEF Ids
  <1>4. \A i \in DOMAIN s : s[i].id \in Ids(s)
    BY DEF Ids
  <1> QED
    BY <1>1, <1>3, <1>4

-----------------------------------------------------------------------------
(************************ one action after the other ***********************)

\* Giving fates keeps their type.
LEMMA FatesTyped ==
    ASSUME NEW ids, NEW what \in FateNames, fate \in [Arrivals -> FateNames], Decide(ids, what)
    PROVE  /\ fate' \in [Arrivals -> FateNames]
           /\ \A f \in Arrivals : fate'[f] = IF f \in ids THEN what ELSE fate[f]
  BY DEF Decide

\* What waits has arrived.
LEMMA WaitingArrived ==
    ASSUME DaveTypes, Fates
    PROVE  /\ \A f \in Waiting : f \in Arrivals /\ f \in Nat /\ f <= arrivals /\ fate[f] = "waits"
           /\ arrivals \in Nat /\ MaxArrivals \in Nat /\ 1 .. arrivals \subseteq Arrivals
  <1>1. MaxArrivals \in Nat
    BY DaveAssumption
  <1>2. arrivals \in 0 .. MaxArrivals
    BY DEF DaveTypes
  <1>3. /\ arrivals \in Nat /\ 1 .. arrivals \subseteq Arrivals
        /\ \A f \in 1 .. arrivals : f \in Nat /\ f <= arrivals
    BY <1>1, <1>2 DEF Arrivals
  <1> QED
    BY <1>1, <1>3 DEF Fates

\* What comes later is not among the first n.
LEMMA LaterIsOut ==
    ASSUME NEW n \in Nat
    PROVE  \A f : f > n => f \notin 1 .. n
  OBVIOUS

\* Frames that wait no more are given a fate.
LEMMA FateGiven ==
    ASSUME DaveTypes, Fates, NEW ids \in SUBSET Waiting, NEW what \in FateNames, what # "waits",
           Decide(ids, what), Waiting' = Waiting \ ids, UNCHANGED arrivals,
           \A f \in Arrivals : f > arrivals => to'[f] = -1
    PROVE  Fates'
  <1>1. \A f \in Arrivals : fate'[f] = IF f \in ids THEN what ELSE fate[f]
    BY DEF Decide
  <1>2. 1 .. arrivals \subseteq Arrivals /\ arrivals \in Nat /\ ids \subseteq 1 .. arrivals
    BY WaitingArrived DEF Fates
  <1>3. \A f \in Arrivals : f > arrivals => f \notin ids
    BY <1>2, LaterIsOut, Zenon
  <1>4. Waiting' = {f \in 1 .. arrivals : fate'[f] = "waits"}
    BY <1>1, <1>2 DEF Fates
  <1>5. \A f \in Arrivals : f > arrivals => fate'[f] = "waits"
    BY <1>1, <1>3 DEF Fates
  <1> QED
    BY <1>4, <1>5 DEF Fates

\* The dispatcher takes the oldest frame that is held.
LEMMA RetryKept ==
    ASSUME DaveInv, NEW outcome \in Outcomes, RetryHeld(outcome)
    PROVE  DaveInv'
  <1> USE DEF DaveInv
  <1> DEFINE frame == Head(held)
  <1>1. /\ phase = "pop" /\ held # <<>> /\ held' = Tail(held) /\ phase' = "pass"
        /\ UNCHANGED <<clock, began, listener, arrivals, born, to, raced, relistens>>
    BY DEF RetryHeld
  <1>2. /\ held \in Seq(Frame) /\ kept \in Seq(Frame) /\ packets_out \in Seq(Frame)
        /\ InOrder(held) /\ InOrder(kept)
        /\ clock \in Nat /\ began \in Nat /\ MaxAge \in Nat
    BY DaveAssumption DEF DaveTypes, Lists
  <1>3. /\ held' \in Seq(Frame) /\ frame \in Frame /\ Len(held') = Len(held) - 1
        /\ frame = held[1] /\ 1 \in DOMAIN held /\ InOrder(held')
        /\ \A i \in DOMAIN held' :
                /\ frame.id < held'[i].id /\ frame.queued_at <= held'[i].queued_at
                /\ i + 1 \in DOMAIN held /\ held'[i] = held[i + 1]
    BY <1>1, <1>2, OrderedTail
  <1>4. Ids(held) = {frame.id} \cup Ids(held')
    BY <1>1, <1>2, IdsOfTail
  <1>5. frame.id \in Arrivals /\ frame.id \in Nat /\ frame.queued_at \in Nat
    BY <1>3 DEF Frame, Arrivals
  <1> HIDE DEF frame
  <1>6. \A g \in Ids(held') : frame.id < g
    BY <1>3 DEF Ids
  <1>7. \A i \in DOMAIN kept : /\ kept[i].id < frame.id /\ kept[i].queued_at <= frame.queued_at
                               /\ kept[i] \in Frame /\ kept[i].queued_at \in Nat
    <2>1. \A i \in DOMAIN kept : kept[i] \in Frame
      BY <1>2, IdsAreArrivals
    <2> QED
      BY <1>3, <2>1 DEF Lists, Frame
  <1>8. frame.id \notin Ids(held') /\ frame.id \notin Ids(kept) /\ frame.id \notin Ids(packets_out)
    <2>1. frame.id \notin Ids(held')
      BY <1>5, <1>6
    <2>2. frame.id \notin Ids(kept)
      BY <1>5, <1>7 DEF Ids
    <2> QED
      BY <1>4, <2>1, <2>2 DEF Lists
  <1>9. /\ fate[frame.id] = "waits"
        /\ Waiting = {frame.id} \cup Ids(held') \cup Ids(kept) \cup Ids(packets_out)
    BY <1>4, WaitingArrived DEF Waiting
  <1>10. SessionsApart'
    BY <1>1 DEF SessionsApart
  <1>11. Waiting' \subseteq Waiting => Sessions'
    BY <1>1 DEF Sessions
  <1>12. \A f \in Arrivals : f > arrivals' => fate[f] = "waits" /\ to'[f] = -1
    BY <1>1 DEF Fates
  <1>13. \A i \in DOMAIN held' : held'[i].queued_at <= clock'
    BY <1>1, <1>3 DEF Lists
  <1>14. Len(held') \in Nat /\ Len(kept) \in Nat /\ Len(held') + Len(kept) + 1 <= MaxHeld
    BY <1>2, <1>3, LenProperties, DaveAssumption DEF Lists
  <1>15. CASE TooOld(frame, began)
    <2>1. Decide({frame.id}, "expired") /\ UNCHANGED <<kept, packets_out>>
      BY <1>15 DEF RetryHeld, frame
    <2>2. kept = <<>>
      <3>1. SUFFICES ASSUME kept # <<>> PROVE FALSE
        OBVIOUS
      <3>2. 1 \in DOMAIN kept
        BY <1>2, <3>1
      <3>3. /\ ~TooOld(kept[1], began)
            /\ kept[1].queued_at <= frame.queued_at /\ kept[1].queued_at \in Nat
        BY <1>7, <3>2 DEF Lists
      <3> QED
        BY <1>2, <1>5, <1>15, <3>3 DEF TooOld
    <2>3. /\ fate' \in [Arrivals -> FateNames]
          /\ \A f \in Arrivals : fate'[f] = IF f \in {frame.id} THEN "expired" ELSE fate[f]
      <3>1. "expired" \in FateNames /\ fate \in [Arrivals -> FateNames]
        BY DEF DaveTypes, FateNames
      <3> QED
        BY <2>1, <3>1, FatesTyped
    <2>4. DaveTypes'
      BY <1>1, <1>3, <2>1, <2>3 DEF DaveTypes
    <2>5. Lists'
      <3>1. Ids(packets_out) \cap (Ids(held') \cup Ids(kept)) = {}
        BY <1>4 DEF Lists
      <3>2. Len(held') + Len(kept) <= MaxHeld
        BY <1>14, DaveAssumption
      <3>3. \A i \in DOMAIN kept, j \in DOMAIN held' :
                kept[i].id < held'[j].id /\ kept[i].queued_at <= held'[j].queued_at
        BY <1>3 DEF Lists
      <3> QED
        BY <1>1, <1>3, <1>13, <2>1, <3>1, <3>2, <3>3 DEF Lists
    <2>6. Waiting' = Waiting \ {frame.id}
      BY <1>8, <1>9, <2>1 DEF Waiting
    <2>7. Fates'
      <3>1. "expired" \in FateNames /\ {frame.id} \in SUBSET Waiting
        BY <1>9 DEF FateNames
      <3> QED
        BY <1>1, <1>12, <2>1, <2>6, <3>1, FateGiven
    <2>8. GiveWay'
      BY <1>4, <1>6, <2>1, <2>2, <2>3, IdsOfNone DEF GiveWay
    <2> QED
      BY <1>10, <1>11, <2>4, <2>5, <2>6, <2>7, <2>8
  <1>16. CASE /\ ~TooOld(frame, began) /\ kept' = Append(kept, frame)
              /\ UNCHANGED <<fate, packets_out>>
    <2>1. kept' \in Seq(Frame) /\ Len(kept') = Len(kept) + 1 /\ DOMAIN kept = 1 .. Len(kept)
          /\ DOMAIN kept' = 1 .. (Len(kept) + 1) /\ kept'[Len(kept) + 1] = frame
          /\ \A i \in 1 .. Len(kept) : kept'[i] = kept[i]
      BY <1>2, <1>3, <1>16
    <2>2. \A i \in DOMAIN kept' : kept'[i] = frame \/ (i \in DOMAIN kept /\ kept'[i] = kept[i])
      BY <1>14, <2>1
    <2>3. Ids(kept') = Ids(kept) \cup {frame.id}
      BY <1>2, <1>3, <1>16, IdsOfAppend
    <2>4. InOrder(kept')
      BY <1>2, <1>3, <1>7, <1>16, OrderedAppend
    <2>5. DaveTypes'
      BY <1>1, <1>3, <1>16, <2>1 DEF DaveTypes
    <2>6. ASSUME NEW i \in DOMAIN kept', NEW j \in DOMAIN held'
          PROVE  kept'[i].id < held'[j].id /\ kept'[i].queued_at <= held'[j].queued_at
      BY <1>3, <2>2 DEF Lists
    <2>7. ASSUME NEW i \in DOMAIN kept'
          PROVE  ~TooOld(kept'[i], began) /\ kept'[i].queued_at <= clock
      BY <1>3, <1>16, <2>2 DEF Lists
    <2>8. Lists'
      <3>1. Ids(packets_out) \cap (Ids(held') \cup Ids(kept')) = {}
        BY <1>4, <1>8, <2>3 DEF Lists
      <3>2. Len(held') + Len(kept') <= MaxHeld
        BY <1>14, <2>1, DaveAssumption
      <3> QED
        BY <1>1, <1>3, <1>13, <1>16, <2>4, <2>6, <2>7, <3>1, <3>2 DEF Lists
    <2>9. Waiting' = Waiting
      BY <1>9, <1>16, <2>3 DEF Waiting
    <2>10. Fates'
      BY <1>1, <1>12, <1>16, <2>9 DEF Fates
    <2>11. GiveWay'
      BY <1>4, <1>16, <2>3 DEF GiveWay
    <2> QED
      BY <1>10, <1>11, <2>5, <2>8, <2>9, <2>10, <2>11
  <1>17. CASE packets_out' = Append(packets_out, frame) /\ UNCHANGED <<fate, kept>>
    <2>1. packets_out' \in Seq(Frame) /\ DOMAIN packets_out' = 1 .. (Len(packets_out) + 1)
          /\ DOMAIN packets_out = 1 .. Len(packets_out) /\ packets_out'[Len(packets_out) + 1] = frame
          /\ Len(packets_out) \in Nat /\ \A i \in 1 .. Len(packets_out) : packets_out'[i] = packets_out[i]
      BY <1>2, <1>3, <1>17
    <2>2. Ids(packets_out') = Ids(packets_out) \cup {frame.id}
      BY <1>2, <1>3, <1>17, IdsOfAppend
    <2>3. ASSUME NEW i \in DOMAIN packets_out', NEW j \in DOMAIN packets_out',
                 packets_out'[i].id = packets_out'[j].id
          PROVE  i = j
      <3>1. \A k \in DOMAIN packets_out : packets_out[k].id # frame.id
        BY <1>8 DEF Ids
      <3>2. \A k \in DOMAIN packets_out' : k \in DOMAIN packets_out \/ k = Len(packets_out) + 1
        BY <2>1
      <3> QED
        BY <2>1, <2>3, <3>1, <3>2 DEF Lists
    <2>4. DaveTypes'
      BY <1>1, <1>3, <1>17, <2>1 DEF DaveTypes
    <2>5. Lists'
      <3>1. Ids(packets_out') \cap (Ids(held') \cup Ids(kept)) = {}
        BY <1>4, <1>8, <2>2 DEF Lists
      <3>2. Len(held') + Len(kept) <= MaxHeld
        BY <1>14, DaveAssumption
      <3>3. \A i \in DOMAIN kept, j \in DOMAIN held' :
                kept[i].id < held'[j].id /\ kept[i].queued_at <= held'[j].queued_at
        BY <1>3 DEF Lists
      <3> QED
        BY <1>1, <1>3, <1>13, <1>17, <2>3, <3>1, <3>2, <3>3 DEF Lists
    <2>6. Waiting' = Waiting
      BY <1>9, <1>17, <2>2 DEF Waiting
    <2>7. Fates'
      BY <1>1, <1>12, <1>17, <2>6 DEF Fates
    <2>8. GiveWay'
      BY <1>4, <1>17 DEF GiveWay
    <2> QED
      BY <1>10, <1>11, <2>4, <2>5, <2>6, <2>7, <2>8
  <1>18. CASE Decide({frame.id}, "failed") /\ UNCHANGED <<kept, packets_out>>
    <2>1. /\ fate' \in [Arrivals -> FateNames]
          /\ \A f \in Arrivals : fate'[f] = IF f \in {frame.id} THEN "failed" ELSE fate[f]
      <3>1. "failed" \in FateNames /\ fate \in [Arrivals -> FateNames]
        BY DEF DaveTypes, FateNames
      <3> QED
        BY <1>18, <3>1, FatesTyped
    <2>2. DaveTypes'
      BY <1>1, <1>3, <1>18, <2>1 DEF DaveTypes
    <2>3. Lists'
      <3>1. Ids(packets_out) \cap (Ids(held') \cup Ids(kept)) = {}
        BY <1>4 DEF Lists
      <3>2. Len(held') + Len(kept) <= MaxHeld
        BY <1>14, DaveAssumption
      <3>3. \A i \in DOMAIN kept, j \in DOMAIN held' :
                kept[i].id < held'[j].id /\ kept[i].queued_at <= held'[j].queued_at
        BY <1>3 DEF Lists
      <3> QED
        BY <1>1, <1>3, <1>13, <1>18, <3>1, <3>2, <3>3 DEF Lists
    <2>4. Waiting' = Waiting \ {frame.id}
      BY <1>8, <1>9, <1>18 DEF Waiting
    <2>5. Fates'
      <3>1. "failed" \in FateNames /\ {frame.id} \in SUBSET Waiting
        BY <1>9 DEF FateNames
      <3> QED
        BY <1>1, <1>12, <1>18, <2>4, <3>1, FateGiven
    <2>6. GiveWay'
      BY <1>4, <1>18, <2>1 DEF GiveWay
    <2> QED
      BY <1>10, <1>11, <2>2, <2>3, <2>4, <2>5, <2>6
  <1> QED
    BY <1>15, <1>16, <1>17, <1>18 DEF RetryHeld, frame, Outcomes

\* A frame arrives; some that were held may give way.
LEMMA ArrivedFates ==
    ASSUME DaveTypes, Fates, NEW ids, NEW what \in FateNames, what # "waits",
           arrivals < MaxArrivals, arrivals' = arrivals + 1, UNCHANGED to,
           Decide(ids, what), ids \subseteq Waiting \cup {arrivals + 1},
           Waiting' = (Waiting \cup {arrivals + 1}) \ ids
    PROVE  Fates'
  <1> DEFINE new == arrivals + 1
  <1>1. /\ arrivals \in Nat /\ 1 .. arrivals \subseteq Arrivals
        /\ Waiting = {f \in 1 .. arrivals : fate[f] = "waits"}
    BY WaitingArrived DEF Fates
  <1>2. /\ new \in Arrivals /\ 1 .. new = 1 .. arrivals \cup {new} /\ arrivals' = new
        /\ \A f \in Arrivals : f > new => f \notin 1 .. new /\ f > arrivals
    BY <1>1, WaitingArrived DEF Arrivals
  <1>3. fate[new] = "waits" /\ \A f \in Arrivals : f > new => fate[f] = "waits" /\ to[f] = -1
    <2>1. new > arrivals
      BY <1>1
    <2> QED
      BY <1>2, <2>1 DEF Fates
  <1>4. \A f \in Arrivals : fate'[f] = IF f \in ids THEN what ELSE fate[f]
    BY DEF Decide
  <1>5. ids \subseteq 1 .. new
    BY <1>1, <1>2
  <1> HIDE DEF new
  <1>6. Waiting' = (Waiting \cup {new}) \ ids
    BY DEF new
  <1>7. Waiting' = {f \in 1 .. new : fate'[f] = "waits"}
    BY <1>1, <1>2, <1>3, <1>4, <1>6, ZenonT(30)
  <1>8. \A f \in Arrivals : f > new => fate'[f] = "waits" /\ to[f] = -1
    BY <1>2, <1>3, <1>4, <1>5, Zenon
  <1> QED
    BY <1>2, <1>7, <1>8 DEF Fates

\* What arrives is stashed, delivered with the batch or given up.
LEMMA ArriveKept ==
    ASSUME DaveInv, NEW user \in Users \cup {NoUser}, NEW outcome \in Outcomes,
           FrameArrives(user, outcome)
    PROVE  DaveInv'
  <1> USE DEF DaveInv
  <1> DEFINE new == arrivals + 1
             frame == [id |-> new, user |-> user, queued_at |-> clock]
  <1>1. /\ phase = "packets" /\ arrivals < MaxArrivals /\ arrivals' = arrivals + 1
        /\ born' = [born EXCEPT ![new] = listener]
        /\ raced' = IF relistens # listener THEN raced \cup {new} ELSE raced
        /\ UNCHANGED <<clock, phase, began, kept, listener, to, relistens>>
    BY DEF FrameArrives
  <1>2. \/ Stash(frame) /\ UNCHANGED packets_out
        \/ /\ packets_out' = Append(packets_out, frame)
           /\ UNCHANGED <<fate, held>>
        \/ /\ Decide({frame.id}, "failed")
           /\ UNCHANGED <<packets_out, held>>
    BY DEF FrameArrives
  <1>3. frame.id = new /\ frame.queued_at = clock
    OBVIOUS
  <1>4. /\ held \in Seq(Frame) /\ packets_out \in Seq(Frame) /\ kept = <<>> /\ InOrder(held)
        /\ clock \in Nat
    BY <1>1 DEF DaveTypes, Lists
  <1>5. arrivals \in Nat /\ new \in Arrivals /\ new \in Nat /\ new > arrivals
    BY <1>1, WaitingArrived DEF Arrivals
  <1>6. new \notin Waiting /\ \A g \in Waiting : g < new
    BY <1>5, WaitingArrived
  <1>7. frame \in Frame
    BY <1>4, <1>5 DEF Frame
  <1>8. Waiting = Ids(held) \cup Ids(packets_out)
    BY <1>4, IdsOfNone DEF Waiting
  <1>9. Len(held) \in Nat /\ Len(held) <= MaxHeld /\ MaxHeld \in Nat \ {0}
    BY <1>4, LenProperties, DaveAssumption DEF Lists
  <1>10. arrivals' \in 0 .. MaxArrivals /\ born' \in [Arrivals -> Nat]
    <2>1. arrivals' \in 0 .. MaxArrivals
      BY <1>1, <1>5, WaitingArrived
    <2> QED
      BY <1>1, <1>5, <2>1 DEF DaveTypes
  <1> HIDE DEF new, frame
  <1>11. \A f \in Waiting : f \in raced' \/ (born'[f] = relistens /\ listener = relistens)
    BY <1>1, <1>6, WaitingArrived DEF Sessions, DaveTypes
  <1>12. new \in raced' \/ (born'[new] = relistens /\ listener = relistens)
    BY <1>1, <1>5 DEF DaveTypes
  <1>13. Waiting' \subseteq Waiting \cup {new} => Sessions'
    BY <1>1, <1>11, <1>12 DEF Sessions
  <1>14. SessionsApart'
    <2>1. to[new] = -1
      BY <1>5 DEF Fates
    <2> QED
      BY <1>1, <2>1 DEF SessionsApart, DaveTypes
  <1>15. \A f \in Arrivals : fate[f] \in {"expired", "dropped"} => f < new
    <2>1. ASSUME NEW f \in Arrivals, fate[f] \in {"expired", "dropped"} PROVE ~(f > arrivals)
      BY <2>1 DEF Fates
    <2> QED
      BY <1>5, <2>1 DEF Arrivals, new
  <1>16. CASE Stash(frame) /\ UNCHANGED packets_out
    <2>1. PICK expired \in 0 .. Len(held) :
            LET gone == IF Len(held) - expired >= MaxHeld THEN expired + 1 ELSE expired
            IN  /\ held' = Append(SubSeq(held, gone + 1, Len(held)), frame)
                /\ Decide(Ids(SubSeq(held, 1, gone)), "dropped")
      BY <1>16 DEF Stash
    <2> DEFINE gone == IF Len(held) - expired >= MaxHeld THEN expired + 1 ELSE expired
               front == SubSeq(held, 1, gone)
               rest == SubSeq(held, gone + 1, Len(held))
    <2>2. gone \in 0 .. Len(held) /\ (Len(held) - gone) + 1 <= MaxHeld
      <3>1. expired \in Nat /\ expired <= Len(held)
        BY <1>9
      <3>2. CASE Len(held) - expired >= MaxHeld
        BY <1>9, <3>1, <3>2
      <3>3. CASE ~(Len(held) - expired >= MaxHeld)
        BY <1>9, <3>1, <3>3
      <3> QED
        BY <3>2, <3>3
    <2>3. held' = Append(rest, frame) /\ Decide(Ids(front), "dropped")
      BY <2>1
    <2> HIDE DEF gone
    <2>4. Ids(held) = Ids(front) \cup Ids(rest)
      BY <1>4, <2>2, IdsOfParts
    <2>5. /\ rest \in Seq(Frame) /\ Len(rest) = Len(held) - gone /\ InOrder(rest)
          /\ \A i \in DOMAIN rest : gone + i \in DOMAIN held /\ rest[i] = held[gone + i]
          /\ \A f \in Ids(front), g \in Ids(rest) : f < g
      BY <1>4, <2>2, OrderedParts
    <2> HIDE DEF front, rest
    <2>6. Ids(held') = Ids(rest) \cup {new}
      BY <1>3, <1>7, <2>3, <2>5, IdsOfAppend
    <2>7. \A i \in DOMAIN rest : rest[i].id < frame.id /\ rest[i].queued_at <= frame.queued_at
      <3>1. ASSUME NEW i \in DOMAIN rest PROVE rest[i].id \in Waiting /\ rest[i].queued_at <= clock
        BY <1>4, <1>8, <2>5, IdsAreArrivals DEF Lists
      <3> QED
        BY <1>3, <1>6, <3>1
    <2>8. InOrder(held') /\ held' \in Seq(Frame) /\ Len(held') = Len(rest) + 1
          /\ \A i \in DOMAIN held' : (i \in DOMAIN rest /\ held'[i] = rest[i]) \/ held'[i] = frame
      <3>1. InOrder(held')
        BY <1>7, <2>3, <2>5, <2>7, OrderedAppend
      <3>2. held' \in Seq(Frame) /\ Len(held') = Len(rest) + 1 /\ DOMAIN held' = 1 .. (Len(rest) + 1)
            /\ DOMAIN rest = 1 .. Len(rest) /\ Len(rest) \in Nat
            /\ held'[Len(rest) + 1] = frame /\ \A i \in 1 .. Len(rest) : held'[i] = rest[i]
        BY <1>7, <2>3, <2>5
      <3>3. \A i \in DOMAIN held' : i \in DOMAIN rest \/ i = Len(rest) + 1
        BY <3>2
      <3> QED
        BY <3>1, <3>2, <3>3
    <2>9. \A f \in Ids(front) : f \notin Ids(rest) /\ f # new
      BY <1>4, <1>6, <1>8, <2>4, <2>5, WaitingArrived
    <2>10. Ids(front) \cap Ids(packets_out) = {} /\ Ids(rest) \cap Ids(packets_out) = {}
           /\ new \notin Ids(packets_out)
      BY <1>6, <1>8, <2>4 DEF Lists
    <2>11. Waiting' = (Waiting \cup {new}) \ Ids(front) /\ Ids(front) \subseteq Waiting
      <3>1. Waiting' = Ids(rest) \cup {new} \cup Ids(packets_out)
        BY <1>1, <1>4, <1>16, <2>6, IdsOfNone DEF Waiting
      <3>2. Waiting = Ids(front) \cup Ids(rest) \cup Ids(packets_out)
        BY <1>8, <2>4
      <3> QED
        BY <2>9, <2>10, <3>1, <3>2
    <2>12. "dropped" \in FateNames /\ "dropped" # "waits" /\ fate \in [Arrivals -> FateNames]
      BY DEF FateNames, DaveTypes
    <2>13. Fates'
      BY <1>1, <2>3, <2>11, <2>12, ArrivedFates DEF new
    <2>14. /\ fate' \in [Arrivals -> FateNames]
           /\ \A f \in Arrivals : fate'[f] = IF f \in Ids(front) THEN "dropped" ELSE fate[f]
      BY <2>3, <2>12, FatesTyped
    <2>15. DaveTypes'
      BY <1>1, <1>4, <1>10, <1>16, <2>8, <2>14 DEF DaveTypes
    <2>16. Lists'
      <3>1. Ids(packets_out) \cap Ids(held') = {}
        BY <2>6, <2>10
      <3>2. \A i \in DOMAIN held' : held'[i].queued_at <= clock
        BY <1>3, <1>4, <2>7, <2>8
      <3>3. Len(held') <= MaxHeld
        BY <1>9, <2>2, <2>5, <2>8
      <3>4. Len(held') + Len(kept) <= MaxHeld
        BY <1>4, <3>3, <2>8, LenProperties
      <3> QED
        BY <1>1, <1>4, <1>16, <2>8, <3>1, <3>2, <3>4, IdsOfNone DEF Lists
    <2>17. GiveWay'
      <3>1. SUFFICES ASSUME NEW f \in Arrivals, fate'[f] \in {"expired", "dropped"},
                            NEW g \in Ids(held')
                     PROVE  f < g
        BY <1>1, <1>4, IdsOfNone DEF GiveWay
      <3>2. CASE f \in Ids(front)
        BY <1>6, <1>8, <2>4, <2>5, <2>6, <3>1, <3>2
      <3>3. CASE f \notin Ids(front)
        BY <1>15, <2>4, <2>6, <2>14, <3>1, <3>3 DEF GiveWay
      <3> QED
        BY <3>2, <3>3
    <2> QED
      BY <1>13, <1>14, <2>11, <2>13, <2>15, <2>16, <2>17
  <1>17. CASE packets_out' = Append(packets_out, frame) /\ UNCHANGED <<fate, held>>
    <2>1. packets_out' \in Seq(Frame) /\ DOMAIN packets_out' = 1 .. (Len(packets_out) + 1)
          /\ DOMAIN packets_out = 1 .. Len(packets_out) /\ packets_out'[Len(packets_out) + 1] = frame
          /\ Len(packets_out) \in Nat /\ \A i \in 1 .. Len(packets_out) : packets_out'[i] = packets_out[i]
      BY <1>4, <1>7, <1>17
    <2>2. Ids(packets_out') = Ids(packets_out) \cup {new}
      BY <1>3, <1>4, <1>7, <1>17, IdsOfAppend
    <2>3. ASSUME NEW i \in DOMAIN packets_out', NEW j \in DOMAIN packets_out',
                 packets_out'[i].id = packets_out'[j].id
          PROVE  i = j
      <3>1. \A k \in DOMAIN packets_out : packets_out[k].id # frame.id
        BY <1>3, <1>6, <1>8 DEF Ids
      <3>2. \A k \in DOMAIN packets_out' : k \in DOMAIN packets_out \/ k = Len(packets_out) + 1
        BY <2>1
      <3> QED
        BY <2>1, <2>3, <3>1, <3>2 DEF Lists
    <2>4. DaveTypes'
      BY <1>1, <1>10, <1>17, <2>1 DEF DaveTypes
    <2>5. Lists'
      <3>1. Ids(packets_out') \cap (Ids(held) \cup Ids(kept)) = {}
        BY <1>4, <1>6, <1>8, <2>2, IdsOfNone DEF Lists
      <3> QED
        BY <1>1, <1>17, <2>3, <3>1 DEF Lists
    <2>6. Waiting' = (Waiting \cup {new}) \ {}
      BY <1>1, <1>8, <1>17, <2>2 DEF Waiting
    <2>7. Decide({}, "failed") /\ "failed" \in FateNames /\ "failed" # "waits"
      BY <1>17 DEF Decide, DaveTypes, FateNames
    <2>8. Fates'
      BY <1>1, <2>6, <2>7, ArrivedFates DEF new
    <2>9. GiveWay'
      BY <1>1, <1>17 DEF GiveWay
    <2> QED
      BY <1>13, <1>14, <2>4, <2>5, <2>6, <2>8, <2>9
  <1>18. CASE Decide({frame.id}, "failed") /\ UNCHANGED <<packets_out, held>>
    <2>1. "failed" \in FateNames /\ "failed" # "waits" /\ fate \in [Arrivals -> FateNames]
      BY DEF FateNames, DaveTypes
    <2>2. Waiting' = (Waiting \cup {new}) \ {new} /\ Waiting' = Waiting
      BY <1>1, <1>6, <1>18 DEF Waiting
    <2>3. Fates'
      BY <1>1, <1>3, <1>18, <2>1, <2>2, ArrivedFates DEF new
    <2>4. /\ fate' \in [Arrivals -> FateNames]
          /\ \A f \in Arrivals : fate'[f] = IF f \in {frame.id} THEN "failed" ELSE fate[f]
      BY <1>18, <2>1, FatesTyped
    <2>5. DaveTypes'
      BY <1>1, <1>10, <1>18, <2>4 DEF DaveTypes
    <2>6. Lists'
      BY <1>1, <1>18 DEF Lists
    <2>7. GiveWay'
      BY <1>1, <1>18, <2>4 DEF GiveWay
    <2> QED
      BY <1>13, <1>14, <2>2, <2>3, <2>5, <2>6, <2>7
  <1> QED
    BY <1>2, <1>16, <1>17, <1>18

\* A batch begins: nothing is put back or to be delivered yet.
LEMMA BeginKept ==
    ASSUME DaveInv, BeginBatch
    PROVE  DaveInv'
  <1> USE DEF DaveInv
  <1>1. /\ kept = <<>> /\ packets_out = <<>> /\ phase = "idle"
        /\ kept' = <<>> /\ packets_out' = <<>> /\ listener' = relistens /\ began' = clock
        /\ phase' \in {"packets", "pass"}
        /\ UNCHANGED <<held, keys, clock, arrivals, born, fate, to, raced, relistens>>
    BY DEF BeginBatch, Lists
  <1>2. DaveTypes'
    <2>1. clock <= clock
      BY DEF DaveTypes
    <2> QED
      BY <1>1, <2>1 DEF DaveTypes
  <1>3. Lists'
    BY <1>1 DEF Lists, InOrder
  <1>4. Waiting' = Waiting
    BY <1>1 DEF Waiting
  <1>5. Fates' /\ SessionsApart' /\ GiveWay'
    BY <1>1, <1>4 DEF Fates, SessionsApart, GiveWay
  <1>6. Sessions'
    BY <1>1, <1>4 DEF Sessions
  <1> QED
    BY <1>2, <1>3, <1>5, <1>6

\* There is another frame to try.
LEMMA AnotherKept ==
    ASSUME DaveInv, AnotherHeld
    PROVE  DaveInv'
  <1> USE DEF DaveInv
  <1>1. /\ phase = "pass" /\ phase' = "pop"
        /\ UNCHANGED <<held, clock, began, kept, packets_out, listener, arrivals, born, fate, to,
                       raced, relistens>>
    BY DEF AnotherHeld
  <1>2. DaveTypes'
    BY <1>1 DEF DaveTypes
  <1>3. Lists'
    BY <1>1 DEF Lists
  <1>4. Waiting' = Waiting
    BY <1>1 DEF Waiting
  <1>5. Fates' /\ SessionsApart' /\ GiveWay' /\ Sessions'
    BY <1>1, <1>4 DEF Fates, SessionsApart, GiveWay, Sessions
  <1> QED
    BY <1>2, <1>3, <1>5

\* popleft of an empty list: the batch is dropped with all that it carried.
LEMMA RaisesKept ==
    ASSUME DaveInv, PassRaises
    PROVE  DaveInv'
  <1> USE DEF DaveInv
  <1> DEFINE ids == Ids(kept) \cup Ids(packets_out)
  <1>1. /\ held = <<>> /\ held' = <<>> /\ kept' = <<>> /\ packets_out' = <<>> /\ phase' = "idle"
        /\ Decide(ids, "raced")
        /\ UNCHANGED <<clock, began, listener, arrivals, born, to, raced, relistens>>
    BY DEF PassRaises
  <1>2. Waiting = ids /\ Waiting' = {}
    BY <1>1, IdsOfNone DEF Waiting
  <1>3. "raced" \in FateNames /\ fate \in [Arrivals -> FateNames]
    BY DEF DaveTypes, FateNames
  <1> HIDE DEF ids
  <1>4. /\ fate' \in [Arrivals -> FateNames]
        /\ \A f \in Arrivals : fate'[f] = IF f \in ids THEN "raced" ELSE fate[f]
    BY <1>1, <1>3, FatesTyped
  <1>5. <<>> \in Seq(Frame)
    OBVIOUS
  <1>6. DaveTypes'
    BY <1>1, <1>4, <1>5 DEF DaveTypes
  <1>7. Lists'
    <2>1. Len(<<>>) + Len(<<>>) <= MaxHeld
      BY DaveAssumption
    <2> QED
      BY <1>1, <2>1, IdsOfNone DEF Lists, InOrder
  <1>8. Fates'
    <2>1. ids \in SUBSET Waiting /\ Waiting' = Waiting \ ids
      BY <1>2
    <2>2. \A f \in Arrivals : f > arrivals => to'[f] = -1
      BY <1>1 DEF Fates
    <2> QED
      BY <1>1, <1>3, <2>1, <2>2, FateGiven
  <1>9. Sessions' /\ SessionsApart'
    BY <1>1, <1>2 DEF Sessions, SessionsApart
  <1>10. GiveWay'
    BY <1>1, IdsOfNone DEF GiveWay
  <1> QED
    BY <1>6, <1>7, <1>8, <1>9, <1>10

\* What the pass has put back is held again.
LEMMA EndKept ==
    ASSUME DaveInv, EndPass
    PROVE  DaveInv'
  <1> USE DEF DaveInv
  <1>1. /\ held = <<>> /\ held' = kept /\ kept' = <<>> /\ phase = "pass" /\ phase' = "packets"
        /\ UNCHANGED <<clock, began, packets_out, listener, arrivals, born, fate, to, raced,
                       relistens>>
    BY DEF EndPass
  <1>2. Ids(held) \cup Ids(kept) = Ids(held') \cup Ids(kept') /\ Waiting' = Waiting
    BY <1>1, IdsOfNone DEF Waiting
  <1>3. <<>> \in Seq(Frame)
    OBVIOUS
  <1>4. DaveTypes'
    BY <1>1, <1>3 DEF DaveTypes
  <1>5. Lists'
    <2>1. Len(kept) + Len(<<>>) <= MaxHeld
      <3>1. Len(<<>>) + Len(kept) <= MaxHeld /\ Len(kept) \in Nat
        BY <1>1 DEF Lists, DaveTypes
      <3> QED
        BY <3>1, DaveAssumption
    <2> QED
      BY <1>1, <1>2, <2>1, IdsOfNone DEF Lists, InOrder
  <1>6. Fates' /\ SessionsApart' /\ Sessions'
    BY <1>1, <1>2 DEF Fates, SessionsApart, Sessions
  <1>7. GiveWay'
    BY <1>1, <1>2 DEF GiveWay
  <1> QED
    BY <1>4, <1>5, <1>6, <1>7

\* What the batch delivers goes to the session it began in, which is the one
\* the frames came in, unless listening stopped meanwhile.
LEMMA DeliverKept ==
    ASSUME DaveInv, DeliverBatch
    PROVE  DaveInv'
  <1> USE DEF DaveInv
  <1> DEFINE ids == Ids(packets_out)
  <1>1. /\ packets_out' = <<>> /\ phase = "packets" /\ phase' = "idle"
        /\ Decide(ids, "delivered")
        /\ UNCHANGED <<held, clock, began, kept, listener, arrivals, born, raced, relistens>>
    BY DEF DeliverBatch
  <1>2. to' = [f \in Arrivals |-> IF f \in ids THEN listener ELSE to[f]]
    BY DEF DeliverBatch
  <1>3. ids \subseteq Waiting /\ ids \cap (Ids(held) \cup Ids(kept)) = {}
        /\ Waiting = Ids(held) \cup Ids(kept) \cup ids
    BY DEF Waiting, Lists
  <1>4. "delivered" \in FateNames /\ fate \in [Arrivals -> FateNames]
    BY DEF DaveTypes, FateNames
  <1>5. kept = <<>> /\ listener \in Nat /\ to \in [Arrivals -> Int]
    BY <1>1 DEF Lists, DaveTypes
  <1> HIDE DEF ids
  <1>6. /\ fate' \in [Arrivals -> FateNames]
        /\ \A f \in Arrivals : fate'[f] = IF f \in ids THEN "delivered" ELSE fate[f]
    BY <1>1, <1>4, FatesTyped
  <1>7. DaveTypes'
    <2>1. <<>> \in Seq(Frame)
      OBVIOUS
    <2>2. to' \in [Arrivals -> Int]
      BY <1>2, <1>5
    <2> QED
      BY <1>1, <1>6, <2>1, <2>2 DEF DaveTypes
  <1>8. Lists'
    BY <1>1, <1>5, IdsOfNone DEF Lists, InOrder
  <1>9. Waiting' = Waiting \ ids
    BY <1>1, <1>3, IdsOfNone DEF Waiting
  <1>10. Fates'
    <2>1. \A f \in Arrivals : f > arrivals => f \notin ids
      BY <1>3, WaitingArrived, LaterIsOut DEF Fates
    <2>2. \A f \in Arrivals : f > arrivals => to'[f] = -1
      BY <1>2, <2>1 DEF Fates
    <2> QED
      BY <1>1, <1>3, <1>4, <1>9, <2>2, FateGiven
  <1>11. SessionsApart'
    <2>1. ASSUME NEW f \in Arrivals, to'[f] # -1, to'[f] # born[f] PROVE f \in raced
      <3>1. CASE f \in ids
        <4>1. to'[f] = listener /\ f \in Waiting
          BY <1>2, <1>3, <3>1
        <4> QED
          BY <1>1, <2>1, <4>1 DEF Sessions
      <3>2. CASE f \notin ids
        BY <1>2, <2>1, <3>2 DEF SessionsApart
      <3> QED
        BY <3>1, <3>2
    <2> QED
      BY <1>1, <2>1 DEF SessionsApart
  <1>12. Sessions'
    BY <1>1, <1>9 DEF Sessions
  <1>13. GiveWay'
    BY <1>1, <1>6 DEF GiveWay
  <1> QED
    BY <1>7, <1>8, <1>10, <1>11, <1>12, <1>13

\* Listening stops: what is held is cleared, what a pass or a batch carries is not.
LEMMA StopKept ==
    ASSUME DaveInv, StopAndListen
    PROVE  DaveInv'
  <1> USE DEF DaveInv
  <1> DEFINE ids == Ids(held)
             carried == Ids(kept) \cup Ids(packets_out)
  <1>1. /\ held' = <<>> /\ relistens' = relistens + 1 /\ raced' = raced \cup carried
        /\ Decide(ids, "cleared")
        /\ UNCHANGED <<clock, phase, began, kept, packets_out, listener, arrivals, born, to>>
    BY DEF StopAndListen
  <1>2. Waiting = ids \cup carried /\ Waiting' = carried
    BY <1>1, IdsOfNone DEF Waiting
  <1>3. "cleared" \in FateNames /\ fate \in [Arrivals -> FateNames]
    BY DEF DaveTypes, FateNames
  <1>4. ids \cap carried = {}
    <2>1. \A f \in Ids(kept), g \in ids : f < g
      BY DEF Ids, Lists
    <2>2. \A f \in ids : f \in Nat
      BY <1>2, WaitingArrived
    <2>3. Ids(kept) \cap ids = {}
      <3>1. \A f \in ids : ~(f < f)
        BY <2>2
      <3> QED
        BY <2>1, <3>1
    <2> QED
      BY <2>3 DEF Lists
  <1> HIDE DEF ids, carried
  <1>5. /\ fate' \in [Arrivals -> FateNames]
        /\ \A f \in Arrivals : fate'[f] = IF f \in ids THEN "cleared" ELSE fate[f]
    BY <1>1, <1>3, FatesTyped
  <1>6. DaveTypes'
    <2>1. <<>> \in Seq(Frame)
      OBVIOUS
    <2>2. relistens' \in Nat
      BY <1>1 DEF DaveTypes
    <2> QED
      BY <1>1, <1>5, <2>1, <2>2 DEF DaveTypes
  <1>7. Lists'
    <2>1. Len(<<>>) + Len(kept) <= MaxHeld
      <3>1. Len(held) \in Nat /\ Len(kept) \in Nat /\ Len(held) + Len(kept) <= MaxHeld
        BY DEF Lists, DaveTypes
      <3> QED
        BY <3>1, DaveAssumption
    <2>2. Ids(packets_out) \cap (Ids(<<>>) \cup Ids(kept)) = {}
      BY IdsOfNone DEF Lists
    <2> QED
      BY <1>1, <2>1, <2>2 DEF Lists, InOrder
  <1>8. Fates'
    <2>1. ids \in SUBSET Waiting /\ Waiting' = Waiting \ ids
      BY <1>2, <1>4
    <2>2. \A f \in Arrivals : f > arrivals => to'[f] = -1
      BY <1>1 DEF Fates
    <2> QED
      BY <1>1, <1>3, <2>1, <2>2, FateGiven
  <1>9. SessionsApart'
    BY <1>1 DEF SessionsApart
  <1>10. Sessions'
    BY <1>1, <1>2 DEF Sessions
  <1>11. GiveWay'
    <2>1. \A f \in Arrivals : fate'[f] \in {"expired", "dropped"} => fate[f] \in {"expired", "dropped"}
      BY <1>5
    <2> QED
      BY <1>1, <2>1, IdsOfNone DEF GiveWay
  <1> QED
    BY <1>6, <1>7, <1>8, <1>9, <1>10, <1>11

\* Keys come and go, and time passes.
LEMMA OthersKept ==
    ASSUME DaveInv,
           \/ \E user \in Users : ChangeKeys(user)
           \/ DaveTick
           \/ UNCHANGED daveVars
    PROVE  DaveInv'
  <1> USE DEF DaveInv
  <1>1. /\ clock' = clock \/ clock' = clock + 1
        /\ UNCHANGED <<held, phase, began, kept, packets_out, listener, arrivals, born, fate, to,
                       raced, relistens>>
    BY DEF ChangeKeys, DaveTick, daveVars
  <1>2. clock' \in Nat /\ began <= clock' /\ clock <= clock' /\ clock \in Nat
    BY <1>1 DEF DaveTypes
  <1>3. DaveTypes'
    BY <1>1, <1>2 DEF DaveTypes
  <1>4. Lists'
    <2>1. \A i \in DOMAIN held : held[i].queued_at \in Nat
      <3>1. \A i \in DOMAIN held : held[i] \in Frame
        BY IdsAreArrivals DEF DaveTypes
      <3> QED
        BY <3>1 DEF Frame
    <2>2. \A i \in DOMAIN kept : kept[i].queued_at \in Nat
      <3>1. \A i \in DOMAIN kept : kept[i] \in Frame
        BY IdsAreArrivals DEF DaveTypes
      <3> QED
        BY <3>1 DEF Frame
    <2>3. \A q \in Nat : q <= clock => q <= clock'
      BY <1>2
    <2>4. /\ \A i \in DOMAIN held : held[i].queued_at <= clock'
          /\ \A i \in DOMAIN kept : kept[i].queued_at <= clock'
      BY <2>1, <2>2, <2>3 DEF Lists
    <2> QED
      BY <1>1, <2>4 DEF Lists
  <1>5. Waiting' = Waiting
    BY <1>1 DEF Waiting
  <1>6. Fates' /\ SessionsApart' /\ GiveWay' /\ Sessions'
    BY <1>1, <1>5 DEF Fates, SessionsApart, GiveWay, Sessions
  <1> QED
    BY <1>3, <1>4, <1>6

\* Nothing waits in the beginning.
LEMMA DaveAtStart == DaveInit => DaveInv
  <1> SUFFICES ASSUME DaveInit PROVE DaveInv
    OBVIOUS
  <1>1. MaxHeld \in Nat /\ MaxArrivals \in Nat
    BY DaveAssumption
  <1>2. DaveTypes
    <2>1. "waits" \in FateNames
      BY DEF FateNames
    <2>2. 0 \in 0 .. MaxArrivals /\ <<>> \in Seq(Frame)
      BY <1>1
    <2>3. /\ fate \in [Arrivals -> FateNames]
          /\ born \in [Arrivals -> Nat] /\ to \in [Arrivals -> Int]
      BY <2>1 DEF DaveInit
    <2> QED
      BY <2>2, <2>3 DEF DaveInit, DaveTypes
  <1>3. Lists
    <2>1. Len(<<>>) + Len(<<>>) <= MaxHeld
      BY <1>1
    <2> QED
      BY <2>1, IdsOfNone DEF DaveInit, Lists, InOrder
  <1>4. Waiting = {}
    BY IdsOfNone DEF DaveInit, Waiting
  <1>5. Fates
    <2>1. 1 .. 0 = {}
      OBVIOUS
    <2> QED
      BY <1>4, <2>1 DEF DaveInit, Fates
  <1>6. Sessions /\ SessionsApart
    BY <1>4 DEF Sessions, SessionsApart, DaveInit
  <1>7. GiveWay
    BY IdsOfNone DEF DaveInit, GiveWay
  <1> QED
    BY <1>2, <1>3, <1>5, <1>6, <1>7 DEF DaveInv

\* Every step of the dispatcher and of what is around it preserves the invariant.
LEMMA DaveKept == DaveInv /\ [DaveNext]_daveVars => DaveInv'
  BY BeginKept, AnotherKept, RaisesKept, EndKept, DeliverKept, RetryKept, ArriveKept, StopKept,
     OthersKept DEF DaveNext

\* The numbers in two lists one after the other.
LEMMA IdsOfBoth ==
    ASSUME NEW s \in Seq(Frame), NEW t \in Seq(Frame)
    PROVE  Ids(s \o t) = Ids(s) \cup Ids(t)
  <1> DEFINE r == s \o t
  <1>1. /\ Len(s) \in Nat /\ Len(t) \in Nat /\ DOMAIN s = 1 .. Len(s) /\ DOMAIN t = 1 .. Len(t)
        /\ DOMAIN r = 1 .. (Len(s) + Len(t))
        /\ \A i \in 1 .. (Len(s) + Len(t)) : r[i] = IF i <= Len(s) THEN s[i] ELSE t[i - Len(s)]
    OBVIOUS
  <1> HIDE DEF r
  <1>2. \A i \in DOMAIN r : \/ i \in DOMAIN s /\ r[i] = s[i]
                            \/ i - Len(s) \in DOMAIN t /\ r[i] = t[i - Len(s)]
    BY <1>1
  <1>3. \A i \in DOMAIN s : i \in DOMAIN r /\ r[i] = s[i]
    BY <1>1
  <1>4. \A i \in DOMAIN t : i + Len(s) \in DOMAIN r /\ r[i + Len(s)] = t[i]
    BY <1>1
  <1>5. Ids(r) = Ids(s) \cup Ids(t)
    BY <1>2, <1>3, <1>4 DEF Ids
  <1> QED
    BY <1>5 DEF r

\* No number comes twice in a list.
Unique(list) == \A i, j \in DOMAIN list : list[i].id = list[j].id => i = j

\* Two lists of different frames have none twice.
LEMMA UniqueBoth ==
    ASSUME NEW s \in Seq(Frame), NEW t \in Seq(Frame), Unique(s), Unique(t),
           Ids(s) \cap Ids(t) = {}
    PROVE  Unique(s \o t)
  <1> DEFINE r == s \o t
  <1>1. /\ Len(s) \in Nat /\ Len(t) \in Nat /\ DOMAIN s = 1 .. Len(s) /\ DOMAIN t = 1 .. Len(t)
        /\ DOMAIN r = 1 .. (Len(s) + Len(t))
        /\ \A i \in 1 .. (Len(s) + Len(t)) : r[i] = IF i <= Len(s) THEN s[i] ELSE t[i - Len(s)]
    OBVIOUS
  <1> HIDE DEF r
  <1>2. \A i \in DOMAIN r : \/ i \in DOMAIN s /\ r[i] = s[i]
                            \/ i - Len(s) \in DOMAIN t /\ r[i] = t[i - Len(s)]
    BY <1>1
  <1>3. \A i, j \in DOMAIN r : i - Len(s) = j - Len(s) => i = j
    BY <1>1
  <1>4. \A i \in DOMAIN s, j \in DOMAIN t : s[i].id # t[j].id
    BY DEF Ids
  <1>5. Unique(r)
    <2> SUFFICES ASSUME NEW i \in DOMAIN r, NEW j \in DOMAIN r, r[i].id = r[j].id PROVE i = j
      BY DEF Unique
    <2>1. CASE i \in DOMAIN s /\ r[i] = s[i] /\ j \in DOMAIN s /\ r[j] = s[j]
      BY <2>1 DEF Unique
    <2>2. CASE /\ i - Len(s) \in DOMAIN t /\ r[i] = t[i - Len(s)]
               /\ j - Len(s) \in DOMAIN t /\ r[j] = t[j - Len(s)]
      <3>1. i - Len(s) = j - Len(s)
        BY <2>2 DEF Unique
      <3> QED
        BY <1>3, <3>1
    <2> QED
      BY <1>2, <1>4, <2>1, <2>2
  <1> QED
    BY <1>5 DEF r

\* A list in order has no number twice.
LEMMA OrderedUnique ==
    ASSUME NEW s \in Seq(Frame), InOrder(s)
    PROVE  Unique(s)
  <1>1. \A i \in DOMAIN s : i \in Int /\ s[i].id \in Int
    <2>1. \A i \in DOMAIN s : s[i] \in Frame /\ i \in Int
      OBVIOUS
    <2>2. \A x \in Frame : x.id \in Int
      BY DEF Frame, Arrivals
    <2> QED
      BY <2>1, <2>2
  <1>2. ASSUME NEW i \in DOMAIN s, NEW j \in DOMAIN s, s[i].id = s[j].id PROVE i = j
    <2>1. ~(s[i].id < s[j].id) /\ ~(s[j].id < s[i].id)
      BY <1>1, <1>2
    <2>2. ~(i < j) /\ ~(j < i)
      BY <2>1 DEF InOrder
    <2> QED
      BY <1>1, <2>2
  <1> QED
    BY <1>2 DEF Unique

\* The invariant says where every frame is.
LEMMA DaveInvSays ==
    ASSUME DaveInv
    PROVE  HeldFramesSound
  <1> USE DEF DaveInv
  <1>1. held \in Seq(Frame) /\ kept \in Seq(Frame) /\ packets_out \in Seq(Frame)
    BY DEF DaveTypes
  <1>2. held \o kept \in Seq(Frame) /\ Ids(held \o kept) = Ids(held) \cup Ids(kept)
    BY <1>1, IdsOfBoth
  <1>3. Ids(held \o kept \o packets_out) = Waiting
    BY <1>1, <1>2, IdsOfBoth DEF Waiting
  <1>4. Ids(held) \cap Ids(kept) = {}
    <2>1. \A f \in Ids(kept), g \in Ids(held) : f < g
      BY DEF Ids, Lists
    <2>2. \A f \in Ids(held) : f \in Nat
      BY WaitingArrived DEF Waiting
    <2>3. \A f \in Ids(held) : ~(f < f)
      BY <2>2
    <2> QED
      BY <2>1, <2>3
  <1>5. Unique(held) /\ Unique(kept) /\ Unique(packets_out)
    <2>1. InOrder(held) /\ InOrder(kept)
      BY DEF Lists
    <2>2. Unique(packets_out)
      BY DEF Lists, Unique
    <2> QED
      BY <1>1, <2>1, <2>2, OrderedUnique
  <1>6. Unique(held \o kept)
    BY <1>1, <1>4, <1>5, UniqueBoth
  <1>7. Unique(held \o kept \o packets_out)
    <2>1. Ids(held \o kept) \cap Ids(packets_out) = {}
      BY <1>2 DEF Lists
    <2> QED
      BY <1>1, <1>2, <1>5, <1>6, <2>1, UniqueBoth
  <1>8. Len(held) <= MaxHeld
    <2>1. Len(held) \in Nat /\ Len(kept) \in Nat /\ Len(held) + Len(kept) <= MaxHeld
      BY <1>1 DEF Lists
    <2> QED
      BY <2>1, DaveAssumption
  <1>9. \A list \in {held, kept} : \A i, j \in DOMAIN list : i < j => list[i].id < list[j].id
    BY DEF Lists, InOrder
  <1>10. EveryFrameOnce
    BY <1>3, <1>7, <1>8, <1>9 DEF EveryFrameOnce, Unique, Fates
  <1>11. OldestGiveWay
    BY <1>2 DEF OldestGiveWay, GiveWay
  <1> QED
    BY <1>10, <1>11 DEF HeldFramesSound

\* Frames that wait for DAVE keys are neither lost nor doubled, the oldest give
\* way, and none reaches another listening session than its own unless a pass or
\* a batch carried it across a stop (client.py), for any size and age limit.
THEOREM FramesAreHeld == DaveSpec => []HeldFramesSound
  <1>1. DaveInv => HeldFramesSound
    BY DaveInvSays
  <1> QED
    BY <1>1, DaveAtStart, DaveKept, PTL DEF DaveSpec

-----------------------------------------------------------------------------
(********************** the session of a stream client *********************)

TaskStates == {"new", "asleep", "reading", "uploading", "done"}

\* The types of what the invariant is about.
SessionTypes ==
    /\ tasks \in [Tasks -> TaskStates]
    /\ task \in Tasks \cup {0} /\ cancelled \subseteq Tasks
    /\ sources \in Nat
    /\ connecting \in {"no", "begun", "enabling"}
    /\ {enabled, online, reconnect_on_available, cleaned_up, surprised, dropped} \subseteq BOOLEAN

\* Only a task that was started is cancelled, and the client forgets it then;
\* previews are enabled with a provider, before the cleanup.
Settings ==
    /\ \A t \in cancelled : tasks[t] # "new"
    /\ task # 0 => task \notin cancelled
    /\ enabled => provider # NoProvider /\ ~cleaned_up

\* connect begins without a connection, and keeps the one it gets.
Connecting ==
    /\ connecting = "begun" => ~online
    /\ connecting = "enabling" /\ ~surprised /\ ~dropped /\ ~cleaned_up => online

SessionInv == SessionTypes /\ Settings /\ Connecting /\ SessionGoesOn

\* The preview loop that is needed, and no other.
OneLoop(states, current, on, from, up) ==
    /\ states \in [Tasks -> TaskStates] /\ current \in Tasks \cup {0}
    /\ \A t \in cancelled : states[t] # "new"
    /\ current # 0 => current \notin cancelled
    /\ \A t \in Tasks :
            (states[t] \notin {"new", "done"} /\ t \notin cancelled) => (t = current /\ on)
    /\ (on /\ from # NoProvider /\ up) =>
            current # 0 /\ states[current] \notin {"new", "done"} /\ current \notin cancelled

\* The client begins so.
LEMMA SessionAtStart == StreamInit => SessionInv
  <1> SUFFICES ASSUME StreamInit PROVE SessionInv
    OBVIOUS
  <1>1. SessionTypes
    <2>1. tasks \in [Tasks -> TaskStates]
      BY DEF StreamInit, TaskStates
    <2>2. {enabled, online, reconnect_on_available, cleaned_up, surprised, dropped} \subseteq BOOLEAN
      BY DEF StreamInit
    <2> QED
      BY <2>1, <2>2 DEF StreamInit, SessionTypes
  <1>2. Settings /\ Connecting
    BY DEF StreamInit, Settings, Connecting
  <1>3. OnePreviewLoop
    BY DEF StreamInit, OnePreviewLoop, Running
  <1>4. PreviewsGoOn /\ ReconnectNotForgotten
    BY DEF StreamInit, PreviewsGoOn, ReconnectNotForgotten
  <1> QED
    BY <1>1, <1>2, <1>3, <1>4 DEF SessionInv, SessionGoesOn

\* What EnsureTask does.
LEMMA Ensured ==
    ASSUME SessionTypes, Settings, OnePreviewLoop, NEW on \in BOOLEAN, NEW from, NEW up,
           EnsureTask(on, from, up), UNCHANGED cancelled, enabled => on, on => ~cleaned_up
    PROVE  OneLoop(tasks', task', on, from, up)
  <1> USE DEF OneLoop
  <1>1. \A t \in Tasks :
            (tasks[t] \notin {"new", "done"} /\ t \notin cancelled) => (t = task /\ on)
    BY DEF OnePreviewLoop, Running
  <1>2. CASE UNCHANGED <<tasks, task>>
    BY <1>1, <1>2 DEF SessionTypes, Settings, EnsureTask, Running
  <1>3. CASE ~UNCHANGED <<tasks, task>>
    <2>1. on /\ (task = 0 \/ ~Running(task))
      BY <1>3 DEF EnsureTask
    <2>2. PICK t \in Tasks : /\ tasks[t] = "new" /\ task' = t
                               /\ tasks' = [tasks EXCEPT ![t] = "asleep"]
      BY <1>3 DEF EnsureTask
    <2>3. t \notin cancelled /\ t # 0
      BY <2>2 DEF Settings, Tasks
    <2>4. \A u \in Tasks : u \notin cancelled => tasks[u] \in {"new", "done"}
      BY <1>1, <2>1 DEF Running, Tasks
    <2> QED
      BY <2>1, <2>2, <2>3, <2>4 DEF SessionTypes, Settings, TaskStates
  <1> QED
    BY <1>2, <1>3

\* What CancelTask does: nothing goes on uploading.
LEMMA Cancelled ==
    ASSUME SessionTypes, Settings, OnePreviewLoop, CancelTask, UNCHANGED tasks
    PROVE  /\ task' = 0 /\ cancelled' \subseteq Tasks /\ \A t \in cancelled' : tasks[t] # "new"
           /\ \A t \in Tasks : Running(t)' => t \in cancelled'
  <1>1. 0 \notin Tasks
    BY DEF Tasks
  <1>2. task = 0 \/ ~Running(task) => \A t \in Tasks : Running(t) => t \in cancelled
    BY <1>1 DEF OnePreviewLoop
  <1>3. task # 0 => \A t \in Tasks : Running(t) => t \in cancelled \cup {task}
    BY DEF OnePreviewLoop
  <1>4. \A t \in Tasks : Running(t)' <=> Running(t)
    BY DEF Running
  <1>5. task # 0 /\ Running(task) => tasks[task] # "new" /\ task \in Tasks
    BY DEF Running, SessionTypes
  <1> QED
    BY <1>2, <1>3, <1>4, <1>5 DEF SessionTypes, Settings, CancelTask

\* Every step of the stream client preserves the invariant.
LEMMA SessionKept ==
    ASSUME SessionInv, [StreamNext]_streamVars
    PROVE  SessionInv'
  <1> USE DEF SessionInv, SessionGoesOn, SessionTypes, Settings, Connecting,
          OnePreviewLoop, PreviewsGoOn, ReconnectNotForgotten
  <1>1. CASE StopPreviewLoop
    <2>1. /\ UNCHANGED <<tasks, sources, connecting, online, reconnect_on_available, cleaned_up,
                       surprised, dropped>>
          /\ CancelTask /\ enabled' = FALSE
      BY <1>1 DEF StopPreviewLoop, playVars, linkVars
    <2>2. CASE CancelTask /\ enabled' = FALSE
      BY <2>1, <2>2, Cancelled
    <2> QED
      BY <2>1, <2>2
  <1>2. ASSUME NEW p \in {NoProvider, Custom}, SetPreviewProvider(p) PROVE SessionInv'
    <2>1. /\ UNCHANGED <<tasks, sources, connecting, online, reconnect_on_available, cleaned_up,
                       surprised, dropped>>
          /\ \/ CancelTask /\ enabled' = FALSE
             \/ provider' = Custom /\ UNCHANGED <<enabled, task, cancelled>>
      BY <1>2 DEF SetPreviewProvider, playVars, linkVars
    <2>2. CASE CancelTask /\ enabled' = FALSE
      BY <2>1, <2>2, Cancelled
    <2>3. CASE provider' = Custom /\ UNCHANGED <<enabled, task, cancelled>>
      BY <2>1, <2>3 DEF Running, Custom, NoProvider
    <2> QED
      BY <2>1, <2>2, <2>3
  <1>3. CASE StartPreviewLoop
    <2>1. /\ EnsureTask(TRUE, provider, online) /\ UNCHANGED cancelled
          /\ enabled' = TRUE /\ ~cleaned_up /\ provider # NoProvider
          /\ UNCHANGED <<provider, sources, online, connecting, reconnect_on_available,
                       cleaned_up, surprised, dropped>>
      BY <1>3 DEF StartPreviewLoop, playVars, linkVars, DefaultProvider, Custom, NoProvider
    <2>2. TRUE \in BOOLEAN /\ (enabled => TRUE) /\ (TRUE => ~cleaned_up)
      BY <2>1 
    <2>3. OneLoop(tasks', task', TRUE, provider, online)
      BY <2>1, <2>2, Ensured
    <2> QED
      BY <2>1, <2>2, <2>3 DEF OneLoop, Running
  <1>4. ASSUME NEW how \in {"source", "custom", "none"}, Play(how) PROVE SessionInv'
    <2> DEFINE from == CASE how = "source" -> sources + 1 [] how = "custom" -> Custom
                            [] how = "none" -> DefaultProvider(sources + 1)
    <2>1. /\ EnsureTask(enabled', from, online) /\ UNCHANGED cancelled /\ ~cleaned_up
          /\ provider' = from /\ enabled' = (enabled \/ how # "none") /\ sources' = sources + 1
          /\ UNCHANGED <<online, connecting, reconnect_on_available, cleaned_up, surprised,
                       dropped>>
      BY <1>4 DEF Play, linkVars
    <2>2. from # NoProvider
      BY DEF DefaultProvider, Custom, NoProvider
    <2> HIDE DEF from
    <2>3. enabled' \in BOOLEAN /\ (enabled => enabled') /\ (enabled' => ~cleaned_up)
      BY <2>1
    <2>4. OneLoop(tasks', task', enabled', from, online)
      BY <2>1, <2>3, Ensured
    <2> QED
      BY <2>1, <2>2, <2>3, <2>4 DEF OneLoop, Running
  <1>5. CASE ChangeSource
    <2>1. /\ EnsureTask(enabled, provider', online) /\ UNCHANGED cancelled
          /\ enabled' = enabled /\ provider' # NoProvider /\ sources' \in Nat
          /\ UNCHANGED <<online, connecting, reconnect_on_available, cleaned_up, surprised,
                       dropped>>
      BY <1>5 DEF ChangeSource, playVars, linkVars, DefaultProvider, Custom, NoProvider
    <2>2. enabled \in BOOLEAN /\ (enabled => enabled) /\ (enabled => ~cleaned_up)
      BY <2>1 
    <2>3. OneLoop(tasks', task', enabled, provider', online)
      BY <2>1, <2>2, Ensured
    <2> QED
      BY <2>1, <2>2, <2>3 DEF OneLoop, Running
  <1>6. CASE PickUpSource \/ PlayerEnds
    BY <1>6 DEF PickUpSource, PlayerEnds, StopPlaying, previewVars, playVars, linkVars, Running,
       TaskStates
  <1>7. ASSUME NEW source \in 1 .. MaxSources, MediaPlayerFinished(source) PROVE SessionInv'
    <2>1. /\ UNCHANGED <<tasks, sources, connecting, online, reconnect_on_available, cleaned_up,
                       surprised, dropped>>
          /\ \/ CancelTask /\ enabled' = FALSE
             \/ UNCHANGED <<enabled, provider, task, cancelled>>
      BY <1>7 DEF MediaPlayerFinished, playVars, linkVars
    <2>2. CASE CancelTask /\ enabled' = FALSE
      BY <2>1, <2>2, Cancelled
    <2>3. CASE UNCHANGED <<enabled, provider, task, cancelled>>
      BY <2>1, <2>3 DEF Running, Custom, NoProvider
    <2> QED
      BY <2>1, <2>2, <2>3
  <1>8. ASSUME NEW t \in Tasks, NEW b \in BOOLEAN, TaskWakes(t, b) PROVE SessionInv'
    BY <1>8 DEF TaskWakes, StopPlaying, previewVars, playVars, linkVars, Running, TaskStates
  <1>9. ASSUME NEW t \in Tasks, NEW b \in BOOLEAN, TaskReads(t, b) PROVE SessionInv'
    BY <1>9 DEF TaskReads, StopPlaying, previewVars, playVars, linkVars, Running, TaskStates
  <1>10. ASSUME NEW t \in Tasks, TaskUploads(t) PROVE SessionInv'
    BY <1>10 DEF TaskUploads, StopPlaying, previewVars, playVars, linkVars, Running, TaskStates
  <1>11. ASSUME NEW t \in Tasks, TaskCancelled(t) PROVE SessionInv'
    BY <1>11 DEF TaskCancelled, StopPlaying, previewVars, playVars, linkVars, Running,
       TaskStates
  <1>12. CASE OnStreamUnavailable
    <2>1. /\ CancelTask /\ online' = FALSE /\ reconnect_on_available' = TRUE
          /\ surprised' = (surprised \/ connecting = "enabling")
          /\ UNCHANGED <<tasks, sources, enabled, provider, connecting, cleaned_up, dropped>>
      BY <1>12 DEF OnStreamUnavailable, StopPlaying
    <2> QED
      BY <2>1, Cancelled
  <1>13. CASE OnStreamAvailable
    BY <1>13 DEF OnStreamAvailable, StopPlaying, previewVars, playVars, linkVars, Running,
       TaskStates
  <1>14. CASE Connected
    BY <1>14 DEF Connected, StopPlaying, previewVars, playVars, linkVars, Running, TaskStates
  <1>15. CASE ConnectReturns
    <2>1. /\ EnsureTask(enabled, provider, online) /\ UNCHANGED cancelled
          /\ enabled' = enabled /\ connecting = "enabling" /\ connecting' = "no"
          /\ reconnect_on_available' = FALSE
          /\ UNCHANGED <<provider, sources, online, cleaned_up, surprised, dropped>>
      BY <1>15 DEF ConnectReturns, playVars, linkVars, DefaultProvider, Custom, NoProvider
    <2>2. enabled \in BOOLEAN /\ (enabled => enabled) /\ (enabled => ~cleaned_up)
      BY <2>1 
    <2>3. OneLoop(tasks', task', enabled, provider, online)
      BY <2>1, <2>2, Ensured
    <2> QED
      BY <2>1, <2>2, <2>3 DEF OneLoop, Running
  <1>16. CASE ConnectFails
    BY <1>16 DEF ConnectFails, StopPlaying, previewVars, playVars, linkVars, Running, TaskStates
  <1>17. CASE ConnectionDrops
    BY <1>17 DEF ConnectionDrops, StopPlaying, previewVars, playVars, linkVars, Running,
       TaskStates
  <1>18. CASE Disconnect
    <2>1. /\ CancelTask /\ enabled' = FALSE /\ cleaned_up' = TRUE /\ online' = FALSE
          /\ connecting' \in {"no", connecting} /\ (online => connecting' = "no")
          /\ UNCHANGED <<tasks, sources, reconnect_on_available, surprised, dropped>>
      BY <1>18 DEF Disconnect, CleanupClient, StopPlaying
    <2> QED
      BY <2>1, Cancelled
  <1>19. CASE UNCHANGED streamVars
    BY <1>19 DEF streamVars, previewVars, playVars, linkVars, Running
  <1> QED
    BY <1>1, <1>2, <1>3, <1>4, <1>5, <1>6, <1>7, <1>8, <1>9, <1>10, <1>11, <1>12, <1>13, <1>14,
       <1>15, <1>16, <1>17, <1>18, <1>19 DEF StreamNext

\* Across outages, changes of the source and late callbacks a stream client
\* uploads previews in one loop, goes on with them, and does not forget to
\* reconnect (stream_client.py), for any number of tasks and sources.
THEOREM SessionIsSound == StreamSpec => []SessionGoesOn
  <1>1. SessionInv => SessionGoesOn
    BY DEF SessionInv
  <1> QED
    BY <1>1, SessionAtStart, SessionKept, PTL DEF StreamSpec
=============================================================================

---------------------------- MODULE UdpTransport ----------------------------
(***************************************************************************)
(* NativeUDPTransport (src/src/python/net.rs): a reader thread, a          *)
(* dispatcher thread fed through a channel, and Python threads that add    *)
(* and remove listeners, start the ping and close the transport.           *)
(*                                                                         *)
(* start_reader and close run on any Python thread, and close also on the  *)
(* dispatcher itself, from a listener; both are sequences of steps on      *)
(* atomics and mutexes that interleave.  Every start_reader that wins the  *)
(* swap of reader_running makes a new channel, dispatcher and reader:      *)
(* incarnation 1, 2, ...                                                   *)
(*                                                                         *)
(* add_listener, remove_listener, start_ping and stop_ping keep Python's   *)
(* GIL; close gives it up.  The dispatcher needs it for listeners.         *)
(* Left out: the contents of packets, and the statistics other than        *)
(* dispatch_queue_pending.  The ping itself is module UdpPing.             *)
(***************************************************************************)
EXTENDS Integers, Sequences, FiniteSets

CONSTANTS
    Callers,        \* Python threads that use the transport
    Listeners,      \* listeners that may be registered
    Flags,          \* listener -> the kinds of packet it wants
    MaxStarts,      \* bound: incarnations of the two threads
    MaxBatches,     \* bound: batches that arrive
    MaxCalls        \* bound: calls by Python threads

ASSUME UdpTransportAssumption ==
    /\ MaxStarts \in Nat \ {0} /\ MaxBatches \in Nat /\ MaxCalls \in Nat
    /\ "dispatcher" \notin Callers
    /\ Flags \in [Listeners -> SUBSET {"rtp", "rtcp"}]

Incarnations == 1..MaxStarts
None == 0
Users == Callers \cup {"dispatcher"}    \* the dispatcher may call close

VARIABLES
    closed, reader_running,     \* atomics
    listeners,      \* registered listeners
    ping,           \* a UDPPing is in its slot
    reader,         \* join handle of the reader: an incarnation or None
    dispatcher,     \* join handle of the dispatcher
    dispatch_tx,    \* the channel's sender in its slot: an incarnation or None
    ping_lock,      \* who holds the mutex of the ping slot, or "free"
    queue,          \* incarnation -> batches in its channel (a batch: its kinds)
    dispatch_queue_pending,     \* the statistic, a usize
    rpc,            \* incarnation -> where its reader is
    read,           \* incarnation -> the batch its reader has read
    sender,         \* incarnation -> the sender its reader has cloned, or None
    dpc,            \* incarnation -> where its dispatcher is
    todo,           \* incarnation -> kinds its dispatcher is still to deliver
    snapshot,       \* incarnation -> listeners its dispatcher is still to call
    upc,            \* user -> where its call is
    mine,           \* user -> the incarnation it starts or joins
    starts, batches, calls,     \* history: bounded counters
    late_start,     \* history: a start_reader overlapped or followed a close
    removed,        \* history: listeners that were removed
    late_calls,     \* history: listener -> batches it got after its removal
    detached        \* history: dispatchers that dropped their own handle in a close

reader_thread == <<rpc, read, sender>>
dispatcher_thread == <<dpc, todo, snapshot>>
threads == <<reader_thread, dispatcher_thread, queue, dispatch_queue_pending>>
slots == <<reader, dispatcher, dispatch_tx>>
history == <<starts, batches, calls, late_start, removed, late_calls, detached>>
vars == <<closed, reader_running, listeners, ping, slots, ping_lock, threads, upc, mine,
          history>>

Init ==
    /\ closed = FALSE /\ reader_running = FALSE
    /\ listeners = {}
    /\ reader = None /\ dispatcher = None /\ dispatch_tx = None
    /\ ping = FALSE /\ ping_lock = "free"
    /\ queue = [i \in Incarnations |-> <<>>]
    /\ dispatch_queue_pending = 0
    /\ rpc = [i \in Incarnations |-> "absent"]
    /\ read = [i \in Incarnations |-> {}]
    /\ sender = [i \in Incarnations |-> None]
    /\ dpc = [i \in Incarnations |-> "absent"]
    /\ todo = [i \in Incarnations |-> {}]
    /\ snapshot = [i \in Incarnations |-> {}]
    /\ upc = [u \in Users |-> "idle"]
    /\ mine = [u \in Users |-> None]
    /\ starts = 0 /\ batches = 0 /\ calls = 0
    /\ late_start = FALSE
    /\ removed = {}
    /\ late_calls = [l \in Listeners |-> 0]
    /\ detached = {}

Goto(u, label) == upc' = [upc EXCEPT ![u] = label]

Starting == {"store_tx", "spawn_dispatcher", "spawn_reader", "undo", "register"}
Stopping == {"ping", "stop", "drop_tx", "take_reader", "join_reader", "take_dispatcher",
             "join_dispatcher", "return"}

\* Python code may run: no thread is inside add_listener or start_ping.
GilFree == \A u \in Users : upc[u] \notin Starting

Call(u) ==
    /\ upc[u] = "idle"
    /\ GilFree
    /\ calls < MaxCalls
    /\ calls' = calls + 1

-----------------------------------------------------------------------------
(***************** start_reader and the calls that use it ******************)

\* add_listener, add_batch_listener and start_ping begin with start_reader,
\* which does not look at closed: the swap of reader_running.
StartReader(u) ==
    /\ u \in Callers
    /\ Call(u)
    /\ reader_running \/ starts < MaxStarts
    /\ reader_running' = TRUE
    /\ late_start' = (late_start \/ closed)
    /\ IF reader_running
       THEN Goto(u, "register") /\ UNCHANGED <<starts, mine>>
       ELSE /\ Goto(u, "store_tx")
            /\ starts' = starts + 1
            /\ mine' = [mine EXCEPT ![u] = starts + 1]
    /\ UNCHANGED <<closed, listeners, ping, slots, ping_lock, threads, batches, removed,
                   late_calls, detached>>

\* The channel's sender goes into its slot, ...
StoreSender(u) ==
    /\ upc[u] = "store_tx"
    /\ dispatch_tx' = mine[u]
    /\ Goto(u, "spawn_dispatcher")
    /\ UNCHANGED <<closed, reader_running, listeners, ping, reader, dispatcher, ping_lock,
                   threads, mine, history>>

\* ... the dispatcher is spawned, and the reader.
SpawnDispatcher(u) ==
    /\ upc[u] = "spawn_dispatcher"
    /\ dpc' = [dpc EXCEPT ![mine[u]] = "recv"]
    /\ dispatcher' = mine[u]
    /\ Goto(u, "spawn_reader")
    /\ UNCHANGED <<closed, reader_running, listeners, ping, reader, dispatch_tx, ping_lock,
                   reader_thread, todo, snapshot, queue, dispatch_queue_pending, mine, history>>

SpawnReader(u) ==
    /\ upc[u] = "spawn_reader"
    /\ rpc' = [rpc EXCEPT ![mine[u]] = "top"]
    /\ reader' = mine[u]
    /\ Goto(u, "register")
    /\ UNCHANGED <<closed, reader_running, listeners, ping, dispatcher, dispatch_tx, ping_lock,
                   read, sender, dispatcher_thread, queue, dispatch_queue_pending, mine, history>>

\* The operating system refuses a thread: what was started is undone, and the
\* dispatcher in the slot is joined.
SpawnFails(u) ==
    /\ upc[u] \in {"spawn_dispatcher", "spawn_reader"}
    /\ reader_running' = FALSE
    /\ dispatch_tx' = None
    /\ IF upc[u] = "spawn_dispatcher" \/ dispatcher = None
       THEN Goto(u, "register") /\ UNCHANGED <<dispatcher, mine>>
       ELSE /\ dispatcher' = None
            /\ mine' = [mine EXCEPT ![u] = dispatcher]
            /\ Goto(u, "undo")
    /\ UNCHANGED <<closed, listeners, ping, reader, ping_lock, threads, history>>

JoinUndone(u) ==
    /\ upc[u] = "undo"
    /\ dpc[mine[u]] = "ended"
    /\ Goto(u, "register")
    /\ UNCHANGED <<closed, reader_running, listeners, ping, slots, ping_lock, threads, mine,
                   history>>

\* The rest of add_listener (an id is never used twice), or of start_ping.
Register(u) ==
    /\ upc[u] = "register"
    /\ \/ /\ \E l \in Listeners \ (listeners \cup removed) : listeners' = listeners \cup {l}
          /\ UNCHANGED ping
       \/ /\ ping_lock = "free"
          /\ ping' = TRUE
          /\ UNCHANGED listeners
    /\ Goto(u, "idle")
    /\ UNCHANGED <<closed, reader_running, slots, ping_lock, threads, mine, history>>

remove_listener(u, l) ==
    /\ u \in Callers
    /\ Call(u)
    /\ l \in listeners
    /\ listeners' = listeners \ {l}
    /\ removed' = removed \cup {l}
    /\ UNCHANGED <<closed, reader_running, ping, slots, ping_lock, threads, upc, mine, starts,
                   batches, late_start, late_calls, detached>>

\* stop_ping joins the ping thread, with the GIL and the slot's mutex held.
stop_ping(u) ==
    /\ u \in Callers
    /\ Call(u)
    /\ ping_lock = "free" /\ ping
    /\ ping' = FALSE
    /\ UNCHANGED <<closed, reader_running, listeners, slots, ping_lock, threads, upc, mine,
                   starts, batches, late_start, removed, late_calls, detached>>

-----------------------------------------------------------------------------
(********************************** close **********************************)

\* A Python thread closes, or a listener does, on the dispatcher.  The GIL is
\* given up before closed is set, so another call may be under way.
Close(u) ==
    /\ upc[u] = "idle"
    /\ calls < MaxCalls
    /\ calls' = calls + 1
    /\ closed' = TRUE
    /\ late_start' = (late_start \/ \E v \in Users : upc[v] \in Starting)
    /\ Goto(u, "ping")
    /\ IF u = "dispatcher"
       THEN \E i \in Incarnations :
              dpc[i] = "call" /\ dpc' = [dpc EXCEPT ![i] = "in_close"]
       ELSE UNCHANGED dpc
    /\ UNCHANGED <<reader_running, listeners, ping, slots, ping_lock, reader_thread, todo,
                   snapshot, queue, dispatch_queue_pending, mine, starts, batches, removed,
                   late_calls, detached>>

\* The ping is taken out of its slot, and stopped with the slot's mutex held.
TakePing(u) ==
    /\ upc[u] = "ping"
    /\ ping_lock = "free"
    /\ ping_lock' = IF ping THEN u ELSE "free"
    /\ ping' = FALSE
    /\ Goto(u, "stop")
    /\ UNCHANGED <<closed, reader_running, listeners, slots, threads, mine, history>>

\* stop_reader_threads: the reader is told to stop, ...
StopRunning(u) ==
    /\ upc[u] = "stop"
    /\ ping_lock' = IF ping_lock = u THEN "free" ELSE ping_lock
    /\ reader_running' = FALSE
    /\ Goto(u, "drop_tx")
    /\ UNCHANGED <<closed, listeners, ping, slots, threads, mine, history>>

\* ... the sender leaves its slot, ...
DropSender(u) ==
    /\ upc[u] = "drop_tx"
    /\ dispatch_tx' = None
    /\ Goto(u, "take_reader")
    /\ UNCHANGED <<closed, reader_running, listeners, ping, reader, dispatcher, ping_lock,
                   threads, mine, history>>

\* ... and the two threads are joined, the reader first.
TakeReader(u) ==
    /\ upc[u] = "take_reader"
    /\ reader' = None
    /\ mine' = [mine EXCEPT ![u] = reader]
    /\ Goto(u, IF reader = None THEN "take_dispatcher" ELSE "join_reader")
    /\ UNCHANGED <<closed, reader_running, listeners, ping, dispatcher, dispatch_tx, ping_lock,
                   threads, history>>

\* A mutation of JoinReader: the handle is dropped, which detaches the thread.
JoinReaderDetaches(u) ==
    /\ upc[u] = "join_reader"
    /\ Goto(u, "take_dispatcher")
    /\ UNCHANGED <<closed, reader_running, listeners, ping, slots, ping_lock, threads, mine,
                   history>>

JoinReader(u) ==
    /\ upc[u] = "join_reader"
    /\ rpc[mine[u]] = "ended"
    /\ Goto(u, "take_dispatcher")
    /\ UNCHANGED <<closed, reader_running, listeners, ping, slots, ping_lock, threads, mine,
                   history>>

\* A mutation of IsCurrentThread: the dispatcher would join itself.
IsCurrentThreadNever(u, i) == FALSE

\* thread::current().id() is that of the dispatcher's handle.
IsCurrentThread(u, i) == u = "dispatcher" /\ dpc[i] = "in_close"

TakeDispatcher(u) ==
    /\ upc[u] = "take_dispatcher"
    /\ dispatcher' = None
    /\ mine' = [mine EXCEPT ![u] = dispatcher]
    /\ Goto(u, IF dispatcher = None THEN "return"
               ELSE IF IsCurrentThread(u, dispatcher) THEN "return"
               ELSE "join_dispatcher")
    /\ detached' = IF dispatcher # None /\ IsCurrentThread(u, dispatcher)
                   THEN detached \cup {dispatcher} ELSE detached
    /\ UNCHANGED <<closed, reader_running, listeners, ping, reader, dispatch_tx, ping_lock,
                   threads, starts, batches, calls, late_start, removed, late_calls>>

JoinDispatcher(u) ==
    /\ upc[u] = "join_dispatcher"
    /\ dpc[mine[u]] = "ended"
    /\ Goto(u, "return")
    /\ UNCHANGED <<closed, reader_running, listeners, ping, slots, ping_lock, threads, mine,
                   history>>

\* close returns; on the dispatcher the listener goes on.
CloseReturns(u) ==
    /\ upc[u] = "return"
    /\ GilFree
    /\ Goto(u, "idle")
    /\ dpc' = [i \in Incarnations |->
                 IF u = "dispatcher" /\ dpc[i] = "in_close" THEN "call" ELSE dpc[i]]
    /\ UNCHANGED <<closed, reader_running, listeners, ping, slots, ping_lock, reader_thread,
                   todo, snapshot, queue, dispatch_queue_pending, mine, history>>

-----------------------------------------------------------------------------
(******************************* the reader ********************************)

ReaderGoto(i, label) == rpc' = [rpc EXCEPT ![i] = label]

\* The loop's test fails.
ReaderEnds(i) ==
    /\ rpc[i] = "top"
    /\ ~reader_running
    /\ ReaderGoto(i, "ended")
    /\ UNCHANGED <<closed, reader_running, listeners, ping, slots, ping_lock, read, sender,
                   dispatcher_thread, queue, dispatch_queue_pending, upc, mine, history>>

\* A batch of up to UDP_RECV_BATCH_SIZE datagrams is read.
Receive(i) ==
    /\ rpc[i] = "top"
    /\ reader_running
    /\ batches < MaxBatches
    /\ batches' = batches + 1
    /\ \E kinds \in (SUBSET {"rtp", "rtcp"}) \ {{}} : read' = [read EXCEPT ![i] = kinds]
    /\ ReaderGoto(i, "handle")
    /\ UNCHANGED <<closed, reader_running, listeners, ping, slots, ping_lock, sender,
                   dispatcher_thread, queue, dispatch_queue_pending, upc, mine, starts, calls,
                   late_start, removed, late_calls, detached>>

\* handle_udp_packets: a batch read as the transport closes is dropped, ...
CheckOpen(i) ==
    /\ rpc[i] = "handle"
    /\ ReaderGoto(i, IF closed \/ ~reader_running THEN "top" ELSE "lock_ping")
    /\ UNCHANGED <<closed, reader_running, listeners, ping, slots, ping_lock, read, sender,
                   dispatcher_thread, queue, dispatch_queue_pending, upc, mine, history>>

\* ... and the ping sees every packet, under its mutex.
OfferToPing(i) ==
    /\ rpc[i] = "lock_ping"
    /\ ping_lock = "free"
    /\ ReaderGoto(i, "clone_tx")
    /\ UNCHANGED <<closed, reader_running, listeners, ping, slots, ping_lock, read, sender,
                   dispatcher_thread, queue, dispatch_queue_pending, upc, mine, history>>

\* queue_udp_dispatch: the sender is cloned under its mutex, ...
CloneSender(i) ==
    /\ rpc[i] = "clone_tx"
    /\ sender' = [sender EXCEPT ![i] = dispatch_tx]
    /\ ReaderGoto(i, IF dispatch_tx = None THEN "top" ELSE "count")
    /\ UNCHANGED <<closed, reader_running, listeners, ping, slots, ping_lock, read,
                   dispatcher_thread, queue, dispatch_queue_pending, upc, mine, history>>

\* ... the batch is counted, ...
CountPending(i) ==
    /\ rpc[i] = "count"
    /\ dispatch_queue_pending' = dispatch_queue_pending + 1
    /\ ReaderGoto(i, "send")
    /\ UNCHANGED <<closed, reader_running, listeners, ping, slots, ping_lock, read, sender,
                   dispatcher_thread, queue, upc, mine, history>>

\* A mutation of SendFailed: a batch that cannot be sent stays counted.
SendFailedUncounted == dispatch_queue_pending

SendFailed == dispatch_queue_pending - 1

\* ... and sent, which fails once the dispatcher is gone.
SendBatch(i) ==
    /\ rpc[i] = "send"
    /\ IF dpc[sender[i]] = "ended"
       THEN dispatch_queue_pending' = SendFailed /\ UNCHANGED queue
       ELSE /\ queue' = [queue EXCEPT ![sender[i]] = Append(@, read[i])]
            /\ UNCHANGED dispatch_queue_pending
    /\ sender' = [sender EXCEPT ![i] = None]
    /\ ReaderGoto(i, "top")
    /\ UNCHANGED <<closed, reader_running, listeners, ping, slots, ping_lock, read,
                   dispatcher_thread, upc, mine, history>>

-----------------------------------------------------------------------------
(***************************** the dispatcher ******************************)

DispatcherGoto(i, label) == dpc' = [dpc EXCEPT ![i] = label]

\* recv fails: the channel is empty and has no sender left.
DispatcherEnds(i) ==
    /\ dpc[i] = "recv"
    /\ queue[i] = <<>>
    /\ dispatch_tx # i /\ \A r \in Incarnations : sender[r] # i
    /\ DispatcherGoto(i, "ended")
    /\ UNCHANGED <<closed, reader_running, listeners, ping, slots, ping_lock, reader_thread,
                   todo, snapshot, queue, dispatch_queue_pending, upc, mine, history>>

\* recv takes a batch, uncounts it, and drops it if the transport is closed.
TakeBatch(i) ==
    /\ dpc[i] = "recv"
    /\ queue[i] # <<>>
    /\ queue' = [queue EXCEPT ![i] = Tail(@)]
    /\ dispatch_queue_pending' = dispatch_queue_pending - 1
    /\ todo' = [todo EXCEPT ![i] = IF closed THEN {} ELSE Head(queue[i])]
    /\ DispatcherGoto(i, IF closed THEN "ended" ELSE "dispatch")
    /\ UNCHANGED <<closed, reader_running, listeners, ping, slots, ping_lock, reader_thread,
                   snapshot, upc, mine, history>>

\* The listeners that want packets of this kind now.
Callbacks(kind) == {l \in listeners : kind \in Flags[l]}

\* dispatch_udp_packets, for RTP and then for RTCP: the callbacks are copied
\* under the lock of listeners.
Snapshot(i) ==
    /\ dpc[i] = "dispatch"
    /\ todo[i] # {}
    /\ GilFree
    /\ LET kind == IF "rtp" \in todo[i] THEN "rtp" ELSE "rtcp" IN
         /\ todo' = [todo EXCEPT ![i] = @ \ {kind}]
         /\ snapshot' = [snapshot EXCEPT ![i] = Callbacks(kind)]
         /\ DispatcherGoto(i, IF Callbacks(kind) = {} THEN "dispatch" ELSE "call")
    /\ UNCHANGED <<closed, reader_running, listeners, ping, slots, ping_lock, reader_thread,
                   queue, dispatch_queue_pending, upc, mine, history>>

\* A listener is called and returns, or raises, which is only counted.
CallListener(i, l) ==
    /\ dpc[i] = "call"
    /\ l \in snapshot[i]
    /\ GilFree
    /\ snapshot' = [snapshot EXCEPT ![i] = @ \ {l}]
    /\ DispatcherGoto(i, IF snapshot[i] = {l} THEN "dispatch" ELSE "call")
    /\ late_calls' = [late_calls EXCEPT ![l] = IF l \in removed THEN @ + 1 ELSE @]
    /\ UNCHANGED <<closed, reader_running, listeners, ping, slots, ping_lock, reader_thread,
                   todo, queue, dispatch_queue_pending, upc, mine, starts, batches, calls,
                   late_start, removed, detached>>

BatchDone(i) ==
    /\ dpc[i] = "dispatch"
    /\ todo[i] = {}
    /\ DispatcherGoto(i, "recv")
    /\ UNCHANGED <<closed, reader_running, listeners, ping, slots, ping_lock, reader_thread,
                   todo, snapshot, queue, dispatch_queue_pending, upc, mine, history>>

-----------------------------------------------------------------------------
UserStep(u) ==
    \/ StoreSender(u) \/ SpawnDispatcher(u) \/ SpawnReader(u) \/ JoinUndone(u) \/ Register(u)
    \/ TakePing(u) \/ StopRunning(u) \/ DropSender(u) \/ TakeReader(u) \/ JoinReader(u)
    \/ TakeDispatcher(u) \/ JoinDispatcher(u) \/ CloseReturns(u)

ReaderStep(i) ==
    \/ ReaderEnds(i) \/ CheckOpen(i) \/ OfferToPing(i) \/ CloneSender(i) \/ CountPending(i)
    \/ SendBatch(i)

DispatcherStep(i) ==
    \/ DispatcherEnds(i) \/ TakeBatch(i) \/ Snapshot(i) \/ BatchDone(i)
    \/ \E l \in Listeners : CallListener(i, l)

Next ==
    \/ \E u \in Users : StartReader(u) \/ SpawnFails(u) \/ Close(u) \/ stop_ping(u) \/ UserStep(u)
    \/ \E u \in Users, l \in Listeners : remove_listener(u, l)
    \/ \E i \in Incarnations : Receive(i) \/ ReaderStep(i) \/ DispatcherStep(i)

Spec == Init /\ [][Next]_vars

\* Every thread that can take a step eventually does, and listeners return.
\* Nothing is assumed of the network or of Python threads' wish to call.
FairSpec ==
    /\ Spec
    /\ \A u \in Users : WF_vars(UserStep(u))
    /\ \A i \in Incarnations : WF_vars(ReaderStep(i)) /\ WF_vars(DispatcherStep(i))

-----------------------------------------------------------------------------
ReaderAlive(i) == rpc[i] \notin {"absent", "ended"}
DispatcherAlive(i) == dpc[i] \notin {"absent", "ended"}

\* The variables keep their types.  In particular dispatch_queue_pending, a
\* usize shared by the reader and the dispatcher, never goes below zero, and
\* a thread's channel and handle are always of an incarnation that was made.
TypeOK ==
    /\ closed \in BOOLEAN /\ reader_running \in BOOLEAN /\ ping \in BOOLEAN
    /\ listeners \subseteq Listeners /\ removed \subseteq Listeners \ listeners
    /\ {reader, dispatcher, dispatch_tx} \subseteq 0..starts
    /\ ping_lock \in Users \cup {"free"}
    /\ queue \in [Incarnations -> Seq(SUBSET {"rtp", "rtcp"})]
    /\ dispatch_queue_pending \in 0..MaxBatches
    /\ rpc \in [Incarnations -> {"absent", "top", "handle", "lock_ping", "clone_tx", "count",
                                 "send", "ended"}]
    /\ read \in [Incarnations -> SUBSET {"rtp", "rtcp"}]
    /\ sender \in [Incarnations -> 0..starts]
    /\ dpc \in [Incarnations -> {"absent", "recv", "dispatch", "call", "in_close", "ended"}]
    /\ todo \in [Incarnations -> SUBSET {"rtp", "rtcp"}]
    /\ snapshot \in [Incarnations -> SUBSET Listeners]
    /\ upc \in [Users -> {"idle"} \cup Starting \cup Stopping]
    /\ mine \in [Users -> 0..starts]
    /\ starts \in 0..MaxStarts /\ batches \in 0..MaxBatches /\ calls \in 0..MaxCalls
    /\ late_start \in BOOLEAN
    /\ late_calls \in [Listeners -> Nat]
    /\ detached \subseteq Incarnations

\* The batches in the channels: of each channel, their places in it.
Queued == UNION {{i} \X (1..Len(queue[i])) : i \in Incarnations}

\* dispatch_queue_pending is exactly the number of batches on their way to a
\* dispatcher: those in a channel and those counted and not yet sent; so it
\* can neither drift nor wrap below zero, whichever thread ends first.
PendingIsExact ==
    dispatch_queue_pending =
        Cardinality(Queued \cup ({i \in Incarnations : rpc[i] = "send"} \X {0}))

\* Once the transport was closed and no close is running, both threads are
\* gone and so is the ping, however many closes ran at once; only a dispatcher
\* one of whose listeners called close, and found its own handle in the slot, may
\* still be finishing its batch.
\* Excepted: an add_listener or start_ping that overlapped or followed the
\* close, which start_reader does not refuse.
CloseStopsThreads ==
    (closed /\ ~late_start /\ \A u \in Users : upc[u] \notin Starting \cup Stopping) =>
        /\ ~ping
        /\ \A i \in Incarnations : ~ReaderAlive(i)
        /\ \A i \in Incarnations : DispatcherAlive(i) => i \in detached

\* A listener that was removed gets at most the batch (of one kind of packets)
\* that was being delivered when remove_listener returned.
StaleCallsBounded ==
    ~late_start => \A l \in Listeners : late_calls[l] <= 1

\* The counter of the dispatch queue is exact and removed listeners fall silent,
\* however calls, reader and dispatcher interleave.
TransportConsistent == TypeOK /\ PendingIsExact /\ StaleCallsBounded

\* close always returns: the reader and the dispatcher can be joined from any
\* thread, also by concurrent closes and by a listener on the dispatcher.
CloseTerminates ==
    \A u \in Users : (upc[u] \in Stopping) ~> (upc[u] = "idle" \/ late_start)
=============================================================================

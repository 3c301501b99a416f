------------------------ MODULE UdpTransportProofs ---------------------------
(***************************************************************************)
(* For any number of Python threads, listeners, incarnations, batches and  *)
(* calls: the counter of the dispatch queue is exact, a removed listener   *)
(* falls silent, and a close that returns leaves no thread behind.         *)
(*                                                                         *)
(* The inductive invariant says, for every place between two critical      *)
(* sections, who still has to do what: which user must yet stop a thread   *)
(* that runs (Closing, ReaderHandles, DispatcherHandles), what a           *)
(* start_reader that no close overlaps finds in the slots (Slots), and     *)
(* which places in channels and readers a batch may be in (Counted).       *)
(*                                                                         *)
(* And for any number of pings (UdpPing): the account of every ping, and   *)
(* that old replies change nothing.  The account is inductive once it is   *)
(* known where the ping being sent stands (Sending), the last needs which  *)
(* number is out (Recent).                                                 *)
(***************************************************************************)
EXTENDS UdpTransport, UdpPing, FiniteSetTheorems, TLAPS

\* The types in parts, one for each way to prove them.
UserLabels == {"idle"} \cup Starting \cup Stopping
ReaderLabels == {"absent", "top", "handle", "lock_ping", "clone_tx", "count", "send", "ended"}
DispatcherLabels == {"absent", "recv", "dispatch", "call", "in_close", "ended"}

UserTypes == upc \in [Users -> UserLabels] /\ mine \in [Users -> 0..starts]

ThreadTypes == rpc \in [Incarnations -> ReaderLabels] /\ dpc \in [Incarnations -> DispatcherLabels]

SlotTypes ==
    /\ reader \in 0..starts /\ dispatcher \in 0..starts /\ dispatch_tx \in 0..starts
    /\ sender \in [Incarnations -> 0..starts]
    /\ starts \in 0..MaxStarts

FlagTypes ==
    /\ closed \in BOOLEAN /\ reader_running \in BOOLEAN /\ ping \in BOOLEAN
    /\ late_start \in BOOLEAN
    /\ ping_lock \in Users \cup {"free"}

ListenerTypes ==
    /\ listeners \subseteq Listeners /\ removed \subseteq Listeners \ listeners
    /\ detached \subseteq Incarnations
    /\ snapshot \in [Incarnations -> SUBSET Listeners]

Batches == SUBSET {"rtp", "rtcp"}

BatchTypes ==
    /\ queue \in [Incarnations -> Seq(Batches)]
    /\ read \in [Incarnations -> Batches] /\ todo \in [Incarnations -> Batches]

CounterTypes ==
    /\ late_calls \in [Listeners -> Nat]
    /\ batches \in 0..MaxBatches /\ calls \in 0..MaxCalls

Types ==
    /\ UserTypes /\ ThreadTypes /\ SlotTypes /\ FlagTypes
    /\ ListenerTypes /\ BatchTypes /\ CounterTypes

\* Where batches are: in channels, and in readers at one of these labels.
Places(S) == Queued \cup ({i \in Incarnations : rpc[i] \in S} \X {0})
Busy == {"handle", "lock_ping", "clone_tx", "count", "send"}

\* The GIL: one thread at a time is inside start_reader and its callers.
OneStarter == \A u, v \in Users : upc[u] \in Starting /\ upc[v] \in Starting => u = v

\* The threads of an incarnation that start_reader has not made are absent.
Fresh == \A i \in Incarnations : i > starts => rpc[i] = "absent" /\ dpc[i] = "absent"

\* A user that is about to spawn a thread has an incarnation without one, and
\* one that joins has the handle of an incarnation that was made.
Mine ==
    /\ \A u \in Users : upc[u] \in {"store_tx", "spawn_dispatcher", "spawn_reader"} =>
          mine[u] # None /\ rpc[mine[u]] = "absent"
    /\ \A u \in Users : upc[u] \in {"store_tx", "spawn_dispatcher"} => dpc[mine[u]] = "absent"
    /\ \A u \in Users : upc[u] \in {"undo", "join_reader", "join_dispatcher"} => mine[u] # None

\* A reader that sends has a sender.
SenderHeld == \A i \in Incarnations : rpc[i] \in {"count", "send"} => sender[i] # None

\* busy: the batches the reader and the dispatcher have not finished with,
\* of n that arrived; waiting: those of them that are counted.
Account(busy, waiting, counted, n) ==
    /\ IsFiniteSet(busy) /\ waiting \subseteq busy
    /\ n \in Nat /\ Cardinality(busy) <= n
    /\ counted = Cardinality(waiting)

Counted == Account(Places(Busy), Places({"send"}), dispatch_queue_pending, batches)

At(labels) == \E u \in Users : upc[u] \in labels

\* Once closed, whatever is not stopped yet has a close on its way to it.
Closing ==
    /\ ~closed => ~At(Stopping) /\ detached = {}
    /\ ~late_start /\ closed =>
        /\ ~At(Starting)
        /\ ping => At({"ping"})
        /\ reader_running => At({"ping", "stop"})
        /\ dispatch_tx # None => At({"ping", "stop", "drop_tx"})
        /\ reader # None => At({"ping", "stop", "drop_tx", "take_reader"})
        /\ dispatcher # None => At({"ping", "stop", "drop_tx", "take_reader", "join_reader",
                                    "take_dispatcher"})

\* A start_reader that wins the swap finds no handle of an earlier incarnation.
Slots ==
    ~late_start =>
        /\ \A u \in Users : upc[u] \in {"store_tx", "spawn_dispatcher", "spawn_reader"} =>
              reader_running /\ reader = None
        /\ \A u \in Users : upc[u] \in {"store_tx", "spawn_dispatcher"} => dispatcher = None
        /\ \A u \in Users : upc[u] = "spawn_reader" => dispatcher = mine[u]
        /\ ~closed /\ (reader # None \/ dispatcher # None) => reader_running

\* The handle of a reader that runs is in its slot or with a user that joins it.
ReaderHandles ==
    ~late_start => \A i \in Incarnations : ReaderAlive(i) =>
        reader = i \/ \E u \in Users : upc[u] = "join_reader" /\ mine[u] = i

\* So is that of a dispatcher, unless it dropped its own in a close.
DispatcherHandles ==
    ~late_start => \A i \in Incarnations : DispatcherAlive(i) =>
        \/ dispatcher = i
        \/ \E u \in Users : upc[u] \in {"join_dispatcher", "undo"} /\ mine[u] = i
        \/ i \in detached

\* One dispatcher runs at a time, and so one copy of the listeners is in use.
OneDispatcher ==
    ~late_start =>
        \A i, j \in Incarnations : DispatcherAlive(i) /\ DispatcherAlive(j) => i = j

\* A removed listener that a dispatcher may yet call has not been called late.
Silent ==
    /\ \A i \in Incarnations : snapshot[i] # {} => dpc[i] \in {"call", "in_close"}
    /\ \A l \in Listeners : l \notin removed => late_calls[l] = 0
    /\ ~late_start =>
        /\ \A l \in Listeners : late_calls[l] <= 1
        /\ \A l \in removed, i \in Incarnations : l \in snapshot[i] => late_calls[l] = 0

IInv ==
    /\ Types
    /\ OneStarter /\ Fresh /\ Mine /\ SenderHeld /\ Counted
    /\ Closing /\ Slots /\ ReaderHandles /\ DispatcherHandles /\ OneDispatcher
    /\ Silent

-----------------------------------------------------------------------------
\* Types and starts.

\* A step of any thread keeps the types of what a user's call is doing.
LEMMA UserTypesStep ==
    ASSUME UserTypes, SlotTypes, [Next]_vars
    PROVE  UserTypes'
  <1> USE UdpTransportAssumption DEF UserTypes, SlotTypes, UserLabels, Starting, Stopping,
                                     None
  <1>1. CASE UNCHANGED vars
    BY <1>1 DEF vars, reader_thread, dispatcher_thread, threads, slots, history
  <1>2. ASSUME NEW u \in Users, \/ StartReader(u) \/ StoreSender(u) \/ SpawnDispatcher(u)
                                \/ SpawnReader(u)
        PROVE  UserTypes'
    BY <1>2 DEF StartReader, StoreSender, SpawnDispatcher, SpawnReader, Call, Goto,
                reader_thread, dispatcher_thread, threads, slots, history
  <1>3. ASSUME NEW u \in Users, \/ SpawnFails(u) \/ JoinUndone(u) \/ Register(u) \/ Close(u)
        PROVE  UserTypes'
    BY <1>3 DEF SpawnFails, JoinUndone, Register, Close, Goto, reader_thread,
                dispatcher_thread, threads, slots, history
  <1>4. ASSUME NEW u \in Users, \/ TakePing(u) \/ StopRunning(u) \/ DropSender(u)
                                \/ TakeReader(u)
        PROVE  UserTypes'
    BY <1>4 DEF TakePing, StopRunning, DropSender, TakeReader, Goto, reader_thread,
                dispatcher_thread, threads, slots, history
  <1>5. ASSUME NEW u \in Users, \/ JoinReader(u) \/ TakeDispatcher(u) \/ JoinDispatcher(u)
                                \/ CloseReturns(u)
        PROVE  UserTypes'
    BY <1>5 DEF JoinReader, TakeDispatcher, JoinDispatcher, CloseReturns, Goto,
                reader_thread, dispatcher_thread, threads, slots, history
  <1>6. ASSUME NEW u \in Users, \/ stop_ping(u)
                                \/ (\E l \in Listeners : remove_listener(u, l))
        PROVE  UserTypes'
    BY <1>6 DEF stop_ping, remove_listener, Call, reader_thread, dispatcher_thread, threads,
                slots, history
  <1>7. ASSUME NEW i \in Incarnations, \/ Receive(i) \/ ReaderEnds(i) \/ CheckOpen(i)
                                       \/ OfferToPing(i) \/ CloneSender(i)
                                       \/ CountPending(i)
        PROVE  UserTypes'
    BY <1>7 DEF Receive, ReaderEnds, CheckOpen, OfferToPing, CloneSender, CountPending,
                reader_thread, dispatcher_thread, threads, slots, history
  <1>8. ASSUME NEW i \in Incarnations, \/ SendBatch(i) \/ DispatcherEnds(i) \/ TakeBatch(i)
                                       \/ Snapshot(i) \/ BatchDone(i)
                                       \/ (\E l \in Listeners : CallListener(i, l))
        PROVE  UserTypes'
    BY <1>8 DEF SendBatch, DispatcherEnds, TakeBatch, Snapshot, BatchDone, CallListener,
                Callbacks, reader_thread, dispatcher_thread, threads, slots, history
  <1> QED
    BY <1>1, <1>2, <1>3, <1>4, <1>5, <1>6, <1>7, <1>8
    DEF Next, UserStep, ReaderStep, DispatcherStep

\* A step keeps the readers and dispatchers at their places in the code.
LEMMA ThreadTypesStep ==
    ASSUME ThreadTypes, [Next]_vars
    PROVE  ThreadTypes'
  <1> USE UdpTransportAssumption DEF ThreadTypes, ReaderLabels, DispatcherLabels
  <1>1. CASE UNCHANGED vars
    BY <1>1 DEF vars, reader_thread, dispatcher_thread, threads, slots, history
  <1>2. ASSUME NEW u \in Users, \/ SpawnDispatcher(u) \/ SpawnReader(u) \/ Close(u)
                                \/ CloseReturns(u)
        PROVE  ThreadTypes'
    BY <1>2 DEF SpawnDispatcher, SpawnReader, Close, CloseReturns, Goto, reader_thread,
                dispatcher_thread, threads, slots, history
  <1>3. ASSUME NEW u \in Users, \/ StartReader(u) \/ StoreSender(u) \/ SpawnFails(u)
                                \/ JoinUndone(u) \/ Register(u) \/ stop_ping(u)
                                \/ (\E l \in Listeners : remove_listener(u, l))
        PROVE  ThreadTypes'
    BY <1>3 DEF StartReader, StoreSender, SpawnFails, JoinUndone, Register, stop_ping,
                remove_listener, Call, reader_thread, dispatcher_thread, threads, slots,
                history
  <1>4. ASSUME NEW u \in Users, \/ TakePing(u) \/ StopRunning(u) \/ DropSender(u)
                                \/ TakeReader(u) \/ JoinReader(u) \/ TakeDispatcher(u)
                                \/ JoinDispatcher(u)
        PROVE  ThreadTypes'
    BY <1>4 DEF TakePing, StopRunning, DropSender, TakeReader, JoinReader, TakeDispatcher,
                JoinDispatcher, reader_thread, dispatcher_thread, threads, slots, history
  <1>5. ASSUME NEW i \in Incarnations, \/ Receive(i) \/ ReaderEnds(i) \/ CheckOpen(i)
                                       \/ OfferToPing(i)
        PROVE  ThreadTypes'
    BY <1>5 DEF Receive, ReaderEnds, CheckOpen, OfferToPing, ReaderGoto, reader_thread,
                dispatcher_thread, threads, slots, history
  <1>6. ASSUME NEW i \in Incarnations, \/ CloneSender(i) \/ CountPending(i) \/ SendBatch(i)
                                       \/ DispatcherEnds(i)
        PROVE  ThreadTypes'
    BY <1>6 DEF CloneSender, CountPending, SendBatch, DispatcherEnds, ReaderGoto,
                DispatcherGoto, reader_thread, dispatcher_thread, threads, slots, history
  <1>7. ASSUME NEW i \in Incarnations, \/ TakeBatch(i) \/ Snapshot(i) \/ BatchDone(i)
                                       \/ (\E l \in Listeners : CallListener(i, l))
        PROVE  ThreadTypes'
    BY <1>7 DEF TakeBatch, Snapshot, BatchDone, CallListener, DispatcherGoto, Callbacks,
                reader_thread, dispatcher_thread, threads, slots, history
  <1> QED
    BY <1>1, <1>2, <1>3, <1>4, <1>5, <1>6, <1>7
    DEF Next, UserStep, ReaderStep, DispatcherStep

\* A step keeps handles and senders those of incarnations that were made.
LEMMA SlotTypesStep ==
    ASSUME SlotTypes, UserTypes, [Next]_vars
    PROVE  SlotTypes'
  <1> USE UdpTransportAssumption DEF SlotTypes, UserTypes, None
  <1>1. CASE UNCHANGED vars
    BY <1>1 DEF vars, reader_thread, dispatcher_thread, threads, slots, history
  <1>2. ASSUME NEW u \in Users, \/ StartReader(u) \/ StoreSender(u) \/ SpawnDispatcher(u)
                                \/ SpawnReader(u)
        PROVE  SlotTypes'
    BY <1>2 DEF StartReader, StoreSender, SpawnDispatcher, SpawnReader, Call, Goto,
                reader_thread, dispatcher_thread, threads, slots, history
  <1>3. ASSUME NEW u \in Users, \/ SpawnFails(u) \/ DropSender(u) \/ TakeReader(u)
                                \/ TakeDispatcher(u)
        PROVE  SlotTypes'
    BY <1>3 DEF SpawnFails, DropSender, TakeReader, TakeDispatcher, Goto, reader_thread,
                dispatcher_thread, threads, slots, history
  <1>4. ASSUME NEW u \in Users, \/ JoinUndone(u) \/ Register(u) \/ stop_ping(u)
                                \/ (\E l \in Listeners : remove_listener(u, l)) \/ Close(u)
                                \/ TakePing(u) \/ StopRunning(u) \/ JoinReader(u)
                                \/ JoinDispatcher(u) \/ CloseReturns(u)
        PROVE  SlotTypes'
    BY <1>4 DEF JoinUndone, Register, stop_ping, remove_listener, Close, TakePing,
                StopRunning, JoinReader, JoinDispatcher, CloseReturns, Call, reader_thread,
                dispatcher_thread, threads, slots, history
  <1>5. ASSUME NEW i \in Incarnations, \/ CloneSender(i) \/ SendBatch(i)
        PROVE  SlotTypes'
    <2>1. CASE CloneSender(i)
      BY <2>1 DEF CloneSender, ReaderGoto, reader_thread, dispatcher_thread, threads, slots,
                  history
    <2>2. CASE SendBatch(i)
      BY <2>2 DEF SendBatch, ReaderGoto, reader_thread, dispatcher_thread, threads, slots,
                  history
    <2> QED
      BY <1>5, <2>1, <2>2
  <1>6. ASSUME NEW i \in Incarnations, \/ Receive(i) \/ ReaderEnds(i) \/ CheckOpen(i)
                                       \/ OfferToPing(i) \/ CountPending(i)
                                       \/ DispatcherEnds(i) \/ TakeBatch(i) \/ Snapshot(i)
                                       \/ BatchDone(i)
                                       \/ (\E l \in Listeners : CallListener(i, l))
        PROVE  SlotTypes'
    BY <1>6 DEF Receive, ReaderEnds, CheckOpen, OfferToPing, CountPending, DispatcherEnds,
                TakeBatch, Snapshot, BatchDone, CallListener, Callbacks, reader_thread,
                dispatcher_thread, threads, slots, history
  <1> QED
    BY <1>1, <1>2, <1>3, <1>4, <1>5, <1>6
    DEF Next, UserStep, ReaderStep, DispatcherStep

\* A step keeps the types of the flags and of the lock of the ping slot.
LEMMA FlagTypesStep ==
    ASSUME FlagTypes, [Next]_vars
    PROVE  FlagTypes'
  <1> USE UdpTransportAssumption DEF FlagTypes
  <1>1. CASE UNCHANGED vars
    BY <1>1 DEF vars, reader_thread, dispatcher_thread, threads, slots, history
  <1>2. ASSUME NEW u \in Users, \/ StartReader(u) \/ SpawnFails(u) \/ Register(u)
                                \/ stop_ping(u)
        PROVE  FlagTypes'
    BY <1>2 DEF StartReader, SpawnFails, Register, stop_ping, Call, Goto, reader_thread,
                dispatcher_thread, threads, slots, history
  <1>3. ASSUME NEW u \in Users, \/ Close(u) \/ TakePing(u) \/ StopRunning(u)
        PROVE  FlagTypes'
    BY <1>3 DEF Close, TakePing, StopRunning, Goto, reader_thread, dispatcher_thread,
                threads, slots, history
  <1>4. ASSUME NEW u \in Users, \/ StoreSender(u) \/ SpawnDispatcher(u) \/ SpawnReader(u)
                                \/ JoinUndone(u)
                                \/ (\E l \in Listeners : remove_listener(u, l))
                                \/ DropSender(u)
        PROVE  FlagTypes'
    BY <1>4 DEF StoreSender, SpawnDispatcher, SpawnReader, JoinUndone, remove_listener,
                DropSender, Call, reader_thread, dispatcher_thread, threads, slots, history
  <1>5. ASSUME NEW u \in Users, \/ TakeReader(u) \/ JoinReader(u) \/ TakeDispatcher(u)
                                \/ JoinDispatcher(u) \/ CloseReturns(u)
        PROVE  FlagTypes'
    BY <1>5 DEF TakeReader, JoinReader, TakeDispatcher, JoinDispatcher, CloseReturns,
                reader_thread, dispatcher_thread, threads, slots, history
  <1>6. ASSUME NEW i \in Incarnations, \/ Receive(i) \/ ReaderEnds(i) \/ CheckOpen(i)
                                       \/ OfferToPing(i) \/ CloneSender(i)
                                       \/ CountPending(i)
        PROVE  FlagTypes'
    BY <1>6 DEF Receive, ReaderEnds, CheckOpen, OfferToPing, CloneSender, CountPending,
                reader_thread, dispatcher_thread, threads, slots, history
  <1>7. ASSUME NEW i \in Incarnations, \/ SendBatch(i) \/ DispatcherEnds(i) \/ TakeBatch(i)
                                       \/ Snapshot(i) \/ BatchDone(i)
                                       \/ (\E l \in Listeners : CallListener(i, l))
        PROVE  FlagTypes'
    BY <1>7 DEF SendBatch, DispatcherEnds, TakeBatch, Snapshot, BatchDone, CallListener,
                Callbacks, reader_thread, dispatcher_thread, threads, slots, history
  <1> QED
    BY <1>1, <1>2, <1>3, <1>4, <1>5, <1>6, <1>7
    DEF Next, UserStep, ReaderStep, DispatcherStep

\* A step keeps the types of the registered, removed and copied listeners.
LEMMA ListenerTypesStep ==
    ASSUME ListenerTypes, SlotTypes, [Next]_vars
    PROVE  ListenerTypes'
  <1> USE UdpTransportAssumption DEF ListenerTypes, SlotTypes, None, Incarnations
  <1>1. CASE UNCHANGED vars
    BY <1>1 DEF vars, reader_thread, dispatcher_thread, threads, slots, history
  <1>2. ASSUME NEW u \in Users, Register(u)
        PROVE  ListenerTypes'
    BY <1>2 DEF Register, Goto, reader_thread, dispatcher_thread, threads, slots, history
  <1>3. ASSUME NEW u \in Users, (\E l \in Listeners : remove_listener(u, l))
        PROVE  ListenerTypes'
    BY <1>3 DEF remove_listener, Call, reader_thread, dispatcher_thread, threads, slots,
                history
  <1>4. ASSUME NEW u \in Users, TakeDispatcher(u)
        PROVE  ListenerTypes'
    BY <1>4 DEF TakeDispatcher, Goto, reader_thread, dispatcher_thread, threads, slots,
                history
  <1>5. ASSUME NEW u \in Users, \/ StartReader(u) \/ StoreSender(u) \/ SpawnDispatcher(u)
                                \/ SpawnReader(u) \/ SpawnFails(u) \/ JoinUndone(u)
                                \/ stop_ping(u) \/ Close(u)
        PROVE  ListenerTypes'
    BY <1>5 DEF StartReader, StoreSender, SpawnDispatcher, SpawnReader, SpawnFails,
                JoinUndone, stop_ping, Close, Call, reader_thread, dispatcher_thread,
                threads, slots, history
  <1>6. ASSUME NEW u \in Users, \/ TakePing(u) \/ StopRunning(u) \/ DropSender(u)
                                \/ TakeReader(u) \/ JoinReader(u) \/ JoinDispatcher(u)
                                \/ CloseReturns(u)
        PROVE  ListenerTypes'
    BY <1>6 DEF TakePing, StopRunning, DropSender, TakeReader, JoinReader, JoinDispatcher,
                CloseReturns, reader_thread, dispatcher_thread, threads, slots, history
  <1>7. ASSUME NEW i \in Incarnations, Snapshot(i)
        PROVE  ListenerTypes'
    BY <1>7 DEF Snapshot, Callbacks, DispatcherGoto, reader_thread, dispatcher_thread,
                threads, slots, history
  <1>8. ASSUME NEW i \in Incarnations, (\E l \in Listeners : CallListener(i, l))
        PROVE  ListenerTypes'
    BY <1>8 DEF CallListener, DispatcherGoto, reader_thread, dispatcher_thread, threads,
                slots, history
  <1>9. ASSUME NEW i \in Incarnations, \/ Receive(i) \/ ReaderEnds(i) \/ CheckOpen(i)
                                       \/ OfferToPing(i) \/ CloneSender(i)
                                       \/ CountPending(i) \/ SendBatch(i)
                                       \/ DispatcherEnds(i) \/ TakeBatch(i) \/ BatchDone(i)
        PROVE  ListenerTypes'
    BY <1>9 DEF Receive, ReaderEnds, CheckOpen, OfferToPing, CloneSender, CountPending,
                SendBatch, DispatcherEnds, TakeBatch, BatchDone, reader_thread,
                dispatcher_thread, threads, slots, history
  <1> QED
    BY <1>1, <1>2, <1>3, <1>4, <1>5, <1>6, <1>7, <1>8, <1>9
    DEF Next, UserStep, ReaderStep, DispatcherStep

\* A step keeps the types of the batches, wherever they are.
LEMMA BatchTypesStep ==
    ASSUME BatchTypes, [Next]_vars
    PROVE  BatchTypes'
  <1> USE UdpTransportAssumption DEF BatchTypes
  <1>1. CASE UNCHANGED vars
    BY <1>1 DEF vars, reader_thread, dispatcher_thread, threads, slots, history
  <1>2. ASSUME NEW u \in Users, \/ StartReader(u) \/ StoreSender(u) \/ SpawnDispatcher(u)
                                \/ SpawnReader(u) \/ SpawnFails(u) \/ JoinUndone(u)
                                \/ Register(u) \/ stop_ping(u)
                                \/ (\E l \in Listeners : remove_listener(u, l))
        PROVE  BatchTypes'
    BY <1>2 DEF StartReader, StoreSender, SpawnDispatcher, SpawnReader, SpawnFails,
                JoinUndone, Register, stop_ping, remove_listener, Call, reader_thread,
                dispatcher_thread, threads, slots, history
  <1>3. ASSUME NEW u \in Users, \/ Close(u) \/ TakePing(u) \/ StopRunning(u)
                                \/ DropSender(u) \/ TakeReader(u) \/ JoinReader(u)
                                \/ TakeDispatcher(u) \/ JoinDispatcher(u) \/ CloseReturns(u)
        PROVE  BatchTypes'
    BY <1>3 DEF Close, TakePing, StopRunning, DropSender, TakeReader, JoinReader,
                TakeDispatcher, JoinDispatcher, CloseReturns, reader_thread,
                dispatcher_thread, threads, slots, history
  <1>4. ASSUME NEW i \in Incarnations, \/ ReaderEnds(i) \/ CheckOpen(i) \/ OfferToPing(i)
                                       \/ CloneSender(i) \/ CountPending(i)
                                       \/ DispatcherEnds(i) \/ BatchDone(i)
                                       \/ (\E l \in Listeners : CallListener(i, l))
        PROVE  BatchTypes'
    BY <1>4 DEF ReaderEnds, CheckOpen, OfferToPing, CloneSender, CountPending,
                DispatcherEnds, BatchDone, CallListener, reader_thread, dispatcher_thread,
                threads, slots, history
  <1>5. ASSUME NEW i \in Incarnations, Receive(i)
        PROVE  BatchTypes'
    <2>1. PICK kinds \in Batches : read' = [read EXCEPT ![i] = kinds]
      BY <1>5 DEF Receive, Batches
    <2> QED
      BY <1>5, <2>1 DEF Receive, ReaderGoto, threads, dispatcher_thread
  <1>6. ASSUME NEW i \in Incarnations, SendBatch(i)
        PROVE  BatchTypes'
    <2>1. \A j \in Incarnations : Append(queue[j], read[i]) \in Seq(Batches)
      OBVIOUS
    <2>2. queue' = queue \/ queue' = [queue EXCEPT ![sender[i]] = Append(@, read[i])]
      BY <1>6 DEF SendBatch
    <2>3. UNCHANGED <<read, todo>>
      BY <1>6 DEF SendBatch, dispatcher_thread
    <2>4. ASSUME NEW j \in Incarnations PROVE queue'[j] \in Seq(Batches)
      BY <2>1, <2>2
    <2>5. queue' = [j \in Incarnations |-> queue'[j]]
      BY <2>2
    <2> QED
      BY <2>3, <2>4, <2>5
  <1>7. ASSUME NEW i \in Incarnations, TakeBatch(i)
        PROVE  BatchTypes'
    <2>1. Head(queue[i]) \in Batches /\ Tail(queue[i]) \in Seq(Batches) /\ {} \in Batches
      BY <1>7 DEF TakeBatch, Batches
    <2> QED
      BY <1>7, <2>1 DEF TakeBatch, reader_thread
  <1>8. ASSUME NEW i \in Incarnations, Snapshot(i)
        PROVE  BatchTypes'
    <2>1. \A kind : todo[i] \ {kind} \in Batches
      BY DEF Batches
    <2> QED
      BY <1>8, <2>1 DEF Snapshot, reader_thread
  <1> QED
    BY <1>1, <1>2, <1>3, <1>4, <1>5, <1>6, <1>7, <1>8
    DEF Next, UserStep, ReaderStep, DispatcherStep

\* A step keeps the types of the history's counters.
LEMMA CounterTypesStep ==
    ASSUME CounterTypes, [Next]_vars
    PROVE  CounterTypes'
  <1> USE UdpTransportAssumption DEF CounterTypes
  <1>1. CASE UNCHANGED vars
    BY <1>1 DEF vars, reader_thread, dispatcher_thread, threads, slots, history
  <1>2. ASSUME NEW u \in Users, StartReader(u)
        PROVE  CounterTypes'
    BY <1>2 DEF StartReader, Call, Goto, reader_thread, dispatcher_thread, threads, slots,
                history
  <1>3. ASSUME NEW u \in Users, stop_ping(u)
        PROVE  CounterTypes'
    BY <1>3 DEF stop_ping, Call, reader_thread, dispatcher_thread, threads, slots, history
  <1>4. ASSUME NEW u \in Users, (\E l \in Listeners : remove_listener(u, l))
        PROVE  CounterTypes'
    BY <1>4 DEF remove_listener, Call, reader_thread, dispatcher_thread, threads, slots,
                history
  <1>5. ASSUME NEW u \in Users, Close(u)
        PROVE  CounterTypes'
    BY <1>5 DEF Close, Goto, reader_thread, dispatcher_thread, threads, slots, history
  <1>6. ASSUME NEW u \in Users, \/ StoreSender(u) \/ SpawnDispatcher(u) \/ SpawnReader(u)
                                \/ SpawnFails(u) \/ JoinUndone(u) \/ Register(u)
                                \/ TakePing(u)
        PROVE  CounterTypes'
    BY <1>6 DEF StoreSender, SpawnDispatcher, SpawnReader, SpawnFails, JoinUndone, Register,
                TakePing, reader_thread, dispatcher_thread, threads, slots, history
  <1>7. ASSUME NEW u \in Users, \/ StopRunning(u) \/ DropSender(u) \/ TakeReader(u)
                                \/ JoinReader(u) \/ TakeDispatcher(u) \/ JoinDispatcher(u)
                                \/ CloseReturns(u)
        PROVE  CounterTypes'
    BY <1>7 DEF StopRunning, DropSender, TakeReader, JoinReader, TakeDispatcher,
                JoinDispatcher, CloseReturns, reader_thread, dispatcher_thread, threads,
                slots, history
  <1>8. ASSUME NEW i \in Incarnations, Receive(i)
        PROVE  CounterTypes'
    BY <1>8 DEF Receive, ReaderGoto, reader_thread, dispatcher_thread, threads, slots,
                history
  <1>9. ASSUME NEW i \in Incarnations, \/ ReaderEnds(i) \/ CheckOpen(i) \/ OfferToPing(i)
                                       \/ CloneSender(i) \/ CountPending(i) \/ SendBatch(i)
                                       \/ DispatcherEnds(i) \/ TakeBatch(i) \/ Snapshot(i)
                                       \/ BatchDone(i)
        PROVE  CounterTypes'
    BY <1>9 DEF ReaderEnds, CheckOpen, OfferToPing, CloneSender, CountPending, SendBatch,
                DispatcherEnds, TakeBatch, Snapshot, BatchDone, Callbacks, reader_thread,
                dispatcher_thread, threads, slots, history
  <1>10. ASSUME NEW i \in Incarnations, (\E l \in Listeners : CallListener(i, l))
         PROVE  CounterTypes'
    <2>1. PICK l \in Listeners : CallListener(i, l)
      BY <1>10
    <2>2. late_calls[l] \in Nat /\ late_calls[l] + 1 \in Nat
      OBVIOUS
    <2> QED
      BY <2>1, <2>2 DEF CallListener
  <1> QED
    BY <1>1, <1>2, <1>3, <1>4, <1>5, <1>6, <1>7, <1>8, <1>9, <1>10
    DEF Next, UserStep, ReaderStep, DispatcherStep

\* The GIL lets one thread at a time be inside start_reader and its callers.
LEMMA OneStarterStep ==
    ASSUME UserTypes, OneStarter, [Next]_vars
    PROVE  OneStarter'
  <1> USE UdpTransportAssumption DEF OneStarter, Starting, UserTypes, GilFree
  <1>1. CASE UNCHANGED vars
    BY <1>1 DEF vars, reader_thread, dispatcher_thread, threads, slots, history
  <1>2. ASSUME NEW u \in Users, \/ StartReader(u) \/ StoreSender(u) \/ SpawnDispatcher(u)
                                \/ SpawnReader(u)
        PROVE  OneStarter'
    BY <1>2 DEF StartReader, StoreSender, SpawnDispatcher, SpawnReader, Call, Goto,
                reader_thread, dispatcher_thread, threads, slots, history
  <1>3. ASSUME NEW u \in Users, \/ SpawnFails(u) \/ JoinUndone(u) \/ Register(u) \/ Close(u)
        PROVE  OneStarter'
    BY <1>3 DEF SpawnFails, JoinUndone, Register, Close, Goto, reader_thread,
                dispatcher_thread, threads, slots, history
  <1>4. ASSUME NEW u \in Users, \/ TakePing(u) \/ StopRunning(u) \/ DropSender(u)
                                \/ TakeReader(u)
        PROVE  OneStarter'
    BY <1>4 DEF TakePing, StopRunning, DropSender, TakeReader, Goto, reader_thread,
                dispatcher_thread, threads, slots, history
  <1>5. ASSUME NEW u \in Users, \/ JoinReader(u) \/ TakeDispatcher(u) \/ JoinDispatcher(u)
                                \/ CloseReturns(u)
        PROVE  OneStarter'
    BY <1>5 DEF JoinReader, TakeDispatcher, JoinDispatcher, CloseReturns, Goto,
                reader_thread, dispatcher_thread, threads, slots, history
  <1>6. ASSUME NEW u \in Users, \/ stop_ping(u)
                                \/ (\E l \in Listeners : remove_listener(u, l))
        PROVE  OneStarter'
    BY <1>6 DEF stop_ping, remove_listener, Call, reader_thread, dispatcher_thread, threads,
                slots, history
  <1>7. ASSUME NEW i \in Incarnations, \/ Receive(i) \/ ReaderEnds(i) \/ CheckOpen(i)
                                       \/ OfferToPing(i) \/ CloneSender(i)
                                       \/ CountPending(i)
        PROVE  OneStarter'
    BY <1>7 DEF Receive, ReaderEnds, CheckOpen, OfferToPing, CloneSender, CountPending,
                reader_thread, dispatcher_thread, threads, slots, history
  <1>8. ASSUME NEW i \in Incarnations, \/ SendBatch(i) \/ DispatcherEnds(i) \/ TakeBatch(i)
                                       \/ Snapshot(i) \/ BatchDone(i)
                                       \/ (\E l \in Listeners : CallListener(i, l))
        PROVE  OneStarter'
    BY <1>8 DEF SendBatch, DispatcherEnds, TakeBatch, Snapshot, BatchDone, CallListener,
                Callbacks, reader_thread, dispatcher_thread, threads, slots, history
  <1> QED
    BY <1>1, <1>2, <1>3, <1>4, <1>5, <1>6, <1>7, <1>8
    DEF Next, UserStep, ReaderStep, DispatcherStep

\* No thread of an incarnation runs before start_reader makes it.
LEMMA FreshStep ==
    ASSUME Types, Mine, Fresh, [Next]_vars
    PROVE  Fresh'
  <1> USE UdpTransportAssumption DEF Mine, Fresh, Types, UserTypes, ThreadTypes, SlotTypes,
                                     None, Incarnations
  <1>1. CASE UNCHANGED vars
    BY <1>1 DEF vars, reader_thread, dispatcher_thread, threads, slots, history
  <1>2. ASSUME NEW u \in Users, StartReader(u)
        PROVE  Fresh'
    BY <1>2 DEF StartReader, Call, Goto, reader_thread, dispatcher_thread, threads, slots,
                history
  <1>3. ASSUME NEW u \in Users, SpawnDispatcher(u)
        PROVE  Fresh'
    BY <1>3 DEF SpawnDispatcher, Goto, reader_thread, dispatcher_thread, threads, slots,
                history
  <1>4. ASSUME NEW u \in Users, SpawnReader(u)
        PROVE  Fresh'
    BY <1>4 DEF SpawnReader, Goto, reader_thread, dispatcher_thread, threads, slots, history
  <1>5. ASSUME NEW u \in Users, Close(u)
        PROVE  Fresh'
    BY <1>5 DEF Close, Goto, reader_thread, dispatcher_thread, threads, slots, history
  <1>6. ASSUME NEW u \in Users, CloseReturns(u)
        PROVE  Fresh'
    BY <1>6 DEF CloseReturns, Goto, reader_thread, dispatcher_thread, threads, slots,
                history
  <1>7. ASSUME NEW u \in Users, \/ StoreSender(u) \/ SpawnFails(u) \/ JoinUndone(u)
                                \/ Register(u) \/ stop_ping(u)
                                \/ (\E l \in Listeners : remove_listener(u, l))
                                \/ TakePing(u)
        PROVE  Fresh'
    BY <1>7 DEF StoreSender, SpawnFails, JoinUndone, Register, stop_ping, remove_listener,
                TakePing, Call, reader_thread, dispatcher_thread, threads, slots, history
  <1>8. ASSUME NEW u \in Users, \/ StopRunning(u) \/ DropSender(u) \/ TakeReader(u)
                                \/ JoinReader(u) \/ TakeDispatcher(u) \/ JoinDispatcher(u)
        PROVE  Fresh'
    BY <1>8 DEF StopRunning, DropSender, TakeReader, JoinReader, TakeDispatcher,
                JoinDispatcher, reader_thread, dispatcher_thread, threads, slots, history
  <1>9. ASSUME NEW i \in Incarnations, Receive(i)
        PROVE  Fresh'
    BY <1>9 DEF Receive, ReaderGoto, reader_thread, dispatcher_thread, threads, slots,
                history
  <1>10. ASSUME NEW i \in Incarnations, ReaderEnds(i)
         PROVE  Fresh'
    BY <1>10 DEF ReaderEnds, ReaderGoto, reader_thread, dispatcher_thread, threads, slots,
                 history
  <1>11. ASSUME NEW i \in Incarnations, CheckOpen(i)
         PROVE  Fresh'
    BY <1>11 DEF CheckOpen, ReaderGoto, reader_thread, dispatcher_thread, threads, slots,
                 history
  <1>12. ASSUME NEW i \in Incarnations, OfferToPing(i)
         PROVE  Fresh'
    BY <1>12 DEF OfferToPing, ReaderGoto, reader_thread, dispatcher_thread, threads, slots,
                 history
  <1>13. ASSUME NEW i \in Incarnations, CloneSender(i)
         PROVE  Fresh'
    BY <1>13 DEF CloneSender, ReaderGoto, reader_thread, dispatcher_thread, threads, slots,
                 history
  <1>14. ASSUME NEW i \in Incarnations, CountPending(i)
         PROVE  Fresh'
    BY <1>14 DEF CountPending, ReaderGoto, reader_thread, dispatcher_thread, threads, slots,
                 history
  <1>15. ASSUME NEW i \in Incarnations, SendBatch(i)
         PROVE  Fresh'
    BY <1>15 DEF SendBatch, ReaderGoto, reader_thread, dispatcher_thread, threads, slots,
                 history
  <1>16. ASSUME NEW i \in Incarnations, DispatcherEnds(i)
         PROVE  Fresh'
    BY <1>16 DEF DispatcherEnds, DispatcherGoto, reader_thread, dispatcher_thread, threads,
                 slots, history
  <1>17. ASSUME NEW i \in Incarnations, TakeBatch(i)
         PROVE  Fresh'
    BY <1>17 DEF TakeBatch, DispatcherGoto, reader_thread, dispatcher_thread, threads,
                 slots, history
  <1>18. ASSUME NEW i \in Incarnations, Snapshot(i)
         PROVE  Fresh'
    BY <1>18 DEF Snapshot, Callbacks, DispatcherGoto, reader_thread, dispatcher_thread,
                 threads, slots, history
  <1>19. ASSUME NEW i \in Incarnations, BatchDone(i)
         PROVE  Fresh'
    BY <1>19 DEF BatchDone, DispatcherGoto, reader_thread, dispatcher_thread, threads,
                 slots, history
  <1>20. ASSUME NEW i \in Incarnations, (\E l \in Listeners : CallListener(i, l))
         PROVE  Fresh'
    BY <1>20 DEF CallListener, DispatcherGoto, reader_thread, dispatcher_thread, threads,
                 slots, history
  <1> QED
    BY <1>1, <1>2, <1>3, <1>4, <1>5, <1>6, <1>7, <1>8, <1>9, <1>10, <1>11, <1>12, <1>13,
       <1>14, <1>15, <1>16, <1>17, <1>18, <1>19, <1>20
    DEF Next, UserStep, ReaderStep, DispatcherStep

\* A start_reader spawns threads of its own incarnation only, and only once.
LEMMA MineStep ==
    ASSUME Types, OneStarter, Fresh, Mine, [Next]_vars
    PROVE  Mine'
  <1> USE UdpTransportAssumption DEF Mine, OneStarter, Fresh, Types, UserTypes, ThreadTypes,
                                     SlotTypes, Starting, None, Incarnations
  <1>1. CASE UNCHANGED vars
    BY <1>1 DEF vars, reader_thread, dispatcher_thread, threads, slots, history
  <1>2. ASSUME NEW u \in Users, StoreSender(u)
        PROVE  Mine'
    BY <1>2 DEF StoreSender, Goto, reader_thread, dispatcher_thread, threads, slots, history
  <1>3. ASSUME NEW u \in Users, SpawnDispatcher(u)
        PROVE  Mine'
    BY <1>3 DEF SpawnDispatcher, Goto, reader_thread, dispatcher_thread, threads, slots,
                history
  <1>4. ASSUME NEW u \in Users, SpawnReader(u)
        PROVE  Mine'
    BY <1>4 DEF SpawnReader, Goto, reader_thread, dispatcher_thread, threads, slots, history
  <1>5. ASSUME NEW u \in Users, SpawnFails(u)
        PROVE  Mine'
    BY <1>5 DEF SpawnFails, Goto, reader_thread, dispatcher_thread, threads, slots, history
  <1>6. ASSUME NEW u \in Users, JoinUndone(u)
        PROVE  Mine'
    BY <1>6 DEF JoinUndone, Goto, reader_thread, dispatcher_thread, threads, slots, history
  <1>7. ASSUME NEW u \in Users, Register(u)
        PROVE  Mine'
    BY <1>7 DEF Register, Goto, reader_thread, dispatcher_thread, threads, slots, history
  <1>8. ASSUME NEW u \in Users, TakePing(u)
        PROVE  Mine'
    BY <1>8 DEF TakePing, Goto, reader_thread, dispatcher_thread, threads, slots, history
  <1>9. ASSUME NEW u \in Users, StopRunning(u)
        PROVE  Mine'
    BY <1>9 DEF StopRunning, Goto, reader_thread, dispatcher_thread, threads, slots, history
  <1>10. ASSUME NEW u \in Users, DropSender(u)
         PROVE  Mine'
    BY <1>10 DEF DropSender, Goto, reader_thread, dispatcher_thread, threads, slots, history
  <1>11. ASSUME NEW u \in Users, TakeReader(u)
         PROVE  Mine'
    BY <1>11 DEF TakeReader, Goto, reader_thread, dispatcher_thread, threads, slots, history
  <1>12. ASSUME NEW u \in Users, JoinReader(u)
         PROVE  Mine'
    BY <1>12 DEF JoinReader, Goto, reader_thread, dispatcher_thread, threads, slots, history
  <1>13. ASSUME NEW u \in Users, TakeDispatcher(u)
         PROVE  Mine'
    BY <1>13 DEF TakeDispatcher, Goto, reader_thread, dispatcher_thread, threads, slots,
                 history
  <1>14. ASSUME NEW u \in Users, JoinDispatcher(u)
         PROVE  Mine'
    BY <1>14 DEF JoinDispatcher, Goto, reader_thread, dispatcher_thread, threads, slots,
                 history
  <1>15. ASSUME NEW u \in Users, CloseReturns(u)
         PROVE  Mine'
    BY <1>15 DEF CloseReturns, Goto, reader_thread, dispatcher_thread, threads, slots,
                 history
  <1>16. ASSUME NEW u \in Users, \/ stop_ping(u)
                                 \/ (\E l \in Listeners : remove_listener(u, l))
         PROVE  Mine'
    BY <1>16 DEF stop_ping, remove_listener, Call, reader_thread, dispatcher_thread,
                 threads, slots, history
  <1>17. ASSUME NEW u \in Users, StartReader(u)
         PROVE  Mine'
    <2>1. CASE reader_running
      BY <1>17, <2>1 DEF StartReader, Goto, threads, reader_thread, dispatcher_thread
    <2>2. CASE ~reader_running
      <3>1. starts + 1 \in Incarnations /\ rpc[starts + 1] = "absent" /\ dpc[starts + 1] = "absent"
        BY <1>17, <2>2 DEF StartReader
      <3>2. /\ upc' = [upc EXCEPT ![u] = "store_tx"] /\ mine' = [mine EXCEPT ![u] = starts + 1]
            /\ UNCHANGED <<rpc, dpc>>
        BY <1>17, <2>2 DEF StartReader, Goto, threads, reader_thread, dispatcher_thread
      <3> QED
        BY <3>1, <3>2
    <2> QED
      BY <2>1, <2>2
  <1>18. ASSUME NEW u \in Users, Close(u)
         PROVE  Mine'
    <2>1. upc' = [upc EXCEPT ![u] = "ping"] /\ UNCHANGED <<mine, rpc>>
      BY <1>18 DEF Close, Goto, reader_thread
    <2>2. \A i \in Incarnations : dpc[i] = "absent" => dpc'[i] = "absent"
      BY <1>18 DEF Close
    <2>3. \A v \in Users : upc[v] \in {"store_tx", "spawn_dispatcher"} => mine[v] \in Incarnations
      OBVIOUS
    <2> QED
      BY <2>1, <2>2, <2>3
  <1>19. ASSUME NEW i \in Incarnations, Receive(i)
         PROVE  Mine'
    BY <1>19 DEF Receive, ReaderGoto, reader_thread, dispatcher_thread, threads, slots,
                 history
  <1>20. ASSUME NEW i \in Incarnations, ReaderEnds(i)
         PROVE  Mine'
    BY <1>20 DEF ReaderEnds, ReaderGoto, reader_thread, dispatcher_thread, threads, slots,
                 history
  <1>21. ASSUME NEW i \in Incarnations, CheckOpen(i)
         PROVE  Mine'
    BY <1>21 DEF CheckOpen, ReaderGoto, reader_thread, dispatcher_thread, threads, slots,
                 history
  <1>22. ASSUME NEW i \in Incarnations, OfferToPing(i)
         PROVE  Mine'
    BY <1>22 DEF OfferToPing, ReaderGoto, reader_thread, dispatcher_thread, threads, slots,
                 history
  <1>23. ASSUME NEW i \in Incarnations, CloneSender(i)
         PROVE  Mine'
    BY <1>23 DEF CloneSender, ReaderGoto, reader_thread, dispatcher_thread, threads, slots,
                 history
  <1>24. ASSUME NEW i \in Incarnations, CountPending(i)
         PROVE  Mine'
    BY <1>24 DEF CountPending, ReaderGoto, reader_thread, dispatcher_thread, threads, slots,
                 history
  <1>25. ASSUME NEW i \in Incarnations, SendBatch(i)
         PROVE  Mine'
    BY <1>25 DEF SendBatch, ReaderGoto, reader_thread, dispatcher_thread, threads, slots,
                 history
  <1>26. ASSUME NEW i \in Incarnations, DispatcherEnds(i)
         PROVE  Mine'
    BY <1>26 DEF DispatcherEnds, DispatcherGoto, reader_thread, dispatcher_thread, threads,
                 slots, history
  <1>27. ASSUME NEW i \in Incarnations, TakeBatch(i)
         PROVE  Mine'
    BY <1>27 DEF TakeBatch, DispatcherGoto, reader_thread, dispatcher_thread, threads,
                 slots, history
  <1>28. ASSUME NEW i \in Incarnations, Snapshot(i)
         PROVE  Mine'
    BY <1>28 DEF Snapshot, Callbacks, DispatcherGoto, reader_thread, dispatcher_thread,
                 threads, slots, history
  <1>29. ASSUME NEW i \in Incarnations, BatchDone(i)
         PROVE  Mine'
    BY <1>29 DEF BatchDone, DispatcherGoto, reader_thread, dispatcher_thread, threads,
                 slots, history
  <1>30. ASSUME NEW i \in Incarnations, (\E l \in Listeners : CallListener(i, l))
         PROVE  Mine'
    BY <1>30 DEF CallListener, DispatcherGoto, reader_thread, dispatcher_thread, threads,
                 slots, history
  <1> QED
    BY <1>1, <1>2, <1>3, <1>4, <1>5, <1>6, <1>7, <1>8, <1>9, <1>10, <1>11, <1>12, <1>13,
       <1>14, <1>15, <1>16, <1>17, <1>18, <1>19, <1>20, <1>21, <1>22, <1>23, <1>24, <1>25,
       <1>26, <1>27, <1>28, <1>29, <1>30
    DEF Next, UserStep, ReaderStep, DispatcherStep

\* A reader sends only through a sender that it has cloned.
LEMMA SenderHeldStep ==
    ASSUME Types, Mine, SenderHeld, [Next]_vars
    PROVE  SenderHeld'
  <1> USE UdpTransportAssumption DEF SenderHeld, Types, UserTypes, ThreadTypes, SlotTypes,
                                     Mine, None, Incarnations
  <1>1. CASE UNCHANGED vars
    BY <1>1 DEF vars, reader_thread, dispatcher_thread, threads, slots, history
  <1>2. ASSUME NEW u \in Users, SpawnReader(u)
        PROVE  SenderHeld'
    BY <1>2 DEF SpawnReader, Goto, reader_thread, dispatcher_thread, threads, slots, history
  <1>3. ASSUME NEW u \in Users, \/ StartReader(u) \/ StoreSender(u) \/ SpawnDispatcher(u)
                                \/ SpawnFails(u) \/ JoinUndone(u) \/ Register(u)
                                \/ stop_ping(u)
                                \/ (\E l \in Listeners : remove_listener(u, l)) \/ Close(u)
        PROVE  SenderHeld'
    BY <1>3 DEF StartReader, StoreSender, SpawnDispatcher, SpawnFails, JoinUndone, Register,
                stop_ping, remove_listener, Close, Call, reader_thread, dispatcher_thread,
                threads, slots, history
  <1>4. ASSUME NEW u \in Users, \/ TakePing(u) \/ StopRunning(u) \/ DropSender(u)
                                \/ TakeReader(u) \/ JoinReader(u) \/ TakeDispatcher(u)
                                \/ JoinDispatcher(u) \/ CloseReturns(u)
        PROVE  SenderHeld'
    BY <1>4 DEF TakePing, StopRunning, DropSender, TakeReader, JoinReader, TakeDispatcher,
                JoinDispatcher, CloseReturns, reader_thread, dispatcher_thread, threads,
                slots, history
  <1>5. ASSUME NEW i \in Incarnations, Receive(i)
        PROVE  SenderHeld'
    BY <1>5 DEF Receive, ReaderGoto, reader_thread, dispatcher_thread, threads, slots,
                history
  <1>6. ASSUME NEW i \in Incarnations, ReaderEnds(i)
        PROVE  SenderHeld'
    BY <1>6 DEF ReaderEnds, ReaderGoto, reader_thread, dispatcher_thread, threads, slots,
                history
  <1>7. ASSUME NEW i \in Incarnations, CheckOpen(i)
        PROVE  SenderHeld'
    BY <1>7 DEF CheckOpen, ReaderGoto, reader_thread, dispatcher_thread, threads, slots,
                history
  <1>8. ASSUME NEW i \in Incarnations, OfferToPing(i)
        PROVE  SenderHeld'
    BY <1>8 DEF OfferToPing, ReaderGoto, reader_thread, dispatcher_thread, threads, slots,
                history
  <1>9. ASSUME NEW i \in Incarnations, CloneSender(i)
        PROVE  SenderHeld'
    BY <1>9 DEF CloneSender, ReaderGoto, reader_thread, dispatcher_thread, threads, slots,
                history
  <1>10. ASSUME NEW i \in Incarnations, CountPending(i)
         PROVE  SenderHeld'
    BY <1>10 DEF CountPending, ReaderGoto, reader_thread, dispatcher_thread, threads, slots,
                 history
  <1>11. ASSUME NEW i \in Incarnations, SendBatch(i)
         PROVE  SenderHeld'
    BY <1>11 DEF SendBatch, ReaderGoto, reader_thread, dispatcher_thread, threads, slots,
                 history
  <1>12. ASSUME NEW i \in Incarnations, \/ DispatcherEnds(i) \/ TakeBatch(i) \/ Snapshot(i)
                                        \/ BatchDone(i)
                                        \/ (\E l \in Listeners : CallListener(i, l))
         PROVE  SenderHeld'
    BY <1>12 DEF DispatcherEnds, TakeBatch, Snapshot, BatchDone, CallListener, Callbacks,
                 reader_thread, dispatcher_thread, threads, slots, history
  <1> QED
    BY <1>1, <1>2, <1>3, <1>4, <1>5, <1>6, <1>7, <1>8, <1>9, <1>10, <1>11, <1>12
    DEF Next, UserStep, ReaderStep, DispatcherStep

-----------------------------------------------------------------------------
\* Closing, and calls of listeners.

\* A step of any thread leaves to some close whatever it still has to stop.
LEMMA ClosingStep ==
    ASSUME UserTypes, Closing, [Next]_vars
    PROVE  Closing'
  <1> USE UdpTransportAssumption DEF Closing, At, Starting, Stopping, None, UserTypes,
                                     IsCurrentThread
  <1>1. CASE UNCHANGED vars
    BY <1>1 DEF vars, reader_thread, dispatcher_thread, threads, slots, history
  <1>2. ASSUME NEW u \in Users, StartReader(u)
        PROVE  Closing'
    BY <1>2 DEF StartReader, Call, Goto, reader_thread, dispatcher_thread, threads, slots,
                history
  <1>3. ASSUME NEW u \in Users, StoreSender(u)
        PROVE  Closing'
    BY <1>3 DEF StoreSender, Goto, reader_thread, dispatcher_thread, threads, slots, history
  <1>4. ASSUME NEW u \in Users, SpawnDispatcher(u)
        PROVE  Closing'
    BY <1>4 DEF SpawnDispatcher, Goto, reader_thread, dispatcher_thread, threads, slots,
                history
  <1>5. ASSUME NEW u \in Users, SpawnReader(u)
        PROVE  Closing'
    BY <1>5 DEF SpawnReader, Goto, reader_thread, dispatcher_thread, threads, slots, history
  <1>6. ASSUME NEW u \in Users, SpawnFails(u)
        PROVE  Closing'
    BY <1>6 DEF SpawnFails, Goto, reader_thread, dispatcher_thread, threads, slots, history
  <1>7. ASSUME NEW u \in Users, JoinUndone(u)
        PROVE  Closing'
    BY <1>7 DEF JoinUndone, Goto, reader_thread, dispatcher_thread, threads, slots, history
  <1>8. ASSUME NEW u \in Users, Register(u)
        PROVE  Closing'
    BY <1>8 DEF Register, Goto, reader_thread, dispatcher_thread, threads, slots, history
  <1>9. ASSUME NEW u \in Users, stop_ping(u)
        PROVE  Closing'
    BY <1>9 DEF stop_ping, Call, reader_thread, dispatcher_thread, threads, slots, history
  <1>10. ASSUME NEW u \in Users, Close(u)
         PROVE  Closing'
    BY <1>10 DEF Close, Goto, reader_thread, dispatcher_thread, threads, slots, history
  <1>11. ASSUME NEW u \in Users, TakePing(u)
         PROVE  Closing'
    BY <1>11 DEF TakePing, Goto, reader_thread, dispatcher_thread, threads, slots, history
  <1>12. ASSUME NEW u \in Users, StopRunning(u)
         PROVE  Closing'
    BY <1>12 DEF StopRunning, Goto, reader_thread, dispatcher_thread, threads, slots,
                 history
  <1>13. ASSUME NEW u \in Users, DropSender(u)
         PROVE  Closing'
    BY <1>13 DEF DropSender, Goto, reader_thread, dispatcher_thread, threads, slots, history
  <1>14. ASSUME NEW u \in Users, TakeReader(u)
         PROVE  Closing'
    BY <1>14 DEF TakeReader, Goto, reader_thread, dispatcher_thread, threads, slots, history
  <1>15. ASSUME NEW u \in Users, JoinReader(u)
         PROVE  Closing'
    BY <1>15 DEF JoinReader, Goto, reader_thread, dispatcher_thread, threads, slots, history
  <1>16. ASSUME NEW u \in Users, TakeDispatcher(u)
         PROVE  Closing'
    BY <1>16 DEF TakeDispatcher, Goto, reader_thread, dispatcher_thread, threads, slots,
                 history
  <1>17. ASSUME NEW u \in Users, JoinDispatcher(u)
         PROVE  Closing'
    BY <1>17 DEF JoinDispatcher, Goto, reader_thread, dispatcher_thread, threads, slots,
                 history
  <1>18. ASSUME NEW u \in Users, CloseReturns(u)
         PROVE  Closing'
    BY <1>18 DEF CloseReturns, Goto, reader_thread, dispatcher_thread, threads, slots,
                 history
  <1>19. ASSUME NEW u \in Users, (\E l \in Listeners : remove_listener(u, l))
         PROVE  Closing'
    BY <1>19 DEF remove_listener, Call, reader_thread, dispatcher_thread, threads, slots,
                 history
  <1>20. ASSUME NEW i \in Incarnations, \/ Receive(i) \/ ReaderEnds(i) \/ CheckOpen(i)
                                        \/ OfferToPing(i) \/ CloneSender(i)
                                        \/ CountPending(i)
         PROVE  Closing'
    BY <1>20 DEF Receive, ReaderEnds, CheckOpen, OfferToPing, CloneSender, CountPending,
                 reader_thread, dispatcher_thread, threads, slots, history
  <1>21. ASSUME NEW i \in Incarnations, \/ SendBatch(i) \/ DispatcherEnds(i) \/ TakeBatch(i)
                                        \/ Snapshot(i) \/ BatchDone(i)
                                        \/ (\E l \in Listeners : CallListener(i, l))
         PROVE  Closing'
    BY <1>21 DEF SendBatch, DispatcherEnds, TakeBatch, Snapshot, BatchDone, CallListener,
                 Callbacks, reader_thread, dispatcher_thread, threads, slots, history
  <1> QED
    BY <1>1, <1>2, <1>3, <1>4, <1>5, <1>6, <1>7, <1>8, <1>9, <1>10, <1>11, <1>12, <1>13,
       <1>14, <1>15, <1>16, <1>17, <1>18, <1>19, <1>20, <1>21
    DEF Next, UserStep, ReaderStep, DispatcherStep

\* A start_reader that no close overlaps finds the slots empty.
LEMMA SlotsStep ==
    ASSUME UserTypes, SlotTypes, OneStarter, Closing, Slots, [Next]_vars
    PROVE  Slots'
  <1> USE UdpTransportAssumption DEF UserTypes, SlotTypes, OneStarter, Closing, Slots, At,
                                     Starting, Stopping, None
  <1>1. CASE UNCHANGED vars
    BY <1>1 DEF vars, reader_thread, dispatcher_thread, threads, slots, history
  <1>2. ASSUME NEW u \in Users, StartReader(u)
        PROVE  Slots'
    BY <1>2 DEF StartReader, Call, Goto, reader_thread, dispatcher_thread, threads, slots,
                history
  <1>3. ASSUME NEW u \in Users, StoreSender(u)
        PROVE  Slots'
    BY <1>3 DEF StoreSender, Goto, reader_thread, dispatcher_thread, threads, slots, history
  <1>4. ASSUME NEW u \in Users, SpawnDispatcher(u)
        PROVE  Slots'
    BY <1>4 DEF SpawnDispatcher, Goto, reader_thread, dispatcher_thread, threads, slots,
                history
  <1>5. ASSUME NEW u \in Users, SpawnReader(u)
        PROVE  Slots'
    BY <1>5 DEF SpawnReader, Goto, reader_thread, dispatcher_thread, threads, slots, history
  <1>6. ASSUME NEW u \in Users, SpawnFails(u)
        PROVE  Slots'
    BY <1>6 DEF SpawnFails, Goto, reader_thread, dispatcher_thread, threads, slots, history
  <1>7. ASSUME NEW u \in Users, JoinUndone(u)
        PROVE  Slots'
    BY <1>7 DEF JoinUndone, Goto, reader_thread, dispatcher_thread, threads, slots, history
  <1>8. ASSUME NEW u \in Users, Register(u)
        PROVE  Slots'
    BY <1>8 DEF Register, Goto, reader_thread, dispatcher_thread, threads, slots, history
  <1>9. ASSUME NEW u \in Users, Close(u)
        PROVE  Slots'
    BY <1>9 DEF Close, Goto, reader_thread, dispatcher_thread, threads, slots, history
  <1>10. ASSUME NEW u \in Users, TakePing(u)
         PROVE  Slots'
    BY <1>10 DEF TakePing, Goto, reader_thread, dispatcher_thread, threads, slots, history
  <1>11. ASSUME NEW u \in Users, StopRunning(u)
         PROVE  Slots'
    BY <1>11 DEF StopRunning, Goto, reader_thread, dispatcher_thread, threads, slots,
                 history
  <1>12. ASSUME NEW u \in Users, DropSender(u)
         PROVE  Slots'
    BY <1>12 DEF DropSender, Goto, reader_thread, dispatcher_thread, threads, slots, history
  <1>13. ASSUME NEW u \in Users, TakeReader(u)
         PROVE  Slots'
    BY <1>13 DEF TakeReader, Goto, reader_thread, dispatcher_thread, threads, slots, history
  <1>14. ASSUME NEW u \in Users, JoinReader(u)
         PROVE  Slots'
    BY <1>14 DEF JoinReader, Goto, reader_thread, dispatcher_thread, threads, slots, history
  <1>15. ASSUME NEW u \in Users, TakeDispatcher(u)
         PROVE  Slots'
    BY <1>15 DEF TakeDispatcher, Goto, reader_thread, dispatcher_thread, threads, slots,
                 history
  <1>16. ASSUME NEW u \in Users, JoinDispatcher(u)
         PROVE  Slots'
    BY <1>16 DEF JoinDispatcher, Goto, reader_thread, dispatcher_thread, threads, slots,
                 history
  <1>17. ASSUME NEW u \in Users, CloseReturns(u)
         PROVE  Slots'
    BY <1>17 DEF CloseReturns, Goto, reader_thread, dispatcher_thread, threads, slots,
                 history
  <1>18. ASSUME NEW u \in Users, \/ stop_ping(u)
                                 \/ (\E l \in Listeners : remove_listener(u, l))
         PROVE  Slots'
    BY <1>18 DEF stop_ping, remove_listener, Call, reader_thread, dispatcher_thread,
                 threads, slots, history
  <1>19. ASSUME NEW i \in Incarnations, \/ Receive(i) \/ ReaderEnds(i) \/ CheckOpen(i)
                                        \/ OfferToPing(i) \/ CloneSender(i)
                                        \/ CountPending(i)
         PROVE  Slots'
    BY <1>19 DEF Receive, ReaderEnds, CheckOpen, OfferToPing, CloneSender, CountPending,
                 reader_thread, dispatcher_thread, threads, slots, history
  <1>20. ASSUME NEW i \in Incarnations, \/ SendBatch(i) \/ DispatcherEnds(i) \/ TakeBatch(i)
                                        \/ Snapshot(i) \/ BatchDone(i)
                                        \/ (\E l \in Listeners : CallListener(i, l))
         PROVE  Slots'
    BY <1>20 DEF SendBatch, DispatcherEnds, TakeBatch, Snapshot, BatchDone, CallListener,
                 Callbacks, reader_thread, dispatcher_thread, threads, slots, history
  <1> QED
    BY <1>1, <1>2, <1>3, <1>4, <1>5, <1>6, <1>7, <1>8, <1>9, <1>10, <1>11, <1>12, <1>13,
       <1>14, <1>15, <1>16, <1>17, <1>18, <1>19, <1>20
    DEF Next, UserStep, ReaderStep, DispatcherStep

\* A reader that runs can still be joined.
LEMMA ReaderHandlesStep ==
    ASSUME UserTypes, ThreadTypes, Slots, ReaderHandles, [Next]_vars
    PROVE  ReaderHandles'
  <1> USE UdpTransportAssumption DEF UserTypes, ThreadTypes, Slots, ReaderHandles,
                                     ReaderAlive, None, Incarnations
  <1>1. CASE UNCHANGED vars
    BY <1>1 DEF vars, reader_thread, dispatcher_thread, threads, slots, history
  <1>2. ASSUME NEW u \in Users, StoreSender(u)
        PROVE  ReaderHandles'
    BY <1>2 DEF StoreSender, Goto, reader_thread, dispatcher_thread, threads, slots, history
  <1>3. ASSUME NEW u \in Users, SpawnDispatcher(u)
        PROVE  ReaderHandles'
    BY <1>3 DEF SpawnDispatcher, Goto, reader_thread, dispatcher_thread, threads, slots,
                history
  <1>4. ASSUME NEW u \in Users, SpawnReader(u)
        PROVE  ReaderHandles'
    BY <1>4 DEF SpawnReader, Goto, reader_thread, dispatcher_thread, threads, slots, history
  <1>5. ASSUME NEW u \in Users, SpawnFails(u)
        PROVE  ReaderHandles'
    BY <1>5 DEF SpawnFails, Goto, reader_thread, dispatcher_thread, threads, slots, history
  <1>6. ASSUME NEW u \in Users, JoinUndone(u)
        PROVE  ReaderHandles'
    BY <1>6 DEF JoinUndone, Goto, reader_thread, dispatcher_thread, threads, slots, history
  <1>7. ASSUME NEW u \in Users, Register(u)
        PROVE  ReaderHandles'
    BY <1>7 DEF Register, Goto, reader_thread, dispatcher_thread, threads, slots, history
  <1>8. ASSUME NEW u \in Users, Close(u)
        PROVE  ReaderHandles'
    BY <1>8 DEF Close, Goto, reader_thread, dispatcher_thread, threads, slots, history
  <1>9. ASSUME NEW u \in Users, TakePing(u)
        PROVE  ReaderHandles'
    BY <1>9 DEF TakePing, Goto, reader_thread, dispatcher_thread, threads, slots, history
  <1>10. ASSUME NEW u \in Users, StopRunning(u)
         PROVE  ReaderHandles'
    BY <1>10 DEF StopRunning, Goto, reader_thread, dispatcher_thread, threads, slots,
                 history
  <1>11. ASSUME NEW u \in Users, DropSender(u)
         PROVE  ReaderHandles'
    BY <1>11 DEF DropSender, Goto, reader_thread, dispatcher_thread, threads, slots, history
  <1>12. ASSUME NEW u \in Users, TakeReader(u)
         PROVE  ReaderHandles'
    BY <1>12 DEF TakeReader, Goto, reader_thread, dispatcher_thread, threads, slots, history
  <1>13. ASSUME NEW u \in Users, JoinReader(u)
         PROVE  ReaderHandles'
    BY <1>13 DEF JoinReader, Goto, reader_thread, dispatcher_thread, threads, slots, history
  <1>14. ASSUME NEW u \in Users, TakeDispatcher(u)
         PROVE  ReaderHandles'
    BY <1>14 DEF TakeDispatcher, Goto, reader_thread, dispatcher_thread, threads, slots,
                 history
  <1>15. ASSUME NEW u \in Users, JoinDispatcher(u)
         PROVE  ReaderHandles'
    BY <1>15 DEF JoinDispatcher, Goto, reader_thread, dispatcher_thread, threads, slots,
                 history
  <1>16. ASSUME NEW u \in Users, CloseReturns(u)
         PROVE  ReaderHandles'
    BY <1>16 DEF CloseReturns, Goto, reader_thread, dispatcher_thread, threads, slots,
                 history
  <1>17. ASSUME NEW u \in Users, \/ stop_ping(u)
                                 \/ (\E l \in Listeners : remove_listener(u, l))
         PROVE  ReaderHandles'
    BY <1>17 DEF stop_ping, remove_listener, Call, reader_thread, dispatcher_thread,
                 threads, slots, history
  <1>18. ASSUME NEW u \in Users, StartReader(u)
         PROVE  ReaderHandles'
    <2>1. \A v \in Users : upc[v] = "join_reader" => upc'[v] = "join_reader" /\ mine'[v] = mine[v]
      BY <1>18 DEF StartReader, Call, Goto
    <2>2. (late_start => late_start') /\ UNCHANGED <<reader, rpc>>
      BY <1>18 DEF StartReader, slots, threads, reader_thread
    <2> SUFFICES ASSUME ~late_start, NEW i \in Incarnations, ReaderAlive(i), reader # i
                 PROVE  \E v \in Users : upc'[v] = "join_reader" /\ mine'[v] = i
      BY <2>2
    <2>3. PICK v \in Users : upc[v] = "join_reader" /\ mine[v] = i
      OBVIOUS
    <2> QED
      BY <2>1, <2>3
  <1>19. ASSUME NEW i \in Incarnations, Receive(i)
         PROVE  ReaderHandles'
    BY <1>19 DEF Receive, ReaderGoto, reader_thread, dispatcher_thread, threads, slots,
                 history
  <1>20. ASSUME NEW i \in Incarnations, ReaderEnds(i)
         PROVE  ReaderHandles'
    BY <1>20 DEF ReaderEnds, ReaderGoto, reader_thread, dispatcher_thread, threads, slots,
                 history
  <1>21. ASSUME NEW i \in Incarnations, CheckOpen(i)
         PROVE  ReaderHandles'
    BY <1>21 DEF CheckOpen, ReaderGoto, reader_thread, dispatcher_thread, threads, slots,
                 history
  <1>22. ASSUME NEW i \in Incarnations, OfferToPing(i)
         PROVE  ReaderHandles'
    BY <1>22 DEF OfferToPing, ReaderGoto, reader_thread, dispatcher_thread, threads, slots,
                 history
  <1>23. ASSUME NEW i \in Incarnations, CloneSender(i)
         PROVE  ReaderHandles'
    BY <1>23 DEF CloneSender, ReaderGoto, reader_thread, dispatcher_thread, threads, slots,
                 history
  <1>24. ASSUME NEW i \in Incarnations, CountPending(i)
         PROVE  ReaderHandles'
    BY <1>24 DEF CountPending, ReaderGoto, reader_thread, dispatcher_thread, threads, slots,
                 history
  <1>25. ASSUME NEW i \in Incarnations, SendBatch(i)
         PROVE  ReaderHandles'
    BY <1>25 DEF SendBatch, ReaderGoto, reader_thread, dispatcher_thread, threads, slots,
                 history
  <1>26. ASSUME NEW i \in Incarnations, \/ DispatcherEnds(i) \/ TakeBatch(i) \/ Snapshot(i)
                                        \/ BatchDone(i)
                                        \/ (\E l \in Listeners : CallListener(i, l))
         PROVE  ReaderHandles'
    BY <1>26 DEF DispatcherEnds, TakeBatch, Snapshot, BatchDone, CallListener, Callbacks,
                 reader_thread, dispatcher_thread, threads, slots, history
  <1> QED
    BY <1>1, <1>2, <1>3, <1>4, <1>5, <1>6, <1>7, <1>8, <1>9, <1>10, <1>11, <1>12, <1>13,
       <1>14, <1>15, <1>16, <1>17, <1>18, <1>19, <1>20, <1>21, <1>22, <1>23, <1>24, <1>25,
       <1>26
    DEF Next, UserStep, ReaderStep, DispatcherStep

\* A dispatcher that runs can still be joined, or is in its own close.
LEMMA DispatcherHandlesStep ==
    ASSUME UserTypes, ThreadTypes, Slots, DispatcherHandles, [Next]_vars
    PROVE  DispatcherHandles'
  <1> USE UdpTransportAssumption DEF UserTypes, ThreadTypes, Slots, DispatcherHandles,
                                     DispatcherAlive, None, Incarnations
  <1>1. CASE UNCHANGED vars
    BY <1>1 DEF vars, reader_thread, dispatcher_thread, threads, slots, history
  <1>2. ASSUME NEW u \in Users, StartReader(u)
        PROVE  DispatcherHandles'
    BY <1>2 DEF StartReader, Call, Goto, reader_thread, dispatcher_thread, threads, slots,
                history
  <1>3. ASSUME NEW u \in Users, StoreSender(u)
        PROVE  DispatcherHandles'
    BY <1>3 DEF StoreSender, Goto, reader_thread, dispatcher_thread, threads, slots, history
  <1>4. ASSUME NEW u \in Users, SpawnDispatcher(u)
        PROVE  DispatcherHandles'
    BY <1>4 DEF SpawnDispatcher, Goto, reader_thread, dispatcher_thread, threads, slots,
                history
  <1>5. ASSUME NEW u \in Users, SpawnReader(u)
        PROVE  DispatcherHandles'
    BY <1>5 DEF SpawnReader, Goto, reader_thread, dispatcher_thread, threads, slots, history
  <1>6. ASSUME NEW u \in Users, SpawnFails(u)
        PROVE  DispatcherHandles'
    BY <1>6 DEF SpawnFails, Goto, reader_thread, dispatcher_thread, threads, slots, history
  <1>7. ASSUME NEW u \in Users, JoinUndone(u)
        PROVE  DispatcherHandles'
    BY <1>7 DEF JoinUndone, Goto, reader_thread, dispatcher_thread, threads, slots, history
  <1>8. ASSUME NEW u \in Users, Register(u)
        PROVE  DispatcherHandles'
    BY <1>8 DEF Register, Goto, reader_thread, dispatcher_thread, threads, slots, history
  <1>9. ASSUME NEW u \in Users, Close(u)
        PROVE  DispatcherHandles'
    BY <1>9 DEF Close, Goto, reader_thread, dispatcher_thread, threads, slots, history
  <1>10. ASSUME NEW u \in Users, TakePing(u)
         PROVE  DispatcherHandles'
    BY <1>10 DEF TakePing, Goto, reader_thread, dispatcher_thread, threads, slots, history
  <1>11. ASSUME NEW u \in Users, StopRunning(u)
         PROVE  DispatcherHandles'
    BY <1>11 DEF StopRunning, Goto, reader_thread, dispatcher_thread, threads, slots,
                 history
  <1>12. ASSUME NEW u \in Users, DropSender(u)
         PROVE  DispatcherHandles'
    BY <1>12 DEF DropSender, Goto, reader_thread, dispatcher_thread, threads, slots, history
  <1>13. ASSUME NEW u \in Users, TakeReader(u)
         PROVE  DispatcherHandles'
    BY <1>13 DEF TakeReader, Goto, reader_thread, dispatcher_thread, threads, slots, history
  <1>14. ASSUME NEW u \in Users, JoinReader(u)
         PROVE  DispatcherHandles'
    BY <1>14 DEF JoinReader, Goto, reader_thread, dispatcher_thread, threads, slots, history
  <1>15. ASSUME NEW u \in Users, TakeDispatcher(u)
         PROVE  DispatcherHandles'
    BY <1>15 DEF TakeDispatcher, Goto, reader_thread, dispatcher_thread, threads, slots,
                 history
  <1>16. ASSUME NEW u \in Users, JoinDispatcher(u)
         PROVE  DispatcherHandles'
    BY <1>16 DEF JoinDispatcher, Goto, reader_thread, dispatcher_thread, threads, slots,
                 history
  <1>17. ASSUME NEW u \in Users, CloseReturns(u)
         PROVE  DispatcherHandles'
    BY <1>17 DEF CloseReturns, Goto, reader_thread, dispatcher_thread, threads, slots,
                 history
  <1>18. ASSUME NEW u \in Users, \/ stop_ping(u)
                                 \/ (\E l \in Listeners : remove_listener(u, l))
         PROVE  DispatcherHandles'
    BY <1>18 DEF stop_ping, remove_listener, Call, reader_thread, dispatcher_thread,
                 threads, slots, history
  <1>19. ASSUME NEW i \in Incarnations, DispatcherEnds(i)
         PROVE  DispatcherHandles'
    BY <1>19 DEF DispatcherEnds, DispatcherGoto, reader_thread, dispatcher_thread, threads,
                 slots, history
  <1>20. ASSUME NEW i \in Incarnations, TakeBatch(i)
         PROVE  DispatcherHandles'
    BY <1>20 DEF TakeBatch, DispatcherGoto, reader_thread, dispatcher_thread, threads,
                 slots, history
  <1>21. ASSUME NEW i \in Incarnations, Snapshot(i)
         PROVE  DispatcherHandles'
    BY <1>21 DEF Snapshot, Callbacks, DispatcherGoto, reader_thread, dispatcher_thread,
                 threads, slots, history
  <1>22. ASSUME NEW i \in Incarnations, BatchDone(i)
         PROVE  DispatcherHandles'
    BY <1>22 DEF BatchDone, DispatcherGoto, reader_thread, dispatcher_thread, threads,
                 slots, history
  <1>23. ASSUME NEW i \in Incarnations, (\E l \in Listeners : CallListener(i, l))
         PROVE  DispatcherHandles'
    BY <1>23 DEF CallListener, DispatcherGoto, reader_thread, dispatcher_thread, threads,
                 slots, history
  <1>24. ASSUME NEW i \in Incarnations, \/ Receive(i) \/ ReaderEnds(i) \/ CheckOpen(i)
                                        \/ OfferToPing(i) \/ CloneSender(i)
                                        \/ CountPending(i) \/ SendBatch(i)
         PROVE  DispatcherHandles'
    BY <1>24 DEF Receive, ReaderEnds, CheckOpen, OfferToPing, CloneSender, CountPending,
                 SendBatch, reader_thread, dispatcher_thread, threads, slots, history
  <1> QED
    BY <1>1, <1>2, <1>3, <1>4, <1>5, <1>6, <1>7, <1>8, <1>9, <1>10, <1>11, <1>12, <1>13,
       <1>14, <1>15, <1>16, <1>17, <1>18, <1>19, <1>20, <1>21, <1>22, <1>23, <1>24
    DEF Next, UserStep, ReaderStep, DispatcherStep

\* A second dispatcher is spawned only when the first has ended.
LEMMA OneDispatcherStep ==
    ASSUME UserTypes, ThreadTypes, OneStarter, Slots, DispatcherHandles, Closing,
           OneDispatcher, [Next]_vars
    PROVE  OneDispatcher'
  <1> USE UdpTransportAssumption DEF OneDispatcher, DispatcherAlive, ThreadTypes
  <1>1. CASE UNCHANGED vars
    BY <1>1 DEF vars, reader_thread, dispatcher_thread, threads, slots, history
  <1>2. ASSUME NEW u \in Users, StartReader(u)
        PROVE  OneDispatcher'
    BY <1>2 DEF StartReader, Call, Goto, reader_thread, dispatcher_thread, threads, slots,
                history
  <1>3. ASSUME NEW u \in Users, CloseReturns(u)
        PROVE  OneDispatcher'
    BY <1>3 DEF CloseReturns, Goto, reader_thread, dispatcher_thread, threads, slots,
                history
  <1>4. ASSUME NEW u \in Users, \/ StoreSender(u) \/ SpawnReader(u) \/ SpawnFails(u)
                                \/ JoinUndone(u) \/ Register(u) \/ stop_ping(u)
                                \/ (\E l \in Listeners : remove_listener(u, l))
        PROVE  OneDispatcher'
    BY <1>4 DEF StoreSender, SpawnReader, SpawnFails, JoinUndone, Register, stop_ping,
                remove_listener, Call, reader_thread, dispatcher_thread, threads, slots,
                history
  <1>5. ASSUME NEW u \in Users, \/ TakePing(u) \/ StopRunning(u) \/ DropSender(u)
                                \/ TakeReader(u) \/ JoinReader(u) \/ TakeDispatcher(u)
                                \/ JoinDispatcher(u)
        PROVE  OneDispatcher'
    BY <1>5 DEF TakePing, StopRunning, DropSender, TakeReader, JoinReader, TakeDispatcher,
                JoinDispatcher, reader_thread, dispatcher_thread, threads, slots, history
  <1>6. ASSUME NEW u \in Users, SpawnDispatcher(u)
        PROVE  OneDispatcher'
    <2> SUFFICES ASSUME ~late_start, NEW i \in Incarnations, DispatcherAlive(i) PROVE FALSE
      BY <1>6 DEF SpawnDispatcher, history
    <2>1. upc[u] = "spawn_dispatcher" /\ dispatcher = None /\ At(Starting)
      BY <1>6 DEF SpawnDispatcher, Slots, At, Starting
    <2>2. detached = {} /\ ~At(Stopping)
      BY <2>1 DEF Closing
    <2>3. \A v \in Users : upc[v] \notin {"join_dispatcher", "undo"}
      BY <2>1, <2>2 DEF OneStarter, At, Starting, Stopping
    <2> QED
      BY <2>1, <2>2, <2>3 DEF DispatcherHandles, None, Incarnations
  <1>7. ASSUME NEW u \in Users, Close(u)
        PROVE  OneDispatcher'
    <2>1. \A i \in Incarnations : DispatcherAlive(i)' => DispatcherAlive(i)
      BY <1>7 DEF Close
    <2>2. late_start => late_start'
      BY <1>7 DEF Close
    <2> QED
      BY <2>1, <2>2
  <1>8. ASSUME NEW i \in Incarnations, DispatcherEnds(i)
        PROVE  OneDispatcher'
    BY <1>8 DEF DispatcherEnds, DispatcherGoto, reader_thread, dispatcher_thread, threads,
                slots, history
  <1>9. ASSUME NEW i \in Incarnations, TakeBatch(i)
        PROVE  OneDispatcher'
    BY <1>9 DEF TakeBatch, DispatcherGoto, reader_thread, dispatcher_thread, threads, slots,
                history
  <1>10. ASSUME NEW i \in Incarnations, Snapshot(i)
         PROVE  OneDispatcher'
    BY <1>10 DEF Snapshot, Callbacks, DispatcherGoto, reader_thread, dispatcher_thread,
                 threads, slots, history
  <1>11. ASSUME NEW i \in Incarnations, BatchDone(i)
         PROVE  OneDispatcher'
    BY <1>11 DEF BatchDone, DispatcherGoto, reader_thread, dispatcher_thread, threads,
                 slots, history
  <1>12. ASSUME NEW i \in Incarnations, (\E l \in Listeners : CallListener(i, l))
         PROVE  OneDispatcher'
    BY <1>12 DEF CallListener, DispatcherGoto, reader_thread, dispatcher_thread, threads,
                 slots, history
  <1>13. ASSUME NEW i \in Incarnations, \/ Receive(i) \/ ReaderEnds(i) \/ CheckOpen(i)
                                        \/ OfferToPing(i) \/ CloneSender(i)
                                        \/ CountPending(i) \/ SendBatch(i)
         PROVE  OneDispatcher'
    BY <1>13 DEF Receive, ReaderEnds, CheckOpen, OfferToPing, CloneSender, CountPending,
                 SendBatch, reader_thread, dispatcher_thread, threads, slots, history
  <1> QED
    BY <1>1, <1>2, <1>3, <1>4, <1>5, <1>6, <1>7, <1>8, <1>9, <1>10, <1>11, <1>12, <1>13
    DEF Next, UserStep, ReaderStep, DispatcherStep

\* A removed listener is called for the batch in hand, and not again.
LEMMA SilentStep ==
    ASSUME ThreadTypes, ListenerTypes, CounterTypes, OneDispatcher, Mine, UserTypes,
           SlotTypes, Silent, [Next]_vars
    PROVE  Silent'
  <1> USE UdpTransportAssumption DEF Silent, ThreadTypes, ListenerTypes, CounterTypes
  <1>1. CASE UNCHANGED vars
    BY <1>1 DEF vars, reader_thread, dispatcher_thread, threads, slots, history
  <1>2. ASSUME NEW u \in Users, StartReader(u)
        PROVE  Silent'
    BY <1>2 DEF StartReader, Call, Goto, reader_thread, dispatcher_thread, threads, slots,
                history
  <1>3. ASSUME NEW u \in Users, Register(u)
        PROVE  Silent'
    BY <1>3 DEF Register, Goto, reader_thread, dispatcher_thread, threads, slots, history
  <1>4. ASSUME NEW u \in Users, (\E l \in Listeners : remove_listener(u, l))
        PROVE  Silent'
    BY <1>4 DEF remove_listener, Call, reader_thread, dispatcher_thread, threads, slots,
                history
  <1>5. ASSUME NEW u \in Users, CloseReturns(u)
        PROVE  Silent'
    BY <1>5 DEF CloseReturns, Goto, reader_thread, dispatcher_thread, threads, slots,
                history
  <1>6. ASSUME NEW u \in Users, \/ StoreSender(u) \/ SpawnReader(u) \/ SpawnFails(u)
                                \/ JoinUndone(u) \/ stop_ping(u) \/ TakePing(u)
        PROVE  Silent'
    BY <1>6 DEF StoreSender, SpawnReader, SpawnFails, JoinUndone, stop_ping, TakePing, Call,
                reader_thread, dispatcher_thread, threads, slots, history
  <1>7. ASSUME NEW u \in Users, \/ StopRunning(u) \/ DropSender(u) \/ TakeReader(u)
                                \/ JoinReader(u) \/ TakeDispatcher(u) \/ JoinDispatcher(u)
        PROVE  Silent'
    BY <1>7 DEF StopRunning, DropSender, TakeReader, JoinReader, TakeDispatcher,
                JoinDispatcher, reader_thread, dispatcher_thread, threads, slots, history
  <1>8. ASSUME NEW u \in Users, SpawnDispatcher(u)
        PROVE  Silent'
    <2>1. mine[u] \in Incarnations /\ dpc[mine[u]] = "absent"
      BY <1>8 DEF SpawnDispatcher, Mine, UserTypes, SlotTypes, None, Incarnations
    <2>2. \A i \in Incarnations : dpc[i] # "absent" => dpc'[i] = dpc[i]
      BY <1>8, <2>1 DEF SpawnDispatcher
    <2> QED
      BY <1>8, <2>1, <2>2 DEF SpawnDispatcher, history
  <1>9. ASSUME NEW u \in Users, Close(u)
        PROVE  Silent'
    <2>1. \A i \in Incarnations :
            dpc[i] \in {"call", "in_close"} => dpc'[i] \in {"call", "in_close"}
      BY <1>9 DEF Close
    <2>2. (late_start => late_start') /\ UNCHANGED <<snapshot, removed, late_calls>>
      BY <1>9 DEF Close
    <2> QED
      BY <2>1, <2>2
  <1>10. ASSUME NEW i \in Incarnations, DispatcherEnds(i)
         PROVE  Silent'
    BY <1>10 DEF DispatcherEnds, DispatcherGoto, reader_thread, dispatcher_thread, threads,
                 slots, history
  <1>11. ASSUME NEW i \in Incarnations, TakeBatch(i)
         PROVE  Silent'
    BY <1>11 DEF TakeBatch, DispatcherGoto, reader_thread, dispatcher_thread, threads,
                 slots, history
  <1>12. ASSUME NEW i \in Incarnations, Snapshot(i)
         PROVE  Silent'
    BY <1>12 DEF Snapshot, Callbacks, DispatcherGoto, reader_thread, dispatcher_thread,
                 threads, slots, history
  <1>13. ASSUME NEW i \in Incarnations, BatchDone(i)
         PROVE  Silent'
    BY <1>13 DEF BatchDone, DispatcherGoto, reader_thread, dispatcher_thread, threads,
                 slots, history
  <1>14. ASSUME NEW i \in Incarnations, \/ Receive(i) \/ ReaderEnds(i) \/ CheckOpen(i)
                                        \/ OfferToPing(i) \/ CloneSender(i)
                                        \/ CountPending(i) \/ SendBatch(i)
         PROVE  Silent'
    BY <1>14 DEF Receive, ReaderEnds, CheckOpen, OfferToPing, CloneSender, CountPending,
                 SendBatch, reader_thread, dispatcher_thread, threads, slots, history
  <1>15. ASSUME NEW i \in Incarnations, (\E l \in Listeners : CallListener(i, l))
         PROVE  Silent'
    <2>1. PICK l \in Listeners : CallListener(i, l)
      BY <1>15
    <2>2. /\ dpc[i] = "call" /\ l \in snapshot[i] /\ UNCHANGED <<removed, late_start>>
          /\ snapshot' = [snapshot EXCEPT ![i] = @ \ {l}]
          /\ dpc' = [dpc EXCEPT ![i] = IF snapshot[i] = {l} THEN "dispatch" ELSE "call"]
          /\ late_calls' = [late_calls EXCEPT ![l] = IF l \in removed THEN @ + 1 ELSE @]
      BY <2>1 DEF CallListener, DispatcherGoto
    <2>3. \A k \in Incarnations : snapshot'[k] # {} => dpc'[k] \in {"call", "in_close"}
      BY <2>2
    <2>4. \A m \in Listeners : m \notin removed' => late_calls'[m] = 0
      BY <2>2
    <2>5. CASE late_start
      BY <2>2, <2>3, <2>4, <2>5
    <2>6. CASE ~late_start
      <3>1. l \in removed => late_calls[l] = 0
        BY <2>2, <2>6
      <3>2. \A m \in Listeners : late_calls'[m] <= 1
        BY <2>2, <2>6, <3>1
      <3>3. \A k \in Incarnations : snapshot[k] # {} => k = i
        BY <2>2, <2>6 DEF OneDispatcher, DispatcherAlive
      <3>4. \A m \in removed', k \in Incarnations : m \in snapshot'[k] => late_calls'[m] = 0
        BY <2>2, <2>6, <3>3
      <3> QED
        BY <2>3, <2>4, <3>2, <3>4
    <2> QED
      BY <2>5, <2>6
  <1> QED
    BY <1>1, <1>2, <1>3, <1>4, <1>5, <1>6, <1>7, <1>8, <1>9, <1>10, <1>11, <1>12, <1>13,
       <1>14, <1>15
    DEF Next, UserStep, ReaderStep, DispatcherStep

-----------------------------------------------------------------------------
\* The account of the dispatch queue.

\* What it means that a batch is at a place.
LEMMA InPlaces ==
    ASSUME NEW S, NEW x
    PROVE  x \in Places(S) <=>
             \/ \E i \in Incarnations : \E k \in 1..Len(queue[i]) : x = <<i, k>>
             \/ \E i \in Incarnations : rpc[i] \in S /\ x = <<i, 0>>
  BY DEF Places, Queued

\* The same after a step.
LEMMA InPlacesPrime ==
    ASSUME NEW CONSTANT S, NEW CONSTANT x
    PROVE  x \in Places(S)' <=>
             \/ \E i \in Incarnations : \E k \in 1..Len(queue'[i]) : x = <<i, k>>
             \/ \E i \in Incarnations : rpc'[i] \in S /\ x = <<i, 0>>
  BY DEF Places, Queued

\* A step that leaves the channels alone and moves no reader in or out of these
\* labels moves no batch.
LEMMA PlacesSame ==
    ASSUME NEW S, queue' = queue, \A i \in Incarnations : rpc'[i] \in S <=> rpc[i] \in S
    PROVE  Places(S)' = Places(S)
  BY DEF Places, Queued

\* A reader that comes to one of these labels brings one batch.
LEMMA PlacesEnter ==
    ASSUME NEW S, NEW i \in Incarnations, NEW label, ThreadTypes, BatchTypes,
           queue' = queue, rpc' = [rpc EXCEPT ![i] = label], rpc[i] \notin S, label \in S
    PROVE  /\ <<i, 0>> \notin Places(S)
           /\ Places(S)' = Places(S) \cup {<<i, 0>>}
  <1>1. <<i, 0>> \notin Places(S)
    BY InPlaces DEF BatchTypes
  <1>2. ASSUME NEW x PROVE x \in Places(S)' <=> x \in Places(S) \cup {<<i, 0>>}
    BY InPlaces, InPlacesPrime DEF ThreadTypes
  <1> QED
    BY <1>1, <1>2

\* A reader that leaves them takes its batch away.
LEMMA PlacesLeave ==
    ASSUME NEW S, NEW i \in Incarnations, NEW label, ThreadTypes, BatchTypes,
           queue' = queue, rpc' = [rpc EXCEPT ![i] = label], rpc[i] \in S, label \notin S
    PROVE  /\ <<i, 0>> \in Places(S)
           /\ Places(S)' = Places(S) \ {<<i, 0>>}
  <1>1. <<i, 0>> \in Places(S)
    BY InPlaces
  <1>2. ASSUME NEW x PROVE x \in Places(S)' <=> x \in Places(S) \ {<<i, 0>>}
    BY InPlaces, InPlacesPrime DEF ThreadTypes, BatchTypes
  <1> QED
    BY <1>1, <1>2

\* A reader that sends leaves its batch at the end of the channel.
LEMMA PlacesSent ==
    ASSUME NEW S, NEW i \in Incarnations, NEW j \in Incarnations, NEW label,
           ThreadTypes, BatchTypes,
           queue' = [queue EXCEPT ![j] = Append(@, read[i])], rpc' = [rpc EXCEPT ![i] = label],
           rpc[i] \in S, label \notin S
    PROVE  /\ <<i, 0>> \in Places(S)
           /\ <<j, Len(queue[j]) + 1>> \notin Places(S) \ {<<i, 0>>}
           /\ Places(S)' = (Places(S) \ {<<i, 0>>}) \cup {<<j, Len(queue[j]) + 1>>}
  <1>1. <<i, 0>> \in Places(S)
    BY InPlaces
  <1>2. <<j, Len(queue[j]) + 1>> \notin Places(S)
    <2>1. Len(queue[j]) \in Nat
      BY DEF BatchTypes
    <2>2. <<j, Len(queue[j]) + 1>> \in Places(S) <=>
            \/ \E k \in Incarnations : \E n \in 1..Len(queue[k]) :
                 <<j, Len(queue[j]) + 1>> = <<k, n>>
            \/ \E k \in Incarnations : rpc[k] \in S /\ <<j, Len(queue[j]) + 1>> = <<k, 0>>
      BY InPlaces
    <2> QED
      BY <2>1, <2>2
  <1>3. /\ Len(queue'[j]) = Len(queue[j]) + 1 /\ Len(queue[j]) \in Nat
        /\ \A k \in Incarnations : k # j => queue'[k] = queue[k]
    BY DEF BatchTypes
  <1>4. ASSUME NEW x
        PROVE  x \in Places(S)' <=>
                 x \in (Places(S) \ {<<i, 0>>}) \cup {<<j, Len(queue[j]) + 1>>}
    <2>1. ASSUME NEW k \in Incarnations
          PROVE  (\E n \in 1..Len(queue'[k]) : x = <<k, n>>) <=>
                   \/ \E n \in 1..Len(queue[k]) : x = <<k, n>>
                   \/ k = j /\ x = <<j, Len(queue[j]) + 1>>
      BY <1>3
    <2>2. ASSUME NEW k \in Incarnations
          PROVE  (rpc'[k] \in S /\ x = <<k, 0>>) <=> (k # i /\ rpc[k] \in S /\ x = <<k, 0>>)
      BY DEF ThreadTypes
    <2>3. ~ \E k \in Incarnations : \E n \in 1..Len(queue[k]) : <<i, 0>> = <<k, n>>
      OBVIOUS
    <2> QED
      BY InPlaces, InPlacesPrime, <2>1, <2>2, <2>3, <1>3
  <1> QED
    BY <1>1, <1>2, <1>4

\* recv takes one batch out of the channel.
LEMMA PlacesTaken ==
    ASSUME NEW S, NEW j \in Incarnations, BatchTypes, queue[j] # <<>>,
           queue' = [queue EXCEPT ![j] = Tail(@)], rpc' = rpc
    PROVE  /\ <<j, Len(queue[j])>> \in Places(S)
           /\ Places(S)' = Places(S) \ {<<j, Len(queue[j])>>}
  <1>1. /\ Len(queue'[j]) = Len(queue[j]) - 1 /\ Len(queue[j]) \in Nat \ {0}
        /\ \A k \in Incarnations : k # j => queue'[k] = queue[k]
    BY DEF BatchTypes
  <1>2. <<j, Len(queue[j])>> \in Places(S)
    BY InPlaces, <1>1
  <1>3. ASSUME NEW x PROVE x \in Places(S)' <=> x \in Places(S) \ {<<j, Len(queue[j])>>}
    <2>1. ASSUME NEW k \in Incarnations
          PROVE  (\E n \in 1..Len(queue'[k]) : x = <<k, n>>) <=>
                   (\E n \in 1..Len(queue[k]) : x = <<k, n>>) /\ x # <<j, Len(queue[j])>>
      BY <1>1
    <2>2. \A k \in Incarnations : <<k, 0>> # <<j, Len(queue[j])>>
      BY <1>1
    <2> QED
      BY InPlaces, InPlacesPrime, <2>1, <2>2, <1>1
  <1> QED
    BY <1>2, <1>3

\* The account bounds the counter: it counts some of the batches that arrived.
LEMMA AccountMeans ==
    ASSUME NEW B, NEW W, NEW c, NEW n, Account(B, W, c, n)
    PROVE  /\ Cardinality(B) \in Nat /\ Cardinality(W) \in Nat
           /\ IsFiniteSet(W) /\ Cardinality(W) <= Cardinality(B)
           /\ c \in 0..n
  BY FS_Subset, FS_CardinalityType DEF Account

\* A batch that arrives may be anywhere.
LEMMA AccountReads ==
    ASSUME NEW B, NEW W, NEW c, NEW n, NEW p, Account(B, W, c, n)
    PROVE  Account(B \cup {p}, W, c, n + 1)
  <1>1. IsFiniteSet(B \cup {p}) /\ Cardinality(B \cup {p}) <= Cardinality(B) + 1
    BY AccountMeans, FS_AddElement DEF Account
  <1> QED
    BY <1>1, AccountMeans DEF Account

\* A batch that was not counted may be dropped.
LEMMA AccountGivesUp ==
    ASSUME NEW B, NEW W, NEW c, NEW n, NEW p, Account(B, W, c, n), p \notin W
    PROVE  Account(B \ {p}, W, c, n)
  BY AccountMeans, FS_RemoveElement DEF Account

\* Counting one more batch adds one.
LEMMA AccountCounts ==
    ASSUME NEW B, NEW W, NEW c, NEW n, NEW p, Account(B, W, c, n), p \in B \ W
    PROVE  Account(B, W \cup {p}, c + 1, n)
  BY AccountMeans, FS_AddElement DEF Account

\* A finite set without one of its members.
LEMMA OneLess ==
    ASSUME NEW S, NEW p \in S, IsFiniteSet(S)
    PROVE  IsFiniteSet(S \ {p}) /\ Cardinality(S \ {p}) = Cardinality(S) - 1
  BY FS_RemoveElement

\* A finite set with one more member.
LEMMA OneMore ==
    ASSUME NEW S, NEW p, p \notin S, IsFiniteSet(S)
    PROVE  IsFiniteSet(S \cup {p}) /\ Cardinality(S \cup {p}) = Cardinality(S) + 1
  BY FS_AddElement

\* A batch that is dropped or taken is uncounted.
LEMMA AccountUncounts ==
    ASSUME NEW B, NEW W, NEW c, NEW n, NEW p, Account(B, W, c, n), p \in W
    PROVE  Account(B \ {p}, W \ {p}, c - 1, n)
  <1>1. p \in B /\ IsFiniteSet(B) /\ IsFiniteSet(W) /\ W \ {p} \subseteq B \ {p}
    BY AccountMeans DEF Account
  <1>2. IsFiniteSet(B \ {p}) /\ Cardinality(B \ {p}) = Cardinality(B) - 1
    BY <1>1, OneLess
  <1>3. Cardinality(W \ {p}) = Cardinality(W) - 1
    BY <1>1, OneLess
  <1> QED
    BY <1>1, <1>2, <1>3, AccountMeans DEF Account

\* A batch that moves from a reader to a channel stays counted.
LEMMA AccountMoves ==
    ASSUME NEW B, NEW W, NEW c, NEW n, NEW p, NEW q, Account(B, W, c, n), p \in W, q \notin B \ {p}
    PROVE  Account((B \ {p}) \cup {q}, (W \ {p}) \cup {q}, c, n)
  <1> DEFINE L == B \ {p}
             M == W \ {p}
  <1>1. Account(L, M, c - 1, n)
    BY AccountUncounts
  <1>2. q \notin L /\ q \notin M /\ IsFiniteSet(L) /\ IsFiniteSet(M) /\ M \subseteq L
    BY <1>1, AccountMeans DEF Account
  <1>3. Cardinality(B) = Cardinality(L) + 1 /\ Cardinality(W) = Cardinality(M) + 1
    <2>1. p \in B /\ p \in W /\ IsFiniteSet(B) /\ IsFiniteSet(W)
      BY AccountMeans DEF Account
    <2>2. Cardinality(L) = Cardinality(B) - 1 /\ Cardinality(M) = Cardinality(W) - 1
      BY <2>1, OneLess
    <2> QED
      BY <2>2, AccountMeans
  <1> HIDE DEF L, M
  <1>4. IsFiniteSet(L \cup {q}) /\ Cardinality(L \cup {q}) = Cardinality(L) + 1
    BY <1>2, OneMore
  <1>5. Cardinality(M \cup {q}) = Cardinality(M) + 1
    BY <1>2, OneMore
  <1>6. Account(L \cup {q}, M \cup {q}, c, n)
    BY <1>2, <1>3, <1>4, <1>5 DEF Account
  <1> QED
    BY <1>6 DEF L, M

\* The reader counts a batch before it sends it and takes the count back when it
\* cannot; recv takes back the rest: a step keeps the account.
LEMMA CountedStep ==
    ASSUME Types, Mine, SenderHeld, Counted, [Next]_vars
    PROVE  Counted'
  <1> DEFINE B == Places(Busy)
             W == Places({"send"})
             A == Account(B, W, dispatch_queue_pending, batches)
  <1> USE DEF reader_thread, dispatcher_thread, threads, slots, history, Types
  <1>0. A
    BY DEF Counted
  <1> SUFFICES A'
    BY DEF Counted
  <1>1. ASSUME UNCHANGED <<rpc, queue, batches, dispatch_queue_pending>>
        PROVE  A'
    BY <1>0, <1>1, PlacesSame
  <1>2. ASSUME NEW i \in Incarnations, Receive(i)
        PROVE  A'
    <2>1. W' = W
      BY <1>2, PlacesSame DEF Receive, ReaderGoto, ThreadTypes
    <2>2. B' = B \cup {<<i, 0>>}
      BY <1>2, PlacesEnter DEF Receive, ReaderGoto, Busy
    <2>3. batches' = batches + 1 /\ dispatch_queue_pending' = dispatch_queue_pending
      BY <1>2 DEF Receive
    <2> HIDE DEF B, W
    <2> QED
      BY <1>0, <2>1, <2>2, <2>3, AccountReads
  <1>3. ASSUME NEW i \in Incarnations, CheckOpen(i) \/ CloneSender(i)
        PROVE  A'
    <2> USE <1>3 DEF CheckOpen, CloneSender, ReaderGoto, Busy
    <2>1. W' = W
      BY PlacesSame DEF ThreadTypes
    <2>2. /\ rpc[i] \in Busy \ {"send"} /\ queue' = queue
          /\ UNCHANGED <<batches, dispatch_queue_pending>>
      OBVIOUS
    <2>3. <<i, 0>> \notin W
      BY <2>2, InPlaces DEF BatchTypes
    <2>4. CASE rpc' = [rpc EXCEPT ![i] = "top"]
      <3>1. B' = B \ {<<i, 0>>}
        BY <2>2, <2>4, PlacesLeave
      <3> HIDE DEF B, W
      <3> QED
        BY <1>0, <2>1, <2>2, <2>3, <3>1, AccountGivesUp
    <2>5. CASE rpc' = [rpc EXCEPT ![i] = "lock_ping"] \/ rpc' = [rpc EXCEPT ![i] = "count"]
      <3>1. B' = B
        BY <2>2, <2>5, PlacesSame DEF ThreadTypes
      <3> HIDE DEF B, W
      <3> QED
        BY <1>0, <2>1, <2>2, <3>1
    <2> QED
      BY <2>4, <2>5
  <1>4. ASSUME NEW i \in Incarnations, CountPending(i)
        PROVE  A'
    <2> USE <1>4 DEF CountPending, ReaderGoto
    <2>1. B' = B
      BY PlacesSame DEF ThreadTypes, Busy
    <2>2. W' = W \cup {<<i, 0>>} /\ <<i, 0>> \notin W
      BY PlacesEnter
    <2>3. <<i, 0>> \in B
      BY InPlaces DEF Busy
    <2>4. batches' = batches /\ dispatch_queue_pending' = dispatch_queue_pending + 1
      OBVIOUS
    <2> HIDE DEF B, W
    <2> QED
      BY <1>0, <2>1, <2>2, <2>3, <2>4, AccountCounts
  <1>5. ASSUME NEW i \in Incarnations, SendBatch(i)
        PROVE  A'
    <2> USE <1>5 DEF SendBatch, SendFailed, ReaderGoto
    <2>1. CASE dpc[sender[i]] = "ended"
      <3>1. /\ queue' = queue /\ batches' = batches
            /\ dispatch_queue_pending' = dispatch_queue_pending - 1
        BY <2>1
      <3>2. <<i, 0>> \in W /\ W' = W \ {<<i, 0>>} /\ B' = B \ {<<i, 0>>}
        <4>1. /\ rpc' = [rpc EXCEPT ![i] = "top"] /\ rpc[i] \in {"send"} /\ rpc[i] \in Busy
              /\ "top" \notin {"send"} /\ "top" \notin Busy
          BY DEF Busy
        <4> QED
          BY <3>1, <4>1, PlacesLeave
      <3> HIDE DEF B, W
      <3> QED
        BY <1>0, <3>1, <3>2, AccountUncounts
    <2>2. CASE dpc[sender[i]] # "ended"
      <3> DEFINE j == sender[i]
                 q == <<j, Len(queue[j]) + 1>>
      <3>1. j \in Incarnations
        BY UdpTransportAssumption DEF SenderHeld, SlotTypes, None, Incarnations
      <3>2. /\ queue' = [queue EXCEPT ![j] = Append(@, read[i])]
            /\ UNCHANGED <<batches, dispatch_queue_pending>>
        BY <2>2
      <3> HIDE DEF j
      <3>3. /\ <<i, 0>> \in W /\ W' = (W \ {<<i, 0>>}) \cup {q}
            /\ B' = (B \ {<<i, 0>>}) \cup {q} /\ q \notin B \ {<<i, 0>>}
        <4>1. /\ rpc' = [rpc EXCEPT ![i] = "top"] /\ rpc[i] \in {"send"} /\ rpc[i] \in Busy
              /\ "top" \notin {"send"} /\ "top" \notin Busy
          BY DEF Busy
        <4>2. /\ <<i, 0>> \in W /\ W' = (W \ {<<i, 0>>}) \cup {q}
          BY <3>1, <3>2, <4>1, PlacesSent
        <4>3. B' = (B \ {<<i, 0>>}) \cup {q} /\ q \notin B \ {<<i, 0>>}
          BY <3>1, <3>2, <4>1, PlacesSent
        <4> QED
          BY <4>2, <4>3
      <3> HIDE DEF B, W, q
      <3> QED
        BY <1>0, <3>2, <3>3, AccountMoves
    <2> QED
      BY <2>1, <2>2
  <1>6. ASSUME NEW i \in Incarnations, TakeBatch(i)
        PROVE  A'
    <2> DEFINE p == <<i, Len(queue[i])>>
    <2>1. /\ batches' = batches /\ dispatch_queue_pending' = dispatch_queue_pending - 1
          /\ p \in W /\ W' = W \ {p} /\ B' = B \ {p}
      BY <1>6, PlacesTaken DEF TakeBatch
    <2> HIDE DEF B, W, p
    <2> QED
      BY <1>0, <2>1, AccountUncounts
  <1>7. ASSUME NEW u \in Users, SpawnReader(u)
        PROVE  A'
    <2>1. B' = B /\ W' = W /\ UNCHANGED <<batches, dispatch_queue_pending>>
      BY <1>7, PlacesSame DEF SpawnReader, Mine, ThreadTypes, Busy
    <2> HIDE DEF B, W
    <2> QED
      BY <1>0, <2>1
  <1>9. CASE \/ UNCHANGED vars
             \/ \E u \in Users : \/ StartReader(u) \/ StoreSender(u) \/ SpawnDispatcher(u)
                                 \/ SpawnFails(u) \/ JoinUndone(u) \/ Register(u) \/ stop_ping(u)
                                 \/ \E l \in Listeners : remove_listener(u, l)
    BY <1>1, <1>9 DEF vars, StartReader, StoreSender, SpawnDispatcher, SpawnFails, JoinUndone,
                      Register, stop_ping, remove_listener, Call
  <1>10. CASE \E u \in Users : \/ Close(u) \/ TakePing(u) \/ StopRunning(u) \/ DropSender(u)
                               \/ TakeReader(u) \/ JoinReader(u) \/ TakeDispatcher(u)
                               \/ JoinDispatcher(u) \/ CloseReturns(u)
    BY <1>1, <1>10 DEF Close, TakePing, StopRunning, DropSender, TakeReader, JoinReader,
                       TakeDispatcher, JoinDispatcher, CloseReturns
  <1>11. CASE \E i \in Incarnations : \/ DispatcherEnds(i) \/ Snapshot(i) \/ BatchDone(i)
                                      \/ \E l \in Listeners : CallListener(i, l)
    BY <1>1, <1>11 DEF DispatcherEnds, Snapshot, BatchDone, CallListener
  <1>8. ASSUME NEW i \in Incarnations, ReaderEnds(i) \/ OfferToPing(i)
        PROVE  A'
    <2>1. B' = B /\ W' = W /\ UNCHANGED <<batches, dispatch_queue_pending>>
      BY <1>8, PlacesSame DEF ReaderEnds, OfferToPing, ReaderGoto, ThreadTypes, Busy
    <2> HIDE DEF B, W
    <2> QED
      BY <1>0, <2>1
  <1> QED
    BY <1>2, <1>3, <1>4, <1>5, <1>6, <1>7, <1>8, <1>9, <1>10, <1>11
    DEF Next, UserStep, ReaderStep, DispatcherStep

-----------------------------------------------------------------------------
\* Before the first call there is no thread and no batch.
LEMMA InitIInv == Init => IInv
  <1> SUFFICES ASSUME Init PROVE IInv
    OBVIOUS
  <1> USE UdpTransportAssumption DEF Init, None
  <1>1. UserTypes /\ ThreadTypes /\ FlagTypes
    <2>1. "idle" \in UserLabels /\ "absent" \in ReaderLabels /\ "absent" \in DispatcherLabels
      BY DEF UserLabels, ReaderLabels, DispatcherLabels
    <2>2. UserTypes
      BY <2>1 DEF UserTypes
    <2>3. ThreadTypes
      BY <2>1 DEF ThreadTypes
    <2>4. FlagTypes
      BY Zenon DEF FlagTypes
    <2> QED
      BY <2>2, <2>3, <2>4
  <1>2. SlotTypes /\ ListenerTypes /\ CounterTypes
    BY DEF SlotTypes, ListenerTypes, CounterTypes
  <1>3. BatchTypes
    <2>1. <<>> \in Seq(Batches) /\ {} \in Batches
      BY DEF Batches
    <2> QED
      BY <2>1 DEF BatchTypes
  <1>4. OneStarter /\ Fresh /\ Mine /\ SenderHeld
    BY DEF OneStarter, Fresh, Mine, SenderHeld, Starting
  <1>5. Counted
    <2>1. ASSUME NEW S, "absent" \notin S, NEW x PROVE x \notin Places(S)
      BY <2>1, InPlaces
    <2>2. Places(Busy) = {} /\ Places({"send"}) = {}
      BY <2>1 DEF Busy
    <2>3. dispatch_queue_pending = 0 /\ batches = 0
      OBVIOUS
    <2> HIDE DEF Init
    <2> QED
      BY <2>2, <2>3, FS_EmptySet DEF Counted, Account
  <1>6. Closing /\ Slots /\ ReaderHandles /\ DispatcherHandles /\ OneDispatcher
    BY DEF Closing, Slots, ReaderHandles, DispatcherHandles, OneDispatcher, At, Stopping,
           ReaderAlive, DispatcherAlive
  <1>7. Silent
    BY <1>2 DEF Silent, ListenerTypes, CounterTypes
  <1> QED
    BY <1>1, <1>2, <1>3, <1>4, <1>5, <1>6, <1>7 DEF IInv, Types

\* Every step of every thread keeps the inductive invariant.
LEMMA StepIInv == IInv /\ [Next]_vars => IInv'
  <1> SUFFICES ASSUME IInv, [Next]_vars PROVE IInv'
    OBVIOUS
  <1>1. /\ UserTypes /\ ThreadTypes /\ SlotTypes /\ FlagTypes
        /\ ListenerTypes /\ BatchTypes /\ CounterTypes
    BY DEF IInv, Types
  <1>2. UserTypes' /\ ThreadTypes' /\ SlotTypes' /\ FlagTypes'
    BY <1>1, UserTypesStep, ThreadTypesStep, SlotTypesStep, FlagTypesStep
  <1>3. ListenerTypes' /\ BatchTypes' /\ CounterTypes'
    BY <1>1, ListenerTypesStep, BatchTypesStep, CounterTypesStep
  <1>4. OneStarter' /\ Fresh' /\ Mine'
    BY <1>1, OneStarterStep, FreshStep, MineStep DEF IInv
  <1>5. SenderHeld' /\ Counted'
    BY SenderHeldStep, CountedStep DEF IInv
  <1>6. Closing' /\ Slots'
    BY <1>1, ClosingStep, SlotsStep DEF IInv
  <1>7. ReaderHandles' /\ DispatcherHandles'
    BY <1>1, ReaderHandlesStep, DispatcherHandlesStep DEF IInv
  <1>8. OneDispatcher' /\ Silent'
    BY <1>1, OneDispatcherStep, SilentStep DEF IInv
  <1> QED
    BY <1>2, <1>3, <1>4, <1>5, <1>6, <1>7, <1>8 DEF IInv, Types

\* The inductive invariant holds of every reachable state.
LEMMA AlwaysIInv == Spec => []IInv
  BY InitIInv, StepIInv, PTL DEF Spec

\* Counters, types and late calls are parts of the invariant.
LEMMA IInvIsConsistent == IInv => TransportConsistent
  <1> SUFFICES ASSUME IInv PROVE TransportConsistent
    OBVIOUS
  <1>1. dispatch_queue_pending \in 0..batches
    BY AccountMeans DEF IInv, Counted
  <1>2. PendingIsExact
    BY DEF IInv, Counted, Account, PendingIsExact, Places
  <1>3. StaleCallsBounded
    BY DEF IInv, Silent, StaleCallsBounded
  <1>4. TypeOK
    <2>1. dispatch_queue_pending \in 0..MaxBatches
      BY <1>1, UdpTransportAssumption DEF IInv, Types, CounterTypes
    <2> QED
      BY <2>1 DEF IInv, Types, TypeOK, UserTypes, ThreadTypes, SlotTypes, FlagTypes, ListenerTypes,
                  BatchTypes, CounterTypes, UserLabels, ReaderLabels, DispatcherLabels, Batches
  <1> QED
    BY <1>2, <1>3, <1>4 DEF TransportConsistent

\* dispatch_queue_pending is exactly the number of batches on their way to a
\* dispatcher and never wraps, whichever thread ends first; and a listener that
\* was removed gets at most the batch in hand (queue_udp_dispatch, the loop of
\* spawn_udp_dispatch_thread and remove_listener in net.rs).
THEOREM TransportIsConsistent == Spec => []TransportConsistent
  BY AlwaysIInv, IInvIsConsistent, PTL

\* With no close under way there is nobody left to stop what still runs.
LEMMA IInvStopsThreads == IInv => CloseStopsThreads
  <1> SUFFICES ASSUME IInv, closed, ~late_start,
                      \A u \in Users : upc[u] \notin Starting \cup Stopping
               PROVE  /\ ~ping
                      /\ \A i \in Incarnations : ~ReaderAlive(i)
                      /\ \A i \in Incarnations : DispatcherAlive(i) => i \in detached
    BY DEF CloseStopsThreads
  <1>1. \A labels \in SUBSET (Starting \cup Stopping) : ~At(labels)
    BY DEF At
  <1>2. ~ping /\ reader = None /\ dispatcher = None
    BY <1>1 DEF IInv, Closing, Starting, Stopping
  <1>3. \A u \in Users : upc[u] \notin {"join_reader", "join_dispatcher", "undo"}
    BY DEF Starting, Stopping
  <1> QED
    BY <1>2, <1>3 DEF IInv, ReaderHandles, DispatcherHandles, None, Incarnations

\* Once close has returned to every caller, the reader and the ping are gone, and
\* a dispatcher runs only if it is the one that closed (close and
\* stop_reader_threads in net.rs), for any number of closes at once.
THEOREM CloseLeavesNoThread == Spec => []CloseStopsThreads
  BY AlwaysIInv, IInvStopsThreads, PTL

-----------------------------------------------------------------------------
(******************************** the pings ********************************)

\* The number in use while a ping is sent: not out before the datagram leaves,
\* and neither answered nor given up before RecordSent.
Sending ==
    /\ pc = "send" => sequence \notin went_out
    /\ pc \in {"send", "sent", "failed"} => sequence > 0 /\ sent # sequence
    /\ pc = "sent" => sequence \in went_out \ (answered \cup timed_out)
    /\ (pc \in {"round", "woken"} /\ ~stop) => sequence < MaxPings
    /\ pc = "round" => sequence < MaxPings
    /\ pc \in {"send", "failed"} => send_errors < sequence

\* PingTypeOK in three parts, one for each prover.
Numbers ==
    /\ sequence \in 0..MaxPings /\ sent \in 0..sequence /\ send_errors \in 0..sequence
    /\ replies \subseteq went_out /\ went_out \subseteq 1..sequence
    /\ answered \subseteq Pings /\ timed_out \subseteq Pings

Labels ==
    /\ old \in BOOLEAN /\ (old => sent # NoPing)
    /\ stop \in BOOLEAN
    /\ pc \in {"check", "cond", "sleep", "asleep", "woken", "round", "send", "sent", "failed",
               "ended"}
    /\ spc \in {"idle", "notify", "join", "stopped"}

TimeoutsCounted == timeouts = Cardinality(timed_out)

\* The three parts together are PingTypeOK.
LEMMA TypeParts == PingTypeOK <=> Numbers /\ Labels /\ TimeoutsCounted
  BY Zenon DEF PingTypeOK, Numbers, Labels, TimeoutsCounted

\* The same of the state after a step.
LEMMA TypePartsPrime == PingTypeOK' <=> Numbers' /\ Labels' /\ TimeoutsCounted'
  BY Zenon DEF PingTypeOK, Numbers, Labels, TimeoutsCounted

PingIInv == PingTypeOK /\ AnsweredOrTimedOut /\ Sending

\* The initial state has the inductive invariant.
LEMMA InitPingIInv == PingInit => PingIInv
  <1> SUFFICES ASSUME PingInit PROVE PingIInv
    OBVIOUS
  <1>1. PingTypeOK
    <2>1. Numbers
      BY MaxPingsAssumption DEF PingInit, Numbers, NoPing
    <2>2. Labels
      BY Zenon DEF PingInit, Labels
    <2>3. TimeoutsCounted
      BY FS_EmptySet DEF PingInit, TimeoutsCounted
    <2> QED
      BY <2>1, <2>2, <2>3, TypeParts
  <1>2. AnsweredOrTimedOut
    BY DEF PingInit, AnsweredOrTimedOut
  <1>3. Sending
    BY MaxPingsAssumption DEF PingInit, Sending
  <1> QED
    BY <1>1, <1>2, <1>3 DEF PingIInv

\* Giving up a ping that was not given up before adds one to the count.
LEMMA CountOneMore ==
    ASSUME NEW S \in SUBSET Pings, NEW n \in Pings, n \notin S
    PROVE  Cardinality(S \cup {n}) = Cardinality(S) + 1
  <1>1. IsFiniteSet(Pings)
    BY MaxPingsAssumption, FS_Interval DEF Pings
  <1>2. IsFiniteSet(S)
    BY <1>1, FS_Subset
  <1> QED
    BY <1>2, FS_AddElement

\* Steps that touch neither the account nor the numbers.
LEMMA QuietStep ==
    ASSUME PingIInv, UNCHANGED <<state, replies, pingHistory>>,
           stop' \in BOOLEAN, stop => stop',
           spc' \in {"idle", "notify", "join", "stopped"},
           pc' \in {"check", "cond", "sleep", "asleep", "woken", "round", "failed", "ended"},
           pc' = "failed" => pc \in {"send", "failed"},
           (pc' \in {"round", "woken"} /\ ~stop') => sequence < MaxPings,
           pc' = "round" => sequence < MaxPings
    PROVE  PingIInv'
  <1>1. PingTypeOK'
    <2>11. Numbers'
      BY TypeParts DEF PingIInv, Numbers, state, pingHistory, Pings
    <2>12. Labels'
      BY TypeParts, Zenon DEF PingIInv, Labels, state
    <2>13. TimeoutsCounted'
      BY TypeParts DEF PingIInv, TimeoutsCounted, state, pingHistory
    <2> QED
      BY <2>11, <2>12, <2>13, TypePartsPrime
  <1>2. AnsweredOrTimedOut'
    BY DEF PingIInv, AnsweredOrTimedOut, state, pingHistory
  <1>3. Sending'
    BY DEF PingIInv, Sending, PingTypeOK, state, pingHistory
  <1> QED
    BY <1>1, <1>2, <1>3 DEF PingIInv

\* A round gives up a ping that is too old and takes the next number.
LEMMA RoundStep == ASSUME PingIInv, Round PROVE PingIInv'
  <1> USE DEF PingIInv
  <1>1. sequence \in Nat /\ sequence + 1 \in 1..MaxPings /\ sequence' = sequence + 1
    BY MaxPingsAssumption DEF Round, Sending, PingTypeOK
  <1>2. sent \in 0..sequence /\ (sent # NoPing => sent \in Pings /\ sent \notin timed_out)
    BY MaxPingsAssumption DEF PingTypeOK, AnsweredOrTimedOut, Pings, NoPing
  <1>3. timeouts' = Cardinality(timed_out')
    <2>1. CASE sent # NoPing /\ old
      <3>1. timed_out \in SUBSET Pings /\ timeouts = Cardinality(timed_out)
        BY DEF PingTypeOK
      <3>2. timed_out' = timed_out \cup {sent} /\ timeouts' = timeouts + 1
        BY <2>1 DEF Round
      <3> QED
        BY <3>1, <3>2, <2>1, <1>2, CountOneMore
    <2>2. CASE ~(sent # NoPing /\ old)
      BY <2>2 DEF Round, PingTypeOK
    <2> QED
      BY <2>1, <2>2
  <1>4. PingTypeOK'
    <2>11. Numbers'
      BY <1>1, <1>2, TypeParts DEF Round, Numbers, NoPing
    <2>12. Labels'
      BY TypeParts, Zenon DEF Round, Labels
    <2>13. TimeoutsCounted'
      BY <1>3 DEF TimeoutsCounted
    <2> QED
      BY <2>11, <2>12, <2>13, TypePartsPrime
  <1>5. AnsweredOrTimedOut'
    BY <1>2 DEF Round, AnsweredOrTimedOut
  <1>6. Sending'
    BY <1>1, <1>2 DEF Round, Sending, PingTypeOK, NoPing
  <1> QED
    BY <1>4, <1>5, <1>6

\* The datagram leaves: its number was not out before.
LEMMA SendStep == ASSUME PingIInv, Send PROVE PingIInv'
  <1> USE DEF PingIInv, Send
  <1>1. sequence \in 1..MaxPings
    BY MaxPingsAssumption DEF Sending, PingTypeOK
  <1>2. sequence \notin answered \cup timed_out
    BY DEF Sending, AnsweredOrTimedOut
  <1>3. PingTypeOK'
    <2>11. Numbers'
      BY <1>1, TypeParts DEF Numbers, state
    <2>12. Labels'
      BY TypeParts, Zenon DEF Labels, state
    <2>13. TimeoutsCounted'
      BY TypeParts DEF TimeoutsCounted, state
    <2> QED
      BY <2>11, <2>12, <2>13, TypePartsPrime
  <1>4. AnsweredOrTimedOut'
    BY DEF AnsweredOrTimedOut, state
  <1>5. Sending'
    BY <1>1, <1>2 DEF Sending, state, PingTypeOK
  <1> QED
    BY <1>3, <1>4, <1>5

\* The ping that left is out, or the failure is counted.
LEMMA RecordStep == ASSUME PingIInv, RecordSent \/ RecordError PROVE PingIInv'
  <1> USE DEF PingIInv
  <1>1. CASE RecordSent
    <2>1. PingTypeOK'
      <3>1. Numbers'
        BY <1>1, TypeParts DEF RecordSent, Numbers, Sending, pingHistory
      <3>2. Labels'
        BY <1>1, TypeParts, Zenon DEF RecordSent, Labels
      <3>3. TimeoutsCounted'
        BY <1>1, TypeParts DEF RecordSent, TimeoutsCounted, pingHistory
      <3> QED
        BY <3>1, <3>2, <3>3, TypePartsPrime
    <2>2. AnsweredOrTimedOut'
      BY <1>1 DEF RecordSent, AnsweredOrTimedOut, Sending, pingHistory
    <2>3. Sending'
      BY <1>1 DEF RecordSent, Sending, pingHistory
    <2> QED
      BY <2>1, <2>2, <2>3
  <1>2. CASE RecordError
    <2>1. PingTypeOK'
      <3>1. Numbers'
        BY <1>2, TypeParts DEF RecordError, Numbers, Sending, pingHistory, NoPing
      <3>2. Labels'
        BY <1>2, TypeParts, Zenon DEF RecordError, Labels
      <3>3. TimeoutsCounted'
        BY <1>2, TypeParts DEF RecordError, TimeoutsCounted, pingHistory
      <3> QED
        BY <3>1, <3>2, <3>3, TypePartsPrime
    <2>2. AnsweredOrTimedOut'
      BY <1>2 DEF RecordError, AnsweredOrTimedOut, pingHistory
    <2>3. Sending'
      BY <1>2 DEF RecordError, Sending, PingTypeOK, pingHistory
    <2> QED
      BY <2>1, <2>2, <2>3
  <1> QED
    BY <1>1, <1>2

\* A reply answers the ping that is out, or changes nothing.
LEMMA ReplyStep == ASSUME PingIInv, NEW reply \in Pings, handle_packet(reply) PROVE PingIInv'
  <1> USE DEF PingIInv
  <1>1. reply # NoPing /\ reply \in went_out
    BY DEF handle_packet, PingTypeOK, Pings, NoPing
  <1>2. PingTypeOK'
    <2>11. Numbers'
      <3>1. answered' \subseteq Pings /\ replies' \subseteq went_out
        BY <1>1, TypeParts DEF handle_packet, Numbers
      <3>2. sent' \in 0..sequence
        BY <1>1, TypeParts DEF handle_packet, Numbers, NoPing
      <3> QED
        BY <3>1, <3>2, TypeParts DEF handle_packet, Numbers
    <2>12. Labels'
      BY TypeParts, Zenon DEF handle_packet, Labels
    <2>13. TimeoutsCounted'
      BY TypeParts DEF handle_packet, TimeoutsCounted
    <2> QED
      BY <2>11, <2>12, <2>13, TypePartsPrime
  <1>3. AnsweredOrTimedOut'
    BY <1>1 DEF handle_packet, Answers, AnsweredOrTimedOut
  <1>4. Sending'
    BY <1>1 DEF handle_packet, Answers, Sending, PingTypeOK, NoPing
  <1> QED
    BY <1>2, <1>3, <1>4

\* The invariant is kept by every step.
LEMMA NextPingIInv == PingIInv /\ [PingNext]_pingVars => PingIInv'
  <1> SUFFICES ASSUME PingIInv, [PingNext]_pingVars PROVE PingIInv'
    OBVIOUS
  <1>1. CASE CheckStop \/ Condition \/ Sleep \/ WaitTimesOut \/ Woken \/ SendFails
    <2>1. stop \in BOOLEAN /\ spc \in {"idle", "notify", "join", "stopped"}
      BY DEF PingIInv, PingTypeOK
    <2> QED
      BY <1>1, <2>1, QuietStep
         DEF CheckStop, Condition, Sleep, WaitTimesOut, Woken, SendFails, PingIInv, Sending
  <1>2. CASE Round
    BY <1>2, RoundStep
  <1>3. CASE Send
    BY <1>3, SendStep
  <1>4. CASE RecordSent \/ RecordError
    BY <1>4, RecordStep
  <1>5. CASE GrowOld
    <2>1. PingTypeOK'
      <3>1. Numbers'
        BY <1>5, TypeParts DEF PingIInv, GrowOld, Numbers, pingHistory
      <3>2. Labels'
        BY <1>5, TypeParts, Zenon DEF PingIInv, GrowOld, Labels
      <3>3. TimeoutsCounted'
        BY <1>5, TypeParts DEF PingIInv, GrowOld, TimeoutsCounted, pingHistory
      <3> QED
        BY <3>1, <3>2, <3>3, TypePartsPrime
    <2>2. AnsweredOrTimedOut' /\ Sending'
      BY <1>5 DEF GrowOld, PingIInv, AnsweredOrTimedOut, Sending, pingHistory
    <2> QED
      BY <2>1, <2>2 DEF PingIInv
  <1>6. ASSUME NEW reply \in Pings, handle_packet(reply) PROVE PingIInv'
    BY <1>6, ReplyStep
  <1>7. CASE SetStop \/ NotifyAll \/ Join
    <2> USE <1>7 DEF SetStop, NotifyAll, Join, PingIInv, state, pingHistory
    <2>1. PingTypeOK'
      <3>1. Numbers'
        BY TypeParts DEF Numbers
      <3>2. Labels'
          <4>1. CASE SetStop
          BY <4>1, TypeParts, Zenon DEF Labels
        <4>2. CASE NotifyAll
          BY <4>2, TypeParts DEF Labels
        <4>3. CASE Join
          BY <4>3, TypeParts, Zenon DEF Labels
        <4> QED
          BY <4>1, <4>2, <4>3
      <3>3. TimeoutsCounted'
        BY TypeParts DEF TimeoutsCounted
      <3> QED
        BY <3>1, <3>2, <3>3, TypePartsPrime
    <2>2. AnsweredOrTimedOut'
      BY DEF AnsweredOrTimedOut
    <2>3. Sending'
      BY DEF Sending, PingTypeOK
    <2> QED
      BY <2>1, <2>2, <2>3
  <1>8. CASE UNCHANGED pingVars
    BY <1>8 DEF pingVars, state, pingHistory, PingIInv, PingTypeOK, AnsweredOrTimedOut, Sending
  <1> QED
    BY <1>1, <1>2, <1>3, <1>4, <1>5, <1>6, <1>7, <1>8 DEF PingNext, ThreadStep, StopStep

\* Every behaviour of the ping thread, its replies and stop() has the types.
THEOREM PingTypeCorrect == PingSpec => []PingTypeOK
  <1>1. PingIInv => PingTypeOK
    BY DEF PingIInv
  <1> QED
    BY <1>1, InitPingIInv, NextPingIInv, PTL DEF PingSpec

\* For any number of pings, no ping is counted both as answered and as timed
\* out, and none is counted that did not go out.
THEOREM PingAccount == PingSpec => []AnsweredOrTimedOut
  <1>1. PingIInv => AnsweredOrTimedOut
    BY DEF PingIInv
  <1> QED
    BY <1>1, InitPingIInv, NextPingIInv, PTL DEF PingSpec

\* The ping that is out is the newest, or the one before while a ping is sent.
Recent ==
    sent # NoPing =>
        sent = IF pc \in {"send", "sent", "failed"} THEN sequence - 1 ELSE sequence

\* Every step keeps it so.
LEMMA RecentKept == PingIInv /\ Recent /\ [PingNext]_pingVars => Recent'
  <1> SUFFICES ASSUME PingIInv, Recent, [PingNext]_pingVars PROVE Recent'
    OBVIOUS
  <1>1. sequence \in Int /\ sent \in Int
    BY MaxPingsAssumption DEF PingIInv, PingTypeOK
  <1>2. CASE Round
    BY <1>1, <1>2 DEF Round, Recent, NoPing
  <1>3. CASE RecordSent \/ RecordError
    BY <1>1, <1>3 DEF RecordSent, RecordError, Recent
  <1>4. CASE CheckStop \/ Condition \/ Sleep \/ WaitTimesOut \/ Woken \/ Send \/ SendFails
    BY <1>1, <1>4
       DEF CheckStop, Condition, Sleep, WaitTimesOut, Woken, Send, SendFails, Recent, state
  <1>5. ASSUME NEW reply \in Pings, handle_packet(reply) PROVE Recent'
    BY <1>5 DEF handle_packet, Recent
  <1>6. CASE GrowOld \/ SetStop \/ NotifyAll \/ Join \/ UNCHANGED pingVars
    BY <1>1, <1>6 DEF GrowOld, SetStop, NotifyAll, Join, pingVars, state, Recent
  <1> QED
    BY <1>2, <1>3, <1>4, <1>5, <1>6 DEF PingNext, ThreadStep, StopStep

\* A round-trip time is only taken of the newest ping that was sent or, while the
\* next one is being sent, of the one before (UDPPing::handle_packet), for
\* any number of pings and replies that are late or come again.
THEOREM OnlyRecentTaken == PingSpec => OnlyRecentAnswered
  <1>1. PingInit => Recent
    BY DEF PingInit, Recent
  <1>2. ASSUME PingIInv, Recent, [PingNext]_pingVars
        PROVE  [\A n \in answered' \ answered : n \in {sequence - 1, sequence}]_pingVars
    <2>1. ASSUME NEW reply \in Pings, handle_packet(reply)
          PROVE  \A n \in answered' \ answered : n \in {sequence - 1, sequence}
      <3>1. \A n \in answered' \ answered : n = reply /\ sent = reply /\ reply # NoPing
        BY <2>1 DEF handle_packet, Answers, Pings, NoPing
      <3> QED
        BY <1>2, <3>1 DEF Recent
    <2>2. CASE ~\E reply \in Pings : handle_packet(reply)
      <3>1. answered' = answered
        BY <1>2, <2>2
           DEF PingNext, ThreadStep, StopStep, CheckStop, Condition, Sleep, WaitTimesOut, Woken, Round,
               Send, SendFails, RecordSent, RecordError, GrowOld, SetStop, NotifyAll, Join, pingVars,
               pingHistory
      <3> QED
        BY <3>1
    <2> QED
      BY <2>1, <2>2
  <1> QED
    BY <1>1, <1>2, InitPingIInv, NextPingIInv, RecentKept, PTL DEF PingSpec, OnlyRecentAnswered
=============================================================================

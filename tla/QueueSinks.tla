----------------------------- MODULE QueueSinks -----------------------------
(***************************************************************************)
(* QueueSink and AsyncQueueSink (media.py): packets go into a bounded      *)
(* queue that the application empties at its own pace.                     *)
(*                                                                         *)
(* QueueSink.write runs on whatever thread feeds the sink: the dispatcher, *)
(* and the thread of a SilenceFillSink in front of it.  Each call of the   *)
(* queue.Queue is atomic (the library's mutex), the steps between are not. *)
(* AsyncQueueSink.write only schedules _put_packet on the event loop,      *)
(* where the asyncio.Queue is filled and emptied without interruption.     *)
(* A packet is the pair of its writer and its position.                    *)
(***************************************************************************)
EXTENDS Naturals, Sequences, FiniteSets

CONSTANTS
    Writers,      \* threads that call write
    MaxWrites,    \* packets per writer (bound)
    MaxSize       \* maxsize of the queue

ASSUME QueueAssumption ==
    /\ IsFiniteSet(Writers) /\ Writers # {}
    /\ MaxWrites \in Nat /\ MaxSize \in Nat \ {0}

VARIABLES
    drop_oldest,   \* the drop_oldest option of the sinks
    queue,         \* contents of the queue.Queue
    unfinished,    \* its count of tasks not done
    taken,         \* packets the consumer has taken and not marked done
    dropped,       \* QueueSink.dropped
    q_closed,      \* _closed
    writing,       \* per writer: where it is in write
    written,       \* per writer: how many packets it has written
    lost,          \* history: packets that will never reach the consumer
    awritten,      \* per writer: packets written to the AsyncQueueSink
    scheduled,     \* callbacks waiting on the event loop
    aqueue,        \* contents of the asyncio.Queue
    adropped,      \* AsyncQueueSink.dropped
    alost,         \* history: packets lost between write and the consumer
    aconsumed,     \* history: packets the application has got
    a_closed,      \* _closed of the AsyncQueueSink
    loop_closed    \* the event loop is closed

qvars == <<drop_oldest, queue, unfinished, taken, dropped, q_closed, writing, written, lost>>
avars == <<awritten, scheduled, aqueue, adropped, alost, aconsumed, a_closed, loop_closed>>
queueVars == <<qvars, avars>>

Packet(w) == <<w, written[w] + 1>>

QueueInit ==
    /\ drop_oldest \in BOOLEAN
    /\ queue = <<>> /\ unfinished = 0 /\ taken = {} /\ dropped = 0
    /\ q_closed = FALSE
    /\ writing = [w \in Writers |-> "idle"]
    /\ written = [w \in Writers |-> 0]
    /\ lost = {}

AsyncInit ==
    /\ awritten = [w \in Writers |-> 0]
    /\ scheduled = <<>> /\ aqueue = <<>> /\ adropped = 0 /\ alost = {}
    /\ aconsumed = {} /\ a_closed = FALSE /\ loop_closed = FALSE

-----------------------------------------------------------------------------
(* QueueSink.  A write is over when the writer's packet is counted.        *)

Finish(w, at) ==
    /\ writing' = [writing EXCEPT ![w] = at]
    /\ written' = IF at = "idle" THEN [written EXCEPT ![w] = @ + 1] ELSE written

\* queue.Queue.put_nowait
PutNowait(p) ==
    /\ Len(queue) < MaxSize
    /\ queue' = Append(queue, p)
    /\ unfinished' = unfinished + 1

\* queue.Queue.task_done: more calls than packets would raise ValueError
TaskDone == unfinished' = IF unfinished > 0 THEN unfinished - 1 ELSE unfinished

\* write, up to the first put_nowait
Write(w) ==
    /\ writing[w] = "idle" /\ written[w] < MaxWrites
    /\ ~q_closed
    /\ \/ /\ PutNowait(Packet(w))
          /\ Finish(w, "idle")
          /\ UNCHANGED <<dropped, lost>>
       \/ /\ Len(queue) = MaxSize /\ ~drop_oldest
          /\ dropped' = dropped + 1
          /\ lost' = lost \cup {Packet(w)}
          /\ Finish(w, "idle")
          /\ UNCHANGED <<queue, unfinished>>
       \/ /\ Len(queue) = MaxSize /\ drop_oldest
          /\ Finish(w, "full")
          /\ UNCHANGED <<queue, unfinished, dropped, lost>>
    /\ UNCHANGED <<taken, q_closed, drop_oldest, avars>>

\* The oldest packet is taken out; the queue may have been emptied meanwhile
TakeOldest(w) ==
    /\ writing[w] = "full"
    /\ IF queue = <<>>
       THEN /\ Finish(w, "retry")
            /\ UNCHANGED <<queue, lost>>
       ELSE /\ queue' = Tail(queue)
            /\ lost' = lost \cup {Head(queue)}
            /\ Finish(w, "got")
    /\ UNCHANGED <<unfinished, taken, dropped, q_closed, drop_oldest, avars>>

(* A mutation of MarkOldestDone: the dropped packet is not marked done. *)
MarkOldestDoneNot(w) ==
    /\ writing[w] = "got"
    /\ Finish(w, "retry")
    /\ UNCHANGED <<unfinished, queue, taken, dropped, q_closed, lost, drop_oldest, avars>>

MarkOldestDone(w) ==
    /\ writing[w] = "got"
    /\ TaskDone
    /\ Finish(w, "retry")
    /\ UNCHANGED <<queue, taken, dropped, q_closed, lost, drop_oldest, avars>>

\* The second put_nowait; another writer may have filled the queue again
PutAgain(w) ==
    /\ writing[w] = "retry"
    /\ \/ PutNowait(Packet(w)) /\ UNCHANGED lost
       \/ /\ Len(queue) = MaxSize
          /\ lost' = lost \cup {Packet(w)}
          /\ UNCHANGED <<queue, unfinished>>
    /\ dropped' = dropped + 1
    /\ Finish(w, "idle")
    /\ UNCHANGED <<taken, q_closed, drop_oldest, avars>>

\* get and get_nowait of the application
Get ==
    /\ queue # <<>>
    /\ taken' = taken \cup {Head(queue)}
    /\ queue' = Tail(queue)
    /\ UNCHANGED <<unfinished, dropped, q_closed, writing, written, lost, drop_oldest, avars>>

\* task_done of the application, once for each packet it got
ConsumerDone ==
    /\ \E p \in taken : taken' = taken \ {p}
    /\ TaskDone
    /\ UNCHANGED <<queue, dropped, q_closed, writing, written, lost, drop_oldest, avars>>

CloseQueueSink ==
    /\ ~q_closed
    /\ q_closed' = TRUE
    /\ UNCHANGED <<queue, unfinished, taken, dropped, writing, written, lost, drop_oldest, avars>>

-----------------------------------------------------------------------------
(* AsyncQueueSink                                                          *)

AsyncPacket(w) == <<w, awritten[w] + 1>>

\* write on the dispatcher: call_soon_threadsafe raises on a closed loop
AsyncWrite(w) ==
    /\ awritten[w] < MaxWrites /\ ~a_closed
    /\ awritten' = [awritten EXCEPT ![w] = @ + 1]
    /\ IF loop_closed
       THEN /\ adropped' = adropped + 1
            /\ alost' = alost \cup {AsyncPacket(w)}
            /\ UNCHANGED scheduled
       ELSE /\ scheduled' = Append(scheduled, AsyncPacket(w))
            /\ UNCHANGED <<adropped, alost>>
    /\ UNCHANGED <<qvars, aqueue, aconsumed, a_closed, loop_closed>>

\* _put_packet, run by the event loop
PutPacket ==
    /\ scheduled # <<>> /\ ~loop_closed
    /\ scheduled' = Tail(scheduled)
    /\ LET p == Head(scheduled) IN
       \/ a_closed /\ UNCHANGED <<aqueue, adropped, alost>>
       \/ /\ ~a_closed /\ Len(aqueue) < MaxSize
          /\ aqueue' = Append(aqueue, p)
          /\ UNCHANGED <<adropped, alost>>
       \/ /\ ~a_closed /\ Len(aqueue) = MaxSize
          /\ adropped' = adropped + 1
          /\ aqueue' = IF drop_oldest THEN Append(Tail(aqueue), p) ELSE aqueue
          /\ alost' = alost \cup {IF drop_oldest THEN Head(aqueue) ELSE p}
    /\ UNCHANGED <<qvars, awritten, aconsumed, a_closed, loop_closed>>

AsyncGet ==
    /\ aqueue # <<>> /\ ~loop_closed
    /\ aconsumed' = aconsumed \cup {Head(aqueue)}
    /\ aqueue' = Tail(aqueue)
    /\ UNCHANGED <<qvars, awritten, scheduled, adropped, alost, a_closed, loop_closed>>

CloseAsyncSink ==
    /\ ~a_closed
    /\ a_closed' = TRUE
    /\ UNCHANGED <<qvars, awritten, scheduled, aqueue, adropped, alost, aconsumed, loop_closed>>

\* The application closes its event loop
CloseLoop ==
    /\ ~loop_closed
    /\ loop_closed' = TRUE
    /\ UNCHANGED <<qvars, awritten, scheduled, aqueue, adropped, alost, aconsumed, a_closed>>

QueueNext ==
    \/ \E w \in Writers : Write(w) \/ TakeOldest(w) \/ MarkOldestDone(w) \/ PutAgain(w)
    \/ Get \/ ConsumerDone \/ CloseQueueSink

AsyncNext ==
    \/ \E w \in Writers : AsyncWrite(w)
    \/ PutPacket \/ AsyncGet \/ CloseAsyncSink \/ CloseLoop

QueueSpec == QueueInit /\ AsyncInit /\ [][QueueNext \/ AsyncNext]_queueVars

-----------------------------------------------------------------------------
Range1(s) == {s[i] : i \in DOMAIN s}

\* join() of the queue waits for exactly the packets that are in the queue, in
\* the application's hands, or about to be marked done by a writer that drops
\* the oldest one: a missing or an extra task_done would make join hang, or
\* return early.
UnfinishedExact ==
    unfinished = Len(queue) + Cardinality(taken)
                    + Cardinality({w \in Writers : writing[w] = "got"})

\* dropped never hides a loss from a single writer, whatever the consumer does
\* in between; writers that race for the last place hide one loss each.
LossesCounted ==
    (\A w \in Writers : writing[w] = "idle")
        => Cardinality(lost) <= dropped * (IF Cardinality(Writers) = 1 THEN 1 ELSE 2)

\* On the event loop nothing comes between finding the queue full and making
\* room: dropped of AsyncQueueSink is exactly the number of lost packets.
AsyncDropsExact == adropped = Cardinality(alost)

\* Every packet an open AsyncQueueSink accepted is on its way, in the queue,
\* with the application or counted as lost: none disappears in between.
AsyncConserves ==
    a_closed \/ \A w \in Writers : \A i \in 1 .. awritten[w] :
        Cardinality({s \in {"loop", "queue", "got", "lost"} :
            <<w, i>> \in CASE s = "loop" -> Range1(scheduled)
                           [] s = "queue" -> Range1(aqueue)
                           [] s = "got" -> aconsumed
                           [] s = "lost" -> alost}) = 1

\* Every packet given to a queue sink is accounted for: join() waits for the right
\* number, and dropped tells of the losses.
QueuesAccount == UnfinishedExact /\ LossesCounted /\ AsyncDropsExact /\ AsyncConserves
=============================================================================

----------------------------- MODULE VideoNack -----------------------------
(***************************************************************************)
(* Loss detection and NACK bookkeeping of the receive path (client.py:     *)
(* _track_video_receive_sequence and what it calls), for one video SSRC.   *)
(*                                                                         *)
(* Two threads run the same code on the same dictionaries without a lock:  *)
(* the UDP dispatcher, for every packet, and the retry thread, every       *)
(* VIDEO_NACK_RETRY_INTERVAL.  Under the GIL a step here is what runs       *)
(* between two points at which the interpreter may switch threads.  The    *)
(* table _video_receive_pending_nacks maps the SSRC to a dictionary of     *)
(* pending NACKs; the dictionary is an object with an identity, and a      *)
(* thread may go on using one that is no longer in the table.              *)
(***************************************************************************)
EXTENDS RtpSequence, FiniteSets

CONSTANTS
    MaxOutstanding,     \* VIDEO_NACK_MAX_OUTSTANDING
    MaxRetries,         \* VIDEO_NACK_MAX_RETRIES
    ChunkMax,           \* RTCP_NACK_MAX_SEQUENCES
    FirstIndex,         \* the first packet the receiver can see
    LastIndex,          \* bound: the last packet the sender emits
    MaxDicts,           \* bound: dictionaries created
    MaxResets,          \* bound: how often listening is stopped
    MaxPackets          \* bound: packets that arrive

ASSUME NackAssumption ==
    /\ MaxOutstanding \in Nat \ {0} /\ MaxRetries \in Nat \ {0} /\ ChunkMax \in Nat \ {0}
    /\ FirstIndex \in Nat /\ LastIndex \in Nat /\ LastIndex - FirstIndex < Half
    /\ MaxDicts \in Nat \ {0} /\ MaxResets \in Nat /\ MaxPackets \in Nat

Threads == {"dispatcher", "retry"}
Dicts == 1..MaxDicts
None == 0               \* no dictionary in the table
NoSequence == -1

VARIABLES
    table,      \* _video_receive_pending_nacks.get(ssrc): a dictionary or None
    dicts,      \* dictionary -> (sequence -> _PendingVideoNack)
    created,    \* dictionaries created so far
    last,       \* _video_receive_last_sequences.get(ssrc)
    pc,         \* per thread: where it is
    pending,    \* per thread: the local variable of _retry_/_add_pending_video_nacks
    batch,      \* per thread: the sequences it is about to add, expire or send
    target,     \* per thread: the local variable of _send_pending_video_nacks
    caller,     \* per thread: where _send_pending_video_nacks returns to
    listening,  \* the retry thread has not been told to stop
    settled,    \* history: sequences that arrived and were not missed since
    plis,       \* history: keyframes requested after an overflow
    resets, packets     \* history: bounded counters

local == <<pc, pending, batch, target, caller>>
vars == <<table, dicts, created, last, pc, pending, batch, target, caller, listening,
          settled, plis, resets, packets>>

Init ==
    /\ table = None
    /\ dicts = [d \in Dicts |-> <<>>]
    /\ created = 0
    /\ last = NoSequence
    /\ pc = [t \in Threads |-> "idle"]
    /\ pending = [t \in Threads |-> None]
    /\ batch = [t \in Threads |-> {}]
    /\ target = [t \in Threads |-> None]
    /\ caller = [t \in Threads |-> "retry"]
    /\ listening = TRUE
    /\ settled = {}
    /\ plis = 0 /\ resets = 0 /\ packets = 0

Without(f, S) == [x \in DOMAIN f \ S |-> f[x]]

\* A _PendingVideoNack: its retries, and whether sent_at lies less than a
\* retry interval back.
Fresh == [retries |-> 0, recent |-> FALSE]

Goto(t, label) == pc' = [pc EXCEPT ![t] = label]

-----------------------------------------------------------------------------
(************************ the dispatcher: one packet ***********************)

\* The sequence numbers between the previous packet and this one.
Missing(previous, delta) == {(previous + k) % SeqMod : k \in 1..(delta - 1)}

\* _track_video_receive_sequence, up to the first call it makes.
Arrive(sequence, repaired) ==
    LET rest  == IF table = None THEN <<>> ELSE Without(dicts[table], {sequence})
        delta == SequenceDelta(sequence, last)
        ahead == last # NoSequence /\ delta # 0 /\ delta <= Half - 1
    IN  /\ pc["dispatcher"] = "idle"
        /\ packets < MaxPackets
        /\ packets' = packets + 1
        /\ settled' = settled \cup {sequence}
        /\ IF table = None
           THEN UNCHANGED <<dicts, table>>
           ELSE /\ dicts' = [dicts EXCEPT ![table] = rest]
                /\ table' = IF DOMAIN rest = {} THEN None ELSE table
        /\ last' = IF ~repaired /\ (last = NoSequence \/ ahead) THEN sequence ELSE last
        /\ IF ~repaired /\ ahead /\ delta > 1
           THEN /\ Goto("dispatcher", "link")
                /\ batch' = [batch EXCEPT !["dispatcher"] = Missing(last, delta)]
           ELSE /\ Goto("dispatcher", "retry")
                /\ UNCHANGED batch
        /\ UNCHANGED <<created, pending, target, caller, listening, plis, resets>>

\* _add_pending_video_nacks: the dictionary is looked up, or made and put into
\* the table while it is still empty.
Link(t) ==
    /\ pc[t] = "link"
    /\ IF table # None
       THEN /\ pending' = [pending EXCEPT ![t] = table]
            /\ UNCHANGED <<table, created, dicts>>
       ELSE /\ created < MaxDicts
            /\ created' = created + 1
            /\ table' = created + 1
            /\ dicts' = [dicts EXCEPT ![created + 1] = <<>>]
            /\ pending' = [pending EXCEPT ![t] = created + 1]
    /\ Goto(t, "insert")
    /\ UNCHANGED <<last, batch, target, caller, listening, settled, plis, resets, packets>>

Overflows(held, added) == Cardinality(held) + Cardinality(added) > MaxOutstanding

\* _add_pending_video_nacks: the missing packets are noted, or, if they are too
\* many, everything is given up and a keyframe is requested.
Insert(t) ==
    LET held  == DOMAIN dicts[pending[t]]
        added == batch[t] \ held
    IN  /\ pc[t] = "insert"
        /\ \/ /\ added = {}
              /\ Goto(t, "retry")
              /\ UNCHANGED <<table, dicts, batch, caller, plis, settled>>
           \/ /\ added # {} /\ Overflows(held, added)
              /\ dicts' = [dicts EXCEPT ![pending[t]] = <<>>]
              /\ table' = None
              /\ plis' = plis + 1
              /\ Goto(t, "retry")
              /\ UNCHANGED <<batch, caller, settled>>
           \/ /\ added # {} /\ ~Overflows(held, added)
              /\ dicts' = [dicts EXCEPT ![pending[t]] =
                    [s \in held \cup added |-> IF s \in held THEN @[s] ELSE Fresh]]
              /\ batch' = [batch EXCEPT ![t] = added]
              /\ caller' = [caller EXCEPT ![t] = "retry"]
              /\ settled' = settled \ added
              /\ Goto(t, "send")
              /\ UNCHANGED <<table, plis>>
        /\ UNCHANGED <<created, last, pending, target, listening, resets, packets>>

-----------------------------------------------------------------------------
(*************************** code of both threads **************************)

\* _send_pending_video_nacks looks the table up again and keeps what is pending.
SelectSendable(t) ==
    /\ pc[t] = "send"
    /\ LET sendable == IF table = None THEN {} ELSE batch[t] \cap DOMAIN dicts[table]
       IN  IF sendable = {}
           THEN Goto(t, caller[t]) /\ UNCHANGED <<batch, target>>
           ELSE /\ Goto(t, "chunk")
                /\ batch' = [batch EXCEPT ![t] = sendable]
                /\ target' = [target EXCEPT ![t] = table]
    /\ UNCHANGED <<table, dicts, created, last, pending, caller, listening, settled,
                   plis, resets, packets>>

\* A mutation of Counted: an entry that is gone is put back.
CountedAnyway(held, chunk, recent) ==
    [s \in DOMAIN held \cup chunk |->
        IF s \in chunk
        THEN [retries |-> (IF s \in DOMAIN held THEN held[s].retries ELSE 0) + 1,
              recent |-> recent]
        ELSE held[s]]

\* A mutation of Counted: the retries are not counted.
CountedNever(held, chunk, recent) ==
    [s \in DOMAIN held |-> IF s \in chunk THEN [held[s] EXCEPT !.recent = recent]
                                          ELSE held[s]]

\* After a NACK was sent: retries and sent_at of the entries that still exist.
Counted(held, chunk, recent) ==
    [s \in DOMAIN held |-> IF s \in chunk
                           THEN [retries |-> held[s].retries + 1, recent |-> recent]
                           ELSE held[s]]

\* A chunk goes out with _send_rtcp_nack (the GIL is released meanwhile), then
\* its entries are updated.  sent_at is the time the caller read on entry, which
\* may by now lie a retry interval back.
SendChunk(t) ==
    /\ pc[t] = "chunk"
    /\ \E chunk \in SUBSET batch[t], recent \in BOOLEAN :
          /\ chunk # {}
          /\ chunk = batch[t] \/ Cardinality(chunk) = ChunkMax
          /\ Cardinality(chunk) <= ChunkMax
          /\ dicts' = [dicts EXCEPT ![target[t]] = Counted(@, chunk, recent)]
          /\ batch' = [batch EXCEPT ![t] = @ \ chunk]
          /\ Goto(t, IF chunk = batch[t] THEN caller[t] ELSE "chunk")
    /\ UNCHANGED <<table, created, last, pending, target, caller, listening, settled,
                   plis, resets, packets>>

\* _retry_pending_video_nacks: entries that were retried often enough ...
Expired(held) == {s \in DOMAIN held : held[s].retries >= MaxRetries}

\* ... and entries whose last NACK lies a retry interval back.
Due(held) == {s \in DOMAIN held \ Expired(held) : ~held[s].recent}

\* _retry_pending_video_nacks looks the table up.
Retry(t) ==
    /\ pc[t] = "retry"
    /\ pending' = [pending EXCEPT ![t] = table]
    /\ Goto(t, IF table = None THEN "idle" ELSE "expire")
    /\ UNCHANGED <<table, dicts, created, last, batch, target, caller, listening,
                   settled, plis, resets, packets>>

\* It classifies the entries and drops the expired ones; the entries that are
\* due are sent.
Expire(t) ==
    LET held == dicts[pending[t]]
    IN  /\ pc[t] = "expire"
        /\ dicts' = [dicts EXCEPT ![pending[t]] = Without(held, Expired(held))]
        /\ batch' = [batch EXCEPT ![t] = Due(held)]
        /\ caller' = [caller EXCEPT ![t] = "finish"]
        /\ Goto(t, IF Due(held) = {} THEN "finish" ELSE "send")
        /\ UNCHANGED <<table, created, last, pending, target, listening, settled, plis,
                       resets, packets>>

\* If nothing is pending in the dictionary it looked up, it removes the SSRC
\* from the table (whatever dictionary is there by now).
Finish(t) ==
    /\ pc[t] = "finish"
    /\ table' = IF DOMAIN dicts[pending[t]] = {} THEN None ELSE table
    /\ Goto(t, "idle")
    /\ UNCHANGED <<dicts, created, last, pending, batch, target, caller, listening,
                   settled, plis, resets, packets>>

-----------------------------------------------------------------------------
\* The retry thread wakes up and finds the SSRC in the table.
Wake ==
    /\ listening
    /\ pc["retry"] = "idle"
    /\ table # None
    /\ Goto("retry", "retry")
    /\ UNCHANGED <<table, dicts, created, last, pending, batch, target, caller, listening,
                   settled, plis, resets, packets>>

\* A retry interval passes: no entry was sent recently.
Tick ==
    /\ \E d \in Dicts : \E s \in DOMAIN dicts[d] : dicts[d][s].recent
    /\ dicts' = [d \in Dicts |-> [s \in DOMAIN dicts[d] |->
                                    [dicts[d][s] EXCEPT !.recent = FALSE]]]
    /\ UNCHANGED <<table, created, last, local, listening, settled, plis, resets, packets>>

\* _reset_receive_transport_state on the thread that stops listening.  It joins
\* the retry thread for one second only, and does not wait for the dispatcher.
Reset ==
    /\ listening
    /\ resets < MaxResets
    /\ resets' = resets + 1
    /\ listening' = FALSE
    /\ table' = None
    /\ last' = NoSequence
    /\ UNCHANGED <<dicts, created, local, settled, plis, packets>>

\* listen(): a new retry thread; the old one has left its last call.
Listen ==
    /\ ~listening
    /\ pc["retry"] = "idle"
    /\ listening' = TRUE
    /\ UNCHANGED <<table, dicts, created, last, local, settled, plis, resets, packets>>

\* The sequence numbers of the packets that can arrive.
Arriving == {Wire(index) : index \in FirstIndex..LastIndex}

RetryPass(t) == SelectSendable(t) \/ SendChunk(t) \/ Retry(t) \/ Expire(t) \/ Finish(t)
Dispatcher == Link("dispatcher") \/ Insert("dispatcher") \/ RetryPass("dispatcher")
RetryThread == Wake \/ RetryPass("retry")

Next ==
    \/ \E sequence \in Arriving, repaired \in BOOLEAN : Arrive(sequence, repaired)
    \/ Dispatcher
    \/ RetryThread
    \/ Tick
    \/ Reset
    \/ Listen

Spec == Init /\ [][Next]_vars

\* Both threads keep running and time passes.  Packets need not arrive, and
\* nobody need stop or start listening.
Fairness == WF_vars(Dispatcher) /\ WF_vars(RetryThread) /\ WF_vars(Tick)

FairSpec == Spec /\ Fairness

-----------------------------------------------------------------------------
\* The variables keep their types; all sequence numbers, also those computed
\* as missing across a wrap-around, are 16-bit numbers.
TypeOK ==
    /\ table \in Dicts \cup {None}
    /\ \A d \in Dicts :
          /\ DOMAIN dicts[d] \subseteq 0..(SeqMod - 1)
          /\ \A s \in DOMAIN dicts[d] : dicts[d][s] \in [retries : Nat, recent : BOOLEAN]
    /\ created \in 0..MaxDicts
    /\ last \in -1..(SeqMod - 1)
    /\ pc \in [Threads -> {"idle", "link", "insert", "send", "chunk", "retry", "expire",
                           "finish"}]
    /\ pending \in [Threads -> Dicts \cup {None}]
    /\ target \in [Threads -> Dicts \cup {None}]
    /\ \A t \in Threads : batch[t] \subseteq 0..(SeqMod - 1)
    /\ caller \in [Threads -> {"retry", "finish"}]
    /\ listening \in BOOLEAN

\* However the two threads interleave, no more packets are outstanding than
\* VIDEO_NACK_MAX_OUTSTANDING.
OutstandingBounded ==
    \A d \in Dicts : Cardinality(DOMAIN dicts[d]) <= MaxOutstanding

\* A packet is asked for at most VIDEO_NACK_MAX_RETRIES times, plus once if both
\* threads found it due for the last time at the same moment.
RetriesBounded ==
    \A d \in Dicts : \A s \in DOMAIN dicts[d] : dicts[d][s].retries <= MaxRetries + 1

\* A packet that has arrived is not pending any more: a thread that was sending
\* a NACK for it in the meantime does not bring the entry back.
ArrivedIsSettled ==
    table # None => DOMAIN dicts[table] \cap settled = {}

\* The table of pending NACKs stays within its limits, and has no packet that
\* has arrived, although two threads change it without a lock.
NackBookkeeping == TypeOK /\ OutstandingBounded /\ RetriesBounded /\ ArrivedIsSettled

\* Nothing stays pending for ever: an entry in the table is removed when its
\* packet arrives, when it has been retried often enough, or with the table.
PendingSettles ==
    \A s \in Arriving :
        (table # None /\ s \in DOMAIN dicts[table] /\ listening)
            ~> (table = None \/ s \notin DOMAIN dicts[table] \/ ~listening)

\* What the README calls "RTX/NACK support for video packet recovery": while
\* listening goes on, a packet that is found missing is asked for.  When the
\* dispatcher is done with a packet, every entry has been sent at least once.
MissingIsAskedFor ==
    pc["dispatcher"] = "idle" /\ resets = 0 =>
        \A d \in Dicts : \A s \in DOMAIN dicts[d] : dicts[d][s].retries > 0
=============================================================================

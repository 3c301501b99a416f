------------------------ MODULE VideoFeedbackProofs ------------------------
(***************************************************************************)
(* Theorems about the RTCP feedback for incoming video: the NACK table     *)
(* that two threads change without a lock (VideoNack), and the receiver    *)
(* reports (ReceiverReport), each for every value of the constants.        *)
(*                                                                         *)
(* The limit on the retries is not inductive: it needs to know what each   *)
(* thread may still count (MayCount), one that classified the entries of a *)
(* dictionary that has left the table included, and that room for it is    *)
(* left in every entry (Room).                                             *)
(*                                                                         *)
(* The report is about numbers modulo SeqMod, the truth about the          *)
(* extended ones: Counting relates them by the number of cycles that had   *)
(* passed before the first packet, which nobody knows.                     *)
(***************************************************************************)
EXTENDS VideoNack, ReceiverReport, RtpSequenceProofs, FiniteSetTheorems

\* The types of the dictionaries' entries, and of the rest.
EntryTypes ==
    \A d \in Dicts :
        /\ DOMAIN dicts[d] \subseteq 0..(SeqMod - 1)
        /\ \A s \in DOMAIN dicts[d] : dicts[d][s] \in [retries : Nat, recent : BOOLEAN]

ThreadTypes ==
    /\ dicts = [d \in Dicts |-> dicts[d]]
    /\ table \in Dicts \cup {None}
    /\ created \in 0..MaxDicts
    /\ last \in -1..(SeqMod - 1)
    /\ pc \in [Threads -> {"idle", "link", "insert", "send", "chunk", "retry", "expire",
                           "finish"}]
    /\ pending \in [Threads -> Dicts \cup {None}]
    /\ target \in [Threads -> Dicts \cup {None}]
    /\ batch \in [Threads -> SUBSET (0..(SeqMod - 1))]
    /\ caller \in [Threads -> {"retry", "finish"}]
    /\ listening \in BOOLEAN

\* A thread that works in a dictionary has one, and only the dispatcher adds
\* entries.
Located ==
    /\ pc["retry"] \notin {"link", "insert"}
    /\ \A t \in Threads :
          /\ pc[t] \in {"insert", "expire", "finish"} => pending[t] \in Dicts
          /\ pc[t] \in {"send", "chunk"} /\ caller[t] = "finish" => pending[t] \in Dicts
          /\ pc[t] = "chunk" => target[t] \in Dicts

\* Nobody but the dispatcher puts a dictionary into the table, so the one it
\* works in is there until it leaves the table empty.
InStep == pc["dispatcher"] \in {"insert", "expire"} => table \in {pending["dispatcher"], None}

\* Thread t may yet count a NACK for s in d: it is about to send one, or it is
\* about to send those that are due in another dictionary, which the table does
\* not hold any more.
MayCount(t, d, s) ==
    \/ s \in batch[t] /\ pc[t] = "chunk" /\ target[t] = d
    \/ s \in batch[t] /\ pc[t] = "send" /\ table = d
    \/ pc[t] = "expire" /\ table = d /\ pending[t] # d

\* There is room in the retries of an entry for what both threads may count.
Room(d, s) ==
    /\ dicts[d][s].retries <= MaxRetries + 1
    /\ \A t \in Threads : MayCount(t, d, s) => dicts[d][s].retries <= MaxRetries
    /\ (\A t \in Threads : MayCount(t, d, s)) => dicts[d][s].retries < MaxRetries

Roomy == \A d \in Dicts : \A s \in DOMAIN dicts[d] : Room(d, s)

NackInv ==
    /\ EntryTypes /\ ThreadTypes /\ Located /\ InStep
    /\ Roomy /\ OutstandingBounded /\ ArrivedIsSettled

\* The inductive invariant says what the runs check, and more.
LEMMA NackInvSuffices == NackInv => NackBookkeeping
  BY DEF NackInv, NackBookkeeping, TypeOK, EntryTypes, ThreadTypes, Roomy, Room, RetriesBounded

\* An entry keeps its room if it is not counted and no thread is added that may
\* count it.
LEMMA RoomKept ==
    ASSUME NEW d, NEW s, Room(d, s), dicts'[d][s].retries = dicts[d][s].retries,
           \A t \in Threads : MayCount(t, d, s)' => MayCount(t, d, s)
    PROVE  Room(d, s)'
  BY DEF Room

\* An entry that was not asked for MaxRetries times has room for both threads.
LEMMA RoomLeft ==
    ASSUME NEW d, NEW s, dicts'[d][s].retries \in Nat, dicts'[d][s].retries < MaxRetries
    PROVE  Room(d, s)'
  BY NackAssumption DEF Room

\* A thread that counts an entry takes the room that was kept for it.
LEMMA RoomTaken ==
    ASSUME NEW d, NEW s, Room(d, s), dicts[d][s].retries \in Nat, NEW t \in Threads,
           dicts'[d][s].retries = dicts[d][s].retries + 1,
           MayCount(t, d, s), ~MayCount(t, d, s)',
           \A u \in Threads : MayCount(u, d, s)' => MayCount(u, d, s)
    PROVE  Room(d, s)'
  <1>1. dicts[d][s].retries <= MaxRetries
    BY DEF Room
  <1>2. ASSUME NEW u \in Threads, MayCount(u, d, s)'
        PROVE  dicts[d][s].retries < MaxRetries
    <2>1. \A v \in Threads : v = t \/ v = u
      BY <1>2 DEF Threads
    <2>2. \A v \in Threads : MayCount(v, d, s)
      BY <1>2, <2>1
    <2> QED
      BY <2>2 DEF Room
  <1> HIDE DEF MayCount
  <1> QED
    BY <1>1, <1>2, NackAssumption DEF Room

\* Entries that go away leave the others within the limit ...
LEMMA FewerEntries ==
    ASSUME NackInv, \A d \in Dicts : DOMAIN dicts'[d] \subseteq DOMAIN dicts[d]
    PROVE  OutstandingBounded'
  <1> SUFFICES ASSUME NEW d \in Dicts PROVE Cardinality(DOMAIN dicts'[d]) <= MaxOutstanding
    BY DEF OutstandingBounded
  <1>1. IsFiniteSet(DOMAIN dicts[d])
    <2>1. DOMAIN dicts[d] \in SUBSET (0..(SeqMod - 1))
      BY DEF NackInv, EntryTypes
    <2>2. 0 \in Int /\ SeqMod - 1 \in Int
      BY SeqModAssumption
    <2>3. IsFiniteSet(0..(SeqMod - 1))
      BY <2>2, FS_Interval
    <2> QED
      BY <2>1, <2>3, FS_Subset
  <1>2. /\ Cardinality(DOMAIN dicts'[d]) <= Cardinality(DOMAIN dicts[d])
        /\ IsFiniteSet(DOMAIN dicts'[d])
    BY <1>1, FS_Subset
  <1>3. Cardinality(DOMAIN dicts[d]) <= MaxOutstanding
    BY DEF NackInv, OutstandingBounded
  <1>4. Cardinality(DOMAIN dicts[d]) \in Nat /\ Cardinality(DOMAIN dicts'[d]) \in Nat
    BY <1>1, <1>2, FS_CardinalityType
  <1> QED
    BY <1>2, <1>3, <1>4, NackAssumption

\* ... and bring no settled packet back.
LEMMA SettledStays ==
    ASSUME NackInv, \A d \in Dicts : DOMAIN dicts'[d] \subseteq DOMAIN dicts[d],
           table' \in {table, None}, settled' = settled
    PROVE  ArrivedIsSettled'
  BY DEF NackInv, ThreadTypes, ArrivedIsSettled

\* A step of a thread that leaves the dictionaries alone.
LEMMA SameEntries ==
    ASSUME NackInv, dicts' = dicts, settled' = settled, table' \in {table, None},
           \A d \in Dicts, s \in 0..(SeqMod - 1), t \in Threads :
                MayCount(t, d, s)' => MayCount(t, d, s)
    PROVE  EntryTypes' /\ Roomy' /\ OutstandingBounded' /\ ArrivedIsSettled'
  <1>1. EntryTypes'
    BY DEF NackInv, EntryTypes
  <1>2. Roomy'
    <2> SUFFICES ASSUME NEW d \in Dicts, NEW s \in DOMAIN dicts[d] PROVE Room(d, s)'
      BY DEF Roomy
    <2>1. Room(d, s) /\ s \in 0..(SeqMod - 1)
      BY DEF NackInv, Roomy, EntryTypes
    <2> HIDE DEF MayCount
    <2> QED
      BY <2>1, RoomKept
  <1>3. OutstandingBounded' /\ ArrivedIsSettled'
    BY FewerEntries, SettledStays
  <1> QED
    BY <1>1, <1>2, <1>3

-----------------------------------------------------------------------------
\* A thread that selects what it can send.
LEMMA SelectKeeps ==
    ASSUME NackInv, NEW t \in Threads, SelectSendable(t) PROVE NackInv'
  <1> DEFINE sendable == IF table = None THEN {} ELSE batch[t] \cap DOMAIN dicts[table]
  <1>0. ThreadTypes /\ Located /\ InStep
    BY DEF NackInv
  <1>1. /\ pc[t] = "send"
        /\ UNCHANGED <<table, dicts, created, last, pending, caller, listening, settled>>
        /\ \/ pc' = [pc EXCEPT ![t] = caller[t]] /\ UNCHANGED <<batch, target>>
           \/ /\ table # None
              /\ pc' = [pc EXCEPT ![t] = "chunk"]
              /\ batch' = [batch EXCEPT ![t] = sendable]
              /\ target' = [target EXCEPT ![t] = table]
    BY DEF SelectSendable, Goto
  <1>2. sendable \subseteq batch[t]
    OBVIOUS
  <1> HIDE DEF sendable
  <1>3. caller[t] \in {"retry", "finish"} /\ batch[t] \subseteq 0..(SeqMod - 1)
    BY <1>0 DEF ThreadTypes
  <1>4. ThreadTypes'
    BY <1>0, <1>1, <1>2, <1>3 DEF ThreadTypes
  <1>8. /\ pc'[t] \in {"chunk", "retry", "finish"}
        /\ pc'[t] = "chunk" => target'[t] = table /\ table \in Dicts
        /\ \A u \in Threads \ {t} : pc'[u] = pc[u] /\ target'[u] = target[u]
        /\ pending' = pending
    BY <1>0, <1>1, <1>3 DEF ThreadTypes
  <1>9. /\ pc'[t] = "finish" => pending[t] \in Dicts
        /\ pc'[t] = "chunk" => pc[t] = "send"
        /\ caller' = caller
    BY <1>0, <1>1 DEF ThreadTypes, Located
  <1>5. Located'
    BY <1>0, <1>1, <1>8, <1>9 DEF Located, Threads
  <1>6. InStep'
    BY <1>0, <1>1, <1>8 DEF InStep, Threads
  <1>7. ASSUME NEW d \in Dicts, NEW s \in 0..(SeqMod - 1), NEW u \in Threads, MayCount(u, d, s)'
        PROVE  MayCount(u, d, s)
    <2>1. CASE u = t
      BY <1>0, <1>1, <1>2, <1>3, <1>7, <2>1 DEF MayCount, ThreadTypes
    <2>2. CASE u # t
      <3>1. pc'[u] = pc[u] /\ batch'[u] = batch[u] /\ target'[u] = target[u] /\ pending'[u] = pending[u]
        BY <1>0, <1>1, <2>2 DEF ThreadTypes
      <3> QED
        BY <1>1, <1>7, <3>1 DEF MayCount
    <2> QED
      BY <2>1, <2>2
  <1> QED
    BY <1>1, <1>4, <1>5, <1>6, <1>7, SameEntries DEF NackInv

\* A thread that looks up the table for the retries.
LEMMA RetryKeeps ==
    ASSUME NackInv, NEW t \in Threads, Retry(t) PROVE NackInv'
  <1>0. ThreadTypes /\ Located /\ InStep
    BY DEF NackInv
  <1>1. /\ pc[t] = "retry"
        /\ UNCHANGED <<table, dicts, created, last, batch, target, caller, listening, settled>>
        /\ pending' = [pending EXCEPT ![t] = table]
        /\ pc' = [pc EXCEPT ![t] = IF table = None THEN "idle" ELSE "expire"]
    BY DEF Retry, Goto
  <1>2. ThreadTypes'
    BY <1>0, <1>1 DEF ThreadTypes
  <1>3. Located'
    BY <1>0, <1>1 DEF ThreadTypes, Located
  <1>4. InStep'
    BY <1>0, <1>1 DEF ThreadTypes, InStep
  <1>5. ASSUME NEW d \in Dicts, NEW s \in 0..(SeqMod - 1), NEW u \in Threads, MayCount(u, d, s)'
        PROVE  MayCount(u, d, s)
    <2>1. CASE u = t
      BY <1>0, <1>1, <1>5, <2>1 DEF MayCount, ThreadTypes
    <2>2. CASE u # t
      <3>1. pc'[u] = pc[u] /\ batch'[u] = batch[u] /\ target'[u] = target[u] /\ pending'[u] = pending[u]
        BY <1>0, <1>1, <2>2 DEF ThreadTypes
      <3> QED
        BY <1>1, <1>5, <3>1 DEF MayCount
    <2> QED
      BY <2>1, <2>2
  <1> QED
    BY <1>1, <1>2, <1>3, <1>4, <1>5, SameEntries DEF NackInv

\* A thread that is done, and empties the table if it finds nothing pending.
LEMMA FinishKeeps ==
    ASSUME NackInv, NEW t \in Threads, Finish(t) PROVE NackInv'
  <1>0. ThreadTypes /\ Located /\ InStep
    BY DEF NackInv
  <1>1. /\ pc[t] = "finish"
        /\ UNCHANGED <<dicts, created, last, pending, batch, target, caller, listening, settled>>
        /\ table' \in {table, None}
        /\ pc' = [pc EXCEPT ![t] = "idle"]
    BY DEF Finish, Goto
  <1>2. ThreadTypes'
    BY <1>0, <1>1 DEF ThreadTypes
  <1>3. Located'
    BY <1>0, <1>1 DEF ThreadTypes, Located
  <1>4. InStep'
    BY <1>0, <1>1 DEF ThreadTypes, InStep
  <1>5. ASSUME NEW d \in Dicts, NEW s \in 0..(SeqMod - 1), NEW u \in Threads, MayCount(u, d, s)'
        PROVE  MayCount(u, d, s)
    <2>1. pc'[u] # "idle" => pc'[u] = pc[u]
      BY <1>0, <1>1 DEF ThreadTypes
    <2>2. table' = d => table = d
      BY <1>1 DEF Dicts, None
    <2> QED
      BY <1>1, <1>5, <2>1, <2>2 DEF MayCount
  <1> QED
    BY <1>1, <1>2, <1>3, <1>4, <1>5, SameEntries DEF NackInv

\* The retry thread wakes up; listening stops and starts again.
LEMMA ListeningKeeps ==
    ASSUME NackInv, Wake \/ Reset \/ Listen PROVE NackInv'
  <1>0. ThreadTypes /\ Located /\ InStep
    BY DEF NackInv
  <1>1. /\ UNCHANGED <<dicts, created, pending, batch, target, caller, settled>>
        /\ table' \in {table, None} /\ last' \in {last, NoSequence} /\ listening' \in BOOLEAN
        /\ pc' = pc \/ pc' = [pc EXCEPT !["retry"] = "retry"]
    BY <1>0 DEF Wake, Reset, Listen, local, Goto, ThreadTypes
  <1>2. ThreadTypes'
    BY <1>0, <1>1, SeqModAssumption DEF ThreadTypes, Threads, NoSequence
  <1>3. Located'
    BY <1>0, <1>1 DEF ThreadTypes, Located, Threads
  <1>4. InStep'
    BY <1>0, <1>1 DEF ThreadTypes, InStep, Threads
  <1>5. ASSUME NEW d \in Dicts, NEW s \in 0..(SeqMod - 1), NEW u \in Threads, MayCount(u, d, s)'
        PROVE  MayCount(u, d, s)
    <2>1. pc'[u] # "retry" => pc'[u] = pc[u]
      BY <1>0, <1>1 DEF ThreadTypes
    <2>2. table' = d => table = d
      BY <1>1 DEF Dicts, None
    <2> QED
      BY <1>1, <1>5, <2>1, <2>2 DEF MayCount
  <1> QED
    BY <1>1, <1>2, <1>3, <1>4, <1>5, SameEntries DEF NackInv

\* Time passes.
LEMMA TickKeeps ==
    ASSUME NackInv, Tick PROVE NackInv'
  <1>0. ThreadTypes /\ Located /\ InStep /\ EntryTypes
    BY DEF NackInv
  <1>1. /\ UNCHANGED <<table, created, last, pc, pending, batch, target, caller, listening, settled>>
        /\ dicts' = [d \in Dicts |-> [s \in DOMAIN dicts[d] |->
                                        [dicts[d][s] EXCEPT !.recent = FALSE]]]
    BY DEF Tick, local
  <1>2. ASSUME NEW d \in Dicts
        PROVE  /\ dicts'[d] = [s \in DOMAIN dicts[d] |-> [dicts[d][s] EXCEPT !.recent = FALSE]]
               /\ DOMAIN dicts'[d] = DOMAIN dicts[d]
    BY <1>1
  <1>3. ThreadTypes'
    BY <1>0, <1>1 DEF ThreadTypes
  <1>4. Located' /\ InStep'
    BY <1>0, <1>1 DEF Located, InStep
  <1>5. OutstandingBounded' /\ ArrivedIsSettled'
    BY <1>1, <1>2, FewerEntries, SettledStays
  <1>6. ASSUME NEW d \in Dicts, NEW s \in DOMAIN dicts[d]
        PROVE  /\ dicts'[d][s] \in [retries : Nat, recent : BOOLEAN]
               /\ dicts'[d][s].retries = dicts[d][s].retries
    <2>1. dicts[d][s] \in [retries : Nat, recent : BOOLEAN]
      BY <1>0 DEF EntryTypes
    <2>2. dicts'[d][s] = [dicts[d][s] EXCEPT !.recent = FALSE]
      BY <1>2
    <2> QED
      BY <2>1, <2>2
  <1>7. EntryTypes'
    BY <1>0, <1>2, <1>6 DEF EntryTypes
  <1>8. Roomy'
    <2> SUFFICES ASSUME NEW d \in Dicts, NEW s \in DOMAIN dicts[d] PROVE Room(d, s)'
      BY <1>2 DEF Roomy
    <2>1. Room(d, s)
      BY DEF NackInv, Roomy
    <2>2. \A t \in Threads : MayCount(t, d, s)' => MayCount(t, d, s)
      BY <1>1 DEF MayCount
    <2> HIDE DEF MayCount
    <2> QED
      BY <2>1, <2>2, <1>6, RoomKept
  <1> QED
    BY <1>3, <1>4, <1>5, <1>7, <1>8 DEF NackInv

-----------------------------------------------------------------------------
\* A packet arrives: its entry goes, and what it shows missing is noted.
LEMMA ArriveKeeps ==
    ASSUME NackInv, NEW sequence \in Arriving, NEW repaired \in BOOLEAN,
           Arrive(sequence, repaired)
    PROVE  NackInv'
  <1> DEFINE rest == Without(dicts[table], {sequence})
             delta == SequenceDelta(sequence, last)
  <1>0. EntryTypes /\ ThreadTypes /\ Located /\ InStep /\ ArrivedIsSettled
    BY DEF NackInv
  <1>1. /\ pc["dispatcher"] = "idle"
        /\ settled' = settled \cup {sequence}
        /\ \/ table = None /\ UNCHANGED <<dicts, table>>
           \/ /\ table # None /\ dicts' = [dicts EXCEPT ![table] = rest]
              /\ table' \in {table, None}
        /\ last' \in {sequence, last}
        /\ \/ /\ pc' = [pc EXCEPT !["dispatcher"] = "link"]
              /\ batch' = [batch EXCEPT !["dispatcher"] = Missing(last, delta)]
           \/ pc' = [pc EXCEPT !["dispatcher"] = "retry"] /\ UNCHANGED batch
        /\ UNCHANGED <<created, pending, target, caller, listening>>
    BY DEF Arrive, Goto
  <1>2. sequence \in 0..(SeqMod - 1)
    BY NackAssumption, WireType DEF Arriving
  <1>3. Missing(last, delta) \subseteq 0..(SeqMod - 1)
    <2>1. last \in Int /\ SeqMod \in Int /\ SeqMod > 0
      BY <1>0, HalfFacts DEF ThreadTypes
    <2>2. \A k \in Int : (last + k) % SeqMod \in 0..(SeqMod - 1)
      BY <2>1, WireType DEF Wire
    <2> QED
      BY <2>2 DEF Missing
  <1> HIDE DEF delta
  <1>4. DOMAIN rest = DOMAIN dicts[table] \ {sequence} /\ \A s \in DOMAIN rest : rest[s] = dicts[table][s]
    BY DEF Without
  <1> HIDE DEF rest
  <1>5. ASSUME NEW d \in Dicts
        PROVE  /\ DOMAIN dicts'[d] \subseteq DOMAIN dicts[d]
               /\ \A s \in DOMAIN dicts'[d] : dicts'[d][s] = dicts[d][s]
               /\ d = table => DOMAIN dicts'[d] = DOMAIN dicts[d] \ {sequence}
    <2>1. CASE table # None /\ dicts' = [dicts EXCEPT ![table] = rest]
      <3>1. dicts'[d] = IF d = table THEN rest ELSE dicts[d]
        BY <1>0, <2>1 DEF ThreadTypes
      <3> QED
        BY <1>4, <3>1
    <2>2. CASE table = None /\ dicts' = dicts
      BY <2>2 DEF Dicts, None
    <2> QED
      BY <1>1, <2>1, <2>2
  <1>6. EntryTypes'
    BY <1>0, <1>5 DEF EntryTypes
  <1>7. ThreadTypes'
    <2>1. dicts' = [d \in Dicts |-> dicts'[d]]
      BY <1>0, <1>1 DEF ThreadTypes
    <2>2. pc' \in [Threads -> {"idle", "link", "insert", "send", "chunk", "retry", "expire",
                               "finish"}]
      BY <1>0, <1>1 DEF ThreadTypes
    <2>3. batch' \in [Threads -> SUBSET (0..(SeqMod - 1))]
      BY <1>0, <1>1, <1>3 DEF ThreadTypes
    <2>4. last' \in -1..(SeqMod - 1)
      BY <1>0, <1>1, <1>2 DEF ThreadTypes
    <2> QED
      BY <1>0, <1>1, <2>1, <2>2, <2>3, <2>4 DEF ThreadTypes
  <1>8. /\ pc'["dispatcher"] \in {"link", "retry"} /\ pc'["retry"] = pc["retry"]
        /\ batch'["retry"] = batch["retry"]
    BY <1>0, <1>1 DEF ThreadTypes, Threads
  <1>9. Located' /\ InStep'
    BY <1>0, <1>1, <1>8 DEF Located, InStep, Threads
  <1>10. Roomy'
    <2> SUFFICES ASSUME NEW d \in Dicts, NEW s \in DOMAIN dicts'[d] PROVE Room(d, s)'
      BY DEF Roomy
    <2>1. Room(d, s) /\ dicts'[d][s].retries = dicts[d][s].retries
      BY <1>5 DEF NackInv, Roomy
    <2>2. ASSUME NEW t \in Threads, MayCount(t, d, s)' PROVE MayCount(t, d, s)
      <3>1. t = "retry"
        BY <1>8, <2>2 DEF MayCount, Threads
      <3>2. table' = d => table = d
        BY <1>1 DEF Dicts, None
      <3> QED
        BY <1>1, <1>8, <2>2, <3>1, <3>2 DEF MayCount
    <2> HIDE DEF MayCount
    <2> QED
      BY <2>1, <2>2, RoomKept
  <1>11. OutstandingBounded'
    BY <1>5, FewerEntries
  <1>12. ArrivedIsSettled'
    <2> SUFFICES ASSUME table' # None PROVE DOMAIN dicts'[table'] \cap settled' = {}
      BY DEF ArrivedIsSettled
    <2>1. table' = table /\ table \in Dicts
      BY <1>0, <1>1 DEF ThreadTypes
    <2> QED
      BY <1>0, <1>1, <1>5, <2>1 DEF ArrivedIsSettled
  <1> QED
    BY <1>6, <1>7, <1>9, <1>10, <1>11, <1>12 DEF NackInv

\* The dispatcher finds a dictionary or makes one.
LEMMA LinkKeeps ==
    ASSUME NackInv, Link("dispatcher") PROVE NackInv'
  <1>0. EntryTypes /\ ThreadTypes /\ Located /\ InStep /\ ArrivedIsSettled /\ OutstandingBounded
    BY DEF NackInv
  <1>1. /\ pc["dispatcher"] = "link" /\ pc' = [pc EXCEPT !["dispatcher"] = "insert"]
        /\ \/ /\ table # None /\ pending' = [pending EXCEPT !["dispatcher"] = table]
              /\ UNCHANGED <<table, created, dicts>>
           \/ /\ created < MaxDicts /\ created' = created + 1 /\ table' = created + 1
              /\ dicts' = [dicts EXCEPT ![created + 1] = <<>>]
              /\ pending' = [pending EXCEPT !["dispatcher"] = created + 1]
        /\ UNCHANGED <<last, batch, target, caller, listening, settled>>
    BY DEF Link, Goto
  <1>2. table' \in Dicts
    <2>1. created < MaxDicts => created + 1 \in Dicts
      BY <1>0, NackAssumption DEF ThreadTypes, Dicts
    <2> QED
      BY <1>0, <1>1, <2>1 DEF ThreadTypes
  <1>3. ASSUME NEW d \in Dicts
        PROVE  \/ dicts'[d] = dicts[d] /\ (table' = d => table = d)
               \/ dicts'[d] = <<>>
    BY <1>0, <1>1 DEF ThreadTypes
  <1>4. DOMAIN <<>> = {}
    OBVIOUS
  <1>5. EntryTypes'
    BY <1>0, <1>3, <1>4 DEF EntryTypes
  <1>6. ThreadTypes'
    <2>1. dicts' = [d \in Dicts |-> dicts'[d]]
      BY <1>0, <1>1 DEF ThreadTypes
    <2>2. pc' \in [Threads -> {"idle", "link", "insert", "send", "chunk", "retry", "expire",
                               "finish"}]
      BY <1>0, <1>1 DEF ThreadTypes
    <2>3. created' \in 0..MaxDicts
      BY <1>0, <1>1, NackAssumption DEF ThreadTypes
    <2>4. pending' \in [Threads -> Dicts \cup {None}]
      BY <1>0, <1>1, <1>2 DEF ThreadTypes
    <2> QED
      BY <1>0, <1>1, <1>2, <2>1, <2>2, <2>3, <2>4 DEF ThreadTypes
  <1>7. /\ pc'["dispatcher"] = "insert" /\ pc'["retry"] = pc["retry"]
        /\ pending'["dispatcher"] = table' /\ pending'["retry"] = pending["retry"]
    BY <1>0, <1>1 DEF ThreadTypes, Threads
  <1>8. Located' /\ InStep'
    BY <1>0, <1>1, <1>2, <1>7 DEF Located, InStep, Threads
  <1>9. Roomy'
    <2> SUFFICES ASSUME NEW d \in Dicts, NEW s \in DOMAIN dicts'[d] PROVE Room(d, s)'
      BY DEF Roomy
    <2>1. dicts'[d] = dicts[d] /\ (table' = d => table = d)
      BY <1>3, <1>4
    <2>2. Room(d, s)
      BY <2>1 DEF NackInv, Roomy
    <2>3. ASSUME NEW t \in Threads, MayCount(t, d, s)' PROVE MayCount(t, d, s)
      <3>1. t = "retry"
        BY <1>7, <2>3 DEF MayCount, Threads
      <3> QED
        BY <1>1, <1>7, <2>1, <2>3, <3>1 DEF MayCount
    <2> HIDE DEF MayCount
    <2> QED
      BY <2>1, <2>2, <2>3, RoomKept
  <1>10. OutstandingBounded'
    BY <1>3, <1>4, FewerEntries
  <1>11. ArrivedIsSettled'
    BY <1>0, <1>1, <1>2, <1>3, <1>4 DEF ArrivedIsSettled
  <1> QED
    BY <1>5, <1>6, <1>8, <1>9, <1>10, <1>11 DEF NackInv

\* The dispatcher notes what is missing, or gives everything up.
LEMMA InsertKeeps ==
    ASSUME NackInv, Insert("dispatcher") PROVE NackInv'
  <1> DEFINE home == pending["dispatcher"]
             held == DOMAIN dicts[home]
             added == batch["dispatcher"] \ held
             filled == [s \in held \cup added |-> IF s \in held THEN dicts[home][s] ELSE Fresh]
  <1>0. EntryTypes /\ ThreadTypes /\ Located /\ InStep /\ ArrivedIsSettled /\ OutstandingBounded
    BY DEF NackInv
  <1>1. /\ pc["dispatcher"] = "insert"
        /\ \/ /\ pc' = [pc EXCEPT !["dispatcher"] = "retry"]
              /\ UNCHANGED <<table, dicts, batch, caller, settled>>
           \/ /\ dicts' = [dicts EXCEPT ![home] = <<>>] /\ table' = None
              /\ pc' = [pc EXCEPT !["dispatcher"] = "retry"]
              /\ UNCHANGED <<batch, caller, settled>>
           \/ /\ ~Overflows(held, added)
              /\ dicts' = [dicts EXCEPT ![home] = filled]
              /\ batch' = [batch EXCEPT !["dispatcher"] = added]
              /\ caller' = [caller EXCEPT !["dispatcher"] = "retry"]
              /\ settled' = settled \ added
              /\ pc' = [pc EXCEPT !["dispatcher"] = "send"]
              /\ UNCHANGED table
        /\ UNCHANGED <<created, last, pending, target, listening>>
    BY DEF Insert, Goto
  <1>2. home \in Dicts /\ table \in {home, None}
    BY <1>0, <1>1 DEF Located, InStep, Threads
  <1>3. batch["dispatcher"] \subseteq 0..(SeqMod - 1)
    BY <1>0 DEF ThreadTypes, Threads
  <1>4. DOMAIN <<>> = {}
    OBVIOUS
  <1>5. /\ DOMAIN filled = held \cup added
        /\ \A s \in DOMAIN filled : filled[s] = IF s \in held THEN dicts[home][s] ELSE Fresh
    OBVIOUS
  <1>6. added \subseteq 0..(SeqMod - 1) /\ added \cap held = {}
    BY <1>3
  <1>7. Fresh \in [retries : Nat, recent : BOOLEAN] /\ Fresh.retries = 0
    BY DEF Fresh
  <1> HIDE DEF filled, added
  <1>8. CASE dicts' = dicts /\ pc' = [pc EXCEPT !["dispatcher"] = "retry"]
             /\ UNCHANGED <<table, dicts, batch, caller, settled>>
    <2>1. pc'["dispatcher"] = "retry" /\ pc'["retry"] = pc["retry"]
      BY <1>0, <1>8 DEF ThreadTypes, Threads
    <2>2. ThreadTypes' /\ Located' /\ InStep'
      BY <1>0, <1>1, <1>8, <2>1 DEF ThreadTypes, Located, InStep, Threads
    <2>3. \A d \in Dicts, s \in 0..(SeqMod - 1), t \in Threads :
                MayCount(t, d, s)' => MayCount(t, d, s)
      BY <1>1, <1>8, <2>1 DEF MayCount, Threads
    <2> QED
      BY <1>8, <2>2, <2>3, SameEntries DEF NackInv
  <1>9. CASE dicts' = [dicts EXCEPT ![home] = <<>>] /\ table' = None
             /\ pc' = [pc EXCEPT !["dispatcher"] = "retry"]
             /\ UNCHANGED <<batch, caller, settled>>
    <2>1. pc'["dispatcher"] = "retry" /\ pc'["retry"] = pc["retry"]
      BY <1>0, <1>9 DEF ThreadTypes, Threads
    <2>2. \A d \in Dicts : dicts'[d] = IF d = home THEN <<>> ELSE dicts[d]
      BY <1>0, <1>9 DEF ThreadTypes
    <2>3. \A d \in Dicts : dicts'[d] = dicts[d] \/ DOMAIN dicts'[d] = {}
      BY <1>4, <2>2
    <2>4. EntryTypes'
      BY <1>0, <2>3 DEF EntryTypes
    <2>5. ThreadTypes'
      BY <1>0, <1>1, <1>9 DEF ThreadTypes
    <2>6. Located' /\ InStep'
      BY <1>0, <1>1, <1>9, <2>1 DEF Located, InStep, Threads
    <2>7. Roomy'
      <3> SUFFICES ASSUME NEW d \in Dicts, NEW s \in DOMAIN dicts'[d] PROVE Room(d, s)'
        BY DEF Roomy
      <3>1. dicts'[d] = dicts[d]
        BY <2>3
      <3>2. Room(d, s)
        BY <3>1 DEF NackInv, Roomy
      <3>3. \A t \in Threads : MayCount(t, d, s)' => MayCount(t, d, s)
        BY <1>1, <1>9, <2>1 DEF MayCount, Threads, Dicts, None
      <3> HIDE DEF MayCount
      <3> QED
        BY <3>1, <3>2, <3>3, RoomKept
    <2>8. OutstandingBounded'
      BY <2>3, FewerEntries
    <2>9. ArrivedIsSettled'
      BY <1>9 DEF ArrivedIsSettled
    <2> QED
      BY <2>4, <2>5, <2>6, <2>7, <2>8, <2>9 DEF NackInv
  <1>10. CASE ~Overflows(held, added) /\ dicts' = [dicts EXCEPT ![home] = filled]
              /\ batch' = [batch EXCEPT !["dispatcher"] = added]
              /\ caller' = [caller EXCEPT !["dispatcher"] = "retry"]
              /\ settled' = settled \ added
              /\ pc' = [pc EXCEPT !["dispatcher"] = "send"]
              /\ UNCHANGED table
    <2>1. /\ pc'["dispatcher"] = "send" /\ pc'["retry"] = pc["retry"]
          /\ batch'["retry"] = batch["retry"] /\ caller'["dispatcher"] = "retry"
          /\ caller'["retry"] = caller["retry"]
      BY <1>0, <1>10 DEF ThreadTypes, Threads
    <2>2. \A d \in Dicts : dicts'[d] = IF d = home THEN filled ELSE dicts[d]
      BY <1>0, <1>10 DEF ThreadTypes
    <2>3. EntryTypes'
      <3> SUFFICES ASSUME NEW d \in Dicts
                   PROVE  /\ DOMAIN dicts'[d] \subseteq 0..(SeqMod - 1)
                          /\ \A s \in DOMAIN dicts'[d] :
                                dicts'[d][s] \in [retries : Nat, recent : BOOLEAN]
        BY DEF EntryTypes
      <3>1. CASE d = home
        <4>1. dicts'[d] = filled
          BY <2>2, <3>1
        <4>2. /\ held \subseteq 0..(SeqMod - 1)
              /\ \A s \in held : dicts[home][s] \in [retries : Nat, recent : BOOLEAN]
          BY <1>0, <1>2 DEF EntryTypes
        <4> HIDE DEF held
        <4> QED
          BY <1>5, <1>6, <1>7, <4>1, <4>2
      <3>2. CASE d # home
        BY <1>0, <2>2, <3>2 DEF EntryTypes
      <3> QED
        BY <3>1, <3>2
    <2>4. ThreadTypes'
      <3>1. dicts' = [d \in Dicts |-> dicts'[d]]
        BY <1>0, <1>10 DEF ThreadTypes
      <3>2. pc' \in [Threads -> {"idle", "link", "insert", "send", "chunk", "retry", "expire",
                                 "finish"}]
        BY <1>0, <1>10 DEF ThreadTypes
      <3>3. batch' \in [Threads -> SUBSET (0..(SeqMod - 1))]
        BY <1>0, <1>6, <1>10 DEF ThreadTypes
      <3>4. caller' \in [Threads -> {"retry", "finish"}]
        BY <1>0, <1>10 DEF ThreadTypes
      <3> QED
        BY <1>0, <1>1, <1>10, <3>1, <3>2, <3>3, <3>4 DEF ThreadTypes
    <2>5. Located' /\ InStep'
      BY <1>0, <1>1, <1>10, <2>1 DEF Located, InStep, Threads
    <2>6. Roomy'
      <3> SUFFICES ASSUME NEW d \in Dicts, NEW s \in DOMAIN dicts'[d] PROVE Room(d, s)'
        BY DEF Roomy
      <3>1. CASE d = home /\ s \notin held
        <4>1. dicts'[d][s].retries = 0
          BY <1>5, <1>7, <2>2, <3>1
        <4> QED
          BY <4>1, RoomLeft, NackAssumption
      <3>2. CASE d # home \/ s \in held
        <4>1. s \in DOMAIN dicts[d] /\ dicts'[d][s].retries = dicts[d][s].retries
          BY <1>5, <2>2, <3>2
        <4>2. Room(d, s)
          BY <4>1 DEF NackInv, Roomy
        <4>3. ASSUME NEW t \in Threads, MayCount(t, d, s)' PROVE MayCount(t, d, s)
          <5>1. CASE t = "retry"
            BY <1>1, <1>10, <2>1, <4>3, <5>1 DEF MayCount
          <5>2. CASE t = "dispatcher"
            <6>1. batch'["dispatcher"] = added
              BY <1>0, <1>10 DEF ThreadTypes, Threads
            <6>2. s \in added /\ table = d
              BY <1>10, <2>1, <4>3, <5>2, <6>1 DEF MayCount
            <6>3. d = home
              BY <1>2, <6>2 DEF Dicts, None
            <6> QED
              BY <1>6, <3>2, <6>2, <6>3
          <5> QED
            BY <5>1, <5>2 DEF Threads
        <4> HIDE DEF MayCount
        <4> QED
          BY <4>1, <4>2, <4>3, RoomKept
      <3> QED
        BY <3>1, <3>2
    <2>7. OutstandingBounded'
      <3> SUFFICES ASSUME NEW d \in Dicts PROVE Cardinality(DOMAIN dicts'[d]) <= MaxOutstanding
        BY DEF OutstandingBounded
      <3>1. CASE d # home
        BY <1>0, <2>2, <3>1 DEF OutstandingBounded
      <3>2. CASE d = home
        <4>1. held \in SUBSET (0..(SeqMod - 1)) /\ added \in SUBSET (0..(SeqMod - 1))
          BY <1>0, <1>2, <1>6 DEF EntryTypes
        <4>2. 0 \in Int /\ SeqMod - 1 \in Int
          BY SeqModAssumption
        <4>3. IsFiniteSet(0..(SeqMod - 1))
          BY <4>2, FS_Interval
        <4>4. IsFiniteSet(held) /\ IsFiniteSet(added)
          BY <4>1, <4>3, FS_Subset
        <4>5. held \cap added = {}
          BY <1>6
        <4>6. Cardinality(held \cup added) = Cardinality(held) + Cardinality(added) - Cardinality({})
          BY <4>4, <4>5, FS_Union
        <4>7. Cardinality({}) = 0 /\ Cardinality(held) \in Nat /\ Cardinality(added) \in Nat
          BY <4>4, FS_EmptySet, FS_CardinalityType
        <4>8. Cardinality(held) + Cardinality(added) <= MaxOutstanding
          BY <1>10, <4>7, NackAssumption DEF Overflows
        <4>9. DOMAIN dicts'[d] = held \cup added
          BY <1>5, <2>2, <3>2
        <4> QED
          BY <4>6, <4>7, <4>8, <4>9
      <3> QED
        BY <3>1, <3>2
    <2>8. ArrivedIsSettled'
      <3> SUFFICES ASSUME table # None PROVE DOMAIN dicts'[table] \cap (settled \ added) = {}
        BY <1>10 DEF ArrivedIsSettled
      <3>1. table = home /\ DOMAIN dicts'[home] = held \cup added
        BY <1>2, <1>5, <2>2
      <3>2. held \cap settled = {}
        BY <1>0, <3>1 DEF ArrivedIsSettled
      <3> QED
        BY <3>1, <3>2
    <2> QED
      BY <2>3, <2>4, <2>5, <2>6, <2>7, <2>8 DEF NackInv
  <1> QED
    BY <1>1, <1>8, <1>9, <1>10

\* A thread that has sent a chunk counts it.
LEMMA SendKeeps ==
    ASSUME NackInv, NEW t \in Threads, SendChunk(t) PROVE NackInv'
  <1>0. EntryTypes /\ ThreadTypes /\ Located /\ InStep
    BY DEF NackInv
  <1>1. PICK chunk \in SUBSET batch[t], recent \in BOOLEAN :
            /\ dicts' = [dicts EXCEPT ![target[t]] = Counted(@, chunk, recent)]
            /\ batch' = [batch EXCEPT ![t] = @ \ chunk]
            /\ pc' = [pc EXCEPT ![t] = IF chunk = batch[t] THEN caller[t] ELSE "chunk"]
    BY DEF SendChunk, Goto
  <1>2. /\ pc[t] = "chunk"
        /\ UNCHANGED <<table, created, last, pending, target, caller, listening, settled>>
    BY DEF SendChunk
  <1>3. target[t] \in Dicts /\ caller[t] \in {"retry", "finish"} /\ batch[t] \subseteq 0..(SeqMod - 1)
    BY <1>0, <1>2 DEF Located, ThreadTypes
  <1>4. /\ pc'[t] \in {"chunk", "retry", "finish"}
        /\ pc'[t] = "finish" => pending[t] \in Dicts
        /\ batch'[t] = batch[t] \ chunk
        /\ \A u \in Threads \ {t} : pc'[u] = pc[u] /\ batch'[u] = batch[u]
    BY <1>0, <1>1, <1>2, <1>3 DEF ThreadTypes, Located
  <1>5. ASSUME NEW d \in Dicts, d # target[t] PROVE dicts'[d] = dicts[d]
    BY <1>0, <1>1, <1>5 DEF ThreadTypes
  <1>6. /\ DOMAIN dicts'[target[t]] = DOMAIN dicts[target[t]]
        /\ \A s \in DOMAIN dicts[target[t]] :
              dicts'[target[t]][s] = IF s \in chunk
                                     THEN [retries |-> dicts[target[t]][s].retries + 1, recent |-> recent]
                                     ELSE dicts[target[t]][s]
    <2>1. dicts'[target[t]] = Counted(dicts[target[t]], chunk, recent)
      BY <1>0, <1>1, <1>3 DEF ThreadTypes
    <2> QED
      BY <2>1 DEF Counted
  <1>7. ASSUME NEW d \in Dicts PROVE DOMAIN dicts'[d] = DOMAIN dicts[d]
    BY <1>5, <1>6
  <1>8. ASSUME NEW d \in Dicts, NEW s \in DOMAIN dicts[d]
        PROVE  /\ dicts'[d][s] \in [retries : Nat, recent : BOOLEAN]
               /\ d # target[t] \/ s \notin chunk => dicts'[d][s].retries = dicts[d][s].retries
               /\ d = target[t] /\ s \in chunk => dicts'[d][s].retries = dicts[d][s].retries + 1
    <2>1. dicts[d][s] \in [retries : Nat, recent : BOOLEAN]
      BY <1>0 DEF EntryTypes
    <2>2. CASE d = target[t] /\ s \in chunk
      <3>1. dicts'[d][s] = [retries |-> dicts[d][s].retries + 1, recent |-> recent]
        BY <1>6, <2>2
      <3>2. dicts[d][s].retries \in Nat
        BY <2>1
      <3> QED
        BY <2>2, <3>1, <3>2
    <2>3. CASE ~(d = target[t] /\ s \in chunk)
      <3>1. dicts'[d][s] = dicts[d][s]
        BY <1>5, <1>6, <2>3
      <3> QED
        BY <2>1, <2>3, <3>1
    <2> QED
      BY <2>2, <2>3
  <1>9. EntryTypes'
    BY <1>0, <1>7, <1>8 DEF EntryTypes
  <1>10. ThreadTypes'
    <2>1. dicts' = [d \in Dicts |-> dicts'[d]]
      BY <1>0, <1>1 DEF ThreadTypes
    <2>2. pc' \in [Threads -> {"idle", "link", "insert", "send", "chunk", "retry", "expire",
                               "finish"}]
      BY <1>0, <1>1, <1>3 DEF ThreadTypes
    <2>3. batch' \in [Threads -> SUBSET (0..(SeqMod - 1))]
      BY <1>0, <1>1 DEF ThreadTypes
    <2> QED
      BY <1>0, <1>2, <2>1, <2>2, <2>3 DEF ThreadTypes
  <1>11. Located'
    BY <1>0, <1>2, <1>4 DEF Located, Threads
  <1>12. InStep'
    BY <1>0, <1>2, <1>4 DEF InStep, Threads
  <1>13. Roomy'
    <2> SUFFICES ASSUME NEW d \in Dicts, NEW s \in DOMAIN dicts[d] PROVE Room(d, s)'
      BY <1>7 DEF Roomy
    <2>1. Room(d, s) /\ dicts[d][s].retries \in Nat
      BY <1>0 DEF NackInv, Roomy, EntryTypes
    <2>2. ASSUME NEW u \in Threads, MayCount(u, d, s)' PROVE MayCount(u, d, s)
      BY <1>2, <1>4, <2>2 DEF MayCount
    <2>3. CASE d = target[t] /\ s \in chunk
      <3>1. MayCount(t, d, s)
        BY <1>1, <1>2, <2>3 DEF MayCount
      <3>2. ~MayCount(t, d, s)'
        BY <1>4, <2>3 DEF MayCount
      <3> HIDE DEF MayCount
      <3> QED
        BY <1>8, <2>1, <2>2, <2>3, <3>1, <3>2, RoomTaken
    <2>4. CASE d # target[t] \/ s \notin chunk
      <3> HIDE DEF MayCount
      <3> QED
        BY <1>8, <2>1, <2>2, <2>4, RoomKept
    <2> QED
      BY <2>3, <2>4
  <1>14. OutstandingBounded' /\ ArrivedIsSettled'
    BY <1>2, <1>7, FewerEntries, SettledStays
  <1> QED
    BY <1>9, <1>10, <1>11, <1>12, <1>13, <1>14 DEF NackInv

\* A thread drops what was retried often enough and takes what is due.
LEMMA ExpireKeeps ==
    ASSUME NackInv, NEW t \in Threads, Expire(t) PROVE NackInv'
  <1> DEFINE home == pending[t]
             held == dicts[home]
             due == Due(held)
             kept == Without(held, Expired(held))
  <1>0. EntryTypes /\ ThreadTypes /\ Located /\ InStep
    BY DEF NackInv
  <1>1. /\ pc[t] = "expire"
        /\ dicts' = [dicts EXCEPT ![home] = kept]
        /\ batch' = [batch EXCEPT ![t] = due]
        /\ caller' = [caller EXCEPT ![t] = "finish"]
        /\ pc' = [pc EXCEPT ![t] = IF due = {} THEN "finish" ELSE "send"]
        /\ UNCHANGED <<table, created, last, pending, target, listening, settled>>
    BY DEF Expire, Goto
  <1>2. home \in Dicts
    BY <1>0, <1>1 DEF Located
  <1>3. /\ DOMAIN kept \subseteq DOMAIN held
        /\ \A s \in DOMAIN kept : kept[s] = held[s]
    BY DEF Without
  <1>4. /\ due \subseteq DOMAIN held
        /\ \A s \in due : ~(held[s].retries >= MaxRetries)
    BY DEF Due, Expired
  <1>5. due \subseteq 0..(SeqMod - 1)
    BY <1>0, <1>2, <1>4 DEF EntryTypes
  <1> HIDE DEF kept, due
  <1>6. ASSUME NEW d \in Dicts
        PROVE  /\ DOMAIN dicts'[d] \subseteq DOMAIN dicts[d]
               /\ \A s \in DOMAIN dicts'[d] : dicts'[d][s] = dicts[d][s]
    <2>1. dicts'[d] = IF d = home THEN kept ELSE dicts[d]
      BY <1>0, <1>1 DEF ThreadTypes
    <2> QED
      BY <1>3, <2>1
  <1>7. EntryTypes'
    BY <1>0, <1>6 DEF EntryTypes
  <1>8. ThreadTypes'
    <2>1. dicts' = [d \in Dicts |-> dicts'[d]]
      BY <1>0, <1>1 DEF ThreadTypes
    <2>2. pc' \in [Threads -> {"idle", "link", "insert", "send", "chunk", "retry", "expire",
                               "finish"}]
      BY <1>0, <1>1 DEF ThreadTypes
    <2>3. batch' \in [Threads -> SUBSET (0..(SeqMod - 1))]
      BY <1>0, <1>1, <1>5 DEF ThreadTypes
    <2>4. caller' \in [Threads -> {"retry", "finish"}]
      BY <1>0, <1>1 DEF ThreadTypes
    <2> QED
      BY <1>0, <1>1, <2>1, <2>2, <2>3, <2>4 DEF ThreadTypes
  <1>9. /\ pc'[t] \in {"send", "finish"} /\ batch'[t] = due
        /\ \A u \in Threads \ {t} : pc'[u] = pc[u] /\ batch'[u] = batch[u] /\ caller'[u] = caller[u]
    BY <1>0, <1>1 DEF ThreadTypes
  <1>10. Located'
    BY <1>0, <1>1, <1>2, <1>9 DEF Located, Threads
  <1>11. InStep'
    BY <1>0, <1>1, <1>9 DEF InStep, Threads
  <1>12. Roomy'
    <2> SUFFICES ASSUME NEW d \in Dicts, NEW s \in DOMAIN dicts'[d] PROVE Room(d, s)'
      BY DEF Roomy
    <2>1. s \in DOMAIN dicts[d] /\ dicts'[d][s].retries = dicts[d][s].retries
      BY <1>6
    <2>2. Room(d, s) /\ dicts[d][s].retries \in Nat
      BY <1>0, <2>1 DEF NackInv, Roomy, EntryTypes
    <2>3. CASE d = home /\ s \in due
      BY <1>4, <2>1, <2>2, <2>3, RoomLeft, NackAssumption
    <2>4. CASE d # home \/ s \notin due
      <3>1. ASSUME NEW u \in Threads, MayCount(u, d, s)' PROVE MayCount(u, d, s)
        <4>1. CASE u = t
          <5>1. s \in due /\ table = d
            BY <1>1, <1>9, <3>1, <4>1 DEF MayCount
          <5> QED
            BY <1>1, <2>4, <4>1, <5>1 DEF MayCount
        <4>2. CASE u # t
          BY <1>1, <1>9, <3>1, <4>2 DEF MayCount
        <4> QED
          BY <4>1, <4>2
      <3> HIDE DEF MayCount
      <3> QED
        BY <2>1, <2>2, <3>1, RoomKept
    <2> QED
      BY <2>3, <2>4
  <1>13. OutstandingBounded' /\ ArrivedIsSettled'
    BY <1>1, <1>6, FewerEntries, SettledStays
  <1> QED
    BY <1>7, <1>8, <1>10, <1>11, <1>12, <1>13 DEF NackInv

\* Whatever the dispatcher and the retry thread do to the table, in any order and
\* without a lock: no more packets are outstanding than VIDEO_NACK_MAX_OUTSTANDING,
\* none is asked for more than VIDEO_NACK_MAX_RETRIES times and once, and none that
\* has arrived is in the table.
THEOREM NacksStayInBounds == Spec => []NackBookkeeping
  <1>1. Init => NackInv
    <2> SUFFICES ASSUME Init PROVE NackInv
      OBVIOUS
    <2>1. \A d \in Dicts : DOMAIN dicts[d] = {}
      BY DEF Init
    <2>2. EntryTypes /\ Roomy
      BY <2>1 DEF EntryTypes, Roomy
    <2>3. ThreadTypes /\ Located /\ InStep
      BY NackAssumption, SeqModAssumption
         DEF Init, ThreadTypes, Located, InStep, Threads, None, NoSequence
    <2>4. OutstandingBounded
      BY <2>1, FS_EmptySet, NackAssumption DEF OutstandingBounded
    <2>5. ArrivedIsSettled
      BY DEF Init, ArrivedIsSettled
    <2> QED
      BY <2>2, <2>3, <2>4, <2>5 DEF NackInv
  <1>2. NackInv /\ [Next]_vars => NackInv'
    <2> SUFFICES ASSUME NackInv, [Next]_vars PROVE NackInv'
      OBVIOUS
    <2>1. ASSUME NEW sequence \in Arriving, NEW repaired \in BOOLEAN, Arrive(sequence, repaired)
          PROVE  NackInv'
      BY <2>1, ArriveKeeps
    <2>2. CASE Link("dispatcher")
      BY <2>2, LinkKeeps
    <2>3. CASE Insert("dispatcher")
      BY <2>3, InsertKeeps
    <2>4. ASSUME NEW t \in Threads, RetryPass(t) PROVE NackInv'
      BY <2>4, SelectKeeps, SendKeeps, RetryKeeps, ExpireKeeps, FinishKeeps DEF RetryPass
    <2>5. CASE Wake \/ Reset \/ Listen
      BY <2>5, ListeningKeeps
    <2>6. CASE Tick
      BY <2>6, TickKeeps
    <2>7. CASE UNCHANGED vars
      <3>1. UNCHANGED <<table, dicts, created, last, pc, pending, batch, target, caller, listening,
                        settled>>
        BY <2>7 DEF vars
      <3>2. ThreadTypes' /\ Located' /\ InStep'
        BY <3>1 DEF NackInv, ThreadTypes, Located, InStep
      <3>3. \A d \in Dicts, s \in 0..(SeqMod - 1), t \in Threads :
                MayCount(t, d, s)' => MayCount(t, d, s)
        BY <3>1 DEF MayCount
      <3> QED
        BY <3>1, <3>2, <3>3, SameEntries DEF NackInv
    <2>8. "dispatcher" \in Threads /\ "retry" \in Threads
      BY DEF Threads
    <2> QED
      BY <2>1, <2>2, <2>3, <2>4, <2>5, <2>6, <2>7, <2>8 DEF Next, Dispatcher, RetryThread
  <1> QED
    BY <1>1, <1>2, NackInvSuffices, PTL DEF Spec

-----------------------------------------------------------------------------
\* The type of the counts of a receiver, and of what it has seen.
Counts == [base : Int, max : Int, packets : Int, expected_prior : Int, received_prior : Int]
Seen == [first : Int, highest : Int, arrivals : Int]

CountTypes ==
    /\ counts \in Counts /\ seen \in Seen /\ since \in Seen

\* The counts are those of seen and since, less the cycles that had passed when
\* the first packet came.
Counting ==
    /\ \/ counts = NoCounts /\ seen = Nothing
       \/ /\ counts.packets = seen.arrivals /\ seen.arrivals > 0
          /\ seen.first <= seen.highest
          /\ \E c \in Int : /\ counts.max = seen.highest - (SeqMod * c)
                            /\ counts.base = seen.first - (SeqMod * c)
    /\ counts.expected_prior = Sent(since) /\ counts.received_prior = since.arrivals

ReportInv == CountTypes /\ Counting /\ ReportTruthful

\* The losses survive the signed field of 24 bits.
LEMMA LossRoundTrip ==
    ASSUME NEW lost \in Int
    PROVE  (IF LossField(lost) >= LossHalf THEN LossField(lost) - (2 * LossHalf) ELSE LossField(lost))
             = Clamp(lost, -LossHalf, LossHalf - 1)
  BY ReportAssumption DEF LossField, Clamp

\* The fraction is the quotient, rounded down and capped.
LEMMA FractionBounds ==
    ASSUME NEW expected \in Int, NEW lost \in Int, NEW fraction,
           fraction = IF expected > 0 /\ lost > 0 THEN Clamp((lost * 256) \div expected, 0, 255) ELSE 0
    PROVE  /\ fraction \in 0..255
           /\ lost <= 0 \/ expected <= 0 => fraction = 0
           /\ lost > 0 /\ expected > 0 =>
                 /\ fraction * expected <= 256 * lost
                 /\ (fraction + 1) * expected > 256 * lost \/ fraction = 255
  <1>1. CASE ~(expected > 0 /\ lost > 0)
    BY <1>1
  <1>2. CASE expected > 0 /\ lost > 0
    <2> DEFINE a == lost * 256
               q == a \div expected
               r == a % expected
    <2>1. a \in Int /\ a > 0 /\ a = 256 * lost
      BY <1>2
    <2>2. a = (expected * q) + r /\ q \in Int /\ r \in 0..(expected - 1)
      BY <1>2, <2>1, DivMod
    <2>3. fraction = Clamp(q, 0, 255)
      BY <1>2
    <2> HIDE DEF a, q, r
    <2>4. q >= 0
      <3>1. ASSUME q <= -1 PROVE FALSE
        <4>1. -q \in Int /\ -q >= 1 /\ expected \in Nat
          BY <1>2, <2>2, <3>1
        <4>2. expected * (-q) >= expected
          BY <1>2, <4>1, ProductGap
        <4>3. expected * q = -(expected * (-q))
          BY <2>2, Z3
        <4> QED
          BY <2>1, <2>2, <4>2, <4>3, Z3
      <3> QED
        BY <3>1, <2>2
    <2>5. (q + 1) * expected = (expected * q) + expected /\ q * expected = expected * q
      BY <2>2, Z3
    <2>6. CASE q <= 255
      <3>1. fraction = q
        BY <2>2, <2>3, <2>4, <2>6 DEF Clamp
      <3> QED
        BY <1>2, <2>1, <2>2, <2>4, <2>5, <2>6, <3>1, Z3
    <2>7. CASE q > 255
      <3>1. fraction = 255
        BY <2>2, <2>3, <2>4, <2>7 DEF Clamp
      <3>2. (q - 255) * expected >= 0 /\ 255 * expected = (q * expected) - ((q - 255) * expected)
        BY <1>2, <2>2, <2>7, Z3
      <3>3. 255 * expected <= q * expected
        <4>1. (q - 255) * expected \in Int /\ q * expected \in Int /\ 255 * expected \in Int
          BY <2>2
        <4> QED
          BY <3>2, <4>1
      <3> QED
        BY <1>2, <2>1, <2>2, <2>5, <3>1, <3>3, Z3
    <2> QED
      BY <2>2, <2>6, <2>7
  <1> QED
    BY <1>1, <1>2

\* The counts of a receiver that has seen the packets s tells of, c cycles ago.
Agrees(state, s, c) ==
    /\ state \in Counts /\ s \in Seen
    /\ state.packets = s.arrivals /\ s.arrivals > 0
    /\ s.first <= s.highest
    /\ state.max = s.highest - (SeqMod * c)
    /\ state.base = s.first - (SeqMod * c)

\* The first packet starts the counts.
LEMMA FirstCounted ==
    ASSUME NEW index \in Int
    PROVE  LET after == CountPacket(NoCounts, Wire(index))
           IN  /\ \E c \in Int :
                    Agrees(after, [first |-> index, highest |-> index, arrivals |-> 1], c)
               /\ after.expected_prior = 0 /\ after.received_prior = 0
  <1> DEFINE c == index \div SeqMod
  <1>1. c \in Int /\ Wire(index) \in Int /\ Wire(index) = index - (SeqMod * c)
    <2>1. index = (SeqMod * c) + Wire(index) /\ c \in Int /\ Wire(index) \in Int
      BY HalfFacts, DivMod DEF Wire
    <2> HIDE DEF c
    <2>2. SeqMod * c \in Int
      BY <2>1, HalfFacts
    <2> QED
      BY <2>1, <2>2
  <1> HIDE DEF c
  <1>2. CountPacket(NoCounts, Wire(index)) =
            [base |-> Wire(index), max |-> Wire(index), packets |-> 1,
             expected_prior |-> 0, received_prior |-> 0]
    BY DEF CountPacket, NoCounts
  <1>3. Agrees([base |-> Wire(index), max |-> Wire(index), packets |-> 1,
                expected_prior |-> 0, received_prior |-> 0],
               [first |-> index, highest |-> index, arrivals |-> 1], c)
    BY <1>1 DEF Agrees, Counts, Seen
  <1> QED
    BY <1>1, <1>2, <1>3

\* What was seen, after another packet.
LEMMA PacketSeen ==
    ASSUME NEW s \in Seen, NEW highest, NEW arrivals, NEW now,
           now = [s EXCEPT !.highest = highest, !.arrivals = arrivals]
    PROVE  now = [first |-> s.first, highest |-> highest, arrivals |-> arrivals]
  <1>1. s = [first |-> s.first, highest |-> s.highest, arrivals |-> s.arrivals]
    BY DEF Seen
  <1> QED
    BY <1>1

\* A later packet advances them, if it is less than half the numbers away.
LEMMA LaterCounted ==
    ASSUME NEW state \in Counts, state # NoCounts, NEW s \in Seen, NEW cycles \in Int,
           Agrees(state, s, cycles), NEW index \in Int, index - s.highest \in -Half .. Half - 1
    PROVE  LET after == CountPacket(state, Wire(index))
           IN  /\ Agrees(after, [s EXCEPT !.highest = IF index > @ THEN index ELSE @,
                                          !.arrivals = @ + 1], cycles)
               /\ after.expected_prior = state.expected_prior
               /\ after.received_prior = state.received_prior
  <1>1. /\ state.max \in Int /\ state.base \in Int /\ s.highest \in Int /\ s.first \in Int
        /\ state.packets \in Int /\ s.arrivals \in Int
        /\ state.expected_prior \in Int /\ state.received_prior \in Int
        /\ state = [base |-> state.base, max |-> state.max, packets |-> state.packets,
                    expected_prior |-> state.expected_prior,
                    received_prior |-> state.received_prior]
        /\ s = [first |-> s.first, highest |-> s.highest, arrivals |-> s.arrivals]
    BY DEF Counts, Seen
  <1> DEFINE p == SeqMod * cycles
             extended == UnwrapSequence(Wire(index), state.max)
             after == [base |-> state.base,
                       max |-> IF extended > state.max THEN extended ELSE state.max,
                       packets |-> state.packets + 1,
                       expected_prior |-> state.expected_prior,
                       received_prior |-> state.received_prior]
             now == [first |-> s.first, highest |-> IF index > s.highest THEN index ELSE s.highest,
                     arrivals |-> s.arrivals + 1]
  <1>2. p \in Int /\ state.max = s.highest - p /\ state.base = s.first - p
    BY HalfFacts DEF Agrees
  <1>3. extended = index - p
    <2> HIDE DEF p
    <2>1. state.max + p = s.highest
      BY <1>1, <1>2
    <2>2. index - (state.max + p) >= -Half /\ index - (state.max + p) < Half
      BY <1>1, <2>1, HalfFacts
    <2> QED
      BY <1>1, <1>2, <2>2, UnwrapCorrect DEF p
  <1>4. CountPacket(state, Wire(index)) = after
    BY <1>1 DEF CountPacket
  <1>5. [s EXCEPT !.highest = IF index > @ THEN index ELSE @, !.arrivals = @ + 1] = now
    BY PacketSeen
  <1>6. Agrees(after, now, cycles)
    <2>1. s.arrivals > 0 /\ s.first <= s.highest /\ state.packets = s.arrivals
      BY DEF Agrees
    <2> HIDE DEF p, extended
    <2>2. after \in Counts /\ now \in Seen
      BY <1>1, <1>2, <1>3 DEF Counts, Seen
    <2>3. after.max = now.highest - p /\ after.base = now.first - p /\ now.first <= now.highest
      BY <1>1, <1>2, <1>3, <2>1
    <2>4. after.packets = now.arrivals /\ now.arrivals > 0
      BY <1>1, <2>1
    <2> QED
      BY <2>2, <2>3, <2>4 DEF Agrees, p
  <1> QED
    BY <1>4, <1>5, <1>6

\* What is reported of a packet's arrival.
LEMMA ReportMade ==
    ASSUME CountTypes, NEW after \in Counts, NEW now \in Seen, NEW c \in Int,
           after.packets = now.arrivals,
           after.max = now.highest - (SeqMod * c), after.base = now.first - (SeqMod * c),
           after.expected_prior = Sent(since), after.received_prior = since.arrivals,
           report' = Parsed(Block(after)), told' = now, reported' = since
    PROVE  ReportTruthful'
  <1> DEFINE p == SeqMod * c
             lost == Expected(after) - after.packets
             expected == Expected(after) - after.expected_prior
             missed == expected - (after.packets - after.received_prior)
  <1>1. /\ p \in Int /\ now.highest \in Int /\ now.first \in Int /\ now.arrivals \in Int
        /\ after.max \in Int /\ after.base \in Int
        /\ since.highest \in Int /\ since.first \in Int /\ since.arrivals \in Int
    BY HalfFacts DEF CountTypes, Counts, Seen
  <1>2. Expected(after) = Sent(now) /\ Sent(now) \in Int /\ Sent(since) \in Int
    BY <1>1 DEF Expected, Sent
  <1>3. /\ lost = Missed(now) /\ lost \in Int /\ expected = Sent(now) - Sent(since)
        /\ missed = Missed(now) - Missed(since) /\ expected \in Int /\ missed \in Int
    BY <1>1, <1>2 DEF Missed
  <1>4. /\ report'.fraction = FractionLost(after)
        /\ report'.lost = IF LossField(lost) >= LossHalf THEN LossField(lost) - (2 * LossHalf)
                                                         ELSE LossField(lost)
        /\ report'.high = after.max
    BY DEF Parsed, Block
  <1>5. FractionLost(after) = IF expected > 0 /\ missed > 0
                              THEN Clamp((missed * 256) \div expected, 0, 255) ELSE 0
    BY DEF FractionLost
  <1> HIDE DEF p, lost, expected, missed
  <1>6. report'.lost = Clamp(Missed(now), -LossHalf, LossHalf - 1)
    BY <1>3, <1>4, LossRoundTrip
  <1>7. Wire(report'.high) = Wire(now.highest)
    <2> DEFINE q == now.highest \div SeqMod
    <2>1. /\ now.highest = (SeqMod * q) + Wire(now.highest) /\ q \in Int
          /\ Wire(now.highest) \in 0..(SeqMod - 1)
      BY <1>1, HalfFacts, DivMod DEF Wire
    <2> HIDE DEF q
    <2>2. report'.high = (SeqMod * (q - c)) + Wire(now.highest) /\ q - c \in Int
      BY <1>1, <1>4, <2>1, HalfFacts, Z3
    <2>3. ((SeqMod * (q - c)) + Wire(now.highest)) % SeqMod = Wire(now.highest)
      BY <2>1, <2>2, HalfFacts, ModUnique
    <2> QED
      BY <2>2, <2>3 DEF Wire
  <1>8. LossTruthful'
    BY <1>6, <1>7 DEF LossTruthful, Missed, Sent
  <1>9. FractionTruthful'
    <2>1. /\ report'.fraction \in 0..255
          /\ missed <= 0 \/ expected <= 0 => report'.fraction = 0
          /\ missed > 0 /\ expected > 0 =>
                 /\ report'.fraction * expected <= 256 * missed
                 /\ (report'.fraction + 1) * expected > 256 * missed \/ report'.fraction = 255
      <3> HIDE DEF FractionLost
      <3> QED
        BY <1>3, <1>4, <1>5, FractionBounds
    <2>2. /\ missed = Missed(told') - Missed(reported')
          /\ expected = Sent(told') - Sent(reported')
      BY <1>3
    <2> QED
      BY <2>1, <2>2 DEF FractionTruthful, Missed, Sent
  <1> QED
    BY <1>8, <1>9 DEF ReportTruthful

\* The losses a receiver report tells the sender are those that happened, for
\* every stream, every number of packets and every width of the loss field.
THEOREM ReportsAreTrue == ReportSpec => []ReportTruthful
  <1>1. ReportInit => ReportInv
    <2> SUFFICES ASSUME ReportInit PROVE ReportInv
      OBVIOUS
    <2>1. CountTypes
      BY DEF ReportInit, CountTypes, NoCounts, Nothing, Counts, Seen
    <2>2. Counting
      BY DEF ReportInit, Counting, NoCounts, Nothing, Sent
    <2>3. ReportTruthful
      BY DEF ReportInit, ReportTruthful, LossTruthful, FractionTruthful
    <2> QED
      BY <2>1, <2>2, <2>3 DEF ReportInv
  <1>2. ReportInv /\ [ReportNext]_reportVars => ReportInv'
    <2> SUFFICES ASSUME ReportInv, [ReportNext]_reportVars PROVE ReportInv'
      OBVIOUS
    <2>1. ASSUME NEW index \in FirstSent .. LastSent, NEW due \in BOOLEAN, NEW arrives \in BOOLEAN,
                 PacketArrives(index, due, arrives)
          PROVE  ReportInv'
      <3> DEFINE after == CountPacket(counts, Wire(index))
                 now == IF seen = Nothing
                        THEN [first |-> index, highest |-> index, arrivals |-> 1]
                        ELSE [seen EXCEPT !.highest = IF index > @ THEN index ELSE @, !.arrivals = @ + 1]
      <3>1. /\ seen # Nothing => index - seen.highest \in -Half .. Half - 1
            /\ seen' = now
            /\ counts' = IF due THEN [after EXCEPT !.expected_prior = Expected(after),
                                                   !.received_prior = after.packets]
                                ELSE after
            /\ since' = IF due THEN now ELSE since
            /\ \/ report' = Parsed(Block(after)) /\ told' = now /\ reported' = since
               \/ UNCHANGED <<report, told, reported>>
            /\ index \in Int
        BY <2>1, ReportAssumption DEF PacketArrives
      <3>2. CountTypes /\ Counting /\ ReportTruthful
        BY DEF ReportInv
      <3>3. /\ \E c \in Int : Agrees(after, now, c)
            /\ after.expected_prior = counts.expected_prior
            /\ after.received_prior = counts.received_prior
        <4>1. CASE seen = Nothing
          <5>1. counts = NoCounts
            BY <3>2, <4>1 DEF Counting, Nothing
          <5>2. now = [first |-> index, highest |-> index, arrivals |-> 1]
            BY <4>1
          <5>3. counts.expected_prior = 0 /\ counts.received_prior = 0
            BY <5>1 DEF NoCounts
          <5> HIDE DEF now
          <5> QED
            BY <3>1, <5>1, <5>2, <5>3, FirstCounted
        <4>2. CASE seen # Nothing
          <5>1. now = [seen EXCEPT !.highest = IF index > @ THEN index ELSE @, !.arrivals = @ + 1]
            BY <4>2
          <5>2. counts \in Counts /\ seen \in Seen
            BY <3>2 DEF CountTypes
          <5>3. /\ counts.packets = seen.arrivals /\ seen.arrivals > 0 /\ seen.first <= seen.highest
                /\ counts # NoCounts
            BY <3>2, <4>2, <5>2 DEF Counting, NoCounts, Seen
          <5>4. PICK c \in Int : /\ counts.max = seen.highest - (SeqMod * c)
                                 /\ counts.base = seen.first - (SeqMod * c)
            BY <3>2, <4>2 DEF Counting
          <5>5. Agrees(counts, seen, c)
            BY <5>2, <5>3, <5>4 DEF Agrees
          <5> HIDE DEF now
          <5> QED
            BY <3>1, <4>2, <5>1, <5>2, <5>3, <5>5, LaterCounted
        <4> QED
          BY <4>1, <4>2
      <3> HIDE DEF after, now
      <3>11. PICK c \in Int : Agrees(after, now, c)
        BY <3>3
      <3>4. /\ after \in Counts /\ now \in Seen
            /\ after.packets = now.arrivals /\ now.arrivals > 0
            /\ now.first <= now.highest
            /\ after.max = now.highest - (SeqMod * c)
            /\ after.base = now.first - (SeqMod * c)
        BY <3>11 DEF Agrees
      <3>5. after.expected_prior = Sent(since) /\ after.received_prior = since.arrivals
        BY <3>2, <3>3 DEF Counting
      <3>6. ReportTruthful'
        <4>1. CASE report' = Parsed(Block(after)) /\ told' = now /\ reported' = since
          BY <3>2, <3>4, <3>5, <4>1, ReportMade
        <4>2. CASE UNCHANGED <<report, told, reported>>
          BY <3>2, <4>2 DEF ReportTruthful, LossTruthful, FractionTruthful, Missed, Sent
        <4> QED
          BY <3>1, <4>1, <4>2
      <3>7. /\ counts'.base = after.base /\ counts'.max = after.max /\ counts'.packets = after.packets
            /\ counts' \in Counts
            /\ due => counts'.expected_prior = Expected(after) /\ counts'.received_prior = after.packets
            /\ ~due => counts' = after
            /\ Expected(after) \in Int
        <4>1. after = [base |-> after.base, max |-> after.max, packets |-> after.packets,
                       expected_prior |-> after.expected_prior,
                       received_prior |-> after.received_prior]
              /\ after.base \in Int /\ after.max \in Int /\ after.packets \in Int
          BY <3>4 DEF Counts
        <4>2. Expected(after) \in Int
          BY <4>1 DEF Expected
        <4>3. CASE due
          <5>1. counts' = [base |-> after.base, max |-> after.max, packets |-> after.packets,
                           expected_prior |-> Expected(after), received_prior |-> after.packets]
            BY <3>1, <4>1, <4>3
          <5> QED
            BY <4>1, <4>2, <4>3, <5>1 DEF Counts
        <4>4. CASE ~due
          BY <3>1, <3>4, <4>2, <4>4
        <4> QED
          BY <4>3, <4>4
      <3>8. CountTypes'
        BY <3>1, <3>2, <3>4, <3>7 DEF CountTypes
      <3>9. Expected(after) = Sent(now)
        <4>1. SeqMod * c \in Int /\ now.first \in Int /\ now.highest \in Int
          BY <3>4, HalfFacts DEF Seen
        <4> QED
          BY <3>4, <4>1 DEF Expected, Sent
      <3>10. Counting'
        BY <3>1, <3>3, <3>4, <3>5, <3>7, <3>9 DEF Counting, Sent
      <3> QED
        BY <3>6, <3>8, <3>10 DEF ReportInv
    <2>2. CASE CleanUp
      <3>1. CountTypes'
        BY <2>2 DEF CleanUp, CountTypes, NoCounts, Nothing, Counts, Seen
      <3>2. Counting'
        BY <2>2 DEF CleanUp, Counting, NoCounts, Nothing, Sent
      <3>3. ReportTruthful'
        BY <2>2 DEF CleanUp, ReportTruthful, LossTruthful, FractionTruthful
      <3> QED
        BY <3>1, <3>2, <3>3 DEF ReportInv
    <2>3. CASE UNCHANGED reportVars
      BY <2>3 DEF reportVars, ReportInv, CountTypes, Counting, ReportTruthful, LossTruthful,
         FractionTruthful, Missed, Sent
    <2> QED
      BY <2>1, <2>2, <2>3 DEF ReportNext
  <1> QED
    BY <1>1, <1>2, PTL DEF ReportSpec, ReportInv
=============================================================================

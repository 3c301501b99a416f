------------------------------- MODULE UdpPing ------------------------------
(***************************************************************************)
(* UDPPing (src/src/transport/udp.rs): a thread that sends a numbered ping *)
(* every interval, the reader of the UDP transport that passes it replies, *)
(* and stop(), which sets a flag, notifies a condition variable and joins. *)
(*                                                                         *)
(* stop() does not hold the mutex of the condition variable, so that its   *)
(* notification can fall between the thread's last look at the flag and    *)
(* its going to sleep.  Time is abstract: a ping that is out may become    *)
(* older than the timeout at any moment.                                   *)
(***************************************************************************)
EXTENDS Integers, FiniteSets

CONSTANT MaxPings       \* bound: pings sent

ASSUME MaxPingsAssumption == MaxPings \in Nat \ {0}

Pings == 1..MaxPings
NoPing == 0

VARIABLES
    sequence,       \* the last number used
    sent,           \* the ping that is out, or NoPing
    old,            \* it is older than the timeout
    timeouts, send_errors,
    stop,           \* the atomic flag
    pc,             \* where the ping thread is
    spc,            \* where the thread that calls stop() is
    replies,        \* replies on their way: they may be lost or duplicated
    answered,       \* pingHistory: pings whose round-trip time was taken
    timed_out,      \* pingHistory: pings counted in timeouts
    went_out        \* pingHistory: pings that left the socket

state == <<sequence, sent, old, timeouts, send_errors>>
pingHistory == <<answered, timed_out, went_out>>
pingVars == <<state, stop, pc, spc, replies, pingHistory>>

PingInit ==
    /\ sequence = 0 /\ sent = NoPing /\ old = FALSE
    /\ timeouts = 0 /\ send_errors = 0
    /\ stop = FALSE
    /\ pc = "check"
    /\ spc = "idle"
    /\ replies = {}
    /\ answered = {} /\ timed_out = {} /\ went_out = {}

\* The ping thread holds the mutex of the state.
Locked == pc \in {"cond", "sleep"}

-----------------------------------------------------------------------------
(****************************** wait_for_stop ******************************)

\* The flag is looked at without the mutex, ...
CheckStop ==
    /\ pc = "check"
    /\ pc' = IF stop THEN "ended" ELSE "cond"
    /\ UNCHANGED <<state, stop, spc, replies, pingHistory>>

\* ... then with it, by wait_timeout_while, ...
Condition ==
    /\ pc = "cond"
    /\ pc' = IF stop THEN "woken" ELSE "sleep"
    /\ UNCHANGED <<state, stop, spc, replies, pingHistory>>

\* ... and the thread goes to sleep, releasing the mutex, ...
Sleep ==
    /\ pc = "sleep"
    /\ pc' = "asleep"
    /\ UNCHANGED <<state, stop, spc, replies, pingHistory>>

\* A mutation of WaitTimesOut: a wait without a timeout.
WaitNeverTimesOut == FALSE /\ UNCHANGED pingVars

\* ... until the delay or interval is over (past the bound, only to stop).
WaitTimesOut ==
    /\ pc = "asleep"
    /\ sequence < MaxPings \/ stop
    /\ pc' = "woken"
    /\ UNCHANGED <<state, stop, spc, replies, pingHistory>>

\* The flag decides whether there is another round.
Woken ==
    /\ pc = "woken"
    /\ pc' = IF stop THEN "ended" ELSE "round"
    /\ UNCHANGED <<state, stop, spc, replies, pingHistory>>

-----------------------------------------------------------------------------
(***************************** run_ping_thread *****************************)

\* A round: the ping that is out is given up if it is too old, and the next
\* number is taken.
Round ==
    /\ pc = "round"
    /\ sequence' = sequence + 1
    /\ IF sent # NoPing /\ old
       THEN /\ sent' = NoPing /\ old' = FALSE
            /\ timeouts' = timeouts + 1
            /\ timed_out' = timed_out \cup {sent}
       ELSE UNCHANGED <<sent, old, timeouts, timed_out>>
    /\ pc' = "send"
    /\ UNCHANGED <<send_errors, stop, spc, replies, answered, went_out>>

\* The datagram leaves, with the mutex free, and may be answered at once.
Send ==
    /\ pc = "send"
    /\ went_out' = went_out \cup {sequence}
    /\ replies' = replies \cup {sequence}
    /\ pc' = "sent"
    /\ UNCHANGED <<state, stop, spc, answered, timed_out>>

SendFails ==
    /\ pc = "send"
    /\ pc' = "failed"
    /\ UNCHANGED <<state, stop, spc, replies, pingHistory>>

\* Only now is the ping out.
RecordSent ==
    /\ pc = "sent"
    /\ sent' = sequence /\ old' = FALSE
    /\ pc' = "check"
    /\ UNCHANGED <<sequence, timeouts, send_errors, stop, spc, replies, pingHistory>>

RecordError ==
    /\ pc = "failed"
    /\ sent' = NoPing /\ old' = FALSE
    /\ send_errors' = send_errors + 1
    /\ pc' = "check"
    /\ UNCHANGED <<sequence, timeouts, stop, spc, replies, pingHistory>>

\* The timeout of the ping that is out passes.
GrowOld ==
    /\ sent # NoPing /\ ~old
    /\ old' = TRUE
    /\ UNCHANGED <<sequence, sent, timeouts, send_errors, stop, pc, spc, replies, pingHistory>>

-----------------------------------------------------------------------------
(****************************** handle_packet ******************************)

\* A mutation of Answers: the number in the reply is not compared.
AnswersAny(reply) == sent # NoPing

\* The reply is that of the ping that is out.
Answers(reply) == sent = reply

\* A reply, which may come again or have been delayed, is passed in by the
\* reader.  It is consumed even when no ping is out.
handle_packet(reply) ==
    /\ reply \in replies
    /\ ~Locked
    /\ IF Answers(reply)
       THEN /\ sent' = NoPing /\ old' = FALSE
            /\ answered' = answered \cup {reply}
       ELSE UNCHANGED <<sent, old, answered>>
    /\ \/ replies' = replies \ {reply}
       \/ UNCHANGED replies
    /\ UNCHANGED <<sequence, timeouts, send_errors, stop, pc, spc, timed_out, went_out>>

-----------------------------------------------------------------------------
(*********************************** stop **********************************)

SetStop ==
    /\ spc = "idle"
    /\ stop' = TRUE
    /\ spc' = "notify"
    /\ UNCHANGED <<state, pc, replies, pingHistory>>

\* notify_all wakes a thread that is asleep, and is lost on any other.
NotifyAll ==
    /\ spc = "notify"
    /\ pc' = IF pc = "asleep" THEN "cond" ELSE pc
    /\ spc' = "join"
    /\ UNCHANGED <<state, stop, replies, pingHistory>>

Join ==
    /\ spc = "join"
    /\ pc = "ended"
    /\ spc' = "stopped"
    /\ UNCHANGED <<state, stop, pc, replies, pingHistory>>

-----------------------------------------------------------------------------
ThreadStep ==
    \/ CheckStop \/ Condition \/ Sleep \/ WaitTimesOut \/ Woken
    \/ Round \/ Send \/ SendFails \/ RecordSent \/ RecordError

StopStep == NotifyAll \/ Join

PingNext ==
    \/ ThreadStep
    \/ GrowOld
    \/ \E reply \in Pings : handle_packet(reply)
    \/ SetStop \/ StopStep

PingSpec == PingInit /\ [][PingNext]_pingVars

\* The two threads run, and a timed wait ends; replies need not come.
FairPingSpec == PingSpec /\ WF_pingVars(ThreadStep) /\ WF_pingVars(StopStep)

-----------------------------------------------------------------------------
\* The variables keep their types, and the counters count the pings given up.
PingTypeOK ==
    /\ sequence \in 0..MaxPings
    /\ sent \in 0..sequence
    /\ old \in BOOLEAN /\ (old => sent # NoPing)
    /\ timeouts = Cardinality(timed_out) /\ send_errors \in 0..sequence
    /\ stop \in BOOLEAN
    /\ pc \in {"check", "cond", "sleep", "asleep", "woken", "round", "send", "sent", "failed",
               "ended"}
    /\ spc \in {"idle", "notify", "join", "stopped"}
    /\ replies \subseteq went_out /\ went_out \subseteq 1..sequence
    /\ answered \subseteq Pings /\ timed_out \subseteq Pings

\* However late, often or early replies come: a ping counted as answered or
\* as timed out did go out, it is never counted as both, and the ping that is
\* still out was neither answered nor given up.
AnsweredOrTimedOut ==
    /\ answered \cup timed_out \subseteq went_out
    /\ answered \cap timed_out = {}
    /\ sent # NoPing => sent \in went_out \ (answered \cup timed_out)

\* A round-trip time is only taken of the newest ping that was sent or, while
\* the next one is being sent, of the one before: a delayed or repeated reply
\* to an older ping changes nothing.
OnlyRecentAnswered ==
    [][\A n \in answered' \ answered : n \in {sequence - 1, sequence}]_pingVars

\* stop() returns: the notification may be lost, the timed wait still ends.
StopReturns == (spc = "notify") ~> (spc = "stopped")
=============================================================================

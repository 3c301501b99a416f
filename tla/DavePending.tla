---------------------------- MODULE DavePending ----------------------------
(***************************************************************************)
(* Video frames that are end-to-end encrypted (DAVE) and cannot be         *)
(* decrypted yet (client.py).  The dispatcher holds them, and tries again  *)
(* at the beginning of every batch of packets; the event loop empties what *)
(* is held when listening stops, at any point of a batch, without a lock.  *)
(* davey, which decrypts, is external: keys come and go, and an attempt    *)
(* succeeds, fails for now or fails for good.                              *)
(***************************************************************************)
EXTENDS Integers, Sequences

CONSTANTS
    Users,          \* the users whose frames arrive
    NoUser,         \* the user of an SSRC nobody has announced
    MaxHeld,        \* DAVE_PENDING_VIDEO_MAX_FRAMES
    MaxAge,         \* DAVE_PENDING_VIDEO_MAX_AGE
    MaxArrivals,    \* bound: frames
    MaxTime,        \* bound: of the clock
    MaxRelistens        \* bound: times listening stops and starts again

ASSUME DaveAssumption ==
    /\ MaxHeld \in Nat \ {0} /\ {MaxAge, MaxArrivals, MaxTime, MaxRelistens} \subseteq Nat
    /\ NoUser \notin Users

VARIABLES
    held,           \* _pending_dave_video_frames
    keys,           \* users whose frames can be attempted: _can_decrypt_dave
    clock,          \* time.perf_counter
    phase,          \* where the dispatcher is
    began,          \* now: when the pass over the held frames began
    kept,           \* remaining: the frames the pass has put back
    packets_out,    \* the frames the batch will deliver
    listener,       \* the listening session whose callback the batch will call
    arrivals,       \* how many frames have arrived
    born,           \* ghost: for each frame, the session in whose batch it came
    fate,           \* ghost: what became of each frame
    to,             \* ghost: the session a frame was delivered to, -1 for none
    raced,          \* ghost: frames a pass or a batch carried across a stop
    relistens           \* times listening stopped and started again

daveVars == <<held, keys, clock, phase, began, kept, packets_out, listener, arrivals, born, fate,
              to, raced, relistens>>

Arrivals == 1 .. MaxArrivals

DaveInit ==
    /\ held = <<>> /\ keys = {} /\ clock = 0
    /\ phase = "idle" /\ began = 0 /\ kept = <<>> /\ packets_out = <<>> /\ listener = 0
    /\ arrivals = 0 /\ relistens = 0 /\ raced = {}
    /\ born = [f \in Arrivals |-> 0]
    /\ fate = [f \in Arrivals |-> "waits"]
    /\ to = [f \in Arrivals |-> -1]

\* The numbers of the frames of a list.
Ids(list) == {list[i].id : i \in DOMAIN list}

\* Frames with these numbers get a fate.
Decide(ids, what) == fate' = [f \in Arrivals |-> IF f \in ids THEN what ELSE fate[f]]

-----------------------------------------------------------------------------
(****************************** the dispatcher ******************************)

\* _handle_socket_packets takes the callback and begins with the held frames.
BeginBatch ==
    /\ phase = "idle"
    /\ listener' = relistens
    /\ began' = clock
    /\ kept' = <<>> /\ packets_out' = <<>>
    /\ phase' = IF held = <<>> THEN "packets" ELSE "pass"
    /\ UNCHANGED <<held, keys, clock, arrivals, born, fate, to, raced, relistens>>

TooOld(frame, now) == now - frame.queued_at > MaxAge

\* _retry_pending_dave_video_frames: the list is not empty, for now.
AnotherHeld ==
    /\ phase = "pass" /\ held # <<>>
    /\ phase' = "pop"
    /\ UNCHANGED <<held, keys, clock, began, kept, packets_out, listener, arrivals, born, fate, to, raced, relistens>>

\* The oldest frame is taken: expired, put back, decrypted or given up.
RetryHeld(outcome) ==
    LET frame == Head(held)
    IN  /\ phase = "pop" /\ held # <<>>
        /\ held' = Tail(held)
        /\ phase' = "pass"
        /\ CASE TooOld(frame, began) ->
                  /\ Decide({frame.id}, "expired")
                  /\ UNCHANGED <<kept, packets_out>>
             [] ~TooOld(frame, began) /\ (frame.user \notin keys \/ outcome = "later") ->
                  /\ kept' = Append(kept, frame)
                  /\ UNCHANGED <<fate, packets_out>>
             [] ~TooOld(frame, began) /\ frame.user \in keys /\ outcome = "decrypted" ->
                  /\ packets_out' = Append(packets_out, frame)
                  /\ UNCHANGED <<fate, kept>>
             [] ~TooOld(frame, began) /\ frame.user \in keys /\ outcome = "failed" ->
                  /\ Decide({frame.id}, "failed")
                  /\ UNCHANGED <<kept, packets_out>>
        /\ UNCHANGED <<keys, clock, began, listener, arrivals, born, to, raced, relistens>>

\* The list was emptied between the two: popleft raises, and the batch is
\* dropped with what the pass had decrypted and put back.
PassRaises ==
    /\ phase = "pop" /\ held = <<>>
    /\ Decide(Ids(kept) \cup Ids(packets_out), "raced")
    /\ kept' = <<>> /\ packets_out' = <<>>
    /\ phase' = "idle"
    /\ UNCHANGED <<held, keys, clock, began, listener, arrivals, born, to, raced, relistens>>

\* A mutation of EndPass: what was put back is not assigned.
EndPassForgets ==
    /\ phase = "pass" /\ held = <<>>
    /\ kept' = <<>>
    /\ phase' = "packets"
    /\ UNCHANGED <<held, keys, clock, began, packets_out, listener, arrivals, born, fate, to, raced,
                   relistens>>

\* The pass is over: self._pending_dave_video_frames = remaining.
EndPass ==
    /\ phase = "pass" /\ held = <<>>
    /\ held' = kept
    /\ kept' = <<>>
    /\ phase' = "packets"
    /\ UNCHANGED <<keys, clock, began, packets_out, listener, arrivals, born, fate, to, raced,
                   relistens>>

\* _stash_dave_video_frame: the frames at the front that are too old, and, if
\* the list is still full, one more, give way.
Stash(frame) ==
    \E expired \in 0 .. Len(held) :
        LET gone == IF Len(held) - expired >= MaxHeld THEN expired + 1 ELSE expired
        IN  /\ \A i \in 1 .. expired : TooOld(held[i], clock)
            /\ expired < Len(held) => ~TooOld(held[expired + 1], clock)
            /\ held' = Append(SubSeq(held, gone + 1, Len(held)), frame)
            /\ Decide(Ids(SubSeq(held, 1, gone)), "dropped")

\* _decode_video_frame of a frame that looks encrypted.
FrameArrives(user, outcome) ==
    LET frame == [id |-> arrivals + 1, user |-> user, queued_at |-> clock]
    IN  /\ phase = "packets"
        /\ arrivals < MaxArrivals
        /\ arrivals' = arrivals + 1
        /\ IF user \notin keys \/ outcome = "later"
           THEN Stash(frame) /\ UNCHANGED packets_out
           ELSE /\ IF outcome = "decrypted"
                   THEN packets_out' = Append(packets_out, frame) /\ UNCHANGED fate
                   ELSE Decide({frame.id}, "failed") /\ UNCHANGED packets_out
                /\ UNCHANGED held
        /\ born' = [born EXCEPT ![frame.id] = listener]
        /\ raced' = IF relistens # listener THEN raced \cup {frame.id} ELSE raced
        /\ UNCHANGED <<keys, clock, phase, began, kept, listener, to, relistens>>

\* The packets of the batch go to the callback it began with.
DeliverBatch ==
    /\ phase = "packets"
    /\ Decide(Ids(packets_out), "delivered")
    /\ to' = [f \in Arrivals |-> IF f \in Ids(packets_out) THEN listener ELSE to[f]]
    /\ packets_out' = <<>>
    /\ phase' = "idle"
    /\ UNCHANGED <<held, keys, clock, began, kept, listener, arrivals, born, raced, relistens>>

-----------------------------------------------------------------------------
(****************** the event loop, the gateway and time *******************)

\* _reset_receive_transport_state when listening stops, and a new listen.
StopAndListen ==
    /\ relistens < MaxRelistens
    /\ relistens' = relistens + 1
    /\ held' = <<>>
    /\ Decide(Ids(held), "cleared")
    /\ raced' = raced \cup Ids(kept) \cup Ids(packets_out)
    /\ UNCHANGED <<keys, clock, phase, began, kept, packets_out, listener, arrivals, born, to>>

\* The DAVE session of a user becomes usable, or unusable in a transition.
ChangeKeys(user) ==
    /\ keys' = IF user \in keys THEN keys \ {user} ELSE keys \cup {user}
    /\ UNCHANGED <<held, clock, phase, began, kept, packets_out, listener, arrivals, born, fate, to, raced, relistens>>

DaveTick ==
    /\ clock < MaxTime
    /\ clock' = clock + 1
    /\ UNCHANGED <<held, keys, phase, began, kept, packets_out, listener, arrivals, born, fate, to, raced, relistens>>

Outcomes == {"decrypted", "later", "failed"}

DaveNext ==
    \/ BeginBatch \/ AnotherHeld \/ PassRaises \/ EndPass \/ DeliverBatch
    \/ \E outcome \in Outcomes : RetryHeld(outcome)
    \/ \E user \in Users \cup {NoUser}, outcome \in Outcomes : FrameArrives(user, outcome)
    \/ \E user \in Users : ChangeKeys(user)
    \/ StopAndListen \/ DaveTick

DaveSpec == DaveInit /\ [][DaveNext]_daveVars

-----------------------------------------------------------------------------
\* No frame is lost or duplicated while it waits: a frame that has arrived and
\* was not expired, dropped, failed, cleared, raced or delivered is in exactly
\* one place, once: held, put back by the pass or about to be delivered; and the
\* held frames stay in the order in which they came.
EveryFrameOnce ==
    LET waiting == held \o kept \o packets_out
    IN  /\ Ids(waiting) = {f \in 1 .. arrivals : fate[f] = "waits"}
        /\ \A i, j \in DOMAIN waiting : waiting[i].id = waiting[j].id => i = j
        /\ \A list \in {held, kept} : \A i, j \in DOMAIN list : i < j => list[i].id < list[j].id
        /\ Len(held) <= MaxHeld

\* A frame reaches another listening session than the one it arrived in only if
\* a pass or a batch was under way when listening stopped.
SessionsApart ==
    \A f \in Arrivals : (to[f] # -1 /\ to[f] # born[f]) => f \in raced

\* What is given up for its age or for lack of room is older than everything
\* that still waits, across passes that put frames back and batches that add
\* some: a recent frame never gives way to an older one.
OldestGiveWay ==
    \A f \in Arrivals : fate[f] \in {"expired", "dropped"} =>
        \A g \in Ids(held \o kept) : f < g

\* Frames that wait for DAVE keys are neither lost, doubled nor mixed with those
\* of another session, and the oldest give way, although listening stops in the
\* middle of a pass.
HeldFramesSound == EveryFrameOnce /\ SessionsApart /\ OldestGiveWay
=============================================================================

--------------------------- MODULE KeyframeReplay ---------------------------
(***************************************************************************)
(* The cached keyframes of outgoing H.264 and H.265 video (client.py).     *)
(* The player thread keeps, for every stream, the last keyframe that holds *)
(* its parameter sets and the frames sent since, and sends them again when *)
(* the dispatcher has noted a picture loss indication (PLI).  stop_video   *)
(* and start_video run on the event loop, between any two steps of the     *)
(* player.  The receiver of each stream is external: it decodes a keyframe,*)
(* or the frame after the one it decoded last.                             *)
(***************************************************************************)
EXTENDS Integers, Sequences
LOCAL INSTANCE Functions

CONSTANTS
    Streams,        \* the media SSRCs of the active streams
    MaxReplay,      \* video_keyframe_replay_max_frames
    MaxLive,        \* bound: frames in one session
    MaxRequests,    \* bound: PLIs
    MaxSessions,    \* bound: start_video
    MaxGaps       \* bound: times the network loses what a receiver needs

ASSUME ReplayAssumption == {MaxReplay, MaxLive, MaxRequests, MaxSessions, MaxGaps} \subseteq Nat

VARIABLES
    video,          \* _video_codec is set: video is started
    keyframes,      \* _video_keyframes; the empty list for no entry
    requests,       \* _video_keyframe_resend_requests
    replay_active,  \* _video_keyframe_replay_active
    step,           \* where the player thread is
    taken,          \* its copy of the requests, those still to be served
    current,        \* the stream being served or sent
    frames_left,    \* the frames of the replay that are still to be sent
    replayed,       \* sent: a replay of this round was complete
    live,           \* ghost: the frame of each stream sent last, replays aside
    decoded,        \* external: the frame each receiver decoded last
    asked,          \* ghost: streams with a PLI that nobody has dealt with
    overtaken,      \* ghost: those of them noted while the requests were being cleared
    disturbed,      \* ghost: a stop or a loss during the replay of current
    session, asks, gaps   \* counts: start_video, PLIs, losses

playerVars == <<step, taken, current, frames_left, replayed>>
replayVars == <<video, keyframes, requests, replay_active, playerVars, live, decoded, asked,
                overtaken, disturbed, session, asks, gaps>>

NoFrame == [session |-> 0, n |-> 0, key |-> FALSE]

ReplayInit ==
    /\ video = TRUE /\ session = 1
    /\ keyframes = [s \in Streams |-> <<>>]
    /\ requests = {} /\ replay_active = FALSE
    /\ step = "round" /\ taken = {} /\ frames_left = <<>> /\ replayed = FALSE
    /\ current \in Streams
    /\ live = [s \in Streams |-> NoFrame] /\ decoded = [s \in Streams |-> NoFrame]
    /\ asked = {} /\ overtaken = {} /\ disturbed = FALSE
    /\ asks = 0 /\ gaps = 0

-----------------------------------------------------------------------------
(**************************** the player thread ****************************)

\* A mutation of CacheVideoFrame: a full list forgets its oldest frame.
CacheForgetsOldest(cached, frame) ==
    CASE frame.key -> <<frame>>
      [] ~frame.key /\ cached = <<>> -> <<>>
      [] ~frame.key /\ cached # <<>> ->
            IF Len(cached) >= MaxReplay THEN Append(Tail(cached), frame)
                                        ELSE Append(cached, frame)

\* _cache_video_frame: a configuration keyframe (_is_config_keyframe) starts a
\* new list, other frames follow it, and a list that is full is dropped.
CacheVideoFrame(cached, frame) ==
    CASE frame.key -> <<frame>>
      [] ~frame.key /\ cached = <<>> -> <<>>
      [] ~frame.key /\ cached # <<>> ->
            IF Len(cached) >= (IF MaxReplay > 1 THEN MaxReplay ELSE 1)
            THEN <<>>
            ELSE Append(cached, frame)

\* The receiver gets a frame: it can decode a keyframe, the successor of what
\* it decoded last, and nothing else until the next keyframe.
Receive(frame, last_decoded) ==
    IF \/ frame.key
       \/ last_decoded = [frame EXCEPT !.n = @ - 1, !.key = last_decoded.key]
    THEN frame ELSE NoFrame

\* The player begins a round of a stream that has started: it copies the
\* requests.
CopyRequests ==
    /\ step = "round" /\ video
    /\ taken' = requests
    /\ replayed' = FALSE
    /\ step' = "clear"
    /\ UNCHANGED <<video, keyframes, requests, replay_active, current, frames_left, live, decoded,
                   asked, overtaken, disturbed, session, asks, gaps>>

\* It clears them, also those that were added since.
ClearRequests ==
    /\ step = "clear"
    /\ requests' = {}
    /\ step' = "serve"
    /\ UNCHANGED <<video, keyframes, replay_active, taken, current, frames_left, replayed, live,
                   decoded, asked, overtaken, disturbed, session, asks, gaps>>

\* It takes the next request; one without cached frames is dropped.
ServeNext(s) ==
    /\ step = "serve" /\ s \in taken
    /\ taken' = taken \ {s}
    /\ IF keyframes[s] = <<>>
       THEN /\ asked' = asked \ {s}
            /\ UNCHANGED <<step, current, frames_left, replay_active, disturbed>>
       ELSE /\ step' = "replay"
            /\ current' = s
            /\ frames_left' = keyframes[s]
            /\ replay_active' = TRUE
            /\ disturbed' = FALSE
            /\ UNCHANGED asked
    /\ UNCHANGED <<video, keyframes, requests, replayed, live, decoded, overtaken, session, asks,
                   gaps>>

\* send_video_frame of one cached frame.  It would be cached again, were it not
\* for replay_active.
ResendFrame ==
    LET frame == Head(frames_left)
    IN  /\ step = "replay" /\ frames_left # <<>> /\ video
        /\ frames_left' = Tail(frames_left)
        /\ keyframes' = IF replay_active THEN keyframes
                        ELSE [keyframes EXCEPT ![current] = CacheVideoFrame(@, frame)]
        /\ decoded' = [decoded EXCEPT ![current] = Receive(frame, @)]
        /\ UNCHANGED <<video, requests, replay_active, step, taken, current, replayed, live, asked,
                       overtaken, disturbed, session, asks, gaps>>

\* The replay ends: with all frames sent, or with an exception, which is logged.
\* It always raises when video was stopped, and may when the stream is no longer
\* active or the connection is gone.
EndReplay(complete) ==
    /\ step = "replay"
    /\ complete => frames_left = <<>>
    /\ ~complete => frames_left # <<>>
    /\ replayed' = (replayed \/ complete)
    /\ replay_active' = FALSE
    /\ frames_left' = <<>>
    /\ step' = "serve"
    /\ asked' = asked \ {current}
    /\ disturbed' = FALSE
    /\ UNCHANGED <<video, keyframes, requests, taken, current, live, decoded, overtaken, session,
                   asks, gaps>>

\* A mutation of ServedAll: the requests are cleared when all are served.
ServedAllClears ==
    /\ step = "serve" /\ taken = {}
    /\ step' = IF replayed THEN "round" ELSE "read"
    /\ requests' = {}
    /\ UNCHANGED <<video, keyframes, replay_active, taken, current, frames_left, replayed, live,
                   decoded, asked, overtaken, disturbed, session, asks, gaps>>

\* All requests are served: after a replay the round is over, otherwise the
\* source is read.
ServedAll ==
    /\ step = "serve" /\ taken = {}
    /\ step' = IF replayed THEN "round" ELSE "read"
    /\ UNCHANGED <<video, keyframes, requests, replay_active, taken, current, frames_left,
                   replayed, live, decoded, asked, overtaken, disturbed, session, asks, gaps>>

\* The source has a frame for s, and _cache_video_frame finds the codec set and
\* no replay active.  The first frame of a session is a keyframe.
ReadFrame(s, key) ==
    LET first == live[s].session # session
        soFar == FoldFunction(+, 0, [t \in Streams |->
                                       IF live[t].session = session THEN live[t].n ELSE 0])
    IN  /\ step = "read" /\ video /\ ~replay_active
        /\ first => key
        /\ soFar < MaxLive
        /\ frames_left' = <<[session |-> session, n |-> IF first THEN 1 ELSE live[s].n + 1,
                             key |-> key]>>
        /\ current' = s
        /\ step' = "store"
        /\ UNCHANGED <<video, keyframes, requests, replay_active, taken, replayed, live, decoded,
                       asked, overtaken, disturbed, session, asks, gaps>>

\* The source has none, or video was stopped meanwhile.
ReadNothing ==
    /\ step = "read"
    /\ step' = "round"
    /\ UNCHANGED <<video, keyframes, requests, replay_active, taken, current, frames_left,
                   replayed, live, decoded, asked, overtaken, disturbed, session, asks, gaps>>

\* The frame is cached and sent.  After a stop it is cached all the same, and
\* its sending fails.
StoreFrame ==
    LET frame == Head(frames_left)
    IN  /\ step = "store"
        /\ keyframes' = [keyframes EXCEPT ![current] = CacheVideoFrame(@, frame)]
        /\ IF video /\ session = frame.session
           THEN /\ live' = [live EXCEPT ![current] = frame]
                /\ decoded' = [decoded EXCEPT ![current] = Receive(frame, @)]
           ELSE UNCHANGED <<live, decoded>>
        /\ frames_left' = <<>>
        /\ step' = "round"
        /\ UNCHANGED <<video, requests, replay_active, taken, current, replayed, asked, overtaken,
                       disturbed, session, asks, gaps>>

-----------------------------------------------------------------------------
(******************** the dispatcher and the event loop ********************)

\* _handle_rtcp_pli: a request for a configured stream is noted.
HandlePli(s) ==
    /\ asks < MaxRequests
    /\ video
    /\ requests' = requests \cup {s}
    /\ asks' = asks + 1
    /\ asked' = asked \cup {s}
    /\ overtaken' = IF step = "clear" THEN overtaken \cup {s} ELSE overtaken \ {s}
    /\ UNCHANGED <<video, keyframes, replay_active, playerVars, live, decoded, disturbed, session,
                   gaps>>

\* stop_video behind its await.
StopVideo ==
    /\ video
    /\ video' = FALSE
    /\ keyframes' = [s \in Streams |-> <<>>]
    /\ requests' = {}
    /\ replay_active' = FALSE
    /\ asked' = {}
    /\ disturbed' = (step = "replay")
    /\ UNCHANGED <<playerVars, live, decoded, overtaken, session, asks, gaps>>

\* start_video for another source.
StartVideo ==
    /\ ~video
    /\ session < MaxSessions
    /\ video' = TRUE
    /\ session' = session + 1
    /\ UNCHANGED <<keyframes, requests, replay_active, playerVars, live, decoded, asked, overtaken,
                   disturbed, asks, gaps>>

\* The network loses packets of s, and retransmission does not help.
Lose(s) ==
    /\ gaps < MaxGaps
    /\ gaps' = gaps + 1
    /\ decoded' = [decoded EXCEPT ![s] = NoFrame]
    /\ disturbed' = (disturbed \/ (step = "replay" /\ s = current))
    /\ UNCHANGED <<video, keyframes, requests, replay_active, playerVars, live, asked, overtaken,
                   session, asks>>

PlayerRound ==
    \/ CopyRequests \/ ClearRequests \/ ServedAll \/ ResendFrame \/ ReadNothing \/ StoreFrame
    \/ \E s \in Streams : ServeNext(s)
    \/ \E complete \in BOOLEAN : EndReplay(complete)

ReplayNext ==
    \/ PlayerRound
    \/ \E s \in Streams, key \in BOOLEAN : ReadFrame(s, key)
    \/ \E s \in Streams : HandlePli(s) \/ Lose(s)
    \/ StopVideo \/ StartVideo

ReplaySpec == ReplayInit /\ [][ReplayNext]_replayVars

-----------------------------------------------------------------------------
\* What is cached can be decoded from its beginning: a configuration keyframe
\* and the frames sent right after it, without a gap, of one session; also
\* when frames are cached while video is stopped and started again.
CacheDecodable ==
    \A s \in Streams :
        /\ keyframes[s] # <<>> => keyframes[s][1].key
        /\ \A i \in 2 .. Len(keyframes[s]) :
              /\ ~keyframes[s][i].key
              /\ keyframes[s][i].session = keyframes[s][1].session
              /\ keyframes[s][i].n = keyframes[s][i - 1].n + 1

\* A complete replay brings a receiver that had lost everything up to the frame
\* sent last, so that the next frame can be decoded; unless video was stopped or
\* packets were lost while it ran.  A keyframe that a stop overtook on its way
\* into the cache is excepted: it is of a session that has ended.
ReplayCatchesUp ==
    (step = "replay" /\ frames_left = <<>> /\ ~disturbed /\ live[current].session = session) =>
        decoded[current] = live[current]

\* A replay works: what is cached for it can be decoded, and brings a receiver
\* that asked with a PLI up to the present.
ReplaySound == CacheDecodable /\ ReplayCatchesUp

\* Every PLI is dealt with: its stream is replayed, as far as there are cached
\* frames.  Excepted: one noted while the player, which has copied the requests,
\* is about to clear them.
RequestsAnswered ==
    \A s \in Streams : (s \in asked /\ s \notin overtaken /\ video)
                            ~> (s \notin asked \/ s \in overtaken \/ ~video)
=============================================================================

---------------------------- MODULE MediaSources ----------------------------
(***************************************************************************)
(* Media sources built from other sources (media.py): what a player gets   *)
(* from the outermost one, and what happens to those inside.               *)
(*                                                                         *)
(* A tree of sources is a sequence of nodes in which the children of a     *)
(* node come before it and may be shared; the last node is the one that is *)
(* played.  Frames are pairs of a leaf and a number; a mix is a set of     *)
(* frames, and the empty set is the end of the audio.  Sources are driven  *)
(* by the player thread only, so an operation is one step.                 *)
(***************************************************************************)
EXTENDS Naturals, Sequences, FiniteSets, SequencesExt

CONSTANTS
    Trees,      \* the trees of sources that are tried
    MaxFrames   \* the longest leaf (bound)

VARIABLES
    tree,       \* the nodes: type, children and whether a leaf is Opus
    built,      \* what each has, as the constructors note it
    wanted,     \* the layers that the receivers want
    length,     \* how many frames each leaf has
    state,      \* the mutable state of each node
    heard,      \* history: audio reads that gave data
    sound,      \* history: what the last audio read gave
    frames,     \* history: what the last video read gave
    ended,      \* history: the lanes that have reported their end
    raised      \* history: a cleanup has raised

fixed == <<tree, built, length>>
sourceVars == <<fixed, wanted, state, heard, sound, frames, ended, raised>>

Nodes == DOMAIN tree
Root == Len(tree)
Is(n, types) == tree[n].type \in types
Kids(n) == SelectSeq(tree[n].kids, LAMBDA k : k # 0)

\* A discord.AudioSource, which is no MediaSource, and the sources of frames
Plain(n) == Is(n, {"plain"})
Leaf(n) == Is(n, {"plain", "pcm", "frames", "video"})
Simulcast(n) == Is(n, {"simulcast", "ffmpeg simulcast"})

\* The constructors
Source(type, kids, opus) == [type |-> type, kids |-> kids, opus |-> opus]
AudioSource(opus) == Source("plain", <<>>, opus)
PCMMediaSource == Source("pcm", <<>>, FALSE)
AudioFrameSource(opus) == Source("frames", <<>>, opus)
VideoFrameSource == Source("video", <<>>, FALSE)
AudioMediaSource(original) == Source("audio", <<original>>, FALSE)
CompositeMediaSource(audio, video) == Source("composite", <<audio, video>>, FALSE)
MultiMediaSource(sources) == Source("multi", sources, FALSE)
MediaVolumeTransformer(original) == Source("volume", <<original>>, FALSE)
SimulcastVideoSource(sources) == Source("simulcast", sources, FALSE)
FFmpegSimulcastVideoSource(sources) == Source("ffmpeg simulcast", sources, FALSE)

Fresh == [read |-> 0, closed |-> FALSE, cleanups |-> 0, late |-> FALSE,
          audio_ended |-> {}, video_ended |-> {}]

-----------------------------------------------------------------------------
(* What a source has when it is built                                      *)

HasAudio[n \in Nodes] ==
    CASE Is(n, {"plain", "pcm", "frames"}) -> TRUE
      [] Is(n, {"composite"}) -> tree[n].kids[1] # 0
      [] Is(n, {"audio", "multi", "volume"}) -> \E i \in DOMAIN tree[n].kids : HasAudio[tree[n].kids[i]]
      [] OTHER -> FALSE

HasVideo[n \in Nodes] ==
    CASE Is(n, {"video", "simulcast", "ffmpeg simulcast"}) -> TRUE
      [] Is(n, {"composite"}) -> tree[n].kids[2] # 0 /\ HasVideo[tree[n].kids[2]]
      [] Is(n, {"multi", "volume"}) -> \E i \in DOMAIN tree[n].kids : HasVideo[tree[n].kids[i]]
      [] OTHER -> FALSE

EncodesOpus[n \in Nodes] ==
    CASE Leaf(n) -> tree[n].opus
      [] Is(n, {"audio", "multi"}) -> \E i \in DOMAIN tree[n].kids : EncodesOpus[tree[n].kids[i]]
      [] Is(n, {"composite"}) -> tree[n].kids[1] # 0 /\ EncodesOpus[tree[n].kids[1]]
      [] OTHER -> FALSE

AudioKids(n) ==
    IF Is(n, {"composite"}) THEN SelectSeq(<<tree[n].kids[1]>>, LAMBDA k : k # 0)
    ELSE SelectSeq(tree[n].kids, LAMBDA k : built[k].audio)
VideoKids(n) ==
    IF Is(n, {"composite"}) THEN SelectSeq(<<tree[n].kids[2]>>, LAMBDA k : k # 0)
    ELSE SelectSeq(tree[n].kids, LAMBDA k : built[k].video)

\* The constructors raise unless
Constructible(n) ==
    CASE Is(n, {"volume"}) -> ~built[tree[n].kids[1]].opus
      [] Is(n, {"multi"}) -> built[n].opus => Len(AudioKids(n)) = 1
      [] Is(n, {"composite"}) -> Kids(n) # <<>>
      [] Simulcast(n) -> \A i \in DOMAIN tree[n].kids : built[tree[n].kids[i]].video
      [] OTHER -> TRUE

-----------------------------------------------------------------------------
(* is_finished and is_opus                                                 *)

RECURSIVE IsFinished(_, _)
\* _audio_source_done and _video_source_done of a child
AudioDone(st, n, k) == k \in st[n].audio_ended \/ (~Plain(k) /\ IsFinished(st, k))
VideoDone(st, n, k) == k \in st[n].video_ended \/ IsFinished(st, k)

IsFinished(st, n) ==
    CASE Leaf(n) -> st[n].closed
      [] Is(n, {"volume"}) \/ Simulcast(n) ->
            st[n].closed \/ \A i \in DOMAIN tree[n].kids : IsFinished(st, tree[n].kids[i])
      [] OTHER ->
            \/ st[n].closed
            \/ /\ \A i \in DOMAIN AudioKids(n) : AudioDone(st, n, AudioKids(n)[i])
               /\ \A i \in DOMAIN VideoKids(n) : VideoDone(st, n, VideoKids(n)[i])

RECURSIVE IsOpus(_, _)
IsOpus(st, n) ==
    CASE Leaf(n) -> tree[n].opus
      [] Is(n, {"audio"}) -> ~st[n].closed /\ IsOpus(st, tree[n].kids[1])
      [] Is(n, {"composite"}) ->
            ~st[n].closed /\ \E i \in DOMAIN AudioKids(n) :
                ~AudioDone(st, n, AudioKids(n)[i]) /\ IsOpus(st, AudioKids(n)[i])
      [] Is(n, {"multi"}) ->
            \E i \in DOMAIN AudioKids(n) :
                built[AudioKids(n)[i]].opus /\ ~AudioDone(st, n, AudioKids(n)[i])
      [] OTHER -> FALSE

-----------------------------------------------------------------------------
(* Reading audio                                                           *)

Given(st, n) == [st |-> [st EXCEPT ![n].read = @ + 1], data |-> {<<n, st[n].read + 1>>}]
Silent(st) == [st |-> st, data |-> {}]

\* The library's sources do not know that they have ended or were cleaned up
ReadPlain(st, n) ==
    IF st[n].read < length[n] /\ st[n].cleanups = 0 THEN Given(st, n)
    ELSE Silent([st EXCEPT ![n].closed = TRUE, ![n].late = @ \/ st[n].closed \/ st[n].cleanups > 0])

\* PCMMediaSource.read: the last frame is too short, is padded and closes the source
ReadPcm(st, n) ==
    IF st[n].closed THEN Silent(st)
    ELSE IF st[n].read = length[n] THEN Silent([st EXCEPT ![n].closed = TRUE])
    ELSE LET r == Given(st, n) IN [r EXCEPT !.st[n].closed = (r.st[n].read = length[n])]

\* AudioFrameSource.read: PCM is padded as before, Opus frames have any length
ReadFrame(st, n) ==
    IF ~tree[n].opus THEN ReadPcm(st, n)
    ELSE IF st[n].closed THEN Silent(st)
    ELSE IF st[n].read = length[n] THEN Silent([st EXCEPT ![n].closed = TRUE])
    ELSE Given(st, n)

RECURSIVE Read(_, _)
(* A mutation of ReadChild: it is not noted that a child has ended. *)
ReadChildAgain(st, n, k) == Read(st, k)

\* A child that gives nothing has ended
ReadChild(st, n, k) ==
    LET r == Read(st, k)
    IN  [r EXCEPT !.st[n].audio_ended = IF r.data = {} THEN @ \cup {k} ELSE @]

ActiveAudio(st, n) == SelectSeq(AudioKids(n), LAMBDA k : ~AudioDone(st, n, k))

RECURSIVE ReadAll(_, _, _)
\* MultiMediaSource.read of the sources that are active when it begins
ReadAll(st, n, kids) ==
    IF kids = <<>> THEN Silent(st)
    ELSE LET r == ReadChild(st, n, Head(kids))
             rest == ReadAll(r.st, n, Tail(kids))
         IN  [rest EXCEPT !.data = @ \cup r.data]

\* AudioMediaSource.read
ReadWrapped(st, n) ==
    IF st[n].closed \/ tree[n].kids[1] \in st[n].audio_ended THEN Silent(st)
    ELSE ReadChild(st, n, tree[n].kids[1])

\* CompositeMediaSource.read
ReadComposite(st, n) ==
    IF st[n].closed \/ ActiveAudio(st, n) = <<>> THEN Silent(st)
    ELSE ReadChild(st, n, AudioKids(n)[1])

\* MediaVolumeTransformer.read
ReadScaled(st, n) == IF st[n].closed THEN Silent(st) ELSE Read(st, tree[n].kids[1])

Read(st, n) ==
    CASE Plain(n) -> ReadPlain(st, n)
      [] Is(n, {"pcm"}) -> ReadPcm(st, n)
      [] Is(n, {"frames"}) -> ReadFrame(st, n)
      [] Is(n, {"audio"}) -> ReadWrapped(st, n)
      [] Is(n, {"composite"}) -> ReadComposite(st, n)
      [] Is(n, {"multi"}) -> ReadAll(st, n, ActiveAudio(st, n))
      [] Is(n, {"volume"}) -> ReadScaled(st, n)
      [] OTHER -> Silent(st)

-----------------------------------------------------------------------------
(* Reading video                                                           *)

\* VideoFrameSource.read_video and EncodedVideoSource.read_video
ReadVideo(st, n) ==
    IF st[n].closed THEN Silent(st)
    ELSE IF st[n].read = length[n] THEN Silent([st EXCEPT ![n].closed = TRUE])
    ELSE Given(st, n)

\* A video read gives frames, nothing yet (no frames) or the end
Shown(st, data, end) == [st |-> st, data |-> data, end |-> end]
NoVideo(st) == Shown(st, {}, TRUE)

RECURSIVE ReadLayers(_, _)
\* Those of the layers that have not ended
ReadLayers(st, layers) ==
    IF layers = <<>> THEN Silent(st)
    ELSE LET r == IF IsFinished(st, Head(layers)) THEN Silent(st) ELSE ReadVideo(st, Head(layers))
             rest == ReadLayers(r.st, Tail(layers))
         IN  [rest EXCEPT !.data = @ \cup r.data]

Layers(n, streams) == SelectSeq(tree[n].kids, LAMBDA k : \E i \in streams : tree[n].kids[i] = k)

ReadSimulcast(st, n, streams) ==
    LET r == ReadLayers(st, Layers(n, streams))
    IN  Shown(r.st, r.data, r.data = {} /\ IsFinished(r.st, n))

(* A mutation of DrainInactive: layers that nobody receives are not read. *)
DrainInactiveNot(st, n, streams) == st

\* _drain_inactive_streams
DrainInactive(st, n, streams) == ReadLayers(st, Layers(n, DOMAIN tree[n].kids \ streams)).st

RECURSIVE ReadVideoStreams(_, _, _)
RECURSIVE ReadFirst(_, _, _, _)
\* MultiMediaSource: the first of its sources that has frames, or none yet
ReadFirst(st, n, kids, streams) ==
    IF kids = <<>> THEN NoVideo(st)
    ELSE LET k == Head(kids)
             r == ReadVideoStreams(st, k, streams)
             over == IF IsFinished(r.st, k) THEN {k} ELSE {}
         IN  IF VideoDone(st, n, k) THEN ReadFirst(st, n, Tail(kids), streams)
             ELSE IF ~r.end THEN r
             ELSE ReadFirst([r.st EXCEPT ![n].video_ended = @ \cup over], n, Tail(kids), streams)

\* MediaSource.read_video_streams, for sources of one stream
ReadPrimary(st, n) == LET r == ReadVideo(st, n) IN Shown(r.st, r.data, r.data = {})

\* FFmpegSimulcastVideoSource.read_video_streams
ReadDraining(st, n, streams) ==
    LET r == ReadSimulcast(st, n, streams) IN [r EXCEPT !.st = DrainInactive(r.st, n, streams)]

\* _active_video_source of the sources that delegate their video
ActiveVideo(st, n) ==
    IF st[n].closed THEN <<>> ELSE SelectSeq(VideoKids(n), LAMBDA k : Is(n, {"volume"}) \/ ~IsFinished(st, k))

ReadVideoStreams(st, n, streams) ==
    CASE Is(n, {"video"}) -> ReadPrimary(st, n)
      [] Is(n, {"multi"}) -> ReadFirst(st, n, VideoKids(n), streams)
      [] Is(n, {"composite", "volume"}) /\ ActiveVideo(st, n) # <<>> ->
            ReadVideoStreams(st, ActiveVideo(st, n)[1], streams)
      [] Is(n, {"simulcast"}) /\ ~st[n].closed -> ReadSimulcast(st, n, streams)
      [] Is(n, {"ffmpeg simulcast"}) /\ ~st[n].closed -> ReadDraining(st, n, streams)
      [] OTHER -> NoVideo(st)

-----------------------------------------------------------------------------
(* Cleaning up                                                             *)

(* A mutation of Unique: a child that is listed twice stays listed twice. *)
UniqueNot(kids) == kids

RECURSIVE Unique(_)
\* _unique_sources
Unique(kids) ==
    IF kids = <<>> THEN <<>>
    ELSE <<Head(kids)>> \o Unique(SelectSeq(Tail(kids), LAMBDA k : k # Head(kids)))

RECURSIVE Cleanup(_, _, _)
RECURSIVE CleanupAll(_, _, _)
\* A child that raises leaves those behind it as they are
CleanupAll(st, kids, bad) ==
    IF kids = <<>> THEN [st |-> st, raised |-> FALSE]
    ELSE LET r == Cleanup(st, Head(kids), bad)
         IN  IF r.raised THEN r ELSE CleanupAll(r.st, Tail(kids), bad)

\* The plain source bad raises
Cleanup(st, n, bad) ==
    LET closed == [st EXCEPT ![n].closed = TRUE,
                             ![n].audio_ended = @ \cup ToSet(AudioKids(n)),
                             ![n].video_ended = @ \cup ToSet(VideoKids(n))]
    IN  CASE Plain(n) -> [st |-> [st EXCEPT ![n].cleanups = @ + 1], raised |-> n = bad]
          [] Leaf(n) -> [st |-> [st EXCEPT ![n].closed = TRUE], raised |-> FALSE]
          [] OTHER -> IF st[n].closed THEN [st |-> st, raised |-> FALSE]
                      ELSE CleanupAll(closed, Unique(Kids(n)), bad)

-----------------------------------------------------------------------------
SourcesInit ==
    /\ tree \in Trees
    /\ built = [n \in Nodes |-> [audio |-> HasAudio[n], video |-> HasVideo[n], opus |-> EncodesOpus[n]]]
    /\ \A n \in Nodes : Constructible(n)
    /\ length \in [Nodes -> 0 .. MaxFrames] /\ \A n \in Nodes : Leaf(n) \/ length[n] = 0
    /\ state = [n \in Nodes |-> Fresh] /\ wanted = {1}
    /\ heard = 0 /\ sound = {} /\ frames = {} /\ ended = {} /\ raised = FALSE

PlayAudio ==
    LET r == Read(state, Root)
    IN  /\ state' = r.st /\ sound' = r.data
        /\ heard' = IF r.data = {} THEN heard ELSE heard + 1
        /\ ended' = IF r.data = {} THEN ended \cup {"audio"} ELSE ended
        /\ UNCHANGED <<fixed, wanted, frames, raised>>

PlayVideo ==
    LET r == ReadVideoStreams(state, Root, wanted)
    IN  /\ state' = r.st /\ frames' = r.data
        /\ ended' = IF r.end THEN ended \cup {"video"} ELSE ended
        /\ sound' = {}
        /\ UNCHANGED <<fixed, wanted, heard, raised>>

CleanupRoot(bad) ==
    LET r == Cleanup(state, Root, bad)
    IN  /\ state' = r.st /\ raised' = (raised \/ r.raised)
        /\ sound' = {} /\ frames' = {}
        /\ UNCHANGED <<fixed, wanted, heard, ended>>

\* The receivers want one of two layers, or both
Want(layers) ==
    /\ \E n \in Nodes : Simulcast(n)
    /\ wanted' = layers
    /\ UNCHANGED <<fixed, state, heard, sound, frames, ended, raised>>

SourcesNext ==
    \/ PlayAudio \/ PlayVideo
    \/ \E layers \in {{1}, {2}, {1, 2}} : Want(layers)
    \/ \E bad \in 0 .. 1 : CleanupRoot(bad)

\* The player reads again after it has waited
SourcesFairness == WF_sourceVars(PlayVideo)

-----------------------------------------------------------------------------
Cleaned == state[Root].closed /\ ~Leaf(Root)

\* The sources that hold a source; one is shared that has two of them, or that
\* one of them lists twice
Parents(n) == {m \in Nodes : n \in ToSet(Kids(m))}
Shared == \E n \in Nodes : Cardinality(Parents(n)) > 1 \/ Cardinality(ToSet(Kids(n))) # Len(Kids(n))

\* The leaves that sound, or show, when the outermost source is played
RECURSIVE Within(_, _)
Within(n, lane) ==
    LET kids == IF lane = "audio" THEN AudioKids(n) ELSE VideoKids(n)
    IN  IF Leaf(n) THEN {n} ELSE UNION {Within(kids[i], lane) : i \in DOMAIN kids}

\* Every read of a mix takes one frame of each source that still has one: a
\* source that ends does not shift the others, and all of them are heard.
MixedInStep ==
    sound # {} /\ ~Shared =>
        sound = {<<n, heard>> : n \in {l \in Within(Root, "audio") : length[l] >= heard}}

\* A player asks is_opus after it has read a packet: the answer is about that
\* packet, also when it was the last one, and Opus is never mixed.
EncodingIsKnown ==
    \A f \in sound : /\ tree[f[1]].opus = IsOpus(state, Root)
                     /\ tree[f[1]].opus => Cardinality(sound) = 1

\* A lane reports its end, and the source that it is finished, only when every
\* frame has been read, unless it was cleaned up before.
NothingLeftUnread ==
    ~Cleaned =>
        /\ \A lane \in ended : \A n \in Within(Root, lane) : state[n].read = length[n]
        /\ IsFinished(state, Root) =>
              \A n \in Within(Root, "audio") \cup Within(Root, "video") : state[n].read = length[n]

\* A library source is not read again after it has ended, nor once it was cleaned
\* up (an FFmpeg source has then closed its pipe), unless it is shared.
NoLateReads == ~Shared => \A n \in Nodes : ~state[n].late

\* Cleaning up reaches every source, however sources are nested and shared and
\* however often cleanup is called, if no cleanup raises.  A library source, which
\* does not know that it was cleaned up, is cleaned up once by each source that
\* holds it, however often that one lists it; never more, also if one raises.
CleanedByEachParent ==
    \A n \in Nodes :
        /\ Plain(n) => state[n].cleanups <= Cardinality(Parents(n))
        /\ Cleaned /\ ~raised => IF Plain(n) THEN state[n].cleanups = Cardinality(Parents(n))
                                 ELSE state[n].closed

\* _unique_sources goes through the children of one source: it is not true that a
\* library source which two sources hold is cleaned up once.
EachCleanedOnce == \A n \in Nodes : Plain(n) => state[n].cleanups <= 1

\* The layers of an FFmpeg simulcast source stay in step, so that a layer which
\* is wanted again goes on at the frame of the others.
LayersInStep ==
    \A n \in Nodes : Is(n, {"ffmpeg simulcast"}) /\ ~Cleaned =>
        \A i, j \in DOMAIN tree[n].kids :
            LET a == tree[n].kids[i]
                b == tree[n].kids[j]
            IN  state[a].read < state[b].read => state[a].read = length[a]

\* The sources and layers inside a source stay in step, are read to their ends
\* and not beyond, and what is_opus says is true of what was read.
LanesInStep == MixedInStep /\ EncodingIsKnown /\ NothingLeftUnread /\ NoLateReads /\ LayersInStep

\* Video that is read again and again ends, whichever layers are wanted.  This
\* does not hold for SimulcastVideoSource, which waits for layers it never reads.
VideoEnds ==
    (\A n \in Nodes : ~Is(n, {"simulcast"})) => <>("video" \in ended)

\* read_video_streams, "None when the video lane is finished, or an empty
\* mapping when no frame is ready yet": also with SimulcastVideoSource.
EveryVideoEnds == <>("video" \in ended)
=============================================================================

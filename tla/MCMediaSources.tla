--------------------------- MODULE MCMediaSources ---------------------------
(***************************************************************************)
(* The media sources for model checking.  Composed sources, the readers of *)
(* encoded streams and an FFmpeg source share no state, so each behaviour  *)
(* runs one of them, named by part, and leaves the others idle.            *)
(***************************************************************************)
EXTENDS MediaSources, FrameReader, FFmpegSource

VARIABLE part

all == <<part, sourceVars, annexVars, ivfVars, ffmpegVars>>

P == AudioSource(FALSE)
V == VideoFrameSource

SomeTrees == {
    <<P, V, CompositeMediaSource(1, 2)>>,
    <<P, PCMMediaSource, V, CompositeMediaSource(2, 3), MultiMediaSource(<<1, 4>>)>>,
    <<P, AudioMediaSource(1), V, V, CompositeMediaSource(2, 3), MultiMediaSource(<<5, 4>>)>>,
    <<P, AudioMediaSource(1), MediaVolumeTransformer(2)>>,
    <<AudioFrameSource(FALSE), V, CompositeMediaSource(1, 2), MediaVolumeTransformer(3)>>,
    <<AudioFrameSource(TRUE), V, MultiMediaSource(<<1, 2>>)>>,
    <<AudioSource(TRUE), V, V, FFmpegSimulcastVideoSource(<<2, 3>>), CompositeMediaSource(1, 4)>>,
    <<AudioSource(TRUE), PCMMediaSource, MultiMediaSource(<<1, 2>>)>>,
    <<P, P, MultiMediaSource(<<1, 2, 1>>)>>,
    <<P, V, CompositeMediaSource(1, 2), MultiMediaSource(<<1, 3>>)>>,
    <<P, AudioMediaSource(1), MultiMediaSource(<<2, 1, 2>>), CompositeMediaSource(3, 3)>>,
    <<P, V, CompositeMediaSource(1, 2), CompositeMediaSource(3, 3)>>,
    <<V, V, SimulcastVideoSource(<<1, 2>>)>> }

\* Up to three NAL units, delimiters or slices with short or long start codes,
\* after a byte that belongs to none
Nal(zeros, type) == [i \in 1 .. zeros |-> 0] \o <<1, type, 7>>
Nals == {Nal(zeros, type) : zeros \in {2, 3}, type \in {9, 5}}
SomeInputs == {FlattenSeq(<<g>> \o n) : g \in {<<>>, <<5>>}, n \in BoundedSeq(Nals, 3)}

IdleSources ==
    /\ tree = <<V>> /\ built = <<[audio |-> FALSE, video |-> TRUE, opus |-> FALSE]>>
    /\ length = <<0>> /\ state = <<[Fresh EXCEPT !.closed = TRUE]>> /\ wanted = {1}
    /\ heard = 0 /\ sound = {} /\ frames = {} /\ ended = {"video"} /\ raised = FALSE
IdleAnnex ==
    /\ input = <<>> /\ header = 1 /\ unread = <<>> /\ buffer = <<>> /\ search_pos = 0
    /\ auds = <<>> /\ extracting = TRUE /\ out = <<>> /\ over = TRUE /\ split = FALSE
IdleIvf ==
    /\ sizes = <<>> /\ available = 0 /\ taken = 0 /\ got = 0 /\ reading = "end" /\ given = <<>>

Init ==
    /\ part \in {"tree", "annexb", "ivf", "ffmpeg"}
    /\ IF part = "tree" THEN SourcesInit ELSE IdleSources
    /\ IF part = "annexb" THEN AnnexInit ELSE IdleAnnex
    /\ IF part = "ivf" THEN IvfInit ELSE IdleIvf
    /\ FFmpegInit /\ (part # "ffmpeg" => mode = "none" /\ siblings = "none")

Next ==
    /\ UNCHANGED part
    /\ \/ part = "tree" /\ SourcesNext /\ UNCHANGED <<annexVars, ivfVars, ffmpegVars>>
       \/ part = "annexb" /\ AnnexNext /\ UNCHANGED <<sourceVars, ivfVars, ffmpegVars>>
       \/ part = "ivf" /\ IvfNext /\ UNCHANGED <<sourceVars, annexVars, ffmpegVars>>
       \/ part = "ffmpeg" /\ FFmpegNext /\ UNCHANGED <<sourceVars, annexVars, ivfVars>>

Spec == Init /\ [][Next]_all /\ SourcesFairness /\ FFmpegFairness
=============================================================================

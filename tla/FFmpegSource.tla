---------------------------- MODULE FFmpegSource ----------------------------
(***************************************************************************)
(* FFmpegVideoSource (media.py): an FFmpeg process, the thread that writes *)
(* a stream or captured desktop frames to its stdin, the player thread     *)
(* that reads frames from its stdout, and a cleanup by another thread.     *)
(*                                                                         *)
(* A chunk of input becomes one frame.  Both pipes hold a limited number,  *)
(* so that a writer, or FFmpeg, can be blocked.  Reading from the source   *)
(* returns; closing a pipe waits for a write or read that is going on.     *)
(***************************************************************************)
EXTENDS Naturals

CONSTANTS
    Chunks,        \* chunks that the source has (bound)
    PipeSize       \* chunks, or frames, that a pipe holds

ASSUME FFmpegAssumption == Chunks \in Nat /\ PipeSize \in Nat \ {0}

VARIABLES
    mode,          \* pipe_source: "none", a "stream", or the "desktop"
    siblings,      \* sources built before this one, by the same constructor
    constructed,   \* how far the constructor is
    process,       \* "none", "running", "stubborn" (ignores terminate), "exited"
    held,          \* _process is not MISSING
    stdin, stdout, \* "none", "open", "closed"
    inside,        \* chunks in the stdin pipe
    ready,         \* frames in the stdout pipe
    left,          \* chunks left in the source
    source_open,
    pipe_error,    \* _pipe_error is set
    closed,        \* _closed
    writer,        \* where the writer thread is
    reader,        \* where the player thread is in read_video
    result,        \* what read_video returned last
    cleaner,       \* where cleanup is
    shown,         \* history: frames returned
    failed,        \* history: the source has failed
    crashed        \* history: FFmpeg has crashed

procVars == <<process, inside, ready, crashed>>
pipeVars == <<stdin, stdout, left, source_open, pipe_error, failed>>
ffmpegVars == <<mode, siblings, constructed, procVars, held, pipeVars, closed, writer, reader, result,
                cleaner, shown>>

FFmpegInit ==
    /\ mode \in {"none", "stream", "desktop"} /\ siblings \in {"none", "open"}
    /\ constructed = "new" /\ process = "none" /\ held = FALSE /\ stdin = "none" /\ stdout = "none"
    /\ inside = 0 /\ ready = 0 /\ left = Chunks /\ source_open = (mode # "none")
    /\ pipe_error = FALSE /\ closed = FALSE /\ writer = "none" /\ reader = "idle"
    /\ result = "none" /\ cleaner = "idle" /\ shown = 0 /\ failed = FALSE /\ crashed = FALSE

Alive == process \in {"running", "stubborn"}

-----------------------------------------------------------------------------
(* The constructor                                                         *)

\* The process and then the thread are started; when there is no process the
\* constructor raises as it is
Spawn ==
    /\ constructed = "new"
    /\ \/ /\ constructed' = "header" /\ process' \in {"running", "stubborn"} /\ held' = TRUE
          /\ stdout' = "open"
          /\ stdin' = IF mode = "none" THEN "none" ELSE "open"
          /\ writer' = IF mode = "none" THEN "none" ELSE "check"
       \/ constructed' = "raising" /\ UNCHANGED <<process, held, stdin, stdout, writer>>
    /\ UNCHANGED <<mode, siblings, inside, ready, crashed, left, source_open, pipe_error, failed,
                   closed, reader, result, cleaner, shown>>

\* Annex B needs no header; that of IVF comes with the first frame, or never
ReadHeader ==
    /\ constructed = "header" /\ cleaner = "idle"
    /\ \/ constructed' = "ready" /\ UNCHANGED cleaner
       \/ ~Alive /\ ready = 0 /\ cleaner' = "claimed" /\ UNCHANGED constructed
    /\ UNCHANGED <<mode, siblings, procVars, held, pipeVars, closed, writer, reader, result, shown>>

HeaderFailed ==
    /\ constructed = "header" /\ cleaner = "done" /\ constructed' = "raising"
    /\ UNCHANGED <<mode, siblings, procVars, held, pipeVars, closed, writer, reader, result,
                   cleaner, shown>>

\* Whoever builds several sources cleans up those that it has
BuildFailed ==
    /\ constructed = "raising" /\ constructed' = "raised"
    /\ siblings' = IF siblings = "open" THEN "cleaned" ELSE siblings
    /\ UNCHANGED <<mode, procVars, held, pipeVars, closed, writer, reader, result, cleaner, shown>>

-----------------------------------------------------------------------------
(* FFmpeg, external                                                        *)

Encode ==
    /\ Alive /\ ready < PipeSize
    /\ IF mode = "none" THEN left > 0 /\ left' = left - 1 /\ UNCHANGED inside
       ELSE inside > 0 /\ inside' = inside - 1 /\ UNCHANGED left
    /\ ready' = ready + 1
    /\ UNCHANGED <<mode, siblings, constructed, process, crashed, held, stdin, stdout, source_open,
                   pipe_error, failed, closed, writer, reader, result, cleaner, shown>>

\* It exits at the end of its input; or it crashes
Exit ==
    /\ Alive
    /\ \/ inside = 0 /\ UNCHANGED crashed
          /\ IF mode = "none" THEN left = 0 ELSE stdin = "closed"
       \/ ~crashed /\ crashed' = TRUE
    /\ process' = "exited"
    /\ UNCHANGED <<mode, siblings, constructed, inside, ready, held, pipeVars, closed, writer, reader,
                   result, cleaner, shown>>

-----------------------------------------------------------------------------
(* The writer thread: _pipe_writer, and in one write _native_pipe_writer   *)

calm == <<mode, siblings, constructed, process, ready, crashed, held, stdout, closed, reader, result,
          cleaner, shown>>

WriterCheck ==
    /\ writer = "check"
    /\ writer' = IF held /\ stdin = "open" /\ Alive THEN "read" ELSE "done"
    /\ UNCHANGED <<calm, inside, stdin, left, source_open, pipe_error, failed>>

\* A chunk, the end, or an error: of the source, or because it is closed
WriterRead ==
    /\ writer = "read"
    /\ \/ source_open /\ left > 0 /\ left' = left - 1 /\ writer' = "write" /\ UNCHANGED <<pipe_error, failed>>
       \/ source_open /\ left = 0 /\ writer' = "close" /\ UNCHANGED <<left, pipe_error, failed>>
       \/ /\ pipe_error' = TRUE /\ failed' = (failed \/ source_open)
          /\ writer' = "close" /\ UNCHANGED left
    /\ UNCHANGED <<calm, inside, stdin, source_open>>

\* A write ends when there is room, or fails when the pipe or FFmpeg is gone
WriterWrite ==
    /\ writer = "write"
    /\ IF stdin = "open" /\ Alive
       THEN inside < PipeSize /\ inside' = inside + 1 /\ writer' = "check"
       ELSE writer' = "done" /\ UNCHANGED inside
    /\ UNCHANGED <<calm, stdin, left, source_open, pipe_error, failed>>

WriterClose ==
    /\ writer = "close" /\ stdin' = "closed" /\ writer' = "done"
    /\ UNCHANGED <<calm, inside, left, source_open, pipe_error, failed>>

WriterStep == WriterCheck \/ WriterRead \/ WriterWrite \/ WriterClose

-----------------------------------------------------------------------------
(* The player thread: read_video                                           *)

still == <<mode, siblings, constructed, process, inside, crashed, held, pipeVars, writer, cleaner>>

ReadVideoFrame ==
    /\ constructed = "ready" /\ reader = "idle" /\ result \notin {"end", "error"}
    /\ \/ closed /\ result' = "end" /\ UNCHANGED <<closed, reader>>
       \/ ~closed /\ pipe_error /\ result' = "error" /\ closed' = TRUE /\ UNCHANGED reader
       \/ ~closed /\ ~pipe_error /\ reader' = "reading" /\ UNCHANGED <<closed, result>>
    /\ UNCHANGED <<still, ready, shown>>

\* read_frame: a frame, or nothing when FFmpeg is gone
FrameRead ==
    /\ reader = "reading"
    /\ \/ ready > 0 /\ ready' = ready - 1 /\ reader' = "frame"
       \/ ready = 0 /\ (~Alive \/ stdout = "closed") /\ reader' = "nothing" /\ UNCHANGED ready
    /\ UNCHANGED <<still, closed, result, shown>>

(* A mutation of Returned: an error is not looked for after the read. *)
ReturnedUnchecked ==
    /\ reader \in {"frame", "nothing"} /\ reader' = "idle"
    /\ \/ reader = "nothing" /\ result' = "end" /\ closed' = TRUE /\ UNCHANGED shown
       \/ reader = "frame" /\ result' = "frame" /\ shown' = shown + 1 /\ UNCHANGED closed
    /\ UNCHANGED <<still, ready>>

Returned ==
    /\ reader \in {"frame", "nothing"} /\ reader' = "idle"
    /\ \/ pipe_error /\ result' = "error" /\ closed' = TRUE /\ UNCHANGED shown
       \/ ~pipe_error /\ reader = "nothing" /\ result' = "end" /\ closed' = TRUE /\ UNCHANGED shown
       \/ ~pipe_error /\ reader = "frame" /\ result' = "frame" /\ shown' = shown + 1 /\ UNCHANGED closed
    /\ UNCHANGED <<still, ready>>

ReaderStep == ReadVideoFrame \/ FrameRead \/ Returned

-----------------------------------------------------------------------------
(* cleanup                                                                 *)

others == <<mode, siblings, constructed, inside, ready, crashed, left, pipe_error, failed, writer, reader,
          result, shown>>

BeginCleanup ==
    /\ constructed = "ready" /\ cleaner = "idle" /\ cleaner' = "claimed"
    /\ UNCHANGED <<others, process, held, stdin, stdout, source_open, closed>>

\* Only a stream is closed at once; the desktop keeps its source until the end
Claim ==
    /\ cleaner = "claimed" /\ cleaner' = "terminate"
    /\ held' = FALSE /\ closed' = TRUE
    /\ source_open' = (source_open /\ mode = "desktop")
    /\ stdin' = IF mode = "desktop" THEN "closed" ELSE stdin
    /\ UNCHANGED <<others, process, stdout>>

Terminate ==
    /\ cleaner = "terminate" /\ cleaner' = "wait"
    /\ process' = IF process = "running" THEN "exited" ELSE process
    /\ UNCHANGED <<others, held, stdin, stdout, source_open, closed>>

(* A mutation of WaitOrKill: the process is waited for without a timeout. *)
WaitOrKillForever ==
    /\ cleaner = "wait" /\ ~Alive /\ cleaner' = "pipes"
    /\ UNCHANGED <<others, process, held, stdin, stdout, source_open, closed>>

\* _wait_or_kill_process
WaitOrKill ==
    /\ cleaner = "wait" /\ cleaner' = "pipes"
    /\ process' = "exited"
    /\ UNCHANGED <<others, held, stdin, stdout, source_open, closed>>

\* Closing a pipe waits for whoever is in it
ClosePipes ==
    /\ cleaner = "pipes" /\ reader # "reading" /\ writer # "write"
    /\ stdin' = IF stdin = "open" THEN "closed" ELSE stdin
    /\ stdout' = "closed" /\ cleaner' = "join"
    /\ UNCHANGED <<others, process, held, source_open, closed>>

\* _join_thread gives the writer so much time; then the desktop is closed
JoinWriter ==
    /\ cleaner = "join" /\ cleaner' = "done"
    /\ source_open' = FALSE
    /\ UNCHANGED <<others, process, held, stdin, stdout, closed>>

CleanupStep == Claim \/ Terminate \/ WaitOrKill \/ ClosePipes \/ JoinWriter

BuildStep == Spawn \/ ReadHeader \/ HeaderFailed \/ BuildFailed

FFmpegNext ==
    \/ BuildStep \/ Encode \/ Exit \/ WriterStep \/ ReaderStep \/ BeginCleanup \/ CleanupStep

FFmpegSpec == FFmpegInit /\ [][FFmpegNext]_ffmpegVars

\* Threads run, and a player that is in read_video goes on; FFmpeg may hang
FFmpegFairness ==
    /\ WF_ffmpegVars(WriterStep) /\ WF_ffmpegVars(CleanupStep)
    /\ WF_ffmpegVars(FrameRead) /\ WF_ffmpegVars(Returned)

-----------------------------------------------------------------------------
\* After cleanup, and after a constructor that raised, no process runs, no pipe is
\* open and no other source of the same constructor is left; the source that
\* was piped is closed, unless there never was a process.
NothingLeftRunning ==
    cleaner = "done" \/ constructed = "raised" =>
        /\ ~Alive /\ stdin # "open" /\ stdout # "open"
        /\ cleaner = "done" => ~source_open
        /\ constructed = "raised" => siblings # "open"

\* The end of the video is reported only after every frame, and never for a source
\* that failed, unless FFmpeg crashed or cleanup began: the error is noted before
\* FFmpeg gets the end of its input, and is looked for after FFmpeg has ended.
EndIsHonest ==
    result = "end" /\ cleaner = "idle" => crashed \/ (~failed /\ shown = Chunks)

\* An error of the pipe is reported only if the source failed, or was closed by a
\* cleanup during the read.
ErrorIsReal == result = "error" => failed \/ cleaner # "idle"

\* An FFmpeg source reports ends and errors as they are, and leaves nothing
\* running.
FFmpegSound == NothingLeftRunning /\ EndIsHonest /\ ErrorIsReal

\* A cleanup returns and the writer thread ends, whoever is blocked where, also
\* when FFmpeg ignores terminate and when the player is in the middle of a read.
CleanupReturns ==
    (cleaner # "idle") ~> (cleaner = "done" /\ writer \in {"none", "done"})
=============================================================================

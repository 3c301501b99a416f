---------------------------- MODULE MuxRecording ----------------------------
(***************************************************************************)
(* FFmpegMuxSink (media.py): audio and video are written to temporary      *)
(* files as they arrive, each at its place in time, and cleanup muxes them *)
(* into the destination with FFmpeg, which may fail or time out.  The      *)
(* dispatcher writes; the event loop or the application cleans up.  The    *)
(* destination is a path, and the temporary files are not to be kept.      *)
(*                                                                         *)
(* Time is in units of 50 ms.  An audio packet has an RTP timestamp and    *)
(* perhaps an RTCP time; a video frame may or may not start a stream.      *)
(***************************************************************************)
EXTENDS Integers, FiniteSets

CONSTANTS
    Threshold,     \* _AUDIO_TIMELINE_RESET_THRESHOLD in units
    MaxClock,      \* bound on the clock
    MaxStamp,      \* audio timestamps of 0 .. MaxStamp (bound)
    MaxSkew,       \* RTCP clock against the local one
    MaxPieces      \* packets and frames written (bound)

ASSUME MuxAssumption == {Threshold, MaxClock, MaxStamp, MaxSkew, MaxPieces} \subseteq Nat

VARIABLES
    clock,         \* received_at of the next packet
    start_at,      \* _recording_start_received_at, as a set
    rtcp_offset,   \* _recording_rtcp_time_offset, as a set
    audio_base,    \* _audio_base_timestamp, as a set
    audio_start,   \* _audio_start_offset_samples, as a set
    latest,        \* history: the highest audio timestamp so far
    ordered,       \* history: audio has arrived in the order of its timestamps
    placed,        \* history: timestamp, place and packet offset of audio written
    failed_seek,   \* history: audio that fell before the start of the file
    audio_packets, video_packets,
    video_span,    \* _video_first_offset and _video_last_offset, as a set of pairs
    h26x_started,  \* of the EncodedVideoSink
    head,          \* history: kind of the first frame in the video file
    files,         \* temporary files on disk
    reserved,      \* the temporary output is on disk
    inputs_open,   \* the audio file or the video sink is open
    mux_write,     \* dispatcher: the packet it is writing, or "idle"
    mux_closed,    \* _closed
    mux_cleanup,   \* where cleanup is
    overlapped,    \* history: a write that began before cleanup ended after it began
    bad_options,   \* history: the options could not be split into arguments
    undeleted,     \* history: what could not be unlinked
    target         \* the destination: what is at its path

timeVars == <<clock, start_at, rtcp_offset, audio_base, audio_start, latest, ordered, placed, failed_seek>>
videoVars == <<video_span, h26x_started, head>>
countVars == <<audio_packets, video_packets>>
fileVars == <<files, reserved, inputs_open, target>>
doneVars == <<mux_closed, mux_cleanup>>
faultVars == <<bad_options, undeleted>>
muxVars == <<timeVars, videoVars, countVars, fileVars, doneVars, faultVars, mux_write, overlapped>>

The(s) == CHOOSE x \in s : TRUE
Larger(a, b) == IF a > b THEN a ELSE b
Distance(a, b) == IF a > b THEN a - b ELSE b - a

MuxInit ==
    /\ clock = 0 /\ start_at = {} /\ rtcp_offset = {} /\ audio_base = {} /\ audio_start = {}
    /\ latest = 0 /\ ordered = TRUE /\ placed = {} /\ failed_seek = FALSE
    /\ audio_packets = 0 /\ video_packets = 0 /\ video_span = {} /\ h26x_started = FALSE
    /\ head = "none" /\ files = {} /\ reserved = FALSE /\ inputs_open = FALSE
    /\ mux_write = "idle" /\ mux_closed = FALSE /\ mux_cleanup = "no" /\ overlapped = FALSE
    /\ target = "before" /\ bad_options = FALSE /\ undeleted = {}

-----------------------------------------------------------------------------
\* _packet_time_offset: the offset of a packet, and what it leaves noted.  The
\* RTCP clock is tied to the local one by the first packet that has it.
ReceivedOffset == IF start_at = {} THEN 0 ELSE clock - The(start_at)
TiesRtcp(rtcp) == start_at # {} /\ rtcp # {} /\ rtcp_offset = {}
PacketTimeOffset(rtcp) ==
    IF start_at = {} \/ rtcp = {} \/ TiesRtcp(rtcp) THEN ReceivedOffset
    ELSE Larger(0, The(rtcp) + The(rtcp_offset))
NoteOffset(rtcp) ==
    /\ start_at' = IF start_at = {} THEN {clock} ELSE start_at
    /\ rtcp_offset' = IF TiesRtcp(rtcp) THEN {ReceivedOffset - The(rtcp)} ELSE rtcp_offset

\* Where the timeline of the audio begins: moved when a packet is too far off it
AudioStart(delta, offset) ==
    IF audio_start = {} THEN offset
    ELSE IF Distance(offset, The(audio_start) + delta) > Threshold THEN offset - delta
    ELSE The(audio_start)

\* write up to the check of _closed, on the dispatcher
BeginWrite(kind) ==
    /\ mux_write = "idle" /\ ~mux_closed
    /\ audio_packets + video_packets < MaxPieces
    /\ mux_write' = kind
    /\ UNCHANGED <<timeVars, videoVars, countVars, fileVars, doneVars, faultVars, overlapped>>

\* The rest of a write, and whether cleanup came in between
EndWrite ==
    /\ mux_write' = "idle"
    /\ overlapped' = (overlapped \/ mux_closed)

\* _write_audio_packet; a packet that does not decode only leaves a file behind
WriteAudio(ts, rtcp) ==
    LET delta == IF audio_base = {} THEN 0 ELSE ts - The(audio_base)
        offset == PacketTimeOffset(rtcp)
        start == AudioStart(delta, offset)
    IN  /\ mux_write = "audio"
        /\ EndWrite
        /\ files' = IF inputs_open /\ "audio" \in files THEN files ELSE files \cup {"audio"}
        /\ inputs_open' = TRUE
        /\ audio_base' = IF audio_base = {} THEN {ts} ELSE audio_base
        /\ IF delta < 0
           THEN UNCHANGED <<start_at, rtcp_offset, audio_start, latest, ordered, placed,
                            failed_seek, audio_packets>>
           ELSE /\ NoteOffset(rtcp)
                /\ audio_start' = {start}
                /\ latest' = Larger(latest, ts) /\ ordered' = (ordered /\ ts >= latest)
                \* seek to before the start of the file raises ValueError
                /\ failed_seek' = (failed_seek \/ start + delta < 0)
                /\ placed' = {<<ts, start + delta, offset>>}
                /\ audio_packets' = IF start + delta < 0 THEN audio_packets ELSE audio_packets + 1
        /\ UNCHANGED <<clock, videoVars, video_packets, doneVars, faultVars, reserved, target>>

AudioEmpty ==
    /\ mux_write = "audio"
    /\ EndWrite
    /\ files' = files \cup {"audio"} /\ inputs_open' = TRUE
    /\ UNCHANGED <<timeVars, videoVars, countVars, doneVars, faultVars, reserved, target>>

\* _should_write_h26x
StartsStream(kind) == h26x_started \/ kind = "keyframe"

EnsureVideoSink == files' = files \cup {"video"} /\ inputs_open' = TRUE

\* _write_video_packet
WriteVideo(kind, rtcp) ==
    LET offset == PacketTimeOffset(rtcp) IN
    /\ mux_write = "video"
    /\ EndWrite
    /\ EnsureVideoSink
    /\ IF StartsStream(kind)
       THEN /\ NoteOffset(rtcp)
            /\ h26x_started' = TRUE
            /\ head' = IF head = "none" THEN kind ELSE head
            /\ video_span' = IF video_span = {} THEN {<<offset, offset>>}
                             ELSE {<<s[1], offset>> : s \in video_span}
            /\ video_packets' = video_packets + 1
       ELSE UNCHANGED <<start_at, rtcp_offset, videoVars, video_packets>>
    /\ UNCHANGED <<clock, audio_base, audio_start, latest, ordered, placed, failed_seek,
                   audio_packets, doneVars, faultVars, reserved, target>>

MuxTick ==
    /\ clock < MaxClock /\ ~mux_closed
    /\ clock' = clock + 1
    /\ UNCHANGED <<start_at, rtcp_offset, audio_base, audio_start, latest, ordered, placed,
                   failed_seek, videoVars, countVars, fileVars, doneVars, faultVars, mux_write,
                   overlapped>>

-----------------------------------------------------------------------------
(* cleanup, one step per effect on the disk                                *)

Cleaning(from, to) == mux_cleanup = from /\ mux_cleanup' = to

\* Nothing was ever opened: cleanup is over at once
BeginMuxCleanup ==
    /\ Cleaning("no", IF files = {} THEN "done" ELSE "reserve")
    /\ mux_closed' = TRUE
    /\ inputs_open' = FALSE
    /\ UNCHANGED <<timeVars, videoVars, countVars, files, reserved, target, faultVars, mux_write,
                   overlapped>>

\* _reserve_destination_temp_path, which may fail, and _build_ffmpeg_args, which may
\* fail when there is something to mux: the output that was reserved stays then
ReserveOutput ==
    LET empty == audio_packets + video_packets = 0 IN
    /\ \/ /\ Cleaning("reserve", IF empty THEN "unlink" ELSE "run")
          /\ reserved' = TRUE /\ UNCHANGED bad_options
       \/ /\ ~empty /\ Cleaning("reserve", "unlink")
          /\ reserved' = TRUE /\ bad_options' = TRUE
       \/ Cleaning("reserve", "unlink") /\ UNCHANGED <<reserved, bad_options>>
    /\ UNCHANGED <<timeVars, videoVars, countVars, files, inputs_open, target, mux_closed,
                   undeleted, mux_write, overlapped>>

(* A mutation of RunFFmpeg: the output of a failed run is kept. *)
RunFFmpegKeepingOutput ==
    /\ \/ Cleaning("run", "replace") /\ UNCHANGED target
       \/ Cleaning("run", "drop") /\ target' = "partial"
    /\ UNCHANGED <<timeVars, videoVars, countVars, files, reserved, inputs_open, mux_closed,
                   faultVars, mux_write, overlapped>>

\* _run_ffmpeg: it succeeds, or fails, or is killed after the timeout
RunFFmpeg ==
    /\ Cleaning("run", "replace") \/ Cleaning("run", "drop")
    /\ UNCHANGED <<timeVars, videoVars, countVars, fileVars, mux_closed, faultVars, mux_write,
                   overlapped>>

\* os.replace, which may fail; the temporary output goes either way
ReplaceDestination ==
    /\ \/ Cleaning("replace", "unlink") /\ target' = "complete" /\ reserved' = FALSE
       \/ Cleaning("replace", "drop") /\ UNCHANGED <<target, reserved>>
    /\ UNCHANGED <<timeVars, videoVars, countVars, files, inputs_open, mux_closed, faultVars,
                   mux_write, overlapped>>

\* os.unlink of the output; an OSError is passed over, here and below
DropOutput ==
    /\ Cleaning("drop", "unlink")
    /\ \/ reserved' = FALSE /\ UNCHANGED undeleted
       \/ undeleted' = undeleted \cup {"output"} /\ UNCHANGED reserved
    /\ UNCHANGED <<timeVars, videoVars, countVars, files, inputs_open, target, mux_closed,
                   bad_options, mux_write, overlapped>>

\* _unlink_temp_files, whatever happened before
UnlinkTempFiles ==
    /\ Cleaning("unlink", "done")
    /\ \E left \in SUBSET files :
           files' = left /\ undeleted' = undeleted \cup left
    /\ UNCHANGED <<timeVars, videoVars, countVars, reserved, inputs_open, target, mux_closed,
                   bad_options, mux_write, overlapped>>

RtcpTimes == {{}} \cup {{t} : t \in clock .. clock + MaxSkew}

MuxNext ==
    \/ \E kind \in {"audio", "video"} : BeginWrite(kind)
    \/ \E ts \in 0 .. MaxStamp, rtcp \in RtcpTimes : WriteAudio(ts, rtcp)
    \/ \E kind \in {"delta", "config", "keyframe"}, rtcp \in RtcpTimes : WriteVideo(kind, rtcp)
    \/ AudioEmpty \/ MuxTick
    \/ BeginMuxCleanup \/ ReserveOutput \/ RunFFmpeg \/ ReplaceDestination \/ DropOutput
    \/ UnlinkTempFiles

MuxSpec == MuxInit /\ [][MuxNext]_muxVars

-----------------------------------------------------------------------------
\* Audio lies within the threshold of the moment it belongs to, however far its
\* timestamps jump (another speaker's have another base) and whichever clock
\* gave the moment.
AudioOnTime == \A p \in placed : Distance(p[2], p[3]) <= Threshold

\* Audio that arrives in the order of its timestamps is never placed before the
\* start of the file, where seek raises and the packet is lost.
AudioInFile == ordered => ~failed_seek

\* A recorded H.264 or H.265 stream begins with a frame a decoder can start at.
VideoStartsDecodable == head \in {"none", "keyframe"}

\* The destination holds what was there before or a whole recording, never the
\* output of a run that failed or was killed.
DestinationWhole == target \in {"before", "complete"}

\* After cleanup no elementary stream is left on disk, however it went, unless it could
\* not be unlinked, and the temporary output only if nothing had been recorded, the
\* options were malformed or it could not be unlinked; a write that overlaps cleanup may
\* leave a file.
NothingLeftBehind ==
    mux_cleanup = "done" /\ mux_write = "idle" /\ ~overlapped =>
        /\ files \subseteq undeleted
        /\ reserved => audio_packets + video_packets = 0 \/ bad_options \/ "output" \in undeleted

\* A muxed recording has its audio in place and video that can be decoded, and
\* is whole or not there at all; nothing else is left on disk, but for what an error of
\* the options or of the file system leaves.
RecordingSound == AudioOnTime /\ AudioInFile /\ VideoStartsDecodable /\ DestinationWhole /\ NothingLeftBehind
=============================================================================

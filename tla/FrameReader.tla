---------------------------- MODULE FrameReader -----------------------------
(***************************************************************************)
(* The readers that cut an encoded stream into video frames (media.py):    *)
(* _AnnexBFrameReader for H264 and H265, which looks for access unit       *)
(* delimiters, and _IVFFrameReader for the others, which counts bytes.     *)
(* Either gets its stream in chunks that end anywhere.                     *)
(*                                                                         *)
(* Bytes are 0, 1, the NAL header Aud of a delimiter, and others.  With    *)
(* H265 a NAL header is two bytes, of which the first holds the type.      *)
(***************************************************************************)
EXTENDS Naturals, Sequences, FiniteSets, FiniteSetsExt, SequencesExt

CONSTANTS
    Inputs,         \* the Annex B streams that are tried
    HeaderSizes,    \* bytes of a NAL header that must be there: 1 (H264), 2 (H265)
    Aud,            \* the header byte of an access unit delimiter
    MaxBuffer,      \* a buffer without a delimiter is cut when it is longer,
    Keep,           \* to so many bytes
    IvfSizes,       \* the sizes of IVF frames that are tried
    IvfHeader,      \* bytes of an IVF frame header
    MaxIvfFrames    \* frames of an IVF file (bound)

VARIABLES
    input,          \* the whole stream
    unread,         \* what has not been read of it
    header,         \* bytes of a NAL header
    buffer,         \* self.buffer
    search_pos,     \* _search_pos, from 0
    auds,           \* _aud_positions, from 0
    extracting,     \* whether _extract_frame is next, or a chunk
    out,            \* history: the frames given so far
    over,           \* history: the end was given
    split           \* history: a chunk ended within a delimiter or right behind it

annexVars == <<input, unread, header, buffer, search_pos, auds, extracting, out, over, split>>

-----------------------------------------------------------------------------
(* Annex B                                                                 *)

AnnexInit ==
    /\ input \in Inputs /\ header \in HeaderSizes
    /\ unread = input /\ buffer = <<>> /\ search_pos = 0 /\ auds = <<>>
    /\ extracting = TRUE /\ out = <<>> /\ over = FALSE /\ split = FALSE

\* bytes.find: the first place of a start code at or behind a cursor, or none
Places(bytes, code, cursor) ==
    {i \in cursor .. Len(bytes) - Len(code) : SubSeq(bytes, i + 1, i + Len(code)) = code}
Code3 == <<0, 0, 1>>
Code4 == <<0, 0, 0, 1>>

\* _find_start_code: the place and the length, as a set
FindStartCode(bytes, cursor) ==
    LET three == Places(bytes, Code3, cursor)
        four == Places(bytes, Code4, cursor)
    IN  IF four # {} /\ (three = {} \/ Min(four) <= Min(three)) THEN {<<Min(four), 4>>}
        ELSE {<<i, 3>> : i \in IF three = {} THEN {} ELSE {Min(three)}}

\* _nal_type is that of a delimiter; a header that is not complete has no type
IsAud(bytes, size, start, length) ==
    start + length + size <= Len(bytes) /\ bytes[start + length + 1] = Aud

RECURSIVE Scan(_, _, _, _)
\* _scan_for_auds: on to the second delimiter; the last four bytes are looked at again
Scan(bytes, size, pos, found) ==
    LET next == FindStartCode(bytes, pos)
        code == CHOOSE c \in next : TRUE
        new == IsAud(bytes, size, code[1], code[2]) /\ (found = <<>> \/ Last(found) # code[1])
    IN  IF Len(found) >= 2 THEN [pos |-> pos, auds |-> found]
        ELSE IF next = {} THEN [pos |-> IF Len(bytes) > 4 THEN Len(bytes) - 4 ELSE 0, auds |-> found]
        ELSE Scan(bytes, size, code[1] + code[2], IF new THEN Append(found, code[1]) ELSE found)

Less(a, b) == IF a > b THEN a - b ELSE 0
\* del self.buffer[:n], and the positions move with it
Drop(n, pos, found) ==
    /\ buffer' = SubSeq(buffer, n + 1, Len(buffer))
    /\ search_pos' = Less(pos, n)
    /\ auds' = [i \in DOMAIN found |-> found[i] - n]

(* A mutation of Slice: the slice is one byte short. *)
SliceShort(bytes, n) == SubSeq(bytes, 1, Min({n, Len(bytes)}) - 1)

\* buffer[:n], which may reach behind the end
Slice(bytes, n) == SubSeq(bytes, 1, Min({n, Len(bytes)}))

\* _extract_frame: a frame up to the second delimiter, or nothing, with what
\* comes before the first delimiter dropped.  Delimiters noted before the end of
\* the stream cleared the buffer give an empty frame, which counts as none.
ExtractFrame ==
    LET s == Scan(buffer, header, search_pos, auds)
        complete == Len(s.auds) = 2 /\ s.auds[1] = 0
        frame == IF complete THEN Slice(buffer, s.auds[2]) ELSE <<>>
    IN  /\ extracting /\ ~over
        /\ out' = IF frame = <<>> THEN out ELSE Append(out, frame)
        /\ extracting' = (frame # <<>>)
        /\ IF complete THEN Drop(s.auds[2], s.pos, <<s.auds[2]>>)
           ELSE Drop(IF s.auds # <<>> THEN s.auds[1]
                     ELSE IF Len(buffer) > MaxBuffer THEN Len(buffer) - Keep ELSE 0,
                     s.pos, s.auds)
        /\ UNCHANGED <<input, unread, header, over, split>>

\* The delimiters of the stream as it should be read
Delimiters(bytes) ==
    {i \in Places(bytes, Code3, 0) : i + 3 < Len(bytes) /\ bytes[i + 4] = Aud}

\* read_frame gets a chunk, and at the end of the stream gives what is left
ReadChunk(n) ==
    /\ ~extracting /\ ~over /\ unread # <<>>
    /\ buffer' = buffer \o SubSeq(unread, 1, n)
    /\ unread' = SubSeq(unread, n + 1, Len(unread))
    /\ extracting' = TRUE
    /\ LET border == Len(input) - Len(unread')
       IN  split' = (split \/ \E d \in Delimiters(input) : border \in d .. d + 4 + header /\ unread' # <<>>)
    /\ UNCHANGED <<input, header, search_pos, auds, out, over>>

ReadEnd ==
    /\ ~extracting /\ ~over /\ unread = <<>>
    /\ IF buffer = <<>> THEN over' = TRUE /\ UNCHANGED out
       ELSE out' = Append(out, buffer) /\ UNCHANGED over
    /\ buffer' = <<>> /\ extracting' = TRUE
    /\ UNCHANGED <<input, unread, header, search_pos, auds, split>>

AnnexNext == ExtractFrame \/ (\E n \in 1 .. Len(unread) : ReadChunk(n)) \/ ReadEnd

\* No byte is lost or repeated, wherever the chunks end: the frames are the
\* stream from its first delimiter on.
BytesKept ==
    LET seen == FlattenSeq(out) \o buffer \o unread
    IN  /\ IsSuffix(seen, input)
        /\ \A d \in Delimiters(input) : Len(input) - Len(seen) <= d

\* A stream is cut in front of every delimiter and nowhere else, wherever the
\* chunks end, with two exceptions.  Where a chunk ends in a delimiter or right
\* behind it, the first zero of a long start code may be a frame of its own,
\* because the three bytes behind it are found once more.  And a stream of which
\* a part is dropped in front of its first delimiter is one frame, if its end has
\* then been read: after dropping, read_frame asks for a chunk before it cuts.
CutAtDelimiters ==
    Delimiters(input) # {} =>
        \A i \in DOMAIN out :
            \/ Cardinality(Delimiters(out[i])) = 1
            \/ split /\ out[i] = <<0>>
            \/ out = <<out[i]>> /\ Len(out[i]) < Len(input) /\ unread = <<>>

\* EncodedVideoSource, "H264 and H265 inputs are read as Annex B streams with
\* access unit delimiters": it is not true that every frame is one access unit.
FramesAreAccessUnits ==
    Delimiters(input) # {} => \A i \in DOMAIN out : Cardinality(Delimiters(out[i])) = 1

-----------------------------------------------------------------------------
(* IVF                                                                     *)

VARIABLES
    sizes,          \* the frame sizes that the headers tell
    available,      \* bytes in the file, which may be truncated
    taken,          \* bytes read so far
    got,            \* bytes of the part that _read_exact is reading
    reading,        \* which part that is: "header", "payload", or how it ended
    given           \* history: sizes of the frames given

ivfVars == <<sizes, available, taken, got, reading, given>>

IvfLength(s) == FoldLeft(LAMBDA sum, n : sum + IvfHeader + n, 0, s)
IvfInit ==
    /\ sizes \in BoundedSeq(IvfSizes, MaxIvfFrames)
    /\ available \in 0 .. IvfLength(sizes)
    /\ taken = 0 /\ got = 0 /\ reading = "header" /\ given = <<>>

Frame == Len(given) + 1
Needed == IF reading = "header" THEN IvfHeader ELSE sizes[Frame]

\* stream.read in _read_exact: some of the bytes that are still needed
ReadSome(n) ==
    /\ reading \in {"header", "payload"} /\ n <= Needed - got /\ n <= available - taken
    /\ taken' = taken + n /\ got' = got + n
    /\ UNCHANGED <<sizes, available, reading, given>>

\* read_frame when a part is complete or the file has ended; an empty frame is
\* taken for the end of the video by every caller
PartRead ==
    /\ reading \in {"header", "payload"} /\ (got = Needed \/ taken = available)
    /\ reading' = CASE reading = "header" -> IF got = 0 THEN "end"
                                             ELSE IF got < Needed THEN "error" ELSE "payload"
                    [] reading = "payload" -> IF got < Needed THEN "error"
                                              ELSE IF got = 0 THEN "end" ELSE "header"
    /\ given' = IF reading = "payload" /\ got = Needed /\ got > 0 THEN Append(given, got) ELSE given
    /\ got' = 0 /\ UNCHANGED <<sizes, available, taken>>

IvfNext == (\E n \in 1 .. IvfHeader : ReadSome(n)) \/ PartRead

\* Frames are given whole and in order, however the reads are divided, and the
\* end is given only at the end of a whole file or at an empty frame; a file that
\* is cut off in a frame is an error.
FramesWhole ==
    /\ IsPrefix(given, sizes)
    /\ IvfLength(given) <= available
    /\ reading = "end" => \/ IvfLength(given) = available
                          \/ Len(given) < Len(sizes) /\ sizes[Frame] = 0
    /\ reading = "error" => IvfLength(given) < available

\* Both readers give the bytes of their stream, none lost, repeated or moved,
\* wherever chunks end or the file breaks off, and cut it where its frames begin,
\* but for the two exceptions that CutAtDelimiters names.
FramesFaithful == BytesKept /\ CutAtDelimiters /\ FramesWhole
=============================================================================

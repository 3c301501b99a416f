-------------------------- MODULE RecordingTimeline -------------------------
(***************************************************************************)
(* How sinks place packets in time (media.py): MixedWaveSink mixes audio   *)
(* at the RTP timestamp, EncodedVideoSink stamps IVF frames with it, and   *)
(* _OpusDecoderCache recovers one missing packet from the FEC data of the  *)
(* next.  Timestamps and sequence numbers are those of RTP, modulo TsMod   *)
(* and NumMod; a packet is known by its true, unbounded position, and one  *)
(* packet is one tick long.                                                *)
(***************************************************************************)
EXTENDS Integers, Sequences, FiniteSets

CONSTANTS
    TsMod,      \* RTP_TIMESTAMP_MASK + 1, scaled down
    NumMod,     \* 2^16, scaled down
    FirstPos,   \* position of the first packet that can arrive
    LastPos,    \* and of the last (bound)
    MaxMixed,   \* packets mixed (bound)
    MaxLost,    \* packets of a speaker lost in a row (bound)
    Pause       \* a speaker's silence, in ticks without packets

ASSUME TimelineAssumption ==
    /\ TsMod \in Nat \ {0} /\ NumMod \in Nat \ {0} /\ TsMod % 2 = 0
    /\ FirstPos \in Int /\ LastPos \in Int /\ FirstPos <= LastPos
    /\ MaxMixed \in Nat /\ MaxLost \in Nat /\ Pause \in Nat

VARIABLES
    base,        \* _base_timestamp of MixedWaveSink, as a set
    mixed,       \* history: pairs of position and place in _mix
    ivf,         \* frames in the IVF file: position and timestamp written
    ivf_base,    \* _base_timestamp of EncodedVideoSink, as a set
    next_frame,  \* position of the next video frame
    heard,       \* the speaker: sequence number and timestamp of its next packet
    state,       \* _OpusDecodeState: as a set of sequence and timestamp
    missing,     \* history: packets lost since the last one decoded
    recovered    \* history: pairs of a recovered packet and the one lost in its place

timelineVars == <<base, mixed, ivf, ivf_base, next_frame, heard, state, missing, recovered>>

\* _rtp_timestamp_delta, empty for None
TimestampDelta(ts, from) ==
    LET d == (ts - from) % TsMod IN IF d >= TsMod \div 2 THEN {} ELSE {d}

MixInit == base = {} /\ mixed = {}
IvfSinkInit == ivf = <<>> /\ ivf_base = {} /\ next_frame = FirstPos
DecoderInit ==
    /\ heard = [seq |-> FirstPos, ts |-> FirstPos]
    /\ state = {} /\ missing = {} /\ recovered = {}
TimelineInit == MixInit /\ IvfSinkInit /\ DecoderInit

mixVars == <<base, mixed>>
ivfVars == <<ivf, ivf_base, next_frame>>
fecVars == <<heard, state, missing, recovered>>

-----------------------------------------------------------------------------
\* MixedWaveSink.write of a packet, in whatever order the network chose.  The
\* mix grows as far as the packet reaches.
Mix(i) ==
    LET ts == i % TsMod
        delta == IF base = {} THEN {0} ELSE UNION {TimestampDelta(ts, b) : b \in base}
    IN  /\ Cardinality(mixed) < MaxMixed
        /\ base' = IF base = {} THEN {ts} ELSE base
        /\ mixed' = mixed \cup {<<i, d>> : d \in delta}
        /\ UNCHANGED <<ivfVars, fecVars>>

-----------------------------------------------------------------------------
\* _ivf_timestamp with rtp_timestamps, and the frame counter where that fails
IvfTimestamp(ts) ==
    LET delta == IF ivf_base = {} THEN {0} ELSE UNION {TimestampDelta(ts, b) : b \in ivf_base}
    IN  /\ ivf_base' = IF ivf_base = {} THEN {ts} ELSE ivf_base
        /\ ivf' = Append(ivf, <<next_frame, IF delta = {} THEN Len(ivf) ELSE CHOOSE d \in delta : TRUE>>)

\* EncodedVideoSink.write: frames come in order, some never
WriteFrame(skip) ==
    /\ next_frame + skip <= LastPos
    /\ IvfTimestamp(next_frame % TsMod)
    /\ next_frame' = next_frame + skip
    /\ UNCHANGED <<mixVars, fecVars>>

-----------------------------------------------------------------------------
\* The speaker's next packet, in sequence; a pause passes time, not numbers
Advance(pause) == heard' = [seq |-> heard.seq + 1, ts |-> heard.ts + 1 + pause]

LosePacket(pause) ==
    /\ heard.seq < LastPos /\ Cardinality(missing) < MaxLost
    /\ missing' = missing \cup {heard}
    /\ Advance(pause)
    /\ UNCHANGED <<state, recovered, mixVars, ivfVars>>

(* A mutation of Recovers: only the sequence number is looked at. *)
RecoversBySequence(s) == (heard.seq - s.seq) % NumMod = 2

\* One packet is missing and this one follows it without a pause
Recovers(s) ==
    /\ (heard.seq - s.seq) % NumMod = 2
    /\ TimestampDelta(heard.ts % TsMod, s.ts) = {2}

\* decode_packets with fec
DecodePackets(pause) ==
    LET wire == [seq |-> heard.seq % NumMod, ts |-> heard.ts % TsMod]
        before == [seq |-> (wire.seq - 1) % NumMod, ts |-> (wire.ts - 1) % TsMod]
    IN  /\ heard.seq < LastPos
        /\ recovered' = recovered \cup
              {<<before, missing>> : s \in {t \in state : Recovers(t)}}
        /\ state' = {wire}
        /\ missing' = {}
        /\ Advance(pause)
        /\ UNCHANGED <<mixVars, ivfVars>>

MixNext == \E i \in FirstPos .. FirstPos + TsMod + 2 : Mix(i)
IvfNext == \E skip \in 1 .. 3 : WriteFrame(skip)
FecNext == \E pause \in {0, Pause} : LosePacket(pause) \/ DecodePackets(pause)

TimelineSpec == TimelineInit /\ [][MixNext \/ IvfNext \/ FecNext]_timelineVars

-----------------------------------------------------------------------------
\* Packets less than half the timestamp range apart are mixed exactly as far
\* apart as they were sent, in whatever order they arrive and across the wrap
\* of the timestamp: packets older than the first are left out, not misplaced.
MixedAligned ==
    \A p, q \in mixed : p[1] - q[1] \in 0 .. TsMod \div 2 - 1 => p[2] - q[2] = p[1] - q[1]

\* The IVF timestamps increase from frame to frame, by as much as the frames are
\* apart, for as long as the recording spans less than half the range.
IvfOrdered ==
    \A i \in 1 .. Len(ivf) : \A j \in 1 .. i :
        ivf[i][1] - ivf[1][1] < TsMod \div 2 => ivf[i][2] - ivf[j][2] = ivf[i][1] - ivf[j][1]

\* FEC recovers exactly one packet, the one that was lost, at its own sequence
\* number and timestamp; across a pause, or after a longer loss, it does not guess.
RecoveredInPlace ==
    \A r \in recovered :
        \E m \in r[2] : /\ r[2] = {m}
                        /\ r[1] = [seq |-> m.seq % NumMod, ts |-> m.ts % TsMod]

\* Recorded audio and video are where their RTP timestamps put them, across
\* wrap-around, losses and pauses.
PlacedInTime == MixedAligned /\ IvfOrdered /\ RecoveredInPlace
=============================================================================

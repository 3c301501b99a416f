--------------------------- MODULE ReceiverReport ---------------------------
(***************************************************************************)
(* RTCP receiver reports about one incoming video stream (client.py): the  *)
(* receiver counts packets and puts highest sequence number and losses     *)
(* into the fields of a report block; the sender parses it.  Packets are   *)
(* lost, late and repeated across a wrap-around, reports are lost, and a   *)
(* cleanup forgets the counts.                                             *)
(***************************************************************************)
EXTENDS RtpSequence

CONSTANTS
    LossHalf,       \* 2^23: the losses are a signed 24-bit field
    FirstSent, LastSent,    \* the extended numbers of the packets of the stream
    MaxReceived,    \* bound: packets that arrive
    MaxCleanups   \* bound: times the transport is cleaned up

ASSUME ReportAssumption ==
    /\ LossHalf \in Nat \ {0}
    /\ {FirstSent, LastSent, MaxReceived, MaxCleanups} \subseteq Nat

VARIABLES
    counts,         \* the _RTCPReceiveReportState of the stream, or NoCounts
    report,         \* the RTCPReceiverReport the sender parsed last, or NoReport
    seen,           \* ghost: first and highest packet and the arrivals since the last cleanup
    reported,       \* ghost: seen, when the report before the one in report was made
    told,           \* ghost: seen, when the report in report was made
    since,          \* ghost: seen, when the last report was made
    received, cleanups    \* counts of packets and cleanups

reportVars == <<counts, report, seen, reported, told, since, received, cleanups>>

NoCounts == [base |-> 0, max |-> 0, packets |-> 0, expected_prior |-> 0, received_prior |-> 0]
NoReport == [fraction |-> 0, lost |-> 0, high |-> -1]
Nothing == [first |-> 0, highest |-> -1, arrivals |-> 0]

ReportInit ==
    /\ counts = NoCounts /\ report = NoReport
    /\ seen = Nothing /\ reported = Nothing /\ told = Nothing /\ since = Nothing
    /\ received = 0 /\ cleanups = 0

Clamp(n, low, high) == IF n < low THEN low ELSE IF n > high THEN high ELSE n

\* _maybe_send_video_rtcp_receiver_report: the counts after a packet.
CountPacket(state, sequence) ==
    IF state = NoCounts
    THEN [NoCounts EXCEPT !.base = sequence, !.max = sequence, !.packets = 1]
    ELSE LET extended == UnwrapSequence(sequence, state.max)
         IN  [state EXCEPT !.max = IF extended > @ THEN extended ELSE @, !.packets = @ + 1]

Expected(state) == state.max - state.base + 1

\* A mutation of FractionLost: the fraction is taken of all packets expected.
FractionOfAll(state) ==
    LET lost == Expected(state) - state.packets
    IN  IF lost > 0 THEN Clamp((lost * 256) \div Expected(state), 0, 255) ELSE 0

\* _rtcp_receiver_report_block: the share lost since the last block, in 256ths.
FractionLost(state) ==
    LET expected == Expected(state) - state.expected_prior
        lost     == expected - (state.packets - state.received_prior)
    IN  IF expected > 0 /\ lost > 0 THEN Clamp((lost * 256) \div expected, 0, 255) ELSE 0

\* All losses, clamped, in two's complement.
LossField(lost) ==
    LET clamped == Clamp(lost, -LossHalf, LossHalf - 1)
    IN  IF clamped < 0 THEN clamped + 2 * LossHalf ELSE clamped

Block(state) ==
    [fraction |-> FractionLost(state), lost |-> LossField(Expected(state) - state.packets),
     high |-> state.max]

\* _handle_rtcp_receiver_report
Parsed(block) ==
    [block EXCEPT !.lost = IF @ >= LossHalf THEN @ - 2 * LossHalf ELSE @]

-----------------------------------------------------------------------------
\* A packet arrives, not further from the newest than half the number space.
\* If the interval has passed, a report is made; it may be lost on its way.
PacketArrives(index, due, arrives) ==
    LET after == CountPacket(counts, Wire(index))
        now   == IF seen = Nothing
                 THEN [first |-> index, highest |-> index, arrivals |-> 1]
                 ELSE [seen EXCEPT !.highest = IF index > @ THEN index ELSE @, !.arrivals = @ + 1]
    IN  /\ received < MaxReceived
        /\ seen # Nothing => index - seen.highest \in -Half .. Half - 1
        /\ received' = received + 1
        /\ seen' = now
        /\ counts' = IF due THEN [after EXCEPT !.expected_prior = Expected(after),
                                               !.received_prior = after.packets]
                            ELSE after
        /\ since' = IF due THEN now ELSE since
        /\ IF due /\ arrives
           THEN /\ report' = Parsed(Block(after))
                /\ told' = now /\ reported' = since
           ELSE /\ arrives = FALSE
                /\ UNCHANGED <<report, told, reported>>
        /\ UNCHANGED cleanups

\* _cleanup_media_transport: the counts and the reports are forgotten.
CleanUp ==
    /\ cleanups < MaxCleanups
    /\ cleanups' = cleanups + 1
    /\ counts' = NoCounts
    /\ report' = NoReport
    /\ seen' = Nothing /\ told' = Nothing /\ reported' = Nothing /\ since' = Nothing
    /\ UNCHANGED received

ReportNext ==
    \/ \E index \in FirstSent .. LastSent, due, arrives \in BOOLEAN : PacketArrives(index, due, arrives)
    \/ CleanUp

ReportSpec == ReportInit /\ [][ReportNext]_reportVars

-----------------------------------------------------------------------------
\* How many packets were expected, of those s tells of, and how many of them did
\* not come; both are 0 for Nothing.
Sent(s) == s.highest - s.first + 1
Missed(s) == Sent(s) - s.arrivals

\* The losses the sender reads are those that happened, up to what the signed
\* field holds: packets between the first and the newest less those that came,
\* repeated and early ones included, across wrap-around; and the newest number
\* is the right one.
LossTruthful ==
    report # NoReport =>
        /\ report.lost = Clamp(Missed(told), -LossHalf, LossHalf - 1)
        /\ Wire(report.high) = Wire(told.highest)

\* The fraction the sender reads is that of the packets since the report made
\* before, rounded down, whether or not that one arrived; it is never 256 or
\* more, and zero when late or repeated packets make up for those that were lost.
FractionTruthful ==
    report # NoReport =>
        LET missed == Missed(told) - Missed(reported)
            sent   == Sent(told) - Sent(reported)
        IN  /\ report.fraction \in 0 .. 255
            /\ missed <= 0 \/ sent <= 0 => report.fraction = 0
            /\ missed > 0 /\ sent > 0 =>
                  /\ report.fraction * sent <= 256 * missed
                  /\ (report.fraction + 1) * sent > 256 * missed \/ report.fraction = 255

\* A receiver report tells the sender the losses that happened, altogether and
\* since the last report.
ReportTruthful == LossTruthful /\ FractionTruthful
=============================================================================

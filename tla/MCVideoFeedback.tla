-------------------------- MODULE MCVideoFeedback --------------------------
(***************************************************************************)
(* The RTCP feedback about incoming video for model checking: VideoNack    *)
(* with small limits, so that overflow, expiry, chunking and the end of    *)
(* the table's dictionaries all happen within a few packets, and           *)
(* ReceiverReport with a field of two bits for the losses.  They share no  *)
(* state, so each behaviour runs one of them, named by part.               *)
(***************************************************************************)
EXTENDS VideoNack, ReceiverReport

VARIABLE part

feedbackVars == <<part, vars, reportVars>>

FeedbackInit == part \in {"nack", "report"} /\ Init /\ ReportInit

FeedbackNext ==
    /\ UNCHANGED part
    /\ \/ part = "nack" /\ Next /\ UNCHANGED reportVars
       \/ part = "report" /\ ReportNext /\ UNCHANGED vars

\* The fair actions are those of VideoNack, none of which is enabled in the
\* initial state that the reports leave as it is.
FeedbackSpec == FeedbackInit /\ [][FeedbackNext]_feedbackVars /\ Fairness
=============================================================================

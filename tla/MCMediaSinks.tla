---------------------------- MODULE MCMediaSinks ----------------------------
(***************************************************************************)
(* The sinks and recordings for model checking.  They share no state, so   *)
(* each behaviour runs one of them, named by part, and leaves the others   *)
(* as they start.                                                          *)
(***************************************************************************)
EXTENDS QueueSinks, SilenceFill, SinkTree, SinkRouting,
        RecordingTimeline, MuxRecording

VARIABLE part

sinkVars == <<queueVars, silenceVars, treeVars, routingVars>>
recordVars == <<timelineVars, muxVars>>
all == <<part, sinkVars, recordVars>>

OptionsOf(p) ==
    /\ p \in {"queue", "async"} \/ drop_oldest = TRUE
    /\ p = "users" \/ fallback_to_ssrc = TRUE

Init ==
    /\ part \in {"queue", "async", "silence", "tree", "chain", "users", "mix", "ivf", "fec", "mux"}
    /\ OptionsOf(part)
    /\ QueueInit /\ AsyncInit /\ SilenceInit /\ TreeInit /\ UserInit /\ TimelineInit /\ MuxInit
    /\ IF part = "chain" THEN ChainInit
       ELSE chain = <<>> /\ leaf = {} /\ matches = TRUE /\ offered = "none" /\ arrived = {}

SinkNext ==
    \/ part = "queue" /\ QueueNext /\ UNCHANGED <<silenceVars, treeVars, routingVars>>
    \/ part = "async" /\ AsyncNext /\ UNCHANGED <<silenceVars, treeVars, routingVars>>
    \/ part = "silence" /\ SilenceNext /\ UNCHANGED <<queueVars, treeVars, routingVars>>
    \/ part = "tree" /\ TreeNext /\ UNCHANGED <<queueVars, silenceVars, routingVars>>
    \/ part = "chain" /\ ChainNext /\ UNCHANGED <<queueVars, silenceVars, treeVars>>
    \/ part = "users" /\ UserNext /\ UNCHANGED <<queueVars, silenceVars, treeVars>>

RecordNext ==
    \/ part = "mix" /\ MixNext /\ UNCHANGED muxVars
    \/ part = "ivf" /\ IvfNext /\ UNCHANGED muxVars
    \/ part = "fec" /\ FecNext /\ UNCHANGED muxVars
    \/ part = "mux" /\ MuxNext /\ UNCHANGED timelineVars

Next ==
    \/ SinkNext /\ UNCHANGED <<part, recordVars>>
    \/ RecordNext /\ UNCHANGED <<part, sinkVars>>

Spec == Init /\ [][Next]_all
=============================================================================

------------------------ MODULE MCVideoSendPipeline ------------------------
(***************************************************************************)
(* Sending video for model checking.  One player thread, one dispatcher    *)
(* thread and the event loop, on one SSRC with two codecs; the modulus is  *)
(* 4 and the cache holds 2 packets, so that numbers wrap and packets       *)
(* expire within a few frames.  And the replay of cached keyframes on two  *)
(* simulcast streams.  They share no state, so each behaviour runs one of  *)
(* them, named by part.                                                    *)
(***************************************************************************)
EXTENDS VideoSendPipeline, KeyframeReplay

VARIABLE part

SendInit ==
    /\ part \in {"pipeline", "replay"}
    /\ Init /\ ReplayInit
    /\ part = "pipeline" => current = CHOOSE s \in Streams : TRUE

SendingNext ==
    /\ UNCHANGED part
    /\ \/ part = "pipeline" /\ Next /\ UNCHANGED replayVars
       \/ part = "replay" /\ ReplayNext /\ UNCHANGED vars

\* The player goes on with its round as long as it runs.
SendSpec ==
    /\ SendInit /\ [][SendingNext]_<<part, vars, replayVars>>
    /\ WF_replayVars(part = "replay" /\ PlayerRound)
=============================================================================

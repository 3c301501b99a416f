--------------------------- MODULE MCMediaReceive ---------------------------
(***************************************************************************)
(* The receiving client for model checking: MediaReceive with two sockets  *)
(* and two sinks or callables, the frames that wait for DAVE keys, and the *)
(* session of a stream client.  What they share, the end of listening and  *)
(* the outage of a stream, is in each of them, so each behaviour runs one, *)
(* named by part, and leaves the others idle.                              *)
(***************************************************************************)
EXTENDS MediaReceive, DavePending, StreamSession

VARIABLE part

ReceiveInit == part \in {"lifecycle", "dave", "session"} /\ Init /\ DaveInit /\ StreamInit

ReceiveNext ==
    /\ UNCHANGED part
    /\ \/ part = "lifecycle" /\ Next /\ UNCHANGED <<daveVars, streamVars>>
       \/ part = "dave" /\ DaveNext /\ UNCHANGED <<vars, streamVars>>
       \/ part = "session" /\ StreamNext /\ UNCHANGED <<vars, daveVars>>

ReceiveSpec == ReceiveInit /\ [][ReceiveNext]_<<part, vars, daveVars, streamVars>>
=============================================================================

--------------------------- MODULE MCUdpTransport ---------------------------
(***************************************************************************)
(* UdpTransport with a listener for media and one for feedback, as client  *)
(* objects register them.                                                  *)
(***************************************************************************)
EXTENDS UdpTransport, TLC

MCListeners == {"media", "feedback"}
MCFlags == [l \in MCListeners |-> IF l = "media" THEN {"rtp", "rtcp"} ELSE {"rtcp"}]
\* The Python threads run the same code.
CallersSymmetry == Permutations(Callers)
=============================================================================

------------------------------ MODULE MCUdpPing -----------------------------
(***************************************************************************)
(* UdpPing with a handful of pings.                                        *)
(***************************************************************************)
EXTENDS UdpPing
=============================================================================

-------------------------- MODULE MCReorderBuffer --------------------------
(***************************************************************************)
(* ReorderBuffer on a modulus of 12: the stream starts just below the wrap, *)
(* so that gaps, skips and late packets straddle it.                       *)
(***************************************************************************)
EXTENDS ReorderBuffer
=============================================================================

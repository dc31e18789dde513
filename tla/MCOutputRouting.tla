--------------------------- MODULE MCOutputRouting ---------------------------
(* Instances of OutputRouting for TLC. *)
EXTENDS OutputRouting
=============================================================================

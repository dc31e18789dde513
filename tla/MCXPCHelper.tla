----------------------------- MODULE MCXPCHelper -----------------------------
(* Three connections, reused when nothing refers to them any more.            *)
EXTENDS XPCHelper

ThreeConnections == 1 .. 3
=============================================================================

----------------------------- MODULE MCAutoPause -----------------------------
(* WCAutoPauseMusic with both delays, with one of them, and without any.      *)
EXTENDS AutoPause

AllDelays == BOOLEAN \X BOOLEAN
=============================================================================

----------------------------- MODULE MCClientMap -----------------------------
(* Instances of ClientMap for TLC. *)
EXTENDS ClientMap, TLC

Symmetry == Permutations(ClientID) \cup Permutations(Thread) \cup Permutations(PID)
=============================================================================

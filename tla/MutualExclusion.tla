--------------------------- MODULE MutualExclusion ---------------------------
(* What a mutex promises: one thread at a time holds it, and none waits for   *)
(* what it holds.                                                             *)
CONSTANT Thread

VARIABLES holders, waiting

Init == holders = {} /\ waiting = {}
Wait(t) ==
  /\ t \notin holders \cup waiting
  /\ waiting' = waiting \cup {t} /\ UNCHANGED holders
\* After waiting or without.
Acquire(t) == holders = {} /\ holders' = {t} /\ waiting' = waiting \ {t}
Release(t) == holders = {t} /\ holders' = {} /\ UNCHANGED waiting
Next == \E t \in Thread : Wait(t) \/ Acquire(t) \/ Release(t)
Spec == Init /\ [][Next]_<<holders, waiting>>
=============================================================================

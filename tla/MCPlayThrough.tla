---------------------------- MODULE MCPlayThrough ----------------------------
(* An instance of PlayThrough for TLC: four operations where only HAL calls   *)
(* that start something fail, two where a device goes away and IO is late,    *)
(* two where the HAL refuses to stop and to destroy IOProcs, and three where  *)
(* the input's IO is late and nothing else happens: so many it takes until a  *)
(* call that one Stop gave up on meets the next.                              *)
EXTENDS PlayThrough, TLC

CONSTANTS in, o1, o2, w1
Outputs == {o1, o2}
Waiters == {w1}

\* Where "stop" fails a Stop may time out at any moment.
Calm == [mortal |-> {}, failing |-> {"create", "start"}, late |-> {},
         waiters |-> Waiters, maxOps |-> 4]
Rough == [mortal |-> {o1}, failing |-> {"create"}, late |-> {in, o1},
          waiters |-> Waiters, maxOps |-> 2]
Refusing == [mortal |-> {}, failing |-> {"start", "stop", "destroy"}, late |-> {},
             waiters |-> {}, maxOps |-> 2]
Late == [mortal |-> {}, failing |-> {}, late |-> {in}, waiters |-> Waiters, maxOps |-> 3]
Environments == {Calm, Rough, Refusing, Late}

\* The outputs are alike, but that only the first may go away.
MCInit == Init /\ output = o1
MCSpec == MCInit /\ [][Next]_vars /\ Fairness
=============================================================================

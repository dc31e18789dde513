------------------------------ MODULE TaskOrder ------------------------------
(* What WC_TaskQueue promises: the tasks given to a worker are processed one  *)
(* at a time, each exactly once, in the order they were added to the queue,   *)
(* and a task's memory is its owner's again only after it was processed.  The *)
(* newest tasks are dropped, once, when the queue is destroyed.               *)
EXTENDS Naturals, Sequences

CONSTANTS Queue, Task

VARIABLES
    queue,           \* per worker: the tasks not processed yet, oldest first
    state,           \* per task: "free", "queued" or "done" (processed, in use)
    destroyed

vars == <<queue, state, destroyed>>

Init ==
    /\ queue = [q \in Queue |-> <<>>]
    /\ state = [k \in Task |-> "free"]
    /\ destroyed = FALSE

Add(q, k) ==
    /\ ~destroyed /\ state[k] = "free"
    /\ queue' = [queue EXCEPT ![q] = Append(@, k)]
    /\ state' = [state EXCEPT ![k] = "queued"]
    /\ UNCHANGED destroyed

Process(q) ==
    /\ queue[q] # <<>>
    /\ queue' = [queue EXCEPT ![q] = Tail(@)]
    /\ state' = [state EXCEPT ![Head(queue[q])] = "done"]
    /\ UNCHANGED destroyed

(* A synchronous task's owner returns; an asynchronous one is recycled.       *)
Release(k) ==
    /\ state[k] = "done"
    /\ state' = [state EXCEPT ![k] = "free"]
    /\ UNCHANGED <<queue, destroyed>>

Destroy(q) ==
    /\ ~destroyed /\ destroyed' = TRUE
    /\ \E n \in 0..Len(queue[q]) :
          /\ queue' = [queue EXCEPT ![q] = SubSeq(@, 1, n)]
          /\ state' = [k \in Task |->
                IF \E i \in (n + 1)..Len(queue[q]) : queue[q][i] = k THEN "free" ELSE state[k]]

Next ==
    \/ \E q \in Queue : Process(q) \/ Destroy(q) \/ \E k \in Task : Add(q, k)
    \/ \E k \in Task : Release(k)

Spec == Init /\ [][Next]_vars
=============================================================================

----------------------------- MODULE MCTaskQueue -----------------------------
(* TaskQueue, which takes an operation on a stack for one step, and beside it *)
(* the stack in its own steps, which shows that it may, and the mutex of the  *)
(* classes around it.  An execution is one of the three.                      *)
EXTENDS TaskQueue

CONSTANTS StackItem, StackThread, MutexThread, MaxDepth

VARIABLES part, mHead, next, free, thread, mOwner, mMutex, scopes, where, opens

Stack == INSTANCE AtomicStack
  WITH Item <- StackItem, Thread <- StackThread, NULL <- None
CAMutex == INSTANCE Mutex WITH Thread <- MutexThread, Nobody <- None

ASSUME StackAssumption == Stack!ItemAssumption
ASSUME CAMutexAssumption == CAMutex!MutexAssumption

stack == <<mHead, next, free, thread>>
mutex == <<mOwner, mMutex, scopes, where, opens>>

MCInit ==
  /\ Init /\ Stack!Init /\ CAMutex!MutexInit /\ part \in {"queue", "stack", "mutex"}
QueueSteps == part = "queue" /\ Next /\ UNCHANGED <<part, stack, mutex>>
StackSteps == part = "stack" /\ Stack!Next /\ UNCHANGED <<part, vars, mutex>>
MutexSteps == part = "mutex" /\ CAMutex!MutexNext /\ UNCHANGED <<part, vars, stack>>
MCSpec ==
  /\ MCInit /\ [][QueueSteps \/ StackSteps \/ MutexSteps]_<<part, vars, stack, mutex>>
  /\ Fairness

\* The lock-free stack implements a sequence: no task is lost, processed twice
\* or out of order, whatever the steps in which its threads push and pop.
StackImplements == Stack!StackImplements

\* A CAMutex implements mutual exclusion, though threads look for themselves in
\* mOwner without having the mutex, lock in scopes inside each other and unlock
\* for part of one: one thread holds it at a time, and none waits for itself.
MutexExcludes == CAMutex!Exclusion!Spec
=============================================================================

------------------------------ MODULE TaskQueue ------------------------------
(* WC_TaskQueue: two worker threads, "RT" (real-time) and "NonRT", fed through *)
(* lock-free stacks and Mach semaphores.                                      *)
(*                                                                            *)
(* A synchronous task lives on its caller's stack (QueueSync), so it is named *)
(* after the caller; an asynchronous one comes from a free list that is       *)
(* filled in advance because real-time threads must not allocate.  A push or  *)
(* pop_all of a TAtomicStack is one step: it takes effect at its successful   *)
(* compare-and-swap.                                                          *)
EXTENDS Naturals, FiniteSets, Sequences, SequencesExt

CONSTANTS
    SyncCaller,      \* non-real-time threads in QueueSync_SwapClientShadowMaps
    AsyncCaller,     \* IO threads in QueueAsync_SendPropertyNotification
    Destructor,      \* the thread in ~WC_TaskQueue; {} if it is never destroyed
    Preallocated,    \* kNonRealTimeThreadTaskBufferSize task objects
    Heap,            \* further ones, for when the free list runs out
    MaxSignals,      \* bound on the count of a semaphore (see Room)
    None

Queue == {"RT", "NonRT"}
SyncTask == SyncCaller \cup Destructor
AsyncTask == Preallocated \cup Heap
Task == SyncTask \cup AsyncTask
Thread == SyncTask \cup AsyncCaller

ASSUME DistinctAssumption ==
    /\ SyncTask \cap AsyncTask = {} /\ SyncTask \cap AsyncCaller = {}
    /\ SyncCaller \cap Destructor = {} /\ Preallocated \cap Heap = {}
    /\ None \notin Task

ASSUME BoundAssumption ==
    /\ IsFiniteSet(Thread) /\ MaxSignals \in Nat
    /\ \A d, e \in Destructor : d = e

VARIABLES
    tasks,           \* per worker: its atomic stack, oldest task first
    workQueued,      \* per worker: count of its WorkQueuedSemaphore
    freeList, heap,  \* sets of asynchronous task objects
    pc, held,        \* per thread: place; the object it took from the free list
    on,              \* per synchronous task: the worker it was queued for
    complete,        \* per synchronous task: mIsComplete
    workerPC, batch, \* per worker: place, tasks fetched and not finished
    stop,            \* per worker: theThreadShouldStop
    destructor       \* "alive", the worker being stopped, then "destroyed"

callers == <<pc, held, on>>
workers == <<workerPC, batch, stop>>
vars == <<tasks, workQueued, freeList, heap, callers, complete, workers, destructor>>

TypeOK ==
    /\ tasks \in [Queue -> Seq(Task)] /\ batch \in [Queue -> Seq(Task)]
    /\ workQueued \in [Queue -> 0..MaxSignals]
    /\ freeList \subseteq AsyncTask /\ heap \subseteq Heap
    /\ pc \in [Thread -> {"idle", "push", "signal", "check", "enter", "wait"}]
    /\ held \in [AsyncCaller -> AsyncTask \cup {None}]
    /\ on \in [SyncTask -> Queue]
    /\ complete \in [SyncTask -> BOOLEAN]
    /\ workerPC \in [Queue -> {"waiting", "fetch", "loop", "processed", "signalAll", "stopped"}]
    /\ stop \in [Queue -> BOOLEAN]
    /\ destructor \in {"alive", "destroyed"} \cup Queue

Init ==
    /\ tasks = [q \in Queue |-> <<>>] /\ batch = [q \in Queue |-> <<>>]
    /\ workQueued = [q \in Queue |-> 0]
    /\ freeList = Preallocated /\ heap = Heap
    /\ pc = [t \in Thread |-> "idle"]
    /\ held = [t \in AsyncCaller |-> None]
    /\ on = [t \in SyncTask |-> "RT"]
    /\ complete = [t \in SyncTask |-> FALSE]
    /\ workerPC = [q \in Queue |-> "waiting"]
    /\ stop = [q \in Queue |-> FALSE]
    /\ destructor = "alive"

-----------------------------------------------------------------------------
(* Synchronous callers.                                                      *)

Goto(t, place) == pc' = [pc EXCEPT ![t] = place]
Target(t) == IF t \in SyncTask THEN on[t] ELSE "NonRT"

(* A call is only begun when its semaphore_signal will stay within the bound. *)
Signalling(q) == {t \in Thread : pc[t] \in {"push", "signal"} /\ Target(t) = q}
Room(q) == workQueued[q] + Cardinality(Signalling(q)) < MaxSignals

(* QueueSync up to push_atomic: a new task object, put on the worker's stack. *)
PushSync(t, q) ==
    /\ pc[t] = "idle" /\ Room(q)
    /\ on' = [on EXCEPT ![t] = q]
    /\ complete' = [complete EXCEPT ![t] = FALSE]
    /\ tasks' = [tasks EXCEPT ![q] = Append(@, t)]
    /\ Goto(t, "signal")
    /\ UNCHANGED <<workQueued, freeList, heap, held, workers>>

(* The owner of the queue does not start calls it cannot finish: none once it *)
(* has begun to destroy the queue.                                            *)
QueueSync(t) ==
    /\ destructor = "alive"
    /\ PushSync(t, "RT")
    /\ UNCHANGED destructor

SignalWork(t) ==
    /\ t \in SyncTask /\ pc[t] = "signal"
    /\ workQueued' = [workQueued EXCEPT ![on[t]] = @ + 1]
    /\ Goto(t, "check")
    /\ UNCHANGED <<tasks, freeList, heap, held, on, complete, workers, destructor>>

CheckComplete(t) ==
    /\ t \in SyncTask /\ pc[t] = "check"
    /\ Goto(t, IF complete[t] THEN "idle" ELSE "enter")
    /\ UNCHANGED <<tasks, workQueued, freeList, heap, held, on, complete, workers, destructor>>

(* semaphore_signal_all in between is missed.                                 *)
SemaphoreWait(t) ==
    /\ t \in SyncTask /\ pc[t] = "enter"
    /\ Goto(t, "wait")
    /\ UNCHANGED <<tasks, workQueued, freeList, heap, held, on, complete, workers, destructor>>

(* Mutants: the caller leaves on a timeout; it waits with no timeout.         *)
GivesUp(t) ==
    /\ t \in SyncTask /\ pc[t] = "wait"
    /\ Goto(t, "idle")
    /\ UNCHANGED <<tasks, workQueued, freeList, heap, held, on, complete, workers, destructor>>
NoTimeout(t) == FALSE

(* semaphore_timedwait gives up after kRealTimeThreadMaximumComputationNs * 4. *)
TimedOut(t) ==
    /\ t \in SyncTask /\ pc[t] = "wait"
    /\ Goto(t, "check")
    /\ UNCHANGED <<tasks, workQueued, freeList, heap, held, on, complete, workers, destructor>>

-----------------------------------------------------------------------------
(* Asynchronous callers: QueueOnNonRealtimeThread.                           *)

(* Which object the free list gives is left open.  Out of objects, the caller *)
(* allocates; Heap bounds how often.                                          *)
PopFreeTask(t) ==
    /\ t \in AsyncCaller /\ pc[t] = "idle" /\ destructor # "destroyed" /\ Room("NonRT")
    /\ \/ \E k \in freeList : /\ held' = [held EXCEPT ![t] = k]
                              /\ freeList' = freeList \ {k} /\ UNCHANGED heap
       \/ freeList = {} /\ \E k \in heap : /\ held' = [held EXCEPT ![t] = k]
                                           /\ heap' = heap \ {k} /\ UNCHANGED freeList
    /\ Goto(t, "push")
    /\ UNCHANGED <<tasks, workQueued, on, complete, workers, destructor>>

PushAsync(t) ==
    /\ t \in AsyncCaller /\ pc[t] = "push"
    /\ tasks' = [tasks EXCEPT !["NonRT"] = Append(@, held[t])]
    /\ held' = [held EXCEPT ![t] = None]
    /\ Goto(t, "signal")
    /\ UNCHANGED <<workQueued, freeList, heap, on, complete, workers, destructor>>

SignalAsync(t) ==
    /\ t \in AsyncCaller /\ pc[t] = "signal"
    /\ workQueued' = [workQueued EXCEPT !["NonRT"] = @ + 1]
    /\ Goto(t, "idle")
    /\ UNCHANGED <<tasks, freeList, heap, held, on, complete, workers, destructor>>
-----------------------------------------------------------------------------
(* WorkerThreadProc, on worker q.                                            *)

At(q, place) == workerPC' = [workerPC EXCEPT ![q] = place]

WaitForWork(q) ==
    /\ workerPC[q] = "waiting" /\ workQueued[q] > 0
    /\ workQueued' = [workQueued EXCEPT ![q] = @ - 1]
    /\ At(q, "fetch")
    /\ UNCHANGED <<tasks, freeList, heap, callers, complete, batch, stop, destructor>>

(* A mutant: pop_all, which gives the newest task first.                      *)
FetchNewestFirst(q) ==
    /\ workerPC[q] = "fetch"
    /\ batch' = [batch EXCEPT ![q] = Reverse(tasks[q])]
    /\ tasks' = [tasks EXCEPT ![q] = <<>>]
    /\ At(q, IF tasks[q] = <<>> THEN "waiting" ELSE "loop")
    /\ UNCHANGED <<workQueued, freeList, heap, callers, complete, stop, destructor>>

(* pop_all_reversed; the stack may be empty, an earlier batch having had all. *)
Fetch(q) ==
    /\ workerPC[q] = "fetch"
    /\ batch' = [batch EXCEPT ![q] = tasks[q]]
    /\ tasks' = [tasks EXCEPT ![q] = <<>>]
    /\ At(q, IF tasks[q] = <<>> THEN "waiting" ELSE "loop")
    /\ UNCHANGED <<workQueued, freeList, heap, callers, complete, stop, destructor>>

(* Only the destructor's tasks are kBGMTaskStopWorkerThread.                  *)
Process(q) ==
    /\ workerPC[q] = "loop"
    /\ stop' = [stop EXCEPT ![q] = Head(batch[q]) \in Destructor]
    /\ At(q, "processed")
    /\ UNCHANGED <<tasks, workQueued, freeList, heap, callers, complete, batch, destructor>>

(* Where the loops go after a task: a stopping worker leaves the rest.        *)
AfterTask(q, rest) ==
    IF stop[q] THEN "stopped" ELSE IF rest = <<>> THEN "waiting" ELSE "loop"

(* MarkCompleted: from here on the caller may return and the task be gone.    *)
MarkCompleted(q) ==
    /\ workerPC[q] = "processed" /\ Head(batch[q]) \in SyncTask
    /\ complete' = [complete EXCEPT ![Head(batch[q])] = TRUE]
    /\ batch' = [batch EXCEPT ![q] = Tail(@)]
    /\ At(q, "signalAll")
    /\ UNCHANGED <<tasks, workQueued, freeList, heap, callers, stop, destructor>>

(* semaphore_signal_all wakes the callers that are waiting, and no other.     *)
SignalAll(q) ==
    /\ workerPC[q] = "signalAll"
    /\ pc' = [t \in Thread |-> IF pc[t] = "wait" /\ on[t] = q THEN "check" ELSE pc[t]]
    /\ At(q, AfterTask(q, batch[q]))
    /\ UNCHANGED <<tasks, workQueued, freeList, heap, held, on, complete, batch, stop, destructor>>

Recycle(q) ==
    /\ workerPC[q] = "processed" /\ Head(batch[q]) \in AsyncTask
    /\ freeList' = freeList \cup {Head(batch[q])}
    /\ batch' = [batch EXCEPT ![q] = Tail(@)]
    /\ At(q, AfterTask(q, Tail(batch[q])))
    /\ UNCHANGED <<tasks, workQueued, heap, callers, complete, stop, destructor>>

-----------------------------------------------------------------------------
(* ~WC_TaskQueue: no synchronous call is running; IO threads may still be     *)
(* queueing notifications.                                                    *)

StopWorker(t) ==
    /\ t \in Destructor
    /\ \A s \in SyncCaller : pc[s] = "idle"
    /\ \/ destructor = "alive" /\ PushSync(t, "RT") /\ destructor' = "RT"
       \/ destructor = "RT" /\ PushSync(t, "NonRT") /\ destructor' = "NonRT"

(* Destroys the semaphores, deletes the free list and the tasks still queued. *)
Destroy(t) ==
    /\ t \in Destructor /\ destructor = "NonRT" /\ pc[t] = "idle"
    /\ \A a \in AsyncCaller : pc[a] = "idle"
    /\ destructor' = "destroyed"
    /\ freeList' = {}
    /\ tasks' = [tasks EXCEPT !["NonRT"] = <<>>]
    /\ UNCHANGED <<workQueued, heap, callers, complete, workers>>

Caller(t) == \/ SignalWork(t) \/ CheckComplete(t) \/ SemaphoreWait(t) \/ TimedOut(t)
             \/ PushAsync(t) \/ SignalAsync(t)
Worker(q) == \/ WaitForWork(q) \/ Fetch(q) \/ Process(q)
             \/ MarkCompleted(q) \/ SignalAll(q) \/ Recycle(q)

Next ==
    \/ \E t \in SyncCaller : QueueSync(t)
    \/ \E t \in AsyncCaller : PopFreeTask(t)
    \/ \E t \in Thread : Caller(t)
    \/ \E q \in Queue : Worker(q)
    \/ \E t \in Destructor : StopWorker(t) \/ Destroy(t)

(* Threads that have begun a call, and the workers, keep running; a timed     *)
(* wait ends.  Nobody is made to queue anything.                              *)
Fairness ==
    /\ \A t \in Thread : WF_vars(Caller(t))
    /\ \A q \in Queue : WF_vars(Worker(q))

Spec == Init /\ [][Next]_vars
FairSpec == Spec /\ Fairness
-----------------------------------------------------------------------------
(* Properties.                                                               *)

(* No wakeup is lost: a worker that sleeps with tasks on its stack has a      *)
(* signal pending, or the caller that pushed one has yet to signal            *)
(* (WorkerThreadProc's wait, against push and signal being two steps).        *)
NoLostWakeup ==
    \A q \in Queue :
        workerPC[q] = "waiting" /\ tasks[q] # <<>> =>
            \/ workQueued[q] > 0
            \/ \E t \in Thread : pc[t] = "signal" /\ Target(t) = q

(* A worker only touches memory that is there: every synchronous task it has  *)
(* fetched or will fetch belongs to a caller still inside QueueSync, and is   *)
(* not completed; every asynchronous one is in no other place.  A stopped     *)
(* worker has left none behind (WorkerThreadProc, QueueSync's stack frame).   *)
Pending(q) == ToSet(batch[q]) \cup ToSet(tasks[q])
TasksInOnePlace ==
    /\ \A q \in Queue : \A k \in Pending(q) \cap SyncTask :
          on[k] = q /\ pc[k] \in {"signal", "check", "enter", "wait"} /\ ~complete[k]
    /\ \A k \in Pending("NonRT") \cap AsyncTask :
          k \notin freeList \cup heap /\ \A a \in AsyncCaller : held[a] # k
    /\ \A q \in Queue : IsInjective(batch[q] \o tasks[q])
    /\ workerPC["RT"] = "stopped" => Pending("RT") = {}

(* The queue implements TaskOrder: first in, first out, exactly once, and     *)
(* QueueSync returns only after its task was processed.                       *)
Unprocessed(q) ==
    (IF workerPC[q] = "processed" THEN Tail(batch[q]) ELSE batch[q]) \o tasks[q]
StateOf(k) ==
    IF \E q \in Queue : k \in ToSet(Unprocessed(q)) THEN "queued"
    ELSE IF \/ k \in SyncTask /\ pc[k] # "idle"
            \/ \E q \in Queue : workerPC[q] = "processed" /\ k = Head(batch[q])
    THEN "done" ELSE "free"
Order == INSTANCE TaskOrder WITH
    queue <- [q \in Queue |-> Unprocessed(q)],
    state <- [k \in Task |-> StateOf(k)],
    destroyed <- destructor = "destroyed"
ImplementsOrder == Order!Spec

(* A caller of QueueSync gets out, although semaphore_signal_all may find it  *)
(* not yet waiting: the timeout makes it look again (WC_TaskQueue.cpp:199).   *)
(* Every notification queued from an IO thread is sent, and the task object   *)
(* goes back to the free list, unless the queue is destroyed.                 *)
TasksComplete ==
    /\ \A t \in SyncCaller : pc[t] = "signal" ~> pc[t] = "idle"
    /\ \A k \in AsyncTask :
          k \in ToSet(tasks["NonRT"]) ~> k \in freeList \/ destructor # "alive"
=============================================================================

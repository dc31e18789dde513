--------------------------- MODULE TaskQueueProofs ---------------------------
(***************************************************************************)
(* Theorems about TaskQueue, for any threads, tasks and bound: types, no   *)
(* lost wakeup, every task in one place, and the refinement of TaskOrder.  *)
(***************************************************************************)
EXTENDS TaskQueue, SequenceTheorems, FiniteSetTheorems, TLAPS

-----------------------------------------------------------------------------
(* Sequences without repetitions. *)

(* The places of a concatenation. *)
LEMMA ConcatParts ==
  ASSUME NEW S, NEW s \in Seq(S), NEW t \in Seq(S)
  PROVE  /\ s \o t \in Seq(S) /\ Len(s \o t) = Len(s) + Len(t)
         /\ Len(s) \in Nat /\ Len(t) \in Nat
         /\ DOMAIN s = 1..Len(s) /\ DOMAIN t = 1..Len(t)
         /\ DOMAIN (s \o t) = 1..(Len(s) + Len(t))
         /\ \A i \in 1..Len(s) : (s \o t)[i] = s[i]
         /\ \A i \in 1..(Len(s) + Len(t)) : i > Len(s) => (s \o t)[i] = t[i - Len(s)]
<1>1. /\ s \o t \in Seq(S) /\ Len(s \o t) = Len(s) + Len(t)
      /\ Len(s) \in Nat /\ Len(t) \in Nat
      /\ DOMAIN s = 1..Len(s) /\ DOMAIN t = 1..Len(t)
  BY ConcatProperties, LenProperties
<1>2. DOMAIN (s \o t) = 1..(Len(s) + Len(t))
  BY <1>1, LenProperties
<1>3. \A i \in 1..(Len(s) + Len(t)) :
         (s \o t)[i] = IF i <= Len(s) THEN s[i] ELSE t[i - Len(s)]
  BY ConcatProperties
<1>4. QED
  BY <1>1, <1>2, <1>3

(* Concatenation, element by element. *)
LEMMA ConcatSet ==
  ASSUME NEW S, NEW s \in Seq(S), NEW t \in Seq(S)
  PROVE  ToSet(s \o t) = ToSet(s) \cup ToSet(t)
<1>1. /\ Len(s) \in Nat /\ Len(t) \in Nat
      /\ DOMAIN s = 1..Len(s) /\ DOMAIN t = 1..Len(t)
      /\ DOMAIN (s \o t) = 1..(Len(s) + Len(t))
      /\ \A i \in 1..Len(s) : (s \o t)[i] = s[i]
      /\ \A i \in 1..(Len(s) + Len(t)) : i > Len(s) => (s \o t)[i] = t[i - Len(s)]
  BY ConcatParts
<1>2. ASSUME NEW i \in 1..Len(s) PROVE s[i] \in ToSet(s \o t)
  BY <1>1 DEF ToSet
<1>3. ASSUME NEW i \in 1..Len(t) PROVE t[i] \in ToSet(s \o t)
  <2>1. Len(s) + i \in 1..(Len(s) + Len(t)) /\ (s \o t)[Len(s) + i] = t[i]
    BY <1>1
  <2>2. QED
    BY <1>1, <2>1 DEF ToSet
<1>4. ASSUME NEW i \in 1..(Len(s) + Len(t))
      PROVE  (s \o t)[i] \in ToSet(s) \/ (s \o t)[i] \in ToSet(t)
  <2>1. CASE i <= Len(s)
    BY <1>1, <2>1 DEF ToSet
  <2>2. CASE ~(i <= Len(s))
    <3>1. i - Len(s) \in 1..Len(t) /\ (s \o t)[i] = t[i - Len(s)]
      BY <1>1, <2>2
    <3>2. QED
      BY <1>1, <3>1 DEF ToSet
  <2>3. QED
    BY <2>1, <2>2
<1>5. ToSet(s \o t) \subseteq ToSet(s) \cup ToSet(t)
  <2>1. ToSet(s \o t) = {(s \o t)[i] : i \in 1..(Len(s) + Len(t))}
    BY <1>1 DEF ToSet
  <2>2. QED
    BY <1>4, <2>1
<1>6. ToSet(s) \cup ToSet(t) \subseteq ToSet(s \o t)
  <2>1. ToSet(s) = {s[i] : i \in 1..Len(s)} /\ ToSet(t) = {t[i] : i \in 1..Len(t)}
    BY <1>1 DEF ToSet
  <2>2. QED
    BY <1>2, <1>3, <2>1
<1>7. QED
  BY <1>5, <1>6

(* A new element at the end. *)
LEMMA AppendSet ==
  ASSUME NEW S, NEW s \in Seq(S), NEW k \in S
  PROVE  /\ ToSet(Append(s, k)) = ToSet(s) \cup {k}
         /\ IsInjective(s) /\ k \notin ToSet(s) => IsInjective(Append(s, k))
<1>1. /\ Append(s, k) \in Seq(S) /\ Len(Append(s, k)) = Len(s) + 1
      /\ DOMAIN s = 1..Len(s) /\ DOMAIN Append(s, k) = 1..(Len(s) + 1)
      /\ \A i \in 1..Len(s) : Append(s, k)[i] = s[i]
      /\ Append(s, k)[Len(s) + 1] = k
      /\ Len(s) \in Nat
  BY AppendProperties, LenProperties
<1>2. ToSet(Append(s, k)) = ToSet(s) \cup {k}
  <2>1. ToSet(s) = {s[i] : i \in 1..Len(s)}
    BY <1>1 DEF ToSet
  <2>2. ToSet(Append(s, k)) = {Append(s, k)[i] : i \in 1..(Len(s) + 1)}
    BY <1>1 DEF ToSet
  <2>3. 1..(Len(s) + 1) = 1..Len(s) \cup {Len(s) + 1}
    BY <1>1
  <2>4. QED
    BY <1>1, <2>1, <2>2, <2>3
<1>3. ASSUME IsInjective(s), k \notin ToSet(s)
      PROVE  IsInjective(Append(s, k))
  BY <1>1, <1>3 DEF ToSet, IsInjective
<1>4. QED
  BY <1>2, <1>3

(* The first element gone. *)
LEMMA TailSet ==
  ASSUME NEW S, NEW s \in Seq(S), s # <<>>, IsInjective(s)
  PROVE  /\ IsInjective(Tail(s)) /\ Head(s) \in ToSet(s)
         /\ ToSet(Tail(s)) = ToSet(s) \ {Head(s)}
<1>1. /\ Tail(s) \in Seq(S) /\ Len(Tail(s)) = Len(s) - 1
      /\ Len(s) \in Nat \ {0}
      /\ DOMAIN s = 1..Len(s) /\ DOMAIN Tail(s) = 1..(Len(s) - 1)
      /\ \A i \in 1..(Len(s) - 1) : Tail(s)[i] = s[i + 1]
      /\ Head(s) = s[1]
  BY HeadTailProperties, LenProperties, EmptySeq
<1>2. IsInjective(Tail(s)) /\ Head(s) \in ToSet(s)
  BY <1>1 DEF ToSet, IsInjective
<1>3. \A x \in ToSet(Tail(s)) : x \in ToSet(s) /\ x # Head(s)
  BY <1>1 DEF ToSet, IsInjective
<1>4. \A x \in ToSet(s) : x # Head(s) => x \in ToSet(Tail(s))
  <2> SUFFICES ASSUME NEW i \in 1..Len(s), s[i] # s[1]
               PROVE  s[i] \in ToSet(Tail(s))
    BY <1>1 DEF ToSet
  <2>1. i - 1 \in 1..(Len(s) - 1) /\ Tail(s)[i - 1] = s[i]
    BY <1>1
  <2>2. QED
    BY <1>1, <2>1 DEF ToSet
<1>5. QED
  BY <1>2, <1>3, <1>4

(* The parts of a sequence without repetitions have none, and no element in *)
(* common.                                                                  *)
LEMMA PartsApart ==
  ASSUME NEW S, NEW s \in Seq(S), NEW t \in Seq(S), IsInjective(s \o t)
  PROVE  IsInjective(s) /\ ToSet(s) \cap ToSet(t) = {}
<1>1. /\ Len(s) \in Nat /\ Len(t) \in Nat
      /\ DOMAIN s = 1..Len(s) /\ DOMAIN t = 1..Len(t)
      /\ DOMAIN (s \o t) = 1..(Len(s) + Len(t))
      /\ \A i \in 1..Len(s) : (s \o t)[i] = s[i]
      /\ \A i \in 1..(Len(s) + Len(t)) : i > Len(s) => (s \o t)[i] = t[i - Len(s)]
  BY ConcatParts
<1>2. \A i, j \in 1..(Len(s) + Len(t)) : (s \o t)[i] = (s \o t)[j] => i = j
  BY <1>1 DEF IsInjective
<1>3. IsInjective(s)
  BY <1>1, <1>2 DEF IsInjective
<1>4. ASSUME NEW i \in 1..Len(s), NEW j \in 1..Len(t)
      PROVE  s[i] # t[j]
  <2>1. /\ i \in 1..(Len(s) + Len(t)) /\ Len(s) + j \in 1..(Len(s) + Len(t))
        /\ i # Len(s) + j
        /\ (s \o t)[i] = s[i] /\ (s \o t)[Len(s) + j] = t[j]
    BY <1>1
  <2>2. QED
    BY <1>2, <2>1
<1>5. QED
  BY <1>1, <1>3, <1>4 DEF ToSet

(* Appending to a sequence in two parts. *)
LEMMA AppendToParts ==
  ASSUME NEW S, NEW s \in Seq(S), NEW t \in Seq(S), NEW k \in S
  PROVE  s \o Append(t, k) = Append(s \o t, k)
<1>1. /\ Append(t, k) = t \o <<k>> /\ <<k>> \in Seq(S)
      /\ Append(s \o t, k) = (s \o t) \o <<k>>
  BY AppendIsConcat, ConcatProperties
<1>2. QED
  BY <1>1, ConcatAssociative

(* Taking the first element from a sequence in two parts. *)
LEMMA TailOfParts ==
  ASSUME NEW S, NEW s \in Seq(S), NEW t \in Seq(S), s # <<>>
  PROVE  /\ s \o t # <<>> /\ Head(s \o t) = Head(s)
         /\ Tail(s \o t) = Tail(s) \o t
<1>1. /\ s \o t \in Seq(S) /\ Len(s \o t) = Len(s) + Len(t)
      /\ Len(s) \in Nat \ {0} /\ Len(t) \in Nat
      /\ s \o t # <<>>
  BY ConcatProperties, LenProperties, EmptySeq, ConcatEqualIffEmpty
<1>2. Head(s \o t) = Head(s)
  BY <1>1, ConcatProperties
<1>3. /\ Tail(s) \in Seq(S) /\ Len(Tail(s)) = Len(s) - 1
      /\ \A i \in 1..Len(Tail(s)) : Tail(s)[i] = s[i + 1]
  BY HeadTailProperties
<1>4. /\ Tail(s) \o t \in Seq(S) /\ Len(Tail(s) \o t) = Len(s) - 1 + Len(t)
      /\ \A i \in 1..(Len(s) - 1 + Len(t)) :
            (Tail(s) \o t)[i] = IF i <= Len(s) - 1 THEN Tail(s)[i] ELSE t[i - (Len(s) - 1)]
  BY <1>1, <1>3, ConcatProperties
<1>5. /\ Tail(s \o t) \in Seq(S) /\ Len(Tail(s \o t)) = Len(s) + Len(t) - 1
      /\ \A i \in 1..Len(Tail(s \o t)) : Tail(s \o t)[i] = (s \o t)[i + 1]
  BY <1>1, HeadTailProperties
<1>6. ASSUME NEW i \in 1..(Len(s) + Len(t) - 1)
      PROVE  Tail(s \o t)[i] = (Tail(s) \o t)[i]
  <2>1. Tail(s \o t)[i] = IF i + 1 <= Len(s) THEN s[i + 1] ELSE t[i + 1 - Len(s)]
    BY <1>1, <1>5, ConcatProperties
  <2>2. CASE i + 1 <= Len(s)
    BY <2>1, <2>2, <1>1, <1>3, <1>4
  <2>3. CASE ~(i + 1 <= Len(s))
    BY <2>1, <2>3, <1>1, <1>3, <1>4
  <2>4. QED
    BY <2>2, <2>3
<1>7. QED
  BY <1>1, <1>2, <1>4, <1>5, <1>6, SeqEqual

-----------------------------------------------------------------------------
(* The inductive invariant. *)

\* The tasks a worker has fetched, then those it will fetch.
Line(q) == batch[q] \o tasks[q]

Types ==
  /\ tasks \in [Queue -> Seq(Task)] /\ batch \in [Queue -> Seq(Task)]
  /\ workQueued \in [Queue -> Nat]
  /\ freeList \subseteq AsyncTask /\ heap \subseteq Heap
  /\ pc \in [Thread -> {"idle", "push", "signal", "check", "enter", "wait"}]
  /\ held \in [AsyncCaller -> AsyncTask \cup {None}]
  /\ on \in [SyncTask -> Queue]
  /\ complete \in [SyncTask -> BOOLEAN]
  /\ workerPC \in [Queue -> {"waiting", "fetch", "loop", "processed", "signalAll", "stopped"}]
  /\ stop \in [Queue -> BOOLEAN]
  /\ destructor \in {"alive", "destroyed"} \cup Queue

\* Where a worker stands, against what it has fetched.
Fetched ==
  \A q \in Queue : /\ workerPC[q] \in {"waiting", "fetch"} => batch[q] = <<>>
                   /\ workerPC[q] \in {"loop", "processed"} => batch[q] # <<>>

\* Every call still to signal has room to.
SignalsFit == \A q \in Queue : workQueued[q] + Cardinality(Signalling(q)) <= MaxSignals

\* Tasks on the stack have been signalled, or will be.
Signalled ==
  \A q \in Queue : workerPC[q] # "fetch" /\ tasks[q] # <<>> =>
    workQueued[q] > 0 \/ \E t \in Thread : pc[t] = "signal" /\ Target(t) = q

\* A task in line has its owner waiting, or is in no other place.
Owned ==
  \A q \in Queue : \A k \in ToSet(Line(q)) :
    /\ k \in SyncTask =>
         on[k] = q /\ pc[k] \in {"signal", "check", "enter", "wait"} /\ ~complete[k]
    /\ k \in AsyncTask =>
         q = "NonRT" /\ k \notin freeList \cup heap /\ \A a \in AsyncCaller : held[a] # k

Once == \A q \in Queue : IsInjective(Line(q))

\* The objects that are not in line.
Objects ==
  /\ freeList \cap heap = {}
  /\ \A t \in Thread : pc[t] = "push" => t \in AsyncCaller /\ held[t] \in AsyncTask
  /\ \A a \in AsyncCaller : held[a] \notin freeList \cup heap
  /\ \A a, b \in AsyncCaller : held[a] \in AsyncTask /\ held[a] = held[b] => a = b

\* The destructor's calls come after all others.
Stopping ==
  /\ destructor = "alive" => \A d \in Destructor : pc[d] = "idle"
  /\ destructor # "alive" => \A s \in SyncCaller : pc[s] = "idle"
  /\ destructor = "destroyed" => \A a \in AsyncCaller : pc[a] = "idle"
  /\ stop["RT"] \/ workerPC["RT"] = "stopped" => destructor # "alive"
  /\ \/ workerPC["RT"] = "signalAll" /\ stop["RT"]
     \/ workerPC["RT"] = "stopped"
     => Line("RT") = <<>>

IInv == /\ Types /\ Fetched /\ SignalsFit /\ Signalled
        /\ Owned /\ Once /\ Objects /\ Stopping

(* A synchronous caller's task is another thing than an asynchronous task,  *)
(* and neither is nothing.                                                  *)
LEMMA Kinds ==
  /\ \A k \in Task : k # None
  /\ \A k : ~(k \in SyncTask /\ k \in AsyncTask)
  /\ \A k : ~(k \in SyncTask /\ k \in AsyncCaller)
  /\ Heap \subseteq AsyncTask /\ SyncTask \subseteq Thread /\ AsyncCaller \subseteq Thread
  /\ SyncTask \subseteq Task /\ AsyncTask \subseteq Task
  /\ Task = SyncTask \cup AsyncTask /\ Thread = SyncTask \cup AsyncCaller
  /\ SyncTask = SyncCaller \cup Destructor
BY DistinctAssumption DEF Task, AsyncTask, SyncTask, Thread

(* The lines are sequences of tasks; what is pending is what is in line. *)
LEMMA Lines ==
  ASSUME Types, NEW q \in Queue
  PROVE  /\ tasks[q] \in Seq(Task) /\ batch[q] \in Seq(Task)
         /\ Line(q) \in Seq(Task)
         /\ ToSet(Line(q)) = Pending(q)
         /\ ToSet(Line(q)) \subseteq Task
<1>1. tasks[q] \in Seq(Task) /\ batch[q] \in Seq(Task)
  BY DEF Types
<1>2. Line(q) \in Seq(Task) /\ ToSet(Line(q)) = Pending(q)
  BY <1>1, ConcatProperties, ConcatSet DEF Line, Pending
<1>3. ToSet(Line(q)) \subseteq Task
  BY <1>2, LenProperties, ElementOfSeq DEF ToSet
<1>4. QED
  BY <1>1, <1>2, <1>3

(* The invariant holds of the initial states. *)
LEMMA IInvInit == Init => IInv
<1> SUFFICES ASSUME Init PROVE IInv
  OBVIOUS
<1>1. Types
  <2>1. <<>> \in Seq(Task) /\ "RT" \in Queue /\ Preallocated \subseteq AsyncTask
    BY EmptySeq DEF Queue, AsyncTask
  <2>2. complete \in [SyncTask -> BOOLEAN] /\ stop \in [Queue -> BOOLEAN]
    BY Zenon DEF Init
  <2>3. /\ tasks \in [Queue -> Seq(Task)] /\ batch \in [Queue -> Seq(Task)]
        /\ workQueued \in [Queue -> Nat] /\ on \in [SyncTask -> Queue]
    BY <2>1 DEF Init
  <2>4. QED
    BY <2>1, <2>2, <2>3 DEF Init, Types
<1>2. \A q \in Queue : Line(q) = <<>> /\ ToSet(Line(q)) = {} /\ IsInjective(Line(q))
  <2>1. \A q \in Queue : Line(q) = <<>>
    BY ConcatEmptySeq, EmptySeq DEF Init, Line
  <2>2. DOMAIN <<>> = {}
    OBVIOUS
  <2>3. QED
    BY <2>1, <2>2 DEF ToSet, IsInjective
<1>3. Fetched /\ Signalled
  BY DEF Init, Fetched, Signalled
<1>4. SignalsFit
  <2>1. \A q \in Queue : Signalling(q) = {}
    BY DEF Init, Signalling
  <2>2. \A q \in Queue : workQueued[q] = 0
    BY DEF Init
  <2>3. Cardinality({}) = 0 /\ MaxSignals \in Nat
    BY FS_EmptySet, BoundAssumption
  <2>4. QED
    BY <2>1, <2>2, <2>3 DEF SignalsFit
<1>5. Owned /\ Once
  BY <1>2 DEF Owned, Once
<1>6. Objects
  <2>1. Preallocated \cap Heap = {} /\ Preallocated \cup Heap \subseteq AsyncTask
    BY DistinctAssumption DEF AsyncTask
  <2>2. None \notin AsyncTask
    BY Kinds
  <2>3. /\ freeList = Preallocated /\ heap = Heap
        /\ \A a \in AsyncCaller : held[a] = None
        /\ \A t \in Thread : pc[t] = "idle"
    BY DEF Init
  <2>4. QED
    BY <2>1, <2>2, <2>3 DEF Objects
<1>7. Stopping
  BY DEF Init, Stopping, Thread, SyncTask, Queue
<1>8. QED
  BY <1>1, <1>3, <1>4, <1>5, <1>6, <1>7 DEF IInv

-----------------------------------------------------------------------------
(* Every step keeps the invariant: first what it does to the lines. *)

\* The steps that leave the lines alone.
OtherCall(t) ==
  \/ SignalWork(t) \/ CheckComplete(t) \/ SemaphoreWait(t) \/ TimedOut(t)
  \/ PopFreeTask(t) \/ SignalAsync(t)

(* Next, with the steps grouped. *)
LEMMA Steps ==
  ASSUME Next
  PROVE  \/ \E t \in SyncCaller : QueueSync(t)
         \/ \E t \in Destructor : StopWorker(t) \/ Destroy(t)
         \/ \E t \in Thread : OtherCall(t) \/ PushAsync(t)
         \/ \E q \in Queue : Worker(q)
<1>2. CASE \E t \in AsyncCaller : PopFreeTask(t)
  BY <1>2 DEF OtherCall, Thread
<1>3. CASE \E t \in Thread : Caller(t)
  BY <1>3 DEF Caller, OtherCall
<1>4. QED
  BY <1>2, <1>3 DEF Next

(* The same, of tasks. *)
LEMMA TaskAppended ==
  \A s, t \in Seq(Task), k \in Task : s \o Append(t, k) = Append(s \o t, k)
BY AppendToParts

(* A synchronous caller joins a line. *)
LEMMA SyncJoins ==
  ASSUME IInv, NEW t \in SyncTask, NEW q \in Queue, PushSync(t, q)
  PROVE  /\ Line(q)' = Append(Line(q), t)
         /\ \A r \in Queue \ {q} : Line(r)' = Line(r)
         /\ UNCHANGED batch
<1>1. /\ tasks' = [tasks EXCEPT ![q] = Append(@, t)] /\ batch' = batch
      /\ tasks \in [Queue -> Seq(Task)] /\ t \in Task
  BY Kinds DEF PushSync, workers, IInv, Types
<1>2. batch[q] \o Append(tasks[q], t) = Append(batch[q] \o tasks[q], t)
  <2>1. tasks[q] \in Seq(Task) /\ batch[q] \in Seq(Task) /\ t \in Task
    BY Kinds DEF IInv, Types
  <2>2. QED
    BY <2>1, TaskAppended
<1>3. QED
  BY <1>1, <1>2 DEF Line

(* An asynchronous caller's object joins a line. *)
LEMMA AsyncJoins ==
  ASSUME IInv, NEW t \in AsyncCaller, PushAsync(t)
  PROVE  /\ held[t] \in AsyncTask
         /\ Line("NonRT")' = Append(Line("NonRT"), held[t])
         /\ Line("RT")' = Line("RT")
         /\ UNCHANGED batch
<1>1. /\ tasks' = [tasks EXCEPT !["NonRT"] = Append(@, held[t])] /\ batch' = batch
      /\ tasks \in [Queue -> Seq(Task)] /\ held[t] \in AsyncTask /\ held[t] \in Task
      /\ "NonRT" \in Queue /\ "RT" \in Queue
  BY Kinds DEF PushAsync, workers, IInv, Types, Objects, Queue
<1>2. batch["NonRT"] \o Append(tasks["NonRT"], held[t]) = Append(batch["NonRT"] \o tasks["NonRT"], held[t])
  <2>1. tasks["NonRT"] \in Seq(Task) /\ batch["NonRT"] \in Seq(Task)
    BY <1>1 DEF IInv, Types
  <2>2. QED
    BY <1>1, <2>1, TaskAppended
<1>3. QED
  BY <1>1, <1>2 DEF Line

(* A worker moves tasks within the line, or has finished with the first.    *)
LEMMA WorkerMoves ==
  ASSUME IInv, NEW q \in Queue, Worker(q)
  PROVE  /\ \A r \in Queue \ {q} : Line(r)' = Line(r)
         /\ WaitForWork(q) \/ Fetch(q) \/ Process(q) \/ SignalAll(q) => Line(q)' = Line(q)
         /\ workerPC[q] \in {"loop", "processed"} =>
              /\ Line(q) # <<>> /\ Head(Line(q)) = Head(batch[q])
              /\ Tail(Line(q)) = Tail(batch[q]) \o tasks[q]
              /\ Head(batch[q]) \in Task
         /\ MarkCompleted(q) \/ Recycle(q) => Line(q)' = Tail(Line(q))
<1> USE DEF IInv, Types
<1>1. tasks[q] \in Seq(Task) /\ batch[q] \in Seq(Task)
  OBVIOUS
<1>2. \A r \in Queue \ {q} : Line(r)' = Line(r)
  BY DEF Worker, WaitForWork, Fetch, Process, MarkCompleted, SignalAll, Recycle, Line
<1>3. WaitForWork(q) \/ Process(q) \/ SignalAll(q) => Line(q)' = Line(q)
  BY DEF WaitForWork, Process, SignalAll, Line
<1>4. ASSUME Fetch(q) PROVE Line(q)' = Line(q)
  <2>1. batch[q] = <<>> /\ batch'[q] = tasks[q] /\ tasks'[q] = <<>>
    BY <1>4 DEF Fetch, Fetched
  <2>2. QED
    BY <1>1, <2>1, ConcatEmptySeq DEF Line
<1>5. ASSUME workerPC[q] \in {"loop", "processed"}
      PROVE  /\ Line(q) # <<>> /\ Head(Line(q)) = Head(batch[q])
             /\ Tail(Line(q)) = Tail(batch[q]) \o tasks[q]
             /\ Head(batch[q]) \in Task
  BY <1>1, <1>5, TailOfParts, HeadTailProperties DEF Fetched, Line
<1>6. MarkCompleted(q) \/ Recycle(q) => Line(q)' = Tail(batch[q]) \o tasks[q]
  BY DEF MarkCompleted, Recycle, Line
<1>7. QED
  BY <1>2, <1>3, <1>4, <1>5, <1>6 DEF MarkCompleted, Recycle

(* Every step keeps the types, and the workers where they should be. *)
LEMMA TypesKept ==
  ASSUME IInv, Next
  PROVE  Types' /\ Fetched'
<1> USE DEF IInv, Types, callers, workers
<1>1. ASSUME NEW t \in SyncTask, NEW q \in Queue, PushSync(t, q), destructor' \in Queue \cup {destructor}
      PROVE  Types' /\ Fetched'
  <2>1. Append(tasks[q], t) \in Seq(Task)
    BY Kinds, AppendProperties
  <2>2. QED
    BY <1>1, <2>1, Kinds DEF PushSync, Goto, Fetched
<1>2. ASSUME NEW t \in Thread, OtherCall(t)
      PROVE  Types' /\ Fetched'
  <2>1. UNCHANGED <<tasks, batch, on, complete, workerPC, stop, destructor>>
    BY <1>2 DEF OtherCall, SignalWork, CheckComplete, SemaphoreWait, TimedOut, PopFreeTask, SignalAsync
  <2>2. workQueued' \in [Queue -> Nat]
    <3>1. \/ workQueued' = workQueued
          \/ \E q \in Queue : workQueued' = [workQueued EXCEPT ![q] = @ + 1]
      <4>1. "NonRT" \in Queue /\ \A k \in SyncTask : on[k] \in Queue
        BY DEF Queue
      <4>2. QED
        BY <1>2, <4>1, Zenon DEF OtherCall, SignalWork, CheckComplete, SemaphoreWait, TimedOut, PopFreeTask, SignalAsync
    <3>2. workQueued \in [Queue -> Nat]
      OBVIOUS
    <3>3. ASSUME NEW q \in Queue, workQueued' = [workQueued EXCEPT ![q] = @ + 1]
          PROVE  workQueued' \in [Queue -> Nat]
      BY <3>2, <3>3
    <3>4. QED
      BY <3>1, <3>2, <3>3
  <2>3. /\ freeList' \subseteq AsyncTask /\ heap' \subseteq Heap
        /\ held' \in [AsyncCaller -> AsyncTask \cup {None}]
    BY <1>2, Kinds DEF OtherCall, SignalWork, CheckComplete, SemaphoreWait, TimedOut, PopFreeTask, SignalAsync
  <2>4. pc' \in [Thread -> {"idle", "push", "signal", "check", "enter", "wait"}]
    BY <1>2 DEF OtherCall, SignalWork, CheckComplete, SemaphoreWait, TimedOut, PopFreeTask, SignalAsync, Goto
  <2>5. QED
    BY <2>1, <2>2, <2>3, <2>4 DEF Fetched
<1>3. ASSUME NEW t \in Thread, PushAsync(t)
      PROVE  Types' /\ Fetched'
  <2>1. held[t] \in AsyncTask /\ t \in AsyncCaller
    BY <1>3 DEF PushAsync, Objects
  <2>2. Append(tasks["NonRT"], held[t]) \in Seq(Task)
    BY <2>1, Kinds, AppendProperties DEF Queue
  <2>3. QED
    BY <1>3, <2>1, <2>2 DEF PushAsync, Goto, Fetched
<1>4. ASSUME NEW q \in Queue, Worker(q)
      PROVE  Types' /\ Fetched'
  <2> USE DEF At, AfterTask, Fetched
  <2>1. CASE WaitForWork(q)
    <3>1. UNCHANGED <<tasks, freeList, heap, pc, held, on, complete, batch, stop, destructor>>
      BY <2>1 DEF WaitForWork
    <3>2. workQueued' \in [Queue -> Nat]
      BY <2>1 DEF WaitForWork
    <3>3. /\ workerPC' = [workerPC EXCEPT ![q] = "fetch"] /\ workerPC[q] = "waiting"
      BY <2>1 DEF WaitForWork
    <3>4. QED
      BY <3>1, <3>2, <3>3
  <2>2. CASE Fetch(q)
    <3>1. <<>> \in Seq(Task)
      BY EmptySeq
    <3>2. QED
      BY <2>2, <3>1 DEF Fetch
  <2>3. CASE Process(q)
    <3>1. UNCHANGED <<tasks, workQueued, freeList, heap, pc, held, on, complete, batch, destructor>>
      BY <2>3 DEF Process
    <3>2. stop' \in [Queue -> BOOLEAN]
      <4> DEFINE stops == Head(batch[q]) \in Destructor
      <4>1. stop' = [stop EXCEPT ![q] = stops]
        BY <2>3, Zenon DEF Process
      <4>2. stops \in BOOLEAN
        OBVIOUS
      <4> HIDE DEF stops
      <4>3. QED
        BY <4>1, <4>2, Zenon
    <3>3. workerPC' = [workerPC EXCEPT ![q] = "processed"] /\ workerPC[q] = "loop"
      BY <2>3 DEF Process
    <3>4. QED
      BY <3>1, <3>2, <3>3
  <2>4. ASSUME MarkCompleted(q) \/ Recycle(q)
        PROVE  Head(batch[q]) \in Task /\ Tail(batch[q]) \in Seq(Task) /\ batch[q] # <<>>
    BY <2>4, HeadTailProperties DEF MarkCompleted, Recycle
  <2>5. CASE MarkCompleted(q)
    BY <2>4, <2>5 DEF MarkCompleted
  <2>6. CASE SignalAll(q)
    BY <2>6 DEF SignalAll
  <2>7. CASE Recycle(q)
    BY <2>4, <2>7 DEF Recycle
  <2>8. QED
    BY <1>4, <2>1, <2>2, <2>3, <2>5, <2>6, <2>7 DEF Worker
<1>5. ASSUME NEW t \in Destructor, Destroy(t)
      PROVE  Types' /\ Fetched'
  BY <1>5, EmptySeq DEF Destroy, Fetched, Queue
<1>6. QED
  BY <1>1, <1>2, <1>3, <1>4, <1>5, Steps, Kinds DEF QueueSync, StopWorker, Queue

(* The callers that have still to signal are finitely many. *)
LEMMA SignallingFinite ==
  \A q \in Queue : IsFiniteSet(Signalling(q)) /\ Cardinality(Signalling(q)) \in Nat
<1>1. ASSUME NEW q \in Queue PROVE Signalling(q) \subseteq Thread
  BY DEF Signalling
<1>2. QED
  BY <1>1, FS_Subset, FS_CardinalityType, BoundAssumption

(* A caller begins a call for which there is room. *)
LEMMA OneMoreFits ==
  ASSUME IInv, NEW t \in Thread, NEW q \in Queue, Room(q), UNCHANGED workQueued,
         Signalling(q)' = Signalling(q) \cup {t},
         \A r \in Queue \ {q} : Signalling(r)' = Signalling(r)
  PROVE  SignalsFit'
<1>1. Cardinality(Signalling(q)') <= Cardinality(Signalling(q)) + 1
  BY SignallingFinite, FS_AddElement
<1>2. /\ Cardinality(Signalling(q)') \in Nat /\ Cardinality(Signalling(q)) \in Nat
      /\ workQueued[q] \in Nat /\ MaxSignals \in Nat
  BY SignallingFinite, FS_AddElement, FS_CardinalityType, BoundAssumption DEF IInv, Types
<1>3. workQueued[q] + Cardinality(Signalling(q)') <= MaxSignals
  BY <1>1, <1>2 DEF Room
<1>4. QED
  BY <1>3 DEF SignalsFit, IInv

(* A caller signals. *)
LEMMA SignalFits ==
  ASSUME IInv, NEW q \in Queue, NEW t \in Signalling(q),
         workQueued' = [workQueued EXCEPT ![q] = @ + 1],
         Signalling(q)' = Signalling(q) \ {t},
         \A r \in Queue \ {q} : Signalling(r)' = Signalling(r)
  PROVE  SignalsFit'
<1>1. Cardinality(Signalling(q)') = Cardinality(Signalling(q)) - 1
  BY SignallingFinite, FS_RemoveElement
<1>2. /\ Cardinality(Signalling(q)) \in Nat
      /\ workQueued \in [Queue -> Nat] /\ MaxSignals \in Nat
  BY SignallingFinite, BoundAssumption DEF IInv, Types
<1>3. workQueued'[q] + Cardinality(Signalling(q)') <= MaxSignals
  BY <1>1, <1>2 DEF SignalsFit, IInv
<1>4. QED
  BY <1>2, <1>3 DEF SignalsFit, IInv

(* Every step keeps the room for the calls begun. *)
LEMMA SignalsKept ==
  ASSUME IInv, Next
  PROVE  SignalsFit'
<1> USE DEF Signalling, Target
<1>0. pc \in [Thread -> {"idle", "push", "signal", "check", "enter", "wait"}] /\ on \in [SyncTask -> Queue]
  BY DEF IInv, Types
<1>1. ASSUME NEW t \in SyncTask, NEW q \in Queue, PushSync(t, q)
      PROVE  SignalsFit'
  <2>1. /\ Room(q) /\ UNCHANGED workQueued /\ t \in Thread /\ pc[t] = "idle"
        /\ pc' = [pc EXCEPT ![t] = "signal"] /\ on' = [on EXCEPT ![t] = q]
    BY <1>1, Kinds DEF PushSync, Goto
  <2>2. /\ Signalling(q)' = Signalling(q) \cup {t}
        /\ \A r \in Queue \ {q} : Signalling(r)' = Signalling(r)
    BY <1>0, <2>1, Kinds
  <2>3. QED
    BY <2>1, <2>2, OneMoreFits
<1>2. ASSUME NEW t \in AsyncCaller, PopFreeTask(t)
      PROVE  SignalsFit'
  <2>1. /\ Room("NonRT") /\ UNCHANGED workQueued /\ t \in Thread /\ pc[t] = "idle"
        /\ pc' = [pc EXCEPT ![t] = "push"] /\ UNCHANGED on
    BY <1>2, Kinds DEF PopFreeTask, Goto
  <2>2. /\ Signalling("NonRT")' = Signalling("NonRT") \cup {t}
        /\ \A r \in Queue \ {"NonRT"} : Signalling(r)' = Signalling(r)
    BY <1>0, <2>1, Kinds
  <2>3. QED
    BY <2>1, <2>2, OneMoreFits DEF Queue
<1>3. ASSUME NEW t \in SyncTask, SignalWork(t)
      PROVE  SignalsFit'
  <2>0. PICK q \in Queue : q = on[t]
    BY <1>0
  <2>1. /\ workQueued' = [workQueued EXCEPT ![q] = @ + 1]
        /\ t \in Thread /\ pc[t] = "signal"
        /\ pc' = [pc EXCEPT ![t] = "check"] /\ UNCHANGED on
    BY <1>3, <2>0, Kinds DEF SignalWork, Goto
  <2>2. /\ t \in Signalling(q)
        /\ Signalling(q)' = Signalling(q) \ {t}
        /\ \A r \in Queue \ {q} : Signalling(r)' = Signalling(r)
    BY <1>0, <2>0, <2>1, Kinds
  <2>3. QED
    BY <2>1, <2>2, SignalFits
<1>4. ASSUME NEW t \in AsyncCaller, SignalAsync(t)
      PROVE  SignalsFit'
  <2>1. /\ workQueued' = [workQueued EXCEPT !["NonRT"] = @ + 1]
        /\ t \in Thread /\ pc[t] = "signal" /\ "NonRT" \in Queue
        /\ pc' = [pc EXCEPT ![t] = "idle"] /\ UNCHANGED on
    BY <1>4, Kinds DEF SignalAsync, Goto, Queue
  <2>2. /\ t \in Signalling("NonRT")
        /\ Signalling("NonRT")' = Signalling("NonRT") \ {t}
        /\ \A r \in Queue \ {"NonRT"} : Signalling(r)' = Signalling(r)
    BY <1>0, <2>1, Kinds
  <2>3. QED
    BY <2>1, <2>2, SignalFits
<1>5. ASSUME NEW t \in Thread, \/ CheckComplete(t) \/ SemaphoreWait(t) \/ TimedOut(t) \/ PushAsync(t)
      PROVE  SignalsFit'
  <2>1. UNCHANGED <<workQueued, on>>
    BY <1>5 DEF CheckComplete, SemaphoreWait, TimedOut, PushAsync
  <2>2. \A r \in Queue : Signalling(r)' = Signalling(r)
    BY <1>0, <1>5, Kinds DEF CheckComplete, SemaphoreWait, TimedOut, PushAsync, Goto
  <2>3. QED
    BY <2>1, <2>2 DEF SignalsFit, IInv
<1>6. ASSUME NEW q \in Queue, Worker(q)
      PROVE  SignalsFit'
  <2>1. UNCHANGED on /\ \A t \in Thread : pc'[t] \in {"push", "signal"} <=> pc[t] \in {"push", "signal"}
    BY <1>0, <1>6 DEF Worker, WaitForWork, Fetch, Process, MarkCompleted, SignalAll, Recycle, callers
  <2>2. \A r \in Queue : Signalling(r)' = Signalling(r)
    BY <2>1
  <2>3. workQueued \in [Queue -> Nat]
    BY DEF IInv, Types
  <2>4. \A r \in Queue : workQueued'[r] \in Nat /\ workQueued'[r] <= workQueued[r]
    BY <1>6, <2>3 DEF Worker, WaitForWork, Fetch, Process, MarkCompleted, SignalAll, Recycle
  <2>5. QED
    <3> SUFFICES ASSUME NEW r \in Queue
                 PROVE  workQueued'[r] + Cardinality(Signalling(r)') <= MaxSignals
      BY DEF SignalsFit
    <3>1. /\ workQueued[r] + Cardinality(Signalling(r)) <= MaxSignals
          /\ Cardinality(Signalling(r)) \in Nat /\ MaxSignals \in Nat
      BY SignallingFinite, BoundAssumption DEF SignalsFit, IInv
    <3> HIDE DEF Signalling
    <3>2. QED
      BY <2>2, <2>3, <2>4, <3>1
<1>7. ASSUME NEW t \in Destructor, Destroy(t)
      PROVE  SignalsFit'
  BY <1>7 DEF Destroy, callers, SignalsFit, IInv
<1>8. QED
  BY <1>1, <1>2, <1>3, <1>4, <1>5, <1>6, <1>7, Steps, Kinds
     DEF QueueSync, StopWorker, Queue, OtherCall, SignalWork, PopFreeTask, SignalAsync

(* Every step keeps what is on a stack signalled. *)
LEMMA SignalledKept ==
  ASSUME IInv, Next
  PROVE  Signalled'
<1> USE DEF Target, Signalled
<1>0. /\ pc \in [Thread -> {"idle", "push", "signal", "check", "enter", "wait"}] /\ on \in [SyncTask -> Queue]
      /\ workQueued \in [Queue -> Nat] 
      /\ workerPC \in [Queue -> {"waiting", "fetch", "loop", "processed", "signalAll", "stopped"}]
      /\ tasks \in [Queue -> Seq(Task)]
  BY DEF IInv, Types
<1>1. ASSUME NEW t \in SyncTask, NEW q \in Queue, PushSync(t, q)
      PROVE  Signalled'
  <2>1. /\ UNCHANGED <<workQueued, workerPC>> /\ t \in Thread /\ pc[t] = "idle"
        /\ pc' = [pc EXCEPT ![t] = "signal"] /\ on' = [on EXCEPT ![t] = q]
        /\ \A r \in Queue \ {q} : tasks'[r] = tasks[r]
    BY <1>0, <1>1, Kinds DEF PushSync, Goto, workers
  <2>2. pc'[t] = "signal" /\ Target(t)' = q
    BY <1>0, <2>1
  <2>3. ASSUME NEW r \in Queue \ {q}, NEW u \in Thread, pc[u] = "signal", Target(u) = r
        PROVE  pc'[u] = "signal" /\ Target(u)' = r
    BY <1>0, <2>1, <2>3
  <2>4. QED
    BY <2>1, <2>2, <2>3 DEF IInv
<1>2. ASSUME NEW t \in Thread, OtherCall(t)
      PROVE  Signalled'
  <2>1. UNCHANGED <<tasks, workerPC, on>>
    BY <1>2 DEF OtherCall, SignalWork, CheckComplete, SemaphoreWait, TimedOut, PopFreeTask,
                SignalAsync, workers
  <2>2. ASSUME NEW r \in Queue, workQueued[r] > 0 PROVE workQueued'[r] > 0
    <3>1. CASE SignalWork(t)
      BY <1>0, <2>2, <3>1 DEF SignalWork
    <3>2. CASE SignalAsync(t)
      BY <1>0, <2>2, <3>2 DEF SignalAsync
    <3>3. QED
      BY <1>2, <2>2, <3>1, <3>2 DEF OtherCall, CheckComplete, SemaphoreWait, TimedOut, PopFreeTask
  <2>3. ASSUME NEW r \in Queue, NEW u \in Thread, pc[u] = "signal", Target(u) = r
        PROVE  (pc'[u] = "signal" /\ Target(u)' = r) \/ workQueued'[r] > 0
    <3>1. CASE u = t
      BY <1>0, <1>2, <2>3, <3>1, Kinds
         DEF OtherCall, SignalWork, CheckComplete, SemaphoreWait, TimedOut, PopFreeTask, SignalAsync
    <3>2. CASE u # t
      BY <1>0, <1>2, <2>1, <2>3, <3>2
         DEF OtherCall, SignalWork, CheckComplete, SemaphoreWait, TimedOut, PopFreeTask, SignalAsync, Goto
    <3>3. QED
      BY <3>1, <3>2
  <2>4. QED
    BY <2>1, <2>2, <2>3 DEF IInv
<1>3. ASSUME NEW t \in Thread, PushAsync(t)
      PROVE  Signalled'
  <2>1. /\ UNCHANGED <<workQueued, workerPC, on>> /\ t \in AsyncCaller
        /\ pc[t] = "push" /\ pc' = [pc EXCEPT ![t] = "signal"]
        /\ \A r \in Queue \ {"NonRT"} : tasks'[r] = tasks[r]
    BY <1>0, <1>3 DEF PushAsync, Goto, workers
  <2>2. pc'[t] = "signal" /\ Target(t)' = "NonRT"
    BY <1>0, <2>1, Kinds
  <2>3. ASSUME NEW u \in Thread, pc[u] = "signal"
        PROVE  pc'[u] = "signal" /\ Target(u)' = Target(u)
    BY <1>0, <2>1, <2>3
  <2>4. QED
    BY <2>1, <2>2, <2>3 DEF IInv
<1>4. ASSUME NEW q \in Queue, Worker(q)
      PROVE  Signalled'
  <2>1. UNCHANGED on /\ \A t \in Thread : pc[t] = "signal" => pc'[t] = "signal"
    BY <1>0, <1>4 DEF Worker, WaitForWork, Fetch, Process, MarkCompleted, SignalAll, Recycle, callers
  <2>2. \A r \in Queue \ {q} : UNCHANGED <<workQueued[r], tasks[r], workerPC[r]>>
    BY <1>0, <1>4 DEF Worker, WaitForWork, Fetch, Process, MarkCompleted, SignalAll, Recycle, At
  <2>3. \/ workerPC'[q] = "fetch"
        \/ tasks'[q] = <<>>
        \/ workerPC[q] # "fetch" /\ UNCHANGED <<workQueued[q], tasks[q]>>
    BY <1>0, <1>4 DEF Worker, WaitForWork, Fetch, Process, MarkCompleted, SignalAll, Recycle, At
  <2>4. QED
    BY <2>1, <2>2, <2>3 DEF IInv
<1>5. ASSUME NEW t \in Destructor, Destroy(t)
      PROVE  Signalled'
  BY <1>0, <1>5 DEF Destroy, callers, workers, IInv, Queue
<1>6. QED
  BY <1>1, <1>2, <1>3, <1>4, <1>5, Steps, Kinds DEF QueueSync, StopWorker, Queue

(* The call steps leave the lines alone. *)
LEMMA OtherCallsStay ==
  ASSUME NEW t \in Thread, OtherCall(t)
  PROVE  /\ \A q \in Queue : Line(q)' = Line(q)
         /\ UNCHANGED <<tasks, batch, on, complete, workers, destructor>>
BY DEF OtherCall, SignalWork, CheckComplete, SemaphoreWait, TimedOut, PopFreeTask, SignalAsync, Line, workers

(* A destroyed queue has in line only what the workers had fetched. *)
LEMMA DestroyDrops ==
  ASSUME IInv, NEW t \in Destructor, Destroy(t)
  PROVE  /\ Line("RT")' = Line("RT") /\ Line("NonRT")' = batch["NonRT"]
         /\ ToSet(batch["NonRT"]) \subseteq ToSet(Line("NonRT"))
         /\ IsInjective(batch["NonRT"])
         /\ ToSet(batch["NonRT"]) \cap ToSet(tasks["NonRT"]) = {}
<1> USE DEF IInv
<1>1. /\ tasks \in [Queue -> Seq(Task)] /\ batch \in [Queue -> Seq(Task)]
      /\ "RT" \in Queue /\ "NonRT" \in Queue
  BY DEF Types, Queue
<1>2. /\ tasks' = [tasks EXCEPT !["NonRT"] = <<>>] /\ batch' = batch
  BY DEF Destroy, workers
<1>3. Line("RT")' = Line("RT") /\ Line("NonRT")' = batch["NonRT"] \o <<>>
  BY <1>1, <1>2 DEF Line
<1>4. batch["NonRT"] \o <<>> = batch["NonRT"]
  BY <1>1, ConcatEmptySeq
<1>5. ToSet(batch["NonRT"]) \subseteq ToSet(Line("NonRT"))
  BY <1>1, Lines DEF Pending
<1>6. \A s, u \in Seq(Task) : IsInjective(s \o u) => IsInjective(s) /\ ToSet(s) \cap ToSet(u) = {}
  BY PartsApart
<1>7. IsInjective(batch["NonRT"] \o tasks["NonRT"])
  BY <1>1 DEF Once, Line
<1>8. QED
  BY <1>1, <1>3, <1>4, <1>5, <1>6, <1>7

(* A task that joins a line from nowhere. *)
LEMMA JoinsOnce ==
  ASSUME IInv, NEW q \in Queue, NEW k \in Task, k \notin ToSet(Line(q)),
         Line(q)' = Append(Line(q), k),
         \A r \in Queue \ {q} : Line(r)' = Line(r)
  PROVE  Once' /\ ToSet(Line(q)') = ToSet(Line(q)) \cup {k}
<1>1. Line(q) \in Seq(Task) /\ IsInjective(Line(q))
  BY Lines DEF IInv, Once
<1>2. \A s \in Seq(Task) :
         /\ ToSet(Append(s, k)) = ToSet(s) \cup {k}
         /\ IsInjective(s) /\ k \notin ToSet(s) => IsInjective(Append(s, k))
  BY AppendSet
<1>3. IsInjective(Line(q)') /\ ToSet(Line(q)') = ToSet(Line(q)) \cup {k}
  BY <1>1, <1>2
<1>4. QED
  BY <1>3 DEF IInv, Once

(* A task that leaves its line, processed. *)
LEMMA LeavesLine ==
  ASSUME IInv, NEW q \in Queue, MarkCompleted(q) \/ Recycle(q)
  PROVE  /\ Once'
         /\ Head(batch[q]) \in ToSet(Line(q))
         /\ ToSet(Line(q)') = ToSet(Line(q)) \ {Head(batch[q])}
<1>1. /\ workerPC[q] \in {"loop", "processed"} /\ Worker(q)
  BY DEF MarkCompleted, Recycle, Worker
<1>2. /\ Line(q)' = Tail(Line(q)) /\ Line(q) # <<>>
      /\ Head(Line(q)) = Head(batch[q])
      /\ \A r \in Queue \ {q} : Line(r)' = Line(r)
  BY <1>1, WorkerMoves
<1>3. Line(q) \in Seq(Task) /\ IsInjective(Line(q))
  BY Lines DEF IInv, Once
<1>4. \A s \in Seq(Task) : s # <<>> /\ IsInjective(s) =>
         /\ IsInjective(Tail(s)) /\ Head(s) \in ToSet(s)
         /\ ToSet(Tail(s)) = ToSet(s) \ {Head(s)}
  BY TailSet
<1>5. /\ IsInjective(Line(q)') /\ Head(batch[q]) \in ToSet(Line(q))
      /\ ToSet(Line(q)') = ToSet(Line(q)) \ {Head(batch[q])}
  BY <1>2, <1>3, <1>4
<1>6. QED
  BY <1>2, <1>5 DEF IInv, Once

(* Every step keeps every task in one place. *)
LEMMA OwnedKept ==
  ASSUME IInv, Next
  PROVE  Owned' /\ Once'
<1>0. /\ pc \in [Thread -> {"idle", "push", "signal", "check", "enter", "wait"}]
      /\ on \in [SyncTask -> Queue] /\ complete \in [SyncTask -> BOOLEAN]
      /\ held \in [AsyncCaller -> AsyncTask \cup {None}]
      /\ Heap \subseteq AsyncTask /\ freeList \subseteq AsyncTask /\ heap \subseteq Heap
  BY Kinds DEF IInv, Types
<1>1. ASSUME NEW t \in SyncTask, NEW q \in Queue, PushSync(t, q)
      PROVE  Owned' /\ Once'
  <2>1. /\ pc[t] = "idle" /\ t \in Task /\ t \in Thread
        /\ pc' = [pc EXCEPT ![t] = "signal"] /\ on' = [on EXCEPT ![t] = q]
        /\ complete' = [complete EXCEPT ![t] = FALSE]
        /\ UNCHANGED <<freeList, heap, held>>
    BY <1>1, Kinds DEF PushSync, Goto
  <2>2. \A r \in Queue : t \notin ToSet(Line(r))
    BY <2>1 DEF IInv, Owned
  <2>3. Once' /\ ToSet(Line(q)') = ToSet(Line(q)) \cup {t} /\ \A r \in Queue \ {q} : Line(r)' = Line(r)
    BY <1>1, <2>1, <2>2, SyncJoins, JoinsOnce
  <2>4. ASSUME NEW r \in Queue, NEW k \in ToSet(Line(r)), k \in SyncTask
        PROVE  on'[k] = r /\ pc'[k] \in {"signal", "check", "enter", "wait"} /\ ~complete'[k]
    BY <1>0, <2>1, <2>2, <2>4, Kinds DEF IInv, Owned
  <2>5. on'[t] = q /\ pc'[t] = "signal" /\ ~complete'[t] /\ t \notin AsyncTask
    BY <1>0, <2>1, Kinds
  <2>6. QED
    BY <2>1, <2>3, <2>4, <2>5 DEF IInv, Owned
<1>2. ASSUME NEW t \in Thread, OtherCall(t)
      PROVE  Owned' /\ Once'
  <2>1. /\ \A q \in Queue : Line(q)' = Line(q)
        /\ UNCHANGED <<on, complete>>
    BY <1>2, OtherCallsStay
  <2>2. ASSUME NEW k \in SyncTask, pc[k] \in {"signal", "check", "enter", "wait"}, ~complete[k]
        PROVE  pc'[k] \in {"signal", "check", "enter", "wait"}
    BY <1>0, <1>2, <2>2, Kinds DEF OtherCall, SignalWork, CheckComplete, SemaphoreWait, TimedOut,
                                   PopFreeTask, SignalAsync, Goto
  <2>3. ASSUME NEW k \in AsyncTask, k \notin freeList \cup heap, \A a \in AsyncCaller : held[a] # k
        PROVE  k \notin freeList' \cup heap' /\ \A a \in AsyncCaller : held'[a] # k
    BY <1>0, <1>2, <2>3 DEF OtherCall, SignalWork, CheckComplete, SemaphoreWait, TimedOut,
                            PopFreeTask, SignalAsync
  <2>4. QED
    BY <2>1, <2>2, <2>3 DEF IInv, Owned, Once
<1>3. ASSUME NEW t \in Thread, PushAsync(t)
      PROVE  Owned' /\ Once'
  <2>1. /\ t \in AsyncCaller /\ held[t] \in AsyncTask /\ held[t] \in Task /\ held[t] \notin SyncTask
        /\ pc[t] = "push" /\ pc' = [pc EXCEPT ![t] = "signal"]
        /\ held' = [held EXCEPT ![t] = None]
        /\ UNCHANGED <<on, complete, freeList, heap>>
    BY <1>3, AsyncJoins, Kinds DEF PushAsync, Goto
  <2>2. \A r \in Queue : held[t] \notin ToSet(Line(r))
    BY <2>1 DEF IInv, Owned
  <2>3. /\ Once' /\ ToSet(Line("NonRT")') = ToSet(Line("NonRT")) \cup {held[t]}
        /\ \A r \in Queue \ {"NonRT"} : Line(r)' = Line(r)
    BY <1>3, <2>1, <2>2, AsyncJoins, JoinsOnce DEF Queue
  <2>4. \A k \in SyncTask : pc'[k] = pc[k]
    BY <1>0, <2>1, Kinds
  <2>5. /\ held[t] \notin freeList \cup heap
        /\ \A a \in AsyncCaller : held'[a] # held[t]
    BY <1>0, <2>1, Kinds DEF IInv, Objects
  <2>6. \A a \in AsyncCaller, k \in AsyncTask : held[a] # k => held'[a] # k
    BY <1>0, <2>1, Kinds
  <2>7. QED
    BY <2>1, <2>3, <2>4, <2>5, <2>6 DEF IInv, Owned
<1>4. ASSUME NEW q \in Queue, Worker(q)
      PROVE  Owned' /\ Once'
  <2>1. UNCHANGED <<on, held, heap>>
    BY <1>4 DEF Worker, WaitForWork, Fetch, Process, MarkCompleted, SignalAll, Recycle, callers
  <2>2. \A k \in SyncTask : pc[k] \in {"signal", "check", "enter", "wait"} =>
                            pc'[k] \in {"signal", "check", "enter", "wait"}
    BY <1>0, <1>4, Kinds DEF Worker, WaitForWork, Fetch, Process, MarkCompleted, SignalAll, Recycle, callers
  <2>3. CASE WaitForWork(q) \/ Fetch(q) \/ Process(q) \/ SignalAll(q)
    <3>1. UNCHANGED <<complete, freeList>>
      BY <2>3 DEF WaitForWork, Fetch, Process, SignalAll
    <3>2. \A r \in Queue : Line(r)' = Line(r)
      BY <1>4, <2>3, WorkerMoves
    <3>3. QED
      BY <2>1, <2>2, <3>1, <3>2 DEF IInv, Owned, Once
  <2>4. CASE MarkCompleted(q)
    <3>1. /\ Once' /\ Head(batch[q]) \in ToSet(Line(q)) /\ Head(batch[q]) \in SyncTask
          /\ ToSet(Line(q)') = ToSet(Line(q)) \ {Head(batch[q])}
          /\ \A r \in Queue \ {q} : Line(r)' = Line(r)
      BY <1>4, <2>4, LeavesLine, WorkerMoves DEF MarkCompleted
    <3>2. /\ complete' = [complete EXCEPT ![Head(batch[q])] = TRUE] /\ UNCHANGED freeList
      BY <2>4 DEF MarkCompleted
    <3>3. \A r \in Queue \ {q} : Head(batch[q]) \notin ToSet(Line(r))
      BY <3>1 DEF IInv, Owned
    <3>4. QED
      BY <1>0, <2>1, <2>2, <3>1, <3>2, <3>3 DEF IInv, Owned
  <2>5. CASE Recycle(q)
    <3>1. /\ Once' /\ Head(batch[q]) \in ToSet(Line(q)) /\ Head(batch[q]) \in AsyncTask
          /\ ToSet(Line(q)') = ToSet(Line(q)) \ {Head(batch[q])}
          /\ \A r \in Queue \ {q} : Line(r)' = Line(r)
      BY <1>4, <2>5, LeavesLine, WorkerMoves DEF Recycle
    <3>2. /\ freeList' = freeList \cup {Head(batch[q])} /\ UNCHANGED complete
      BY <2>5 DEF Recycle
    <3>3. \A r \in Queue \ {q} : Head(batch[q]) \notin ToSet(Line(r))
      BY <3>1 DEF IInv, Owned
    <3>4. QED
      BY <2>1, <2>2, <3>1, <3>2, <3>3 DEF IInv, Owned
  <2>6. QED
    BY <1>4, <2>3, <2>4, <2>5 DEF Worker
<1>5. ASSUME NEW t \in Destructor, Destroy(t)
      PROVE  Owned' /\ Once'
  <2>1. UNCHANGED <<on, held, heap, pc, complete>> /\ freeList' = {}
    BY <1>5 DEF Destroy, callers
  <2>2. QED
    BY <1>5, <2>1, DestroyDrops DEF IInv, Owned, Once, Queue
<1>6. QED
  BY <1>1, <1>2, <1>3, <1>4, <1>5, Steps, Kinds DEF QueueSync, StopWorker, Queue

(* Every step keeps an object out of more than one caller's hands. *)
LEMMA ObjectsKept ==
  ASSUME IInv, Next
  PROVE  Objects'
<1> USE DEF Objects
<1>0. /\ pc \in [Thread -> {"idle", "push", "signal", "check", "enter", "wait"}]
      /\ held \in [AsyncCaller -> AsyncTask \cup {None}]
      /\ freeList \subseteq AsyncTask /\ heap \subseteq AsyncTask
      /\ Objects /\ None \notin AsyncTask
  BY Kinds DEF IInv, Types
<1>1. ASSUME NEW t \in SyncTask, NEW q \in Queue, PushSync(t, q)
      PROVE  Objects'
  BY <1>0, <1>1, Kinds DEF PushSync, Goto
<1>2. ASSUME NEW t \in AsyncCaller, PopFreeTask(t)
      PROVE  Objects'
  <2>1. PICK k \in AsyncTask : /\ held' = [held EXCEPT ![t] = k] /\ k \in freeList \cup heap
                               /\ freeList' \subseteq freeList /\ heap' \subseteq heap
                               /\ k \notin freeList' \cup heap'
    BY <1>0, <1>2 DEF PopFreeTask
  <2>2. pc' = [pc EXCEPT ![t] = "push"]
    BY <1>2 DEF PopFreeTask, Goto
  <2>3. QED
    BY <1>0, <2>1, <2>2, Kinds
<1>3. ASSUME NEW t \in Thread, SignalWork(t) \/ CheckComplete(t) \/ SemaphoreWait(t) \/ TimedOut(t) \/ SignalAsync(t)
      PROVE  Objects'
  <2>1. UNCHANGED <<freeList, heap, held>>
    BY <1>3 DEF SignalWork, CheckComplete, SemaphoreWait, TimedOut, SignalAsync
  <2>2. \A u \in Thread : pc'[u] = "push" => pc[u] = "push"
    BY <1>0, <1>3 DEF SignalWork, CheckComplete, SemaphoreWait, TimedOut, SignalAsync, Goto
  <2>3. QED
    BY <1>0, <2>1, <2>2
<1>4. ASSUME NEW t \in Thread, PushAsync(t)
      PROVE  Objects'
  <2>1. /\ t \in AsyncCaller /\ held' = [held EXCEPT ![t] = None]
        /\ pc' = [pc EXCEPT ![t] = "signal"] /\ UNCHANGED <<freeList, heap>>
    BY <1>4, <1>0 DEF PushAsync, Goto
  <2>2. QED
    BY <1>0, <2>1, Kinds
<1>5. ASSUME NEW q \in Queue, Worker(q)
      PROVE  Objects'
  <2>1. UNCHANGED <<held, heap>> /\ \A u \in Thread : pc'[u] = "push" => pc[u] = "push"
    BY <1>0, <1>5 DEF Worker, WaitForWork, Fetch, Process, MarkCompleted, SignalAll, Recycle, callers
  <2>2. CASE Recycle(q)
    <3>1. Head(batch[q]) \in ToSet(Line(q)) /\ Head(batch[q]) \in AsyncTask
          /\ freeList' = freeList \cup {Head(batch[q])}
      BY <2>2, LeavesLine DEF Recycle
    <3>2. Head(batch[q]) \notin heap /\ \A a \in AsyncCaller : held[a] # Head(batch[q])
      BY <3>1 DEF IInv, Owned
    <3>3. QED
      BY <1>0, <2>1, <3>1, <3>2
  <2>3. CASE ~Recycle(q)
    <3>1. UNCHANGED freeList
      BY <1>5, <2>3 DEF Worker, WaitForWork, Fetch, Process, MarkCompleted, SignalAll
    <3>2. QED
      BY <1>0, <2>1, <3>1
  <2>4. QED
    BY <2>2, <2>3
<1>6. ASSUME NEW t \in Destructor, Destroy(t)
      PROVE  Objects'
  BY <1>0, <1>6 DEF Destroy, callers
<1>7. QED
  BY <1>1, <1>2, <1>3, <1>4, <1>5, <1>6, Steps, Kinds
     DEF QueueSync, StopWorker, Queue, OtherCall, PopFreeTask

(* Once the destructor has begun, the real-time worker's line has at most   *)
(* the destructor's task.                                                   *)
LEMMA OnlyDestructorInLine ==
  ASSUME IInv, destructor # "alive"
  PROVE  /\ ToSet(Line("RT")) \subseteq Destructor
         /\ \A d, e \in ToSet(Line("RT")) : d = e
<1>1. \A k \in ToSet(Line("RT")) : k \in SyncTask /\ pc[k] # "idle"
  BY Lines, Kinds DEF IInv, Owned, Queue
<1>2. QED
  BY <1>1, Kinds, BoundAssumption DEF IInv, Stopping

(* Every step keeps the destructor's calls apart from all others, and what  *)
(* it stops without work.                                                   *)
LEMMA StoppingKept ==
  ASSUME IInv, Next
  PROVE  Stopping'
<1> USE DEF Stopping
<1>0. /\ pc \in [Thread -> {"idle", "push", "signal", "check", "enter", "wait"}]
      /\ stop \in [Queue -> BOOLEAN] /\ Stopping /\ "RT" \in Queue
      /\ workerPC \in [Queue -> {"waiting", "fetch", "loop", "processed", "signalAll", "stopped"}]
  BY DEF IInv, Types, Queue
<1>1. ASSUME NEW t \in SyncCaller, QueueSync(t)
      PROVE  Stopping'
  <2>1. /\ destructor = "alive" /\ destructor' = "alive"
        /\ UNCHANGED <<stop, workerPC>> /\ pc' = [pc EXCEPT ![t] = "signal"]
    BY <1>1 DEF QueueSync, PushSync, Goto, workers
  <2>2. \A d \in Destructor : d # t
    BY DistinctAssumption
  <2>3. QED
    BY <1>0, <2>1, <2>2, Kinds
<1>2. ASSUME NEW t \in Destructor, StopWorker(t)
      PROVE  Stopping'
  <2>1. /\ \A s \in SyncCaller : pc[s] = "idle" /\ s # t
        /\ UNCHANGED <<stop, workerPC>> /\ pc' = [pc EXCEPT ![t] = "signal"]
    BY <1>2, DistinctAssumption DEF StopWorker, PushSync, Goto, workers
  <2>2. CASE destructor = "alive" /\ destructor' = "RT"
    BY <1>0, <2>1, <2>2, Kinds
  <2>3. CASE destructor = "RT" /\ PushSync(t, "NonRT") /\ destructor' = "NonRT"
    <3>1. Line("RT")' = Line("RT")
      BY <2>3, SyncJoins, Kinds DEF Queue
    <3>2. QED
      BY <1>0, <2>1, <2>3, <3>1, Kinds
  <2>4. QED
    BY <1>2, <2>2, <2>3 DEF StopWorker
<1>3. ASSUME NEW t \in Thread, OtherCall(t)
      PROVE  Stopping'
  <2>1. Line("RT")' = Line("RT") /\ UNCHANGED <<stop, workerPC, destructor>>
    BY <1>0, <1>3, OtherCallsStay DEF workers
  <2>2. ASSUME NEW u \in Thread, pc[u] = "idle", u \in SyncTask \/ destructor = "destroyed"
        PROVE  pc'[u] = "idle"
    BY <1>0, <1>3, <2>2, Kinds DEF OtherCall, SignalWork, CheckComplete, SemaphoreWait, TimedOut,
                                   PopFreeTask, SignalAsync, Goto
  <2>3. QED
    BY <1>0, <2>1, <2>2, Kinds
<1>4. ASSUME NEW t \in Thread, PushAsync(t)
      PROVE  Stopping'
  <2>1. /\ t \in AsyncCaller /\ pc[t] = "push" /\ pc' = [pc EXCEPT ![t] = "signal"]
        /\ UNCHANGED <<stop, workerPC, destructor>> /\ Line("RT")' = Line("RT")
    BY <1>4, AsyncJoins DEF PushAsync, Goto, workers
  <2>2. QED
    BY <1>0, <2>1, Kinds
<1>5. ASSUME NEW q \in Queue, Worker(q)
      PROVE  Stopping'
  <2>1. UNCHANGED destructor /\ \A u \in Thread : pc[u] = "idle" => pc'[u] = "idle"
    BY <1>0, <1>5 DEF Worker, WaitForWork, Fetch, Process, MarkCompleted, SignalAll, Recycle, callers
  <2>2. CASE q # "RT"
    <3>1. UNCHANGED <<stop["RT"], workerPC["RT"]>> /\ Line("RT")' = Line("RT")
      <4>1. Line("RT")' = Line("RT")
        BY <1>0, <1>5, <2>2, WorkerMoves
      <4>2. UNCHANGED <<stop["RT"], workerPC["RT"]>>
        BY <1>0, <1>5, <2>2 DEF Worker, WaitForWork, Fetch, Process, MarkCompleted, SignalAll, Recycle, At
      <4>3. QED
        BY <4>1, <4>2
    <3>2. QED
      BY <1>0, <2>1, <3>1, Kinds
  <2>3. CASE WaitForWork("RT") \/ Fetch("RT")
    <3>1. UNCHANGED stop /\ workerPC'["RT"] \notin {"signalAll", "stopped"}
      BY <1>0, <2>3 DEF WaitForWork, Fetch, At
    <3>2. QED
      BY <1>0, <2>1, <3>1, Kinds
  <2>4. CASE Process("RT")
    <3>1. workerPC'["RT"] = "processed"
      BY <1>0, <2>4 DEF Process, At
    <3>2. ASSUME stop'["RT"] PROVE destructor # "alive"
      <4>1. Head(batch["RT"]) \in Destructor
        BY <1>0, <2>4, <3>2, Zenon DEF Process
      <4>2. Head(batch["RT"]) \in ToSet(Line("RT"))
        <5>1. /\ Line("RT") # <<>> /\ Head(Line("RT")) = Head(batch["RT"])
          BY <1>0, <2>4, WorkerMoves DEF Worker, Process
        <5>2. Line("RT") \in Seq(Task)
          BY <1>0, Lines DEF IInv
        <5>3. \A s \in Seq(Task) : s # <<>> => Head(s) \in ToSet(s)
          BY EmptySeq, LenProperties DEF ToSet
        <5>4. QED
          BY <5>1, <5>2, <5>3
      <4>3. pc[Head(batch["RT"])] # "idle"
        BY <1>0, <4>1, <4>2, Kinds DEF IInv, Owned
      <4>4. QED
        BY <1>0, <4>1, <4>3
    <3>3. QED
      BY <1>0, <2>1, <3>1, <3>2, Kinds
  <2>5. CASE MarkCompleted("RT")
    <3>1. UNCHANGED stop /\ workerPC'["RT"] = "signalAll"
      BY <1>0, <2>5 DEF MarkCompleted, At
    <3>2. ASSUME stop["RT"] PROVE Line("RT")' = <<>>
      <4>1. /\ Head(batch["RT"]) \in ToSet(Line("RT"))
            /\ ToSet(Line("RT")') = ToSet(Line("RT")) \ {Head(batch["RT"])}
        BY <1>0, <2>5, LeavesLine
      <4>2. \A d, e \in ToSet(Line("RT")) : d = e
        BY <1>0, <3>2, OnlyDestructorInLine
      <4>3. ToSet(Line("RT")') = {}
        BY <4>1, <4>2
      <4>4. Line("RT")' \in Seq(Task)
        <5>1. Types'
          BY TypesKept
        <5>2. tasks'["RT"] \in Seq(Task) /\ batch'["RT"] \in Seq(Task)
          BY <1>0, <5>1 DEF Types
        <5>3. QED
          BY <5>2, ConcatProperties DEF Line
      <4>5. \A s \in Seq(Task) : s # <<>> => ToSet(s) # {}
        BY EmptySeq, LenProperties DEF ToSet
      <4>6. QED
        BY <4>3, <4>4, <4>5
    <3>3. QED
      BY <1>0, <2>1, <3>1, <3>2, Kinds
  <2>6. CASE SignalAll("RT")
    <3>1. /\ UNCHANGED stop /\ workerPC["RT"] = "signalAll"
          /\ workerPC'["RT"] \in {"waiting", "loop", "stopped"}
          /\ workerPC'["RT"] = "stopped" => stop["RT"]
      BY <1>0, <2>6 DEF SignalAll, At, AfterTask
    <3>2. Line("RT")' = Line("RT")
      BY <1>0, <2>6, WorkerMoves DEF Worker
    <3>3. QED
      BY <1>0, <2>1, <3>1, <3>2, Kinds
  <2>7. CASE Recycle("RT")
    <3>1. Head(batch["RT"]) \in ToSet(Line("RT")) /\ Head(batch["RT"]) \in AsyncTask
      BY <1>0, <2>7, LeavesLine DEF Recycle
    <3>2. QED
      BY <1>0, <3>1 DEF IInv, Owned
  <2>8. QED
    BY <1>5, <2>2, <2>3, <2>4, <2>5, <2>6, <2>7 DEF Worker
<1>6. ASSUME NEW t \in Destructor, Destroy(t)
      PROVE  Stopping'
  <2>1. /\ destructor = "NonRT" /\ \A a \in AsyncCaller : pc[a] = "idle"
        /\ UNCHANGED <<pc, stop, workerPC>> /\ destructor' = "destroyed"
    BY <1>6 DEF Destroy, callers, workers
  <2>2. Line("RT")' = Line("RT")
    BY <1>6, DestroyDrops
  <2>3. QED
    BY <1>0, <2>1, <2>2
<1>7. QED
  BY <1>1, <1>2, <1>3, <1>4, <1>5, <1>6, Steps

(* A step of none changes nothing. *)
LEMMA Stutters ==
  ASSUME IInv, UNCHANGED vars
  PROVE  IInv'
<1>1. UNCHANGED <<tasks, workQueued, freeList, heap, pc, held, on, complete,
                  workerPC, batch, stop, destructor>>
  BY DEF vars, callers, workers
<1>2. /\ Types' /\ Fetched' /\ Signalled' /\ SignalsFit'
  BY <1>1 DEF IInv, Types, Fetched, Signalled, SignalsFit, Signalling, Target
<1>3. Owned' /\ Once' /\ Objects' /\ Stopping'
  BY <1>1 DEF IInv, Owned, Once, Objects, Stopping, Line
<1>4. QED
  BY <1>2, <1>3 DEF IInv

(* IInv holds in every state. *)
THEOREM Invariance == Spec => []IInv
<1>1. IInv /\ [Next]_vars => IInv'
  <2> SUFFICES ASSUME IInv, [Next]_vars PROVE IInv'
    OBVIOUS
  <2>1. CASE Next
    BY <2>1, TypesKept, SignalsKept, SignalledKept, OwnedKept, ObjectsKept, StoppingKept DEF IInv
  <2>2. CASE UNCHANGED vars
    BY <2>2, Stutters
  <2>3. QED
    BY <2>1, <2>2
<1>2. QED
  BY IInvInit, <1>1, PTL DEF Spec

(* Every variable keeps its type; the count of a semaphore stays within its *)
(* bound (the callers' signals, the workers' waits).                        *)
THEOREM TypeCorrect == Spec => []TypeOK
<1>1. IInv => TypeOK
  <2> SUFFICES ASSUME IInv PROVE TypeOK
    OBVIOUS
  <2>1. workQueued \in [Queue -> 0..MaxSignals]
    <3>1. workQueued \in [Queue -> Nat]
      BY DEF IInv, Types
    <3>2. ASSUME NEW q \in Queue PROVE workQueued[q] \in 0..MaxSignals
      <4>1. /\ workQueued[q] + Cardinality(Signalling(q)) <= MaxSignals
            /\ Cardinality(Signalling(q)) \in Nat
            /\ workQueued[q] \in Nat /\ MaxSignals \in Nat
        BY <3>1, SignallingFinite, BoundAssumption DEF IInv, SignalsFit
      <4>2. QED
        BY <4>1
    <3>3. QED
      BY <3>1, <3>2
  <2>2. QED
    BY <2>1 DEF IInv, Types, TypeOK
<1>2. QED
  BY Invariance, <1>1, PTL

(* No wakeup is lost: a worker that sleeps with tasks on its stack has a    *)
(* signal pending, or will have (WorkerThreadProc, QueueSync).              *)
THEOREM NoWakeupLost == Spec => []NoLostWakeup
<1>1. IInv => NoLostWakeup
  BY DEF IInv, Signalled, NoLostWakeup
<1>2. QED
  BY Invariance, <1>1, PTL

(* A worker only touches memory that is there, and a stopped real-time      *)
(* worker has left nobody waiting (QueueSync's stack frame, the free list). *)
THEOREM OnePlace == Spec => []TasksInOnePlace
<1>1. IInv => TasksInOnePlace
  <2> SUFFICES ASSUME IInv PROVE TasksInOnePlace
    OBVIOUS
  <2>1. \A q \in Queue : ToSet(Line(q)) = Pending(q)
    BY Lines DEF IInv
  <2>2. /\ \A q \in Queue : \A k \in Pending(q) \cap SyncTask :
             on[k] = q /\ pc[k] \in {"signal", "check", "enter", "wait"} /\ ~complete[k]
        /\ \A k \in Pending("NonRT") \cap AsyncTask :
             k \notin freeList \cup heap /\ \A a \in AsyncCaller : held[a] # k
    BY <2>1 DEF IInv, Owned, Queue
  <2>3. \A q \in Queue : IsInjective(batch[q] \o tasks[q])
    BY DEF IInv, Once, Line
  <2>4. workerPC["RT"] = "stopped" => Pending("RT") = {}
    <3>1. ToSet(<<>>) = {}
      BY DEF ToSet
    <3>2. QED
      BY <2>1, <3>1 DEF IInv, Stopping, Queue
  <2>5. QED
    BY <2>2, <2>3, <2>4 DEF TasksInOnePlace
<1>2. QED
  BY Invariance, <1>1, PTL

-----------------------------------------------------------------------------
(* The refinement of TaskOrder. *)

InLine(k) == \E q \in Queue : k \in ToSet(Unprocessed(q))
InProcess(k) == \E q \in Queue : workerPC[q] = "processed" /\ k = Head(batch[q])
Used(k) == (k \in SyncTask /\ pc[k] # "idle") \/ InProcess(k)

\* The state of a task, by these.
StateIs ==
  \A k : /\ InLine(k) => StateOf(k) = "queued"
         /\ ~InLine(k) /\ Used(k) => StateOf(k) = "done"
         /\ ~InLine(k) /\ ~Used(k) => StateOf(k) = "free"

(* By the definition of StateOf. *)
LEMMA StateBefore == StateIs
BY DEF StateIs, InLine, Used, InProcess, StateOf

(* In the state after a step too. *)
LEMMA StateBy == StateIs /\ StateIs'
BY StateBefore, PTL

(* What is not processed yet is what is in line, but for the task that a    *)
(* worker has processed and not let go.                                     *)
LEMMA UnprocessedIs ==
  ASSUME IInv, NEW q \in Queue
  PROVE  /\ Unprocessed(q) = IF workerPC[q] = "processed" THEN Tail(Line(q)) ELSE Line(q)
         /\ workerPC[q] \in {"loop", "processed"} =>
              /\ Line(q) # <<>> /\ Head(Line(q)) = Head(batch[q])
              /\ Head(batch[q]) \in ToSet(Line(q)) /\ Head(batch[q]) \in Task
              /\ ToSet(Tail(Line(q))) = ToSet(Line(q)) \ {Head(batch[q])}
         /\ Line(q) \in Seq(Task) /\ Unprocessed(q) \in Seq(Task)
         /\ ToSet(Unprocessed(q)) \subseteq ToSet(Line(q))
<1>1. /\ tasks[q] \in Seq(Task) /\ batch[q] \in Seq(Task) /\ Line(q) \in Seq(Task)
      /\ IsInjective(Line(q)) /\ ToSet(Line(q)) \subseteq Task
  BY Lines DEF IInv, Once
<1>2. ASSUME workerPC[q] \in {"loop", "processed"}
      PROVE  /\ Line(q) # <<>> /\ Head(Line(q)) = Head(batch[q])
             /\ Tail(Line(q)) = Tail(batch[q]) \o tasks[q]
  <2>1. batch[q] # <<>>
    BY <1>2 DEF IInv, Fetched
  <2>2. \A s, t \in Seq(Task) : s # <<>> =>
          /\ s \o t # <<>> /\ Head(s \o t) = Head(s)
          /\ Tail(s \o t) = Tail(s) \o t
    BY TailOfParts
  <2>3. QED
    BY <1>1, <2>1, <2>2 DEF Line
<1>3. \A s \in Seq(Task) : s # <<>> /\ IsInjective(s) =>
         /\ Tail(s) \in Seq(Task) /\ Head(s) \in ToSet(s)
         /\ ToSet(Tail(s)) = ToSet(s) \ {Head(s)}
  BY TailSet, HeadTailProperties
<1>4. Unprocessed(q) = IF workerPC[q] = "processed" THEN Tail(Line(q)) ELSE Line(q)
  BY <1>2 DEF Unprocessed, Line
<1>5. workerPC[q] \in {"loop", "processed"} =>
         /\ Tail(Line(q)) \in Seq(Task)
         /\ Head(batch[q]) \in ToSet(Line(q)) /\ Head(batch[q]) \in Task
         /\ ToSet(Tail(Line(q))) = ToSet(Line(q)) \ {Head(batch[q])}
  BY <1>1, <1>2, <1>3
<1>6. QED
  BY <1>1, <1>2, <1>4, <1>5

\* UnprocessedIs' first conjunct, for the state after a step too.
UnprocessedLine ==
  \A q \in Queue :
    Unprocessed(q) = IF workerPC[q] = "processed" THEN Tail(Line(q)) ELSE Line(q)

(* It holds in every state of the invariant. *)
LEMMA UnprocessedBefore == IInv => UnprocessedLine
BY UnprocessedIs DEF UnprocessedLine

(* And in the state after a step. *)
LEMMA UnprocessedAfter ==
  (IInv => UnprocessedLine) /\ (IInv' => UnprocessedLine')
BY UnprocessedBefore, PTL

(* A task is in one line at most. *)
LEMMA OneLine ==
  ASSUME IInv, NEW q \in Queue, NEW r \in Queue, q # r, NEW k \in ToSet(Line(q))
  PROVE  k \notin ToSet(Line(r))
BY Lines, Kinds DEF IInv, Owned

(* A task being processed is no longer to be processed. *)
LEMMA ProcessedOnce ==
  ASSUME IInv, NEW q \in Queue, workerPC[q] = "processed"
  PROVE  /\ Head(batch[q]) \in ToSet(Line(q)) /\ Head(batch[q]) \in Task
         /\ ~InLine(Head(batch[q]))
<1>1. /\ Head(batch[q]) \in ToSet(Line(q)) /\ Head(batch[q]) \in Task
      /\ Head(batch[q]) \notin ToSet(Unprocessed(q))
  BY UnprocessedIs
<1>2. \A r \in Queue \ {q} : Head(batch[q]) \notin ToSet(Unprocessed(r))
  BY <1>1, OneLine, UnprocessedIs
<1>3. QED
  BY <1>1, <1>2 DEF InLine

(* The steps of TaskOrder, from what happens to the mapped variables: none. *)
LEMMA MapsToStutter ==
  ASSUME \A q \in Queue : Unprocessed(q)' = Unprocessed(q),
         \A k \in Task : StateOf(k)' = StateOf(k),
         destructor' = "destroyed" <=> destructor = "destroyed"
  PROVE  UNCHANGED Order!vars
BY DEF Order!vars

(* A task is added. *)
LEMMA MapsToAdd ==
  ASSUME NEW q \in Queue, NEW k \in Task,
         destructor # "destroyed", destructor' # "destroyed",
         Unprocessed(q)' = Append(Unprocessed(q), k),
         \A r \in Queue \ {q} : Unprocessed(r)' = Unprocessed(r),
         StateOf(k) = "free", StateOf(k)' = "queued",
         \A j \in Task \ {k} : StateOf(j)' = StateOf(j)
  PROVE  Order!Next
<1>1. Order!Add(q, k)
  BY DEF Order!Add
<1>2. QED
  BY <1>1 DEF Order!Next

(* The oldest task is processed. *)
LEMMA MapsToProcess ==
  ASSUME NEW q \in Queue, NEW k \in Task, Unprocessed(q) # <<>>, Head(Unprocessed(q)) = k,
         destructor' = destructor,
         Unprocessed(q)' = Tail(Unprocessed(q)),
         \A r \in Queue \ {q} : Unprocessed(r)' = Unprocessed(r),
         StateOf(k)' = "done",
         \A j \in Task \ {k} : StateOf(j)' = StateOf(j)
  PROVE  Order!Next
<1> DEFINE line == [r \in Queue |-> Unprocessed(r)]
           state == [j \in Task |-> StateOf(j)]
<1>1. line[q] = Unprocessed(q)
  OBVIOUS
<1>2. line' = [line EXCEPT ![q] = Tail(Unprocessed(q))]
  OBVIOUS
<1>3. state' = [state EXCEPT ![k] = "done"]
  OBVIOUS
<1>4. UNCHANGED (destructor = "destroyed")
  OBVIOUS
<1>5. /\ line[q] # <<>> /\ line' = [line EXCEPT ![q] = Tail(line[q])]
      /\ state' = [state EXCEPT ![Head(line[q])] = "done"]
  <2> HIDE DEF line, state
  <2>1. QED
    BY <1>1, <1>2, <1>3
<1>6. Order!Process(q)
  BY <1>4, <1>5, Zenon DEF Order!Process
<1>7. QED
  BY <1>6 DEF Order!Next

(* A task is let go. *)
LEMMA MapsToRelease ==
  ASSUME NEW k \in Task, destructor' = destructor,
         \A q \in Queue : Unprocessed(q)' = Unprocessed(q),
         StateOf(k) = "done", StateOf(k)' = "free",
         \A j \in Task \ {k} : StateOf(j)' = StateOf(j)
  PROVE  Order!Next
<1>1. Order!Release(k)
  BY DEF Order!Release
<1>2. QED
  BY <1>1 DEF Order!Next

(* A call step leaves what is to be processed alone. *)
LEMMA OtherCallsSimulate ==
  ASSUME IInv, NEW t \in Thread, OtherCall(t)
  PROVE  Order!Next \/ UNCHANGED Order!vars
<1>0. pc \in [Thread -> {"idle", "push", "signal", "check", "enter", "wait"}]
  BY DEF IInv, Types
<1>1. /\ \A q \in Queue : Line(q)' = Line(q) /\ Unprocessed(q)' = Unprocessed(q)
      /\ UNCHANGED <<workerPC, batch, destructor>>
  BY OtherCallsStay DEF Unprocessed, workers
<1>2. \A k : InLine(k)' <=> InLine(k)
  BY <1>1 DEF InLine
<1>3. \A k : InProcess(k)' <=> InProcess(k)
  BY <1>1 DEF InProcess
<1>4. CASE CheckComplete(t) /\ complete[t]
  <2>1. /\ t \in SyncTask /\ t \in Task /\ pc[t] = "check" /\ pc' = [pc EXCEPT ![t] = "idle"]
    BY <1>4, Kinds DEF CheckComplete, Goto
  <2>2. \A q \in Queue : t \notin ToSet(Line(q))
    BY <1>4, <2>1 DEF IInv, Owned
  <2>3. ~InLine(t)
    BY <2>2, UnprocessedIs DEF InLine
  <2>4. ~InProcess(t)
    BY <2>2, ProcessedOnce DEF InProcess
  <2>5. Used(t) /\ ~Used(t)'
    BY <1>0, <1>3, <2>1, <2>4 DEF Used
  <2>6. \A k \in Task \ {t} : Used(k)' <=> Used(k)
    BY <1>0, <1>3, <2>1, Kinds DEF Used
  <2>7. /\ StateOf(t) = "done" /\ StateOf(t)' = "free"
        /\ \A k \in Task \ {t} : StateOf(k)' = StateOf(k)
    BY <1>2, <2>3, <2>5, <2>6, StateBy DEF StateIs
  <2>8. QED
    BY <1>1, <2>1, <2>7, MapsToRelease
<1>5. CASE ~(CheckComplete(t) /\ complete[t])
  <2>1. \A k \in SyncTask : pc'[k] = "idle" <=> pc[k] = "idle"
    BY <1>0, <1>5, Kinds DEF OtherCall, SignalWork, CheckComplete, SemaphoreWait, TimedOut,
                             PopFreeTask, SignalAsync, Goto
  <2>2. \A k \in Task : Used(k)' <=> Used(k)
    BY <1>3, <2>1 DEF Used
  <2>3. \A k \in Task : StateOf(k)' = StateOf(k)
    BY <1>2, <2>2, StateBy DEF StateIs
  <2>4. QED
    BY <1>1, <2>3, MapsToStutter
<1>6. QED
  BY <1>4, <1>5

(* A task that joins a line is added to the mapped queue. *)
LEMMA JoinsSimulate ==
  ASSUME IInv, NEW q \in Queue, NEW k \in Task,
         Line(q)' = Append(Line(q), k),
         \A r \in Queue \ {q} : Line(r)' = Line(r),
         UNCHANGED <<workerPC, batch>>,
         \A r \in Queue : k \notin ToSet(Line(r)),
         k \in SyncTask => pc[k] = "idle",
         \A j \in SyncTask \ {k} : pc'[j] = "idle" <=> pc[j] = "idle",
         destructor # "destroyed", destructor' # "destroyed", IInv'
  PROVE  Order!Next
<1>1. \A r \in Queue \ {q} : Unprocessed(r)' = Unprocessed(r)
  BY UnprocessedAfter DEF UnprocessedLine
<1>2. Unprocessed(q)' = Append(Unprocessed(q), k)
  <2>1. \A s \in Seq(Task) : s # <<>> => Tail(Append(s, k)) = Append(Tail(s), k)
    BY HeadTailAppend
  <2>2. Line(q) \in Seq(Task) /\ (workerPC[q] = "processed" => Line(q) # <<>>)
    BY UnprocessedIs
  <2>3. Unprocessed(q) = IF workerPC[q] = "processed" THEN Tail(Line(q)) ELSE Line(q)
    BY UnprocessedIs
  <2>4. Unprocessed(q)' = IF workerPC'[q] = "processed" THEN Tail(Line(q)') ELSE Line(q)'
    BY UnprocessedAfter DEF UnprocessedLine
  <2>5. QED
    BY <2>1, <2>2, <2>3, <2>4
<1>3. ToSet(Unprocessed(q)') = ToSet(Unprocessed(q)) \cup {k}
  <2>1. \A s \in Seq(Task) : ToSet(Append(s, k)) = ToSet(s) \cup {k}
    BY AppendSet
  <2>2. QED
    BY <1>2, <2>1, UnprocessedIs
<1>4. InLine(k)' /\ ~InLine(k) /\ \A j \in Task \ {k} : InLine(j)' <=> InLine(j)
  BY <1>1, <1>3, UnprocessedIs DEF InLine
<1>5. ~Used(k)
  BY ProcessedOnce DEF Used, InProcess
<1>6. \A j \in Task \ {k} : Used(j)' <=> Used(j)
  BY DEF Used, InProcess
<1>7. /\ StateOf(k) = "free" /\ StateOf(k)' = "queued"
      /\ \A j \in Task \ {k} : StateOf(j)' = StateOf(j)
  BY <1>4, <1>5, <1>6, StateBy DEF StateIs
<1>8. QED
  BY <1>1, <1>2, <1>7, MapsToAdd

(* A synchronous caller's push. *)
LEMMA PushSyncSimulates ==
  ASSUME IInv, IInv', NEW t \in SyncTask, NEW q \in Queue, PushSync(t, q),
         destructor # "destroyed", destructor' # "destroyed"
  PROVE  Order!Next
<1>0. pc \in [Thread -> {"idle", "push", "signal", "check", "enter", "wait"}]
  BY DEF IInv, Types
<1>1. /\ t \in Task /\ pc[t] = "idle" /\ pc' = [pc EXCEPT ![t] = "signal"]
      /\ UNCHANGED <<workerPC, batch>>
  BY Kinds DEF PushSync, Goto, workers
<1>2. \A r \in Queue : t \notin ToSet(Line(r))
  BY <1>1 DEF IInv, Owned
<1>3. \A j \in SyncTask \ {t} : pc'[j] = "idle" <=> pc[j] = "idle"
  BY <1>0, <1>1, Kinds
<1>4. QED
  BY <1>1, <1>2, <1>3, SyncJoins, JoinsSimulate

(* An asynchronous caller's push. *)
LEMMA PushAsyncSimulates ==
  ASSUME IInv, IInv', NEW t \in Thread, PushAsync(t)
  PROVE  Order!Next
<1>0. pc \in [Thread -> {"idle", "push", "signal", "check", "enter", "wait"}]
  BY DEF IInv, Types
<1>1. /\ t \in AsyncCaller /\ pc[t] = "push" /\ pc' = [pc EXCEPT ![t] = "signal"]
      /\ UNCHANGED <<workerPC, batch, destructor>>
  BY DEF PushAsync, Goto, workers
<1>2. /\ held[t] \in AsyncTask /\ held[t] \in Task /\ held[t] \notin SyncTask
      /\ Line("NonRT")' = Append(Line("NonRT"), held[t])
      /\ \A r \in Queue \ {"NonRT"} : Line(r)' = Line(r)
  BY <1>1, AsyncJoins, Kinds DEF Queue
<1>3. \A r \in Queue : held[t] \notin ToSet(Line(r))
  BY <1>1, <1>2 DEF IInv, Owned
<1>4. \A j \in SyncTask : pc'[j] = "idle" <=> pc[j] = "idle"
  BY <1>0, <1>1, Kinds
<1>5. destructor # "destroyed"
  BY <1>1 DEF IInv, Stopping
<1>6. QED
  BY <1>1, <1>2, <1>3, <1>4, <1>5, JoinsSimulate DEF Queue

(* A worker's steps: it processes the oldest task, or lets go of one that   *)
(* was processed, or nothing that TaskOrder sees.                           *)
LEMMA WorkerSimulates ==
  ASSUME IInv, IInv', NEW q \in Queue, Worker(q)
  PROVE  Order!Next \/ UNCHANGED Order!vars
<1>0. /\ pc \in [Thread -> {"idle", "push", "signal", "check", "enter", "wait"}]
      /\ workerPC \in [Queue -> {"waiting", "fetch", "loop", "processed", "signalAll", "stopped"}]
      /\ batch \in [Queue -> Seq(Task)]
  BY DEF IInv, Types
<1>1. UNCHANGED destructor /\ \A k \in SyncTask : pc'[k] = "idle" <=> pc[k] = "idle"
  <2>1. UNCHANGED destructor
    BY DEF Worker, WaitForWork, Fetch, Process, MarkCompleted, SignalAll, Recycle
  <2>2. pc' = pc \/ pc' = [t \in Thread |-> IF pc[t] = "wait" /\ on[t] = q THEN "check" ELSE pc[t]]
    BY DEF Worker, WaitForWork, Fetch, Process, MarkCompleted, SignalAll, Recycle, callers
  <2>3. QED
    BY <2>1, <2>2, Kinds
<1>2. \A r \in Queue \ {q} : UNCHANGED <<workerPC[r], batch[r]>>
  BY <1>0 DEF Worker, WaitForWork, Fetch, Process, MarkCompleted, SignalAll, Recycle, At
<1>3. \A r \in Queue \ {q} : Unprocessed(r)' = Unprocessed(r)
  <2> SUFFICES ASSUME NEW r \in Queue \ {q} PROVE Unprocessed(r)' = Unprocessed(r)
    OBVIOUS
  <2>1. Line(r)' = Line(r)
    BY WorkerMoves
  <2>2. UnprocessedLine /\ UnprocessedLine'
    BY UnprocessedAfter
  <2>3. QED
    BY <1>2, <2>1, <2>2 DEF UnprocessedLine
<1>4. CASE WaitForWork(q) \/ Fetch(q) \/ SignalAll(q)
  <2>1. workerPC[q] # "processed" /\ workerPC'[q] # "processed"
    BY <1>0, <1>4 DEF WaitForWork, Fetch, SignalAll, At, AfterTask
  <2>2. Unprocessed(q)' = Unprocessed(q)
    <3>1. Line(q)' = Line(q)
      BY <1>4, WorkerMoves
    <3>2. Unprocessed(q) = Line(q) /\ Unprocessed(q)' = Line(q)'
      BY <2>1, UnprocessedAfter DEF UnprocessedLine
    <3>3. QED
      BY <3>1, <3>2
  <2>3. \A k \in Task : (InLine(k)' <=> InLine(k)) /\ (Used(k)' <=> Used(k))
    BY <1>1, <1>2, <1>3, <2>1, <2>2 DEF InLine, Used, InProcess
  <2>4. \A k \in Task : StateOf(k)' = StateOf(k)
    BY <2>3, StateBy DEF StateIs
  <2>5. QED
    BY <1>1, <1>3, <2>2, <2>4, MapsToStutter
<1>5. CASE Process(q)
  <2>1. /\ workerPC[q] = "loop" /\ workerPC'[q] = "processed" /\ UNCHANGED batch
    BY <1>0, <1>5 DEF Process, At
  <2>2. /\ Unprocessed(q) = Line(q) /\ Unprocessed(q)' = Tail(Line(q))
        /\ Line(q) # <<>> /\ Head(Line(q)) = Head(batch[q]) /\ Head(batch[q]) \in Task
        /\ Head(batch[q]) \in ToSet(Line(q))
        /\ ToSet(Tail(Line(q))) = ToSet(Line(q)) \ {Head(batch[q])}
    <3>1. Line(q)' = Line(q)
      BY <1>5, WorkerMoves
    <3>2. Unprocessed(q)' = Tail(Line(q)')
      BY <2>1, UnprocessedAfter DEF UnprocessedLine
    <3>3. QED
      BY <2>1, <3>1, <3>2, UnprocessedIs
  <2>3. ~InLine(Head(batch[q]))'
    <3>1. \A r \in Queue \ {q} : Head(batch[q]) \notin ToSet(Unprocessed(r))
      BY <2>2, OneLine, UnprocessedIs
    <3>2. QED
      BY <1>3, <2>1, <2>2, <3>1 DEF InLine
  <2>4. Used(Head(batch[q]))'
    BY <2>1 DEF Used, InProcess
  <2>5. \A k \in Task \ {Head(batch[q])} : (InLine(k)' <=> InLine(k)) /\ (Used(k)' <=> Used(k))
    BY <1>1, <1>2, <1>3, <2>1, <2>2 DEF InLine, Used, InProcess
  <2>6. PICK k \in Task : k = Head(batch[q])
    BY <2>2
  <2>7. /\ StateOf(k)' = "done"
        /\ \A j \in Task \ {k} : StateOf(j)' = StateOf(j)
    BY <2>1, <2>3, <2>4, <2>5, <2>6, StateBy DEF StateIs
  <2>8. QED
    BY <1>1, <1>3, <2>2, <2>6, <2>7, MapsToProcess
<1>6. CASE MarkCompleted(q) \/ Recycle(q)
  <2>1. /\ workerPC[q] = "processed" /\ workerPC'[q] # "processed"
    BY <1>0, <1>6 DEF MarkCompleted, Recycle, At, AfterTask
  <2>2. Unprocessed(q)' = Unprocessed(q)
    <3>1. Line(q)' = Tail(Line(q))
      BY <1>6, WorkerMoves
    <3>2. Unprocessed(q) = Tail(Line(q)) /\ Unprocessed(q)' = Line(q)'
      BY <2>1, UnprocessedAfter DEF UnprocessedLine
    <3>3. QED
      BY <3>1, <3>2
  <2>3. \A k : InLine(k)' <=> InLine(k)
    BY <1>3, <2>2 DEF InLine
  <2>4. /\ Head(batch[q]) \in ToSet(Line(q)) /\ Head(batch[q]) \in Task
        /\ ~InLine(Head(batch[q])) /\ Used(Head(batch[q]))
    BY <2>1, ProcessedOnce DEF Used, InProcess
  <2>5. \A k \in Task \ {Head(batch[q])} : Used(k)' <=> Used(k)
    BY <1>1, <1>2, <2>1 DEF Used, InProcess
  <2>6. \A k \in Task \ {Head(batch[q])} : StateOf(k)' = StateOf(k)
    BY <2>3, <2>5, StateBy DEF StateIs
  <2>7. CASE MarkCompleted(q)
    <3>1. Head(batch[q]) \in SyncTask
      BY <2>7 DEF MarkCompleted
    <3>2. pc[Head(batch[q])] # "idle"
      BY <2>4, <3>1 DEF IInv, Owned
    <3>3. \A k \in SyncTask : k = Head(batch[q]) => Used(k)'
      BY <1>1, <3>1, <3>2 DEF Used
    <3>4. \A k \in Task : k = Head(batch[q]) => StateOf(k)' = StateOf(k)
      BY <2>3, <2>4, <3>1, <3>3, StateBy DEF StateIs
    <3>5. QED
      BY <1>1, <1>3, <2>2, <2>6, <3>4, MapsToStutter
  <2>8. CASE Recycle(q)
    <3>1. Head(batch[q]) \in AsyncTask /\ Head(batch[q]) \notin SyncTask
      BY <2>8, Kinds DEF Recycle
    <3>2. \A r \in Queue \ {q} : workerPC[r] = "processed" => Head(batch[r]) # Head(batch[q])
      BY <2>4, OneLine, ProcessedOnce
    <3>3. \A k \in Task : k = Head(batch[q]) => ~Used(k)'
      BY <1>2, <2>1, <3>1, <3>2 DEF Used, InProcess
    <3>4. \A k \in Task : k = Head(batch[q]) => StateOf(k) = "done" /\ StateOf(k)' = "free"
      BY <2>3, <2>4, <3>3, StateBy DEF StateIs
    <3>5. PICK k \in Task : k = Head(batch[q])
      BY <2>4
    <3>6. QED
      BY <1>1, <1>3, <2>2, <2>6, <3>4, <3>5, MapsToRelease
  <2>9. QED
    BY <1>6, <2>7, <2>8
<1>7. QED
  BY <1>4, <1>5, <1>6 DEF Worker

(* Destroying the queue drops the newest tasks, which nobody waits for.     *)
LEMMA DestroySimulates ==
  ASSUME IInv, IInv', NEW t \in Destructor, Destroy(t)
  PROVE  Order!Next
<1> DEFINE kept == IF workerPC["NonRT"] = "processed" THEN Tail(batch["NonRT"]) ELSE batch["NonRT"]
           dropped == tasks["NonRT"]
<1>0. "NonRT" \in Queue /\ "RT" \in Queue /\ \A q \in Queue : q = "RT" \/ q = "NonRT"
  BY DEF Queue
<1>1. /\ destructor = "NonRT" /\ destructor' = "destroyed"
      /\ tasks' = [tasks EXCEPT !["NonRT"] = <<>>]
      /\ UNCHANGED <<batch, workerPC, pc>>
      /\ \A s \in SyncTask : pc[s] = "idle"
  <2>1. /\ destructor = "NonRT" /\ destructor' = "destroyed" /\ pc[t] = "idle"
        /\ tasks' = [tasks EXCEPT !["NonRT"] = <<>>]
        /\ UNCHANGED <<batch, workerPC, pc>>
    BY DEF Destroy, callers, workers
  <2>2. \A s \in SyncTask : pc[s] = "idle"
    BY <2>1, Kinds, BoundAssumption DEF IInv, Stopping
  <2>3. QED
    BY <2>1, <2>2
<1>2. /\ tasks \in [Queue -> Seq(Task)] /\ batch \in [Queue -> Seq(Task)]
      /\ kept \in Seq(Task) /\ dropped \in Seq(Task)
  <2>1. /\ tasks \in [Queue -> Seq(Task)] /\ batch \in [Queue -> Seq(Task)]
        /\ workerPC["NonRT"] = "processed" => batch["NonRT"] # <<>>
    BY <1>0 DEF IInv, Types, Fetched
  <2>2. \A s \in Seq(Task) : s # <<>> => Tail(s) \in Seq(Task)
    BY HeadTailProperties
  <2>3. QED
    BY <1>0, <2>1, <2>2
<1>3. Unprocessed("NonRT") = kept \o dropped
  BY DEF Unprocessed
<1>4. /\ Unprocessed("NonRT")' = kept
      /\ Unprocessed("RT")' = Unprocessed("RT")
  <2>1. Unprocessed("NonRT")' = kept \o <<>>
    BY <1>0, <1>1, <1>2 DEF Unprocessed
  <2>2. \A s \in Seq(Task) : s \o <<>> = s
    BY ConcatEmptySeq
  <2>3. Unprocessed("RT")' = Unprocessed("RT")
    BY <1>0, <1>1, <1>2 DEF Unprocessed
  <2>4. QED
    BY <1>2, <2>1, <2>2, <2>3
<1> HIDE DEF kept, dropped
<1>5. /\ ToSet(Unprocessed("NonRT")) = ToSet(kept) \cup ToSet(dropped)
      /\ ToSet(kept) \cap ToSet(dropped) = {}
  <2>1. IsInjective(Unprocessed("NonRT"))
    <3>1. \A s \in Seq(Task) : s # <<>> /\ IsInjective(s) => IsInjective(Tail(s))
      BY TailSet
    <3>2. QED
      BY <1>0, <3>1, UnprocessedIs DEF IInv, Once
  <2>2. \A s, u \in Seq(Task) :
          /\ ToSet(s \o u) = ToSet(s) \cup ToSet(u)
          /\ IsInjective(s \o u) => ToSet(s) \cap ToSet(u) = {}
    BY ConcatSet, PartsApart
  <2>3. IsInjective(kept \o dropped)
    BY <1>3, <2>1
  <2>4. /\ ToSet(kept \o dropped) = ToSet(kept) \cup ToSet(dropped)
        /\ ToSet(kept) \cap ToSet(dropped) = {}
    BY <1>2, <2>2, <2>3
  <2>5. QED
    BY <1>3, <2>4
<1>6. \A k \in ToSet(dropped) : ~InLine(k)' /\ InLine(k) /\ k \in Task
  <2>1. \A k \in ToSet(dropped) : k \notin ToSet(Unprocessed("RT"))
    BY <1>0, <1>5, OneLine, UnprocessedIs
  <2>2. \A k \in ToSet(dropped) : k \in Task
    BY <1>2, LenProperties, ElementOfSeq DEF ToSet
  <2>3. QED
    BY <1>0, <1>4, <1>5, <2>1, <2>2 DEF InLine
<1>7. \A k \in Task : k \notin ToSet(dropped) => (InLine(k)' <=> InLine(k))
  BY <1>0, <1>4, <1>5 DEF InLine
<1>8. \A k : Used(k)' <=> Used(k)
  BY <1>1 DEF Used, InProcess
<1>9. \A k \in ToSet(dropped) : ~Used(k)
  BY <1>1, <1>6, ProcessedOnce DEF Used, InProcess
<1>10. \A k \in Task : StateOf(k)' = IF k \in ToSet(dropped) THEN "free" ELSE StateOf(k)
  BY <1>6, <1>7, <1>8, <1>9, StateBy DEF StateIs
<1>11. /\ Len(kept) \in 0..Len(Unprocessed("NonRT"))
       /\ SubSeq(Unprocessed("NonRT"), 1, Len(kept)) = kept
       /\ \A k : k \in ToSet(dropped) <=>
            \E i \in (Len(kept) + 1)..Len(Unprocessed("NonRT")) : Unprocessed("NonRT")[i] = k
  <2>1. ASSUME NEW s \in Seq(Task), NEW u \in Seq(Task)
        PROVE  /\ Len(s) \in 0..Len(s \o u)
               /\ SubSeq(s \o u, 1, Len(s)) = s
               /\ \A k : k \in ToSet(u) <=>
                    \E i \in (Len(s) + 1)..Len(s \o u) : (s \o u)[i] = k
    <3>1. /\ s \o u \in Seq(Task) /\ Len(s \o u) = Len(s) + Len(u)
          /\ Len(s) \in Nat /\ Len(u) \in Nat
          /\ DOMAIN u = 1..Len(u)
          /\ \A i \in 1..Len(s) : (s \o u)[i] = s[i]
          /\ \A i \in 1..(Len(s) + Len(u)) : i > Len(s) => (s \o u)[i] = u[i - Len(s)]
      BY ConcatParts
    <3>2. SubSeq(s \o u, 1, Len(s)) = s
      <4>1. \A i \in 1..Len(s) : (s \o u)[i] \in Task
        BY <3>1, ElementOfSeq
      <4>2. /\ SubSeq(s \o u, 1, Len(s)) \in Seq(Task)
            /\ Len(SubSeq(s \o u, 1, Len(s))) = Len(s)
            /\ \A i \in 1..Len(s) : SubSeq(s \o u, 1, Len(s))[i] = s[i]
        BY <3>1, <4>1, SubSeqProperties
      <4>3. QED
        BY <4>2, SeqEqual
    <3>3. ASSUME NEW i \in 1..Len(u)
          PROVE  Len(s) + i \in (Len(s) + 1)..Len(s \o u) /\ (s \o u)[Len(s) + i] = u[i]
      BY <3>1
    <3>4. ASSUME NEW i \in (Len(s) + 1)..Len(s \o u)
          PROVE  i - Len(s) \in 1..Len(u) /\ (s \o u)[i] = u[i - Len(s)]
      BY <3>1
    <3>5. ASSUME NEW k
          PROVE  k \in ToSet(u) <=> \E i \in (Len(s) + 1)..Len(s \o u) : (s \o u)[i] = k
      <4>1. ASSUME k \in ToSet(u)
            PROVE  \E i \in (Len(s) + 1)..Len(s \o u) : (s \o u)[i] = k
        <5>1. PICK j \in 1..Len(u) : u[j] = k
          BY <3>1, <4>1 DEF ToSet
        <5>2. QED
          BY <3>3, <5>1
      <4>2. ASSUME NEW i \in (Len(s) + 1)..Len(s \o u), (s \o u)[i] = k
            PROVE  k \in ToSet(u)
        BY <3>1, <3>4, <4>2 DEF ToSet
      <4>3. QED
        BY <4>1, <4>2
    <3>6. Len(s) \in 0..Len(s \o u)
      BY <3>1
    <3>7. QED
      BY <3>2, <3>5, <3>6, Zenon
  <2>2. \A s, u \in Seq(Task) :
           /\ Len(s) \in 0..Len(s \o u)
           /\ SubSeq(s \o u, 1, Len(s)) = s
           /\ \A k : k \in ToSet(u) <=>
                \E i \in (Len(s) + 1)..Len(s \o u) : (s \o u)[i] = k
    BY <2>1
  <2>3. /\ Len(kept) \in 0..Len(kept \o dropped)
        /\ SubSeq(kept \o dropped, 1, Len(kept)) = kept
        /\ \A k : k \in ToSet(dropped) <=>
             \E i \in (Len(kept) + 1)..Len(kept \o dropped) : (kept \o dropped)[i] = k
    BY <1>2, <2>2, Zenon
  <2>4. QED
    BY <1>3, <2>3
<1>12. Order!Destroy("NonRT")
  <2> DEFINE line == [r \in Queue |-> Unprocessed(r)]
             state == [j \in Task |-> StateOf(j)]
             n == Len(kept)
  <2>1. line["NonRT"] = Unprocessed("NonRT")
    BY <1>0
  <2>2. line' = [line EXCEPT !["NonRT"] = kept]
    BY <1>0, <1>4
  <2>3. state' = [k \in Task |-> IF k \in ToSet(dropped) THEN "free" ELSE state[k]]
    BY <1>10
  <2>4. (destructor = "destroyed") = FALSE /\ (destructor = "destroyed")' = TRUE
    BY <1>1
  <2> HIDE DEF line, state
  <2>5. /\ n \in 0..Len(line["NonRT"])
        /\ line' = [line EXCEPT !["NonRT"] = SubSeq(@, 1, n)]
    BY <1>11, <2>1, <2>2
  <2>6. state' = [k \in Task |->
          IF \E i \in (n + 1)..Len(line["NonRT"]) : line["NonRT"][i] = k THEN "free" ELSE state[k]]
    BY <1>11, <2>1, <2>3
  <2> HIDE DEF n
  <2>7. QED
    BY <2>4, <2>5, <2>6, Zenon DEF Order!Destroy, line, state
<1>13. QED
  BY <1>0, <1>12 DEF Order!Next

(* The queue implements TaskOrder: tasks are processed once, in the order   *)
(* they were queued, and their memory is let go only after that             *)
(* (WC_TaskQueue's stacks, MarkCompleted, the free list).                   *)
THEOREM Implements == Spec => ImplementsOrder
<1>1. Init => Order!Init
  <2> SUFFICES ASSUME Init PROVE Order!Init
    OBVIOUS
  <2>1. \A q \in Queue : Unprocessed(q) = <<>> /\ ToSet(Unprocessed(q)) = {}
    <3>1. \A q \in Queue : Unprocessed(q) = <<>> \o <<>>
      BY DEF Init, Unprocessed
    <3>2. <<>> \o <<>> = <<>>
      BY ConcatEmptySeq, EmptySeq
    <3>3. ToSet(<<>>) = {}
      BY DEF ToSet
    <3>4. QED
      BY <3>1, <3>2, <3>3
  <2>2. \A k \in Task : ~InLine(k) /\ ~Used(k)
    BY <2>1, Kinds DEF Init, InLine, Used, InProcess
  <2>3. \A k \in Task : StateOf(k) = "free"
    BY <2>2, StateBy DEF StateIs
  <2>4. (destructor = "destroyed") = FALSE
    BY DEF Init
  <2>5. QED
    BY <2>1, <2>3, <2>4 DEF Order!Init
<1>2. IInv /\ IInv' /\ [Next]_vars => [Order!Next]_(Order!vars)
  <2> SUFFICES ASSUME IInv, IInv', [Next]_vars
               PROVE  Order!Next \/ UNCHANGED Order!vars
    OBVIOUS
  <2>1. CASE UNCHANGED vars
    <3>1. UNCHANGED <<tasks, pc, workerPC, batch, destructor>>
      BY <2>1 DEF vars, callers, workers
    <3>2. \A q \in Queue : Unprocessed(q)' = Unprocessed(q)
      BY <3>1 DEF Unprocessed
    <3>3. \A k : (InLine(k)' <=> InLine(k)) /\ (Used(k)' <=> Used(k))
      BY <3>1, <3>2 DEF InLine, Used, InProcess
    <3>4. \A k \in Task : StateOf(k)' = StateOf(k)
      BY <3>3, StateBy DEF StateIs
    <3>5. QED
      BY <3>1, <3>2, <3>4, MapsToStutter
  <2>2. ASSUME NEW t \in SyncCaller, QueueSync(t)
        PROVE  Order!Next
    <3>1. /\ PushSync(t, "RT") /\ destructor = "alive" /\ destructor' = destructor
          /\ t \in SyncTask /\ "RT" \in Queue
      BY <2>2, Kinds DEF QueueSync, Queue
    <3>2. QED
      BY <3>1, PushSyncSimulates
  <2>3. ASSUME NEW t \in Destructor, StopWorker(t)
        PROVE  Order!Next
    <3>1. PICK q \in Queue : /\ PushSync(t, q) /\ t \in SyncTask
                             /\ destructor # "destroyed" /\ destructor' # "destroyed"
      BY <2>3, Kinds DEF StopWorker, Queue
    <3>2. QED
      BY <3>1, PushSyncSimulates
  <2>4. QED
    BY <2>1, <2>2, <2>3, Steps, OtherCallsSimulate, PushAsyncSimulates, WorkerSimulates, DestroySimulates
<1>3. QED
  BY Invariance, <1>1, <1>2, PTL DEF Spec, ImplementsOrder, Order!Spec
=============================================================================

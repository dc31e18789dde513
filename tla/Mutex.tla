-------------------------------- MODULE Mutex --------------------------------
(***************************************************************************)
(* CAMutex, which nearly every class of the driver and the app locks: a    *)
(* pthread mutex that is not recursive, beside a variable that names its   *)
(* owner.  mOwner is read without the mutex, to find out whether the       *)
(* thread that locks has it already.                                       *)
(*                                                                         *)
(* Code locks in scopes that nest: a Locker locks from where it stands to  *)
(* the end of its block, a Tryer does if it need not wait, and an Unlocker *)
(* unlocks for the rest of its block what was locked around it.  An inner  *)
(* Locker leaves the mutex locked.                                         *)
(***************************************************************************)
EXTENDS Naturals, Sequences

CONSTANTS
  Thread,
  Nobody,     \* mOwner of a mutex that nobody has
  MaxDepth    \* bound on the scopes a thread opens inside each other

MutexAssumption == Nobody \notin Thread /\ MaxDepth \in Nat

VARIABLES
  mOwner,   \* the thread that says it has the mutex
  mMutex,   \* the thread that has the pthread mutex
  scopes,   \* the scopes each thread is in, the innermost first
  where,       \* where a thread is in the call it makes
  opens     \* the scope that call is to open, or "none" when it closes one

mutexVars == <<mOwner, mMutex, scopes, where, opens>>

Kinds == {"locked", "unlocked", "failed"}
Scope == [kind : Kinds, mNeedsRelease : BOOLEAN]
CallPlaces == {"run", "lock", "try", "own", "release"}

MutexTypeOK ==
  /\ mOwner \in Thread \cup {Nobody} /\ mMutex \in Thread \cup {Nobody}
  /\ scopes \in [Thread -> Seq(Scope)]
  /\ where \in [Thread -> CallPlaces]
  /\ opens \in [Thread -> {"Locker", "Tryer", "Unlocker", "none"}]

MutexInit ==
  /\ mOwner = Nobody /\ mMutex = Nobody
  /\ scopes = [t \in Thread |-> <<>>]
  /\ where = [t \in Thread |-> "run"]
  /\ opens = [t \in Thread |-> "none"]

\* What the code in the innermost scope relies on.
Holds(t) == scopes[t] # <<>> /\ Head(scopes[t]).kind = "locked"

InCode(t) == where[t] = "run"
Opening(t, scope) ==
  InCode(t) /\ Len(scopes[t]) < MaxDepth /\ opens' = [opens EXCEPT ![t] = scope]
Goto(t, place) == where' = [where EXCEPT ![t] = place]
Open(t, kind, needsRelease) ==
  /\ scopes' = [scopes EXCEPT
       ![t] = <<[kind |-> kind, mNeedsRelease |-> needsRelease]>> \o @]
  /\ Goto(t, "run")
Leave(t) == scopes' = [scopes EXCEPT ![t] = Tail(@)] /\ Goto(t, "run")

-----------------------------------------------------------------------------
\* Lock answers whether its caller is the one to unlock.
Lock(t, place) ==
  /\ mOwner # t /\ Goto(t, place)
  /\ UNCHANGED <<mOwner, mMutex, scopes>>
OwnedAlready(t) ==
  mOwner = t /\ Open(t, "locked", FALSE) /\ UNCHANGED <<mOwner, mMutex>>
Locker(t) == Opening(t, "Locker") /\ (Lock(t, "lock") \/ OwnedAlready(t))
Tryer(t) == Opening(t, "Tryer") /\ (Lock(t, "try") \/ OwnedAlready(t))

TakeMutex(t) ==
  /\ mMutex = Nobody /\ mMutex' = t /\ Goto(t, "own")
  /\ UNCHANGED <<mOwner, scopes, opens>>
LockMutex(t) == where[t] = "lock" /\ TakeMutex(t)
\* The mutex, when locked by another thread, is not waited for.
TryMutex(t) ==
  /\ where[t] = "try"
  /\ \/ TakeMutex(t)
     \/ /\ mMutex # Nobody /\ Open(t, "failed", FALSE)
        /\ UNCHANGED <<mOwner, mMutex, opens>>
SetOwner(t) ==
  /\ where[t] = "own" /\ mOwner' = t
  /\ \/ opens[t] = "none" /\ Leave(t)
     \/ opens[t] # "none" /\ Open(t, "locked", TRUE)
  /\ UNCHANGED <<mMutex, opens>>

UnlockKeepingOwner(t) ==
  /\ mOwner = t /\ Goto(t, "release")
  /\ UNCHANGED <<mOwner, mMutex, scopes>>
\* The owner is forgotten before the mutex is unlocked.
Unlock(t) ==
  /\ mOwner = t /\ mOwner' = Nobody /\ Goto(t, "release")
  /\ UNCHANGED <<mMutex, scopes>>
ReleaseMutex(t) ==
  /\ where[t] = "release" /\ mMutex' = Nobody
  /\ \/ opens[t] = "Unlocker" /\ Open(t, "unlocked", FALSE)
     \/ opens[t] = "none" /\ Leave(t)
  /\ UNCHANGED <<mOwner, opens>>
\* An Unlocker stands where its thread holds the mutex.
Unlocker(t) == Holds(t) /\ Opening(t, "Unlocker") /\ Unlock(t)

\* The end of a block.
Closing(t) ==
  InCode(t) /\ scopes[t] # <<>> /\ opens' = [opens EXCEPT ![t] = "none"]
EndScope(t) ==
  /\ Closing(t)
  /\ \/ Head(scopes[t]).mNeedsRelease /\ Unlock(t)
     \/ /\ Head(scopes[t]).kind # "unlocked" /\ ~Head(scopes[t]).mNeedsRelease
        /\ Leave(t) /\ UNCHANGED <<mOwner, mMutex>>
     \/ Head(scopes[t]).kind = "unlocked" /\ Lock(t, "lock")

InCall(t) == TryMutex(t) \/ SetOwner(t) \/ ReleaseMutex(t)
MutexNext ==
  \E t \in Thread :
    Locker(t) \/ Tryer(t) \/ Unlocker(t) \/ EndScope(t) \/ LockMutex(t) \/ InCall(t)

MutexSpec == MutexInit /\ [][MutexNext]_mutexVars

-----------------------------------------------------------------------------
Holders == {t \in Thread : Holds(t)}
Waiting == {t \in Thread : where[t] \in {"lock", "own"}}

Exclusion == INSTANCE MutualExclusion WITH holders <- Holders, waiting <- Waiting
=============================================================================

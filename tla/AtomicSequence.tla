---------------------------- MODULE AtomicSequence ----------------------------
(***************************************************************************)
(* What TAtomicStack promises: a sequence of items, newest first, to which *)
(* items are added and from which all of them are taken at once.  The one  *)
(* who takes them gets them newest first (pop_all) or oldest first         *)
(* (pop_all_reversed).                                                     *)
(***************************************************************************)
EXTENDS Naturals, Sequences

CONSTANTS Item, Thread

VARIABLES
  items,   \* the items, newest first
  taken    \* what each thread has taken and not yet given back or let go

Init == items = <<>> /\ taken = [t \in Thread |-> <<>>]

Members(s) == {s[i] : i \in DOMAIN s}
Free(i) == i \notin Members(items) /\ \A t \in Thread : i \notin Members(taken[t])
Reversed(s) == [i \in DOMAIN s |-> s[Len(s) + 1 - i]]

Push(i) ==
  Free(i) /\ items' = <<i>> \o items /\ UNCHANGED taken
TakeAll(t) ==
  /\ taken[t] = <<>> /\ items # <<>> /\ items' = <<>>
  /\ \E s \in {items, Reversed(items)} : taken' = [taken EXCEPT ![t] = s]
\* The first item is done with.
LetGo(t) ==
  /\ taken[t] # <<>> /\ taken' = [taken EXCEPT ![t] = Tail(@)]
  /\ UNCHANGED items
\* pop_atomic keeps the newest and gives the others back, before any others
\* that have been added meanwhile.
GiveBack(t) ==
  /\ taken[t] # <<>> /\ items' = Tail(taken[t]) \o items
  /\ taken' = [taken EXCEPT ![t] = <<Head(@)>>]

Next ==
  \/ \E i \in Item : Push(i)
  \/ \E t \in Thread : TakeAll(t) \/ LetGo(t) \/ GiveBack(t)
Spec == Init /\ [][Next]_<<items, taken>>
=============================================================================

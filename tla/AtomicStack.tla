----------------------------- MODULE AtomicStack -----------------------------
(***************************************************************************)
(* TAtomicStack: a linked list whose head is changed by compare-and-swap.  *)
(* WC_TaskQueue's callers push tasks and its worker takes all of them,     *)
(* oldest first.  A task that a worker is done with may be pushed again at *)
(* once, so that a thread may find the head it read before, with another   *)
(* list behind it.                                                         *)
(*                                                                         *)
(* pop_atomic, which takes the list and pushes back all but its head, is   *)
(* what the destructor of WC_TaskQueue uses.  A link of an item that is in *)
(* nobody's list is whatever it was last.                                  *)
(***************************************************************************)
EXTENDS Naturals, Sequences, FiniteSets

CONSTANTS
  Item,     \* WC_Task
  Thread,   \* those that push and those that pop
  NULL

ItemAssumption == NULL \notin Item /\ IsFiniteSet(Item)

VARIABLES
  mHead,    \* the head of the list
  next,     \* the items' links
  free,     \* items that nobody uses
  thread    \* what each thread is doing

vars == <<mHead, next, free, thread>>

Pointer == Item \cup {NULL}
\* top and tail: the ends of the list a thread pushes; old: the head it read;
\* p: what it has popped and not yet dealt with; done: what it has reversed.
Idle == [at |-> "idle", top |-> NULL, tail |-> NULL, old |-> NULL,
         p |-> NULL, done |-> NULL, how |-> "push"]
Ways == {"all", "reversed", "one"}

Init ==
  /\ mHead = NULL /\ next = [i \in Item |-> NULL] /\ free = Item
  /\ thread = [t \in Thread |-> Idle]

At(t, a) == thread[t].at = a
Goes(t, a) == thread' = [thread EXCEPT ![t].at = a]
\* A mutant: the head is set without a look at what it is.
set_head(old, new) == mHead' = new
compare_and_swap(old, new) == mHead = old /\ mHead' = new

-----------------------------------------------------------------------------
(* push_atomic and push_multiple_atomic                                    *)

push_atomic(t, i) ==
  /\ At(t, "idle") /\ i \in free /\ free' = free \ {i}
  /\ thread' = [thread EXCEPT ![t] =
                  [Idle EXCEPT !.at = "load", !.top = i, !.tail = i]]
  /\ UNCHANGED <<mHead, next>>
Load(t) ==
  /\ At(t, "load")
  /\ thread' = [thread EXCEPT ![t].at = "link", ![t].old = mHead]
  /\ UNCHANGED <<mHead, next, free>>
Link(t) ==
  /\ At(t, "link") /\ next' = [next EXCEPT ![thread[t].tail] = thread[t].old]
  /\ Goes(t, "swap") /\ UNCHANGED <<mHead, free>>
\* A thread that gives the rest of what it popped back has its head left.
AfterPush(t) ==
  IF thread[t].how = "one" THEN [thread[t] EXCEPT !.at = "walk"] ELSE Idle
Swap(t) ==
  /\ At(t, "swap") /\ compare_and_swap(thread[t].old, thread[t].top)
  /\ thread' = [thread EXCEPT ![t] = AfterPush(t)]
  /\ UNCHANGED <<next, free>>
SwapFails(t) ==
  /\ At(t, "swap") /\ mHead # thread[t].old /\ Goes(t, "load")
  /\ UNCHANGED <<mHead, next, free>>

-----------------------------------------------------------------------------
(* pop_all, pop_all_reversed and pop_atomic                                *)

Pop(t, how) ==
  /\ At(t, "idle")
  /\ thread' = [thread EXCEPT ![t] = [Idle EXCEPT !.at = "take", !.how = how]]
  /\ UNCHANGED <<mHead, next, free>>
LoadAll(t) ==
  /\ At(t, "take")
  /\ thread' = [thread EXCEPT ![t] =
                  IF mHead = NULL THEN Idle
                  ELSE [@ EXCEPT !.at = "swap all", !.old = mHead]]
  /\ UNCHANGED <<mHead, next, free>>
\* The last item of the list that starts with i, which nobody else changes.
LastFrom(i) ==
  LET last[j \in Item] == IF next[j] = NULL THEN j ELSE last[next[j]] IN last[i]
AfterTaking(t) ==
  LET p == thread[t].old
      got == [thread[t] EXCEPT !.p = p]
  IN  CASE thread[t].how = "all"      -> [got EXCEPT !.at = "walk"]
        [] thread[t].how = "reversed" -> [got EXCEPT !.at = "reverse"]
        [] OTHER ->
             IF next[p] = NULL THEN [got EXCEPT !.at = "walk"]
             ELSE [got EXCEPT !.at = "load", !.top = next[p],
                     !.tail = LastFrom(next[p])]
SwapAll(t) ==
  /\ At(t, "swap all") /\ compare_and_swap(thread[t].old, NULL)
  /\ thread' = [thread EXCEPT ![t] = AfterTaking(t)]
  /\ UNCHANGED <<next, free>>
SwapAllFails(t) ==
  /\ At(t, "swap all") /\ mHead # thread[t].old /\ Goes(t, "take")
  /\ UNCHANGED <<mHead, next, free>>
\* One item after another moves to the list that is returned.
Reverse(t) ==
  LET p == thread[t].p
  IN  /\ At(t, "reverse") /\ next' = [next EXCEPT ![p] = thread[t].done]
      /\ thread' = [thread EXCEPT ![t] =
           IF next[p] = NULL
           THEN [@ EXCEPT !.at = "walk", !.p = p, !.done = NULL]
           ELSE [@ EXCEPT !.p = next[p], !.done = p]]
      /\ UNCHANGED <<mHead, free>>

\* The caller goes through its list; each item's link is read before it is
\* let go of.
Walk(t) ==
  LET p == thread[t].p
      rest == IF thread[t].how = "one" THEN NULL ELSE next[p]
  IN  /\ At(t, "walk") /\ free' = free \cup {p}
      /\ thread' = [thread EXCEPT ![t] =
           IF rest = NULL THEN Idle ELSE [@ EXCEPT !.p = rest]]
      /\ UNCHANGED <<mHead, next>>

Pushes(t) == Load(t) \/ Link(t) \/ Swap(t) \/ SwapFails(t)
Pops(t) ==
  LoadAll(t) \/ SwapAll(t) \/ SwapAllFails(t) \/ Reverse(t) \/ Walk(t)
Next ==
  \E t \in Thread :
    \/ \E i \in Item : push_atomic(t, i)
    \/ \E how \in Ways : Pop(t, how)
    \/ Pushes(t) \/ Pops(t)
Spec == Init /\ [][Next]_vars

-----------------------------------------------------------------------------
(* What the links amount to.                                               *)

\* The list from one pointer up to another; what a link leads to after `until`
\* does not belong to it.
ListUntil(start, until) ==
  LET list[n \in 0 .. Cardinality(Item), p \in Pointer] ==
        IF n = 0 \/ p = NULL THEN <<>>
        ELSE IF p = until THEN <<p>>
        ELSE <<p>> \o list[n - 1, next[p]]
  IN  list[Cardinality(Item), start]
ListFrom(start) == ListUntil(start, NULL)
Backwards(s) == [i \in DOMAIN s |-> s[Len(s) + 1 - i]]

TakenBy(t) ==
  LET me == thread[t]
  IN  CASE me.p = NULL -> <<>>
        [] me.at = "walk" /\ me.how = "one" -> <<me.p>>
        [] me.at = "walk" -> ListFrom(me.p)
        [] me.at = "reverse" -> Backwards(ListFrom(me.p)) \o ListFrom(me.done)
        [] OTHER -> <<me.p>> \o ListUntil(me.top, me.tail)

(* Threads that push and pop at any step of each other's, and items pushed *)
(* again as soon as they are let go of, make the list behave like one      *)
(* sequence: no item is lost, taken twice or out of order, though a head   *)
(* that is compared may have gone and come back with another list behind.  *)
Abstract == INSTANCE AtomicSequence
  WITH items <- ListFrom(mHead), taken <- [t \in Thread |-> TakenBy(t)]
StackImplements == Abstract!Spec
=============================================================================

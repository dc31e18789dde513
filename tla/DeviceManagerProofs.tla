------------------------- MODULE DeviceManagerProofs -------------------------
(* Proofs about DeviceManager: playthrough plays exactly while the app is     *)
(* counted as a client of the virtual device, and after a change of the       *)
(* output device everything is on the device that is reported.                *)
EXTENDS DeviceManager, TLAPS

(* Where the holder of stateLock is, and which steps can come next: while the *)
(* output device is set, and in handlers and requests.                        *)
First(steps) == IF steps = <<>> THEN <<"end">> ELSE Head(steps)
pc == First(todo)

Follows(step, kind) ==
    IF kind = "handle"
    THEN CASE step[1] = "start"                   -> {<<"end">>, <<"ifIdle", step[2]>>}
           [] step[1] = "startSync"               -> {<<"wait", step[2]>>}
           [] step[1] \in {"ifIdle", "stop", "ifRunning", "wait"} -> {<<"end">>}
           [] OTHER                               -> {}
    ELSE CASE step = <<"deactivate", "main">>     -> {<<"deactivate", "UISounds">>}
           [] step = <<"deactivate", "UISounds">> -> {<<"sync">>}
           [] step = <<"sync">>                   -> {<<"attach", "main">>}
           [] step = <<"attach", "main">>         -> {<<"attach", "UISounds">>}
           [] step = <<"attach", "UISounds">>     -> {<<"assign">>}
           [] step = <<"assign">>                 -> {<<"start", "main">>}
           [] step = <<"start", "main">>          -> {<<"start", "UISounds">>}
           [] step = <<"start", "UISounds">>      -> {<<"ifIdle", "main">>}
           [] step \in {<<"ifIdle", "main">>, <<"stop", "main">>} -> {<<"ifIdle", "UISounds">>}
           [] step \in {<<"ifIdle", "UISounds">>, <<"stop", "UISounds">>} -> {<<"done">>}
           [] step = <<"done">>                   -> {<<"end">>}
           [] OTHER                               -> {}

InOrder(steps, kind) ==
    \A k \in 1..Len(steps) :
        (IF k < Len(steps) THEN steps[k + 1] ELSE <<"end">>) \in Follows(steps[k], kind)

(* The steps before which control sync, a playthrough and outputDevice have   *)
(* got the device that is being set.                                          *)
Assigned == ({"start", "ifIdle", "stop"} \X Instance) \cup {<<"done">>}
Attached(i) ==
    Assigned \cup {<<"assign">>} \cup {s \in {<<"attach", "UISounds">>} : i = "main"}
Synced == Assigned \cup {<<"assign">>, <<"attach", "main">>, <<"attach", "UISounds">>}

Through == [device : Device \cup {None}, active : BOOLEAN, playing : BOOLEAN]
Sync == [device : Device \cup {None}, active : BOOLEAN]
Call == [kind : {"set", "revert", "handle"}, to : Device \cup {None},
         from : Device \cup {None}, revertOnFailure : BOOLEAN]

LockTypes ==
    /\ todo \in Seq(Steps)
    /\ call \in Call
    /\ result \in {"ok", "reverted", "other"}
ManagerTypes ==
    /\ outputDevice \in Device \cup {None}
    /\ through \in [Instance -> Through]
    /\ sync \in Sync
HandshakeTypes ==
    /\ phase \in [Client -> {"off", "starting", "on"}]
    /\ requests \subseteq Client
    /\ blocks \in [Instance -> 0..MaxNotices]
    /\ bigSur \in BOOLEAN
    /\ changes \in 0..MaxChanges /\ failures \in 0..MaxFailures
Counted == \A i \in Instance : through[i].playing <=> App \in running[i]

Calls ==
    /\ call.kind = "handle" => call = Handler
    /\ call.kind # "handle" => todo # <<>>

Ordered == LockTypes /\ InOrder(todo, call.kind) /\ Calls

Progress ==
    call.kind = "set" =>
        /\ call.from = call.to => pc = <<"done">>
        /\ call.from # call.to =>
            /\ pc \in Synced => sync = [device |-> call.to, active |-> TRUE]
            /\ \A i \in Instance : pc \in Attached(i) =>
                  through[i].device = call.to /\ through[i].active
            /\ pc \in Assigned => outputDevice = call.to

IInv ==
    /\ DriverTypeOK /\ Ordered /\ ManagerTypes /\ HandshakeTypes /\ Counted
    /\ Progress /\ Agreement
-----------------------------------------------------------------------------
(* The order of the steps.                                                    *)

(* What comes after each step of a handler, and of a change.                  *)
LEMMA HandlerFollows ==
    ASSUME NEW kind, kind = "handle"
    PROVE  /\ \A i \in Instance :
                /\ Follows(<<"start", i>>, kind) = {<<"end">>, <<"ifIdle", i>>}
                /\ \A s \in {"ifIdle", "stop", "ifRunning"} : Follows(<<s, i>>, kind) = {<<"end">>}
                /\ \A s \in {"deactivate", "attach"} : Follows(<<s, i>>, kind) = {}
           /\ \A c \in Client : /\ Follows(<<"startSync", c>>, kind) = {<<"wait", c>>}
                                /\ Follows(<<"wait", c>>, kind) = {<<"end">>}
           /\ \A s \in {"sync", "assign", "done"} : Follows(<<s>>, kind) = {}
  BY DEF Follows

LEMMA ChangeFollows ==
    ASSUME NEW kind, kind # "handle"
    PROVE  /\ Follows(<<"deactivate", "main">>, kind) = {<<"deactivate", "UISounds">>}
           /\ Follows(<<"deactivate", "UISounds">>, kind) = {<<"sync">>}
           /\ Follows(<<"sync">>, kind) = {<<"attach", "main">>}
           /\ Follows(<<"attach", "main">>, kind) = {<<"attach", "UISounds">>}
           /\ Follows(<<"attach", "UISounds">>, kind) = {<<"assign">>}
           /\ Follows(<<"assign">>, kind) = {<<"start", "main">>}
           /\ Follows(<<"start", "main">>, kind) = {<<"start", "UISounds">>}
           /\ Follows(<<"start", "UISounds">>, kind) = {<<"ifIdle", "main">>}
           /\ Follows(<<"ifIdle", "main">>, kind) = {<<"ifIdle", "UISounds">>}
           /\ Follows(<<"stop", "main">>, kind) = {<<"ifIdle", "UISounds">>}
           /\ Follows(<<"ifIdle", "UISounds">>, kind) = {<<"done">>}
           /\ Follows(<<"stop", "UISounds">>, kind) = {<<"done">>}
           /\ Follows(<<"done">>, kind) = {<<"end">>}
           /\ \A i \in Instance : Follows(<<"ifRunning", i>>, kind) = {}
           /\ \A s \in {"startSync", "wait"}, c \in Client : Follows(<<s, c>>, kind) = {}
  BY DEF Follows, Instance

(* A change ends with its last step only.                                     *)
LEMMA ChangeGoesOn ==
    ASSUME NEW kind, kind # "handle", NEW step \in Steps, step # <<"done">>
    PROVE  <<"end">> \notin Follows(step, kind)
  BY DEF Follows

(* Steps put before others that may follow them.                              *)
LEMMA Joined ==
  ASSUME NEW kind, NEW a \in Seq(Steps), NEW b \in Seq(Steps), a # <<>>, InOrder(b, kind),
         \A i \in 1..(Len(a) - 1) : a[i + 1] \in Follows(a[i], kind),
         First(b) \in Follows(a[Len(a)], kind)
  PROVE  a \o b \in Seq(Steps) /\ InOrder(a \o b, kind) /\ First(a \o b) = a[1]
<1>1. a \o b \in Seq(Steps) /\ Len(a \o b) = Len(a) + Len(b)
  OBVIOUS
<1>2. Len(a) \in Nat \ {0} /\ Len(b) \in Nat
  OBVIOUS
<1>3. ASSUME NEW i \in 1..Len(a \o b)
      PROVE  (IF i < Len(a \o b) THEN (a \o b)[i + 1] ELSE <<"end">>) \in Follows((a \o b)[i], kind)
  <2>1. CASE i < Len(a)
    <3>1. (a \o b)[i] = a[i] /\ (a \o b)[i + 1] = a[i + 1] /\ i < Len(a \o b)
      BY <1>1, <1>2, <2>1
    <3> QED
      BY <1>1, <1>2, <2>1, <3>1
  <2>2. CASE i = Len(a) /\ b = <<>>
    <3>1. (a \o b)[i] = a[i] /\ ~(i < Len(a \o b)) /\ First(b) = <<"end">>
      BY <1>1, <1>2, <2>2 DEF First
    <3> QED
      BY <2>2, <3>1
  <2>3. CASE i = Len(a) /\ b # <<>>
    <3>1. (a \o b)[i] = a[i] /\ (a \o b)[i + 1] = b[1] /\ i < Len(a \o b) /\ First(b) = b[1]
      BY <1>1, <1>2, <2>3 DEF First
    <3> QED
      BY <2>3, <3>1
  <2>4. CASE i > Len(a)
    <3> DEFINE j == i - Len(a)
    <3>1. j \in 1..Len(b) /\ (a \o b)[i] = b[j]
      BY <1>1, <1>2, <2>4
    <3>2. (IF j < Len(b) THEN b[j + 1] ELSE <<"end">>) \in Follows(b[j], kind)
      BY <3>1 DEF InOrder
    <3>3. j < Len(b) => (a \o b)[i + 1] = b[j + 1]
      BY <1>1, <1>2, <2>4
    <3>4. j < Len(b) <=> i < Len(a \o b)
      BY <1>1, <1>2, <2>4
    <3> HIDE DEF j
    <3> QED
      BY <3>1, <3>2, <3>3, <3>4
  <2> QED
    BY <1>1, <1>2, <2>1, <2>2, <2>3, <2>4
<1>4. a \o b # <<>> /\ Head(a \o b) = a[1]
  BY <1>1, <1>2
<1> QED
  BY <1>1, <1>3, <1>4 DEF InOrder, First

(* What is left when a step has been taken.                                   *)
LEMMA Taken ==
  ASSUME NEW kind, todo \in Seq(Steps), todo # <<>>, InOrder(todo, kind)
  PROVE  /\ Tail(todo) \in Seq(Steps) /\ InOrder(Tail(todo), kind)
         /\ First(Tail(todo)) \in Follows(Head(todo), kind)
<1>1. Len(todo) \in Nat \ {0} /\ Tail(todo) \in Seq(Steps) /\ Len(Tail(todo)) = Len(todo) - 1
  OBVIOUS
<1>2. \A i \in 1..Len(Tail(todo)) : Tail(todo)[i] = todo[i + 1]
  OBVIOUS
<1>3. ASSUME NEW i \in 1..Len(Tail(todo))
      PROVE  (IF i < Len(Tail(todo)) THEN Tail(todo)[i + 1] ELSE <<"end">>) \in Follows(Tail(todo)[i], kind)
  <2>1. i + 1 \in 1..Len(todo) /\ (i < Len(Tail(todo)) <=> i + 1 < Len(todo))
    BY <1>1
  <2>2. (IF i + 1 < Len(todo) THEN todo[i + 1 + 1] ELSE <<"end">>) \in Follows(todo[i + 1], kind)
    BY <2>1 DEF InOrder
  <2>3. i < Len(Tail(todo)) => Tail(todo)[i + 1] = todo[i + 1 + 1]
    BY <1>1, <1>2, <2>1
  <2> QED
    BY <1>2, <2>1, <2>2, <2>3
<1>4. First(Tail(todo)) \in Follows(Head(todo), kind)
  <2>1. (IF 1 < Len(todo) THEN todo[1 + 1] ELSE <<"end">>) \in Follows(todo[1], kind)
    BY <1>1 DEF InOrder
  <2>2. Head(todo) = todo[1]
    OBVIOUS
  <2>3. CASE 1 < Len(todo)
    <3> DEFINE rest == Tail(todo)
    <3>0. Len(rest) \in Nat /\ 1 \in 1..Len(rest)
      BY <1>1, <2>3
    <3>1. rest \in Seq(Steps) /\ Len(rest) # 0 /\ rest[1] = todo[1 + 1]
      <4>1. rest[1] = todo[1 + 1]
        BY <1>2, <3>0
      <4> QED
        BY <1>1, <3>0, <4>1
    <3>2. \A q \in Seq(Steps) : Len(q) # 0 => q # <<>> /\ Head(q) = q[1]
      OBVIOUS
    <3>3. rest # <<>> /\ Head(rest) = rest[1]
      BY <3>1, <3>2
    <3> QED
      BY <2>1, <2>2, <2>3, <3>1, <3>3 DEF First
  <2>4. CASE ~(1 < Len(todo))
    <3>1. Tail(todo) = <<>>
      BY <1>1, <2>4
    <3> QED
      BY <2>1, <2>2, <2>4, <3>1 DEF First
  <2> QED
    BY <2>3, <2>4
<1> QED
  BY <1>1, <1>3, <1>4 DEF InOrder

(* The steps of setOutputDeviceWithIDImpl.                                    *)
LEMMA SetStepsInOrder ==
  ASSUME NEW kind, kind # "handle", NEW d
  PROVE  /\ SetSteps(d) \in Seq(Steps) /\ InOrder(SetSteps(d), kind) /\ SetSteps(d) # <<>>
         /\ First(SetSteps(d)) = IF d = outputDevice THEN <<"done">> ELSE <<"deactivate", "main">>
<1> DEFINE end == <<<<"done">>>>
           steps == <<<<"deactivate", "main">>, <<"deactivate", "UISounds">>, <<"sync">>,
                      <<"attach", "main">>, <<"attach", "UISounds">>, <<"assign">>,
                      <<"start", "main">>, <<"start", "UISounds">>,
                      <<"ifIdle", "main">>, <<"ifIdle", "UISounds">>>>
<1>1. end \in Seq(Steps) /\ Len(end) = 1 /\ end[1] = <<"done">> /\ end # <<>> /\ Head(end) = <<"done">>
  BY DEF Steps
<1>2. <<"end">> \in Follows(<<"done">>, kind)
  BY ChangeFollows
<1>3. steps \in Seq(Steps) /\ Len(steps) = 10 /\ steps # <<>>
  BY DEF Steps, Instance
<1>4. /\ steps[1] = <<"deactivate", "main">> /\ steps[2] = <<"deactivate", "UISounds">>
      /\ steps[3] = <<"sync">> /\ steps[4] = <<"attach", "main">>
      /\ steps[5] = <<"attach", "UISounds">> /\ steps[6] = <<"assign">>
      /\ steps[7] = <<"start", "main">> /\ steps[8] = <<"start", "UISounds">>
      /\ steps[9] = <<"ifIdle", "main">> /\ steps[10] = <<"ifIdle", "UISounds">>
  OBVIOUS
<1>0. /\ Follows(<<"deactivate", "main">>, kind) = {<<"deactivate", "UISounds">>}
      /\ Follows(<<"deactivate", "UISounds">>, kind) = {<<"sync">>}
      /\ Follows(<<"sync">>, kind) = {<<"attach", "main">>}
      /\ Follows(<<"attach", "main">>, kind) = {<<"attach", "UISounds">>}
      /\ Follows(<<"attach", "UISounds">>, kind) = {<<"assign">>}
      /\ Follows(<<"assign">>, kind) = {<<"start", "main">>}
      /\ Follows(<<"start", "main">>, kind) = {<<"start", "UISounds">>}
      /\ Follows(<<"start", "UISounds">>, kind) = {<<"ifIdle", "main">>}
      /\ Follows(<<"ifIdle", "main">>, kind) = {<<"ifIdle", "UISounds">>}
      /\ Follows(<<"ifIdle", "UISounds">>, kind) = {<<"done">>}
  BY ChangeFollows
<1>5. SetSteps(d) = IF d = outputDevice THEN <<>> \o end ELSE steps \o end
  BY DEF SetSteps
<1>6. <<>> \o end = end
  OBVIOUS
<1> HIDE DEF end, steps
<1>7. InOrder(end, kind) /\ First(end) = <<"done">>
  BY <1>1, <1>2 DEF InOrder, First
<1>8. \A i \in 1..(Len(steps) - 1) : steps[i + 1] \in Follows(steps[i], kind)
  <2>1. steps[2] \in Follows(steps[1], kind)
    BY <1>0, <1>4
  <2>2. steps[3] \in Follows(steps[2], kind)
    BY <1>0, <1>4
  <2>3. steps[4] \in Follows(steps[3], kind)
    BY <1>0, <1>4
  <2>4. steps[5] \in Follows(steps[4], kind)
    BY <1>0, <1>4
  <2>5. steps[6] \in Follows(steps[5], kind)
    BY <1>0, <1>4
  <2>6. steps[7] \in Follows(steps[6], kind)
    BY <1>0, <1>4
  <2>7. steps[8] \in Follows(steps[7], kind)
    BY <1>0, <1>4
  <2>8. steps[9] \in Follows(steps[8], kind)
    BY <1>0, <1>4
  <2>9. steps[10] \in Follows(steps[9], kind)
    BY <1>0, <1>4
  <2>10. ASSUME NEW i \in 1..9
         PROVE  i \in {1, 2, 3, 4, 5, 6, 7, 8, 9}
    OBVIOUS
  <2>11. ASSUME NEW i \in {1, 2, 3, 4, 5, 6, 7, 8, 9}
         PROVE  steps[i + 1] \in Follows(steps[i], kind)
    BY <2>1, <2>2, <2>3, <2>4, <2>5, <2>6, <2>7, <2>8, <2>9
  <2> QED
    BY <1>3, <2>10, <2>11
<1>9. First(end) \in Follows(steps[Len(steps)], kind)
  BY <1>0, <1>3, <1>4, <1>7
<1>10. steps \o end \in Seq(Steps) /\ InOrder(steps \o end, kind) /\ First(steps \o end) = steps[1]
  BY <1>1, <1>3, <1>7, <1>8, <1>9, Joined
<1>11. steps \o end # <<>>
  BY <1>3, <1>1
<1> QED
  BY <1>1, <1>4, <1>5, <1>6, <1>7, <1>10, <1>11

(* Where a step can be: handlers have no step of a change, changes none of    *)
(* theirs.                                                                    *)
LEMMA Reached ==
  ASSUME Ordered, NEW step, At(step)
  PROVE  /\ step \in Steps /\ pc = step /\ Follows(step, call.kind) # {}
         /\ Tail(todo) \in Seq(Steps) /\ InOrder(Tail(todo), call.kind)
         /\ First(Tail(todo)) \in Follows(step, call.kind)
<1>1. todo \in Seq(Steps) /\ todo # <<>> /\ Head(todo) = step /\ InOrder(todo, call.kind)
  BY DEF Ordered, LockTypes, At, Free
<1>2. Head(todo) \in Steps
  BY <1>1
<1> QED
  BY <1>1, <1>2, Taken DEF pc, First

(* The next step when one has been taken, or replaced by another.             *)
LEMMA Advances ==
  ASSUME Ordered, NEW step, At(step), step # <<"done">>,
         Does(<<>>), UNCHANGED <<call, result>>
  PROVE  Ordered' /\ pc = step /\ pc' \in Follows(step, call.kind)
<1>1. /\ step \in Steps /\ pc = step
      /\ Tail(todo) \in Seq(Steps) /\ InOrder(Tail(todo), call.kind)
      /\ First(Tail(todo)) \in Follows(step, call.kind)
  BY Reached
<1>2. todo' = Tail(todo)
  BY <1>1 DEF Does
<1>3. call.kind # "handle" => todo' # <<>>
  BY <1>1, <1>2, ChangeGoesOn DEF First
<1>4. LockTypes'
  BY <1>1, <1>2 DEF Ordered, LockTypes
<1>5. Calls'
  BY <1>3 DEF Ordered, Calls, Handler
<1>6. InOrder(todo, call.kind)' /\ pc' \in Follows(step, call.kind)
  BY <1>1, <1>2 DEF InOrder, pc, First
<1> QED
  BY <1>1, <1>4, <1>5, <1>6 DEF Ordered

LEMMA Replaced ==
  ASSUME Ordered, NEW step, At(step), NEW other \in Steps,
         Follows(step, call.kind) \subseteq Follows(other, call.kind),
         Does(<<other>>), UNCHANGED <<call, result>>
  PROVE  Ordered' /\ pc = step /\ pc' = other
<1> DEFINE steps == <<other>>
<1>1. steps \in Seq(Steps) /\ Len(steps) = 1 /\ steps[1] = other /\ steps # <<>>
  OBVIOUS
<1>2. todo' = steps \o Tail(todo)
  BY DEF Does
<1>3. /\ pc = step /\ Tail(todo) \in Seq(Steps) /\ InOrder(Tail(todo), call.kind)
      /\ First(Tail(todo)) \in Follows(other, call.kind)
  BY Reached
<1> HIDE DEF steps
<1>4. \A i \in 1..(Len(steps) - 1) : steps[i + 1] \in Follows(steps[i], call.kind)
  BY <1>1
<1>5. todo' \in Seq(Steps) /\ InOrder(todo', call.kind) /\ First(todo') = other
  BY <1>1, <1>2, <1>3, <1>4, Joined
<1>6. todo' # <<>>
  BY <1>1, <1>2, <1>3
<1>7. LockTypes'
  BY <1>5 DEF Ordered, LockTypes
<1>8. Calls'
  BY <1>6 DEF Ordered, Calls, Handler
<1>9. InOrder(todo, call.kind)' /\ pc' = other
  BY <1>5 DEF InOrder, pc, First
<1> QED
  BY <1>3, <1>7, <1>8, <1>9 DEF Ordered

(* The end of a change.                                                       *)
LEMMA Returns ==
  ASSUME Ordered, NEW r \in {"ok", "reverted", "other"}, Return(r)
  PROVE  Ordered' /\ call' = Handler /\ call'.kind = "handle" /\ result' = r
<1>1. todo' = <<>> /\ call' = Handler /\ result' = r
  BY DEF Return
<1>2. Handler \in Call /\ Handler.kind = "handle"
  BY DEF Handler, Call
<1>3. todo' \in Seq(Steps) /\ InOrder(todo', call'.kind)
  BY <1>1 DEF InOrder
<1>4. Calls'
  BY <1>1, <1>2 DEF Calls, Handler
<1> QED
  BY <1>1, <1>2, <1>3, <1>4 DEF Ordered, LockTypes, InOrder

(* An error leaves the handler's result alone; a change ends, or goes back to *)
(* the device it came from.                                                   *)
LEMMA Throws ==
  ASSUME Ordered, NEW step, At(step), Throw
  PROVE  /\ Ordered' /\ call'.kind # "set"
         /\ \/ call.kind = "handle" /\ call' = call /\ result' = result
            \/ call'.kind = "revert" \/ result' # "ok"
<1>1. CASE call.kind = "handle" /\ Does(<<>>) /\ UNCHANGED <<call, result>>
  <2>1. step # <<"done">>
    BY <1>1, Reached, HandlerFollows
  <2> QED
    BY <1>1, <2>1, Advances
<1>2. CASE /\ call.kind = "set" /\ call.revertOnFailure
           /\ call' = [call EXCEPT !.kind = "revert", !.to = call.from]
           /\ todo' = SetSteps(call.from) /\ UNCHANGED result
  <2>1. call' \in Call /\ call'.kind = "revert"
    BY <1>2 DEF Ordered, LockTypes, Call
  <2>2. todo' \in Seq(Steps) /\ InOrder(todo', "revert") /\ todo' # <<>>
    BY <1>2, SetStepsInOrder
  <2>3. Calls'
    BY <2>1, <2>2 DEF Calls
  <2>4. InOrder(todo, call.kind)'
    BY <2>1, <2>2 DEF InOrder
  <2> QED
    BY <1>2, <2>1, <2>2, <2>3, <2>4 DEF Ordered, LockTypes
<1>3. CASE Return("other")
  BY <1>3, Returns
<1> QED
  BY <1>1, <1>2, <1>3 DEF Throw

(* What does not touch the devices that are set, and their activity, cannot   *)
(* make them disagree.                                                        *)
Keeps ==
    /\ outputDevice' = outputDevice /\ sync' = sync
    /\ \A i \in Instance : /\ through'[i].device = through[i].device
                           /\ through[i].active => through'[i].active

Undisturbed == {"start", "ifIdle", "stop"} \X Instance

LEMMA AgreementKept ==
  ASSUME Agreement, Keeps, UNCHANGED <<call, result>>
  PROVE  Agreement'
<1>1. Agree => Agree'
  BY DEF Agree, Keeps
<1> QED
  BY <1>1 DEF Agreement, Settled, Handler

(* A step of the holder that leaves them alone.                               *)
LEMMA Kept ==
  ASSUME Ordered, Progress, Agreement, Keeps, UNCHANGED <<call, result>>,
         pc' = pc \/ call.kind = "handle" \/ pc \in Undisturbed
  PROVE  Progress' /\ Agreement'
<1>1. CASE call.kind = "handle"
  BY <1>1, AgreementKept DEF Progress
<1>2. CASE call.kind # "handle" /\ (pc' = pc \/ pc \in Undisturbed)
  <2>1. /\ pc' \in Synced => pc \in Synced
        /\ \A i \in Instance : pc' \in Attached(i) => pc \in Attached(i)
        /\ pc' \in Assigned => pc \in Assigned
        /\ pc = <<"done">> => pc' = <<"done">>
    BY <1>2 DEF Synced, Attached, Assigned, Undisturbed
  <2>2. ASSUME call.kind = "set", call.from # call.to
        PROVE  /\ pc' \in Synced => sync' = [device |-> call.to, active |-> TRUE]
               /\ \A i \in Instance : pc' \in Attached(i) =>
                     through'[i].device = call.to /\ through'[i].active
               /\ pc' \in Assigned => outputDevice' = call.to
    BY <2>1, <2>2 DEF Progress, Keeps
  <2>4. Progress'
    BY <2>1, <2>2 DEF Progress, Attached, Synced, Assigned
  <2> QED
    BY <2>4, AgreementKept
<1> QED
  BY <1>1, <1>2

(* The holder gives up on an error.                                           *)
LEMMA GivesUp ==
  ASSUME Ordered, Agreement, NEW step, At(step), Throw, call.kind = "handle" => Keeps
  PROVE  Ordered' /\ Progress' /\ Agreement'
<1>1. /\ Ordered' /\ call'.kind # "set"
      /\ \/ call.kind = "handle" /\ call' = call /\ result' = result
         \/ call'.kind = "revert" \/ result' # "ok"
  BY Throws
<1>2. Progress'
  BY <1>1 DEF Progress
<1>3. CASE call.kind = "handle" /\ call' = call /\ result' = result
  BY <1>1, <1>2, <1>3, AgreementKept
<1>4. CASE call'.kind = "revert" \/ result' # "ok"
  BY <1>1, <1>2, <1>4 DEF Agreement, Settled, Handler
<1> QED
  BY <1>1, <1>3, <1>4

-----------------------------------------------------------------------------
(* The driver's side.                                                         *)

LEMMA OneMoreNotice ==
  ASSUME NEW notices \in [Instance -> 0..MaxNotices], NEW i \in Instance
  PROVE  OneMore(notices, i) \in [Instance -> 0..MaxNotices]
<1>1. notices[i] \in 0..MaxNotices /\ (notices[i] < MaxNotices => notices[i] + 1 \in 0..MaxNotices)
  BY ClientAssumption
<1> QED
  BY <1>1 DEF OneMore

LEMMA Notifies ==
  ASSUME DriverTypeOK, NEW i \in Instance, NEW b \in BOOLEAN, Notify(i, b)
  PROVE  lastNotified' \in [Instance -> BOOLEAN] /\ idleNotices' \in [Instance -> 0..MaxNotices]
<1>1. idleNotices' = idleNotices \/ idleNotices' = OneMore(idleNotices, i)
  BY DEF Notify
<1>2. lastNotified' \in [Instance -> BOOLEAN]
  BY DEF Notify, DriverTypeOK
<1> QED
  BY <1>1, <1>2, OneMoreNotice DEF DriverTypeOK

LEMMA HALNotifies ==
  ASSUME DriverTypeOK, NEW i \in Instance, NEW b, NoticeIf(i, b)
  PROVE  runNotices' \in [Instance -> 0..MaxNotices]
<1>1. runNotices' = runNotices \/ runNotices' = OneMore(runNotices, i)
  BY DEF NoticeIf
<1> QED
  BY <1>1, OneMoreNotice DEF DriverTypeOK

LEMMA Starts ==
  ASSUME DriverTypeOK, NEW i \in Instance, AppStartsIO(i)
  PROVE  DriverTypeOK' /\ running' = [running EXCEPT ![i] = @ \cup {App}]
<1>1. running' = [running EXCEPT ![i] = @ \cup {App}] /\ UNCHANGED <<age, cycled, lastNotified, idleNotices>>
  BY DEF AppStartsIO
<1>2. runNotices' \in [Instance -> 0..MaxNotices]
  BY HALNotifies DEF AppStartsIO, NoticeIf
<1>3. running' \in [Instance -> SUBSET (Client \cup {App})]
  BY <1>1 DEF DriverTypeOK
<1> QED
  BY <1>1, <1>2, <1>3 DEF DriverTypeOK

LEMMA Stops ==
  ASSUME DriverTypeOK, NEW i \in Instance, NEW c \in Client \cup {App}, StopsIO(i, c)
  PROVE  DriverTypeOK' /\ running' = [running EXCEPT ![i] = @ \ {c}]
<1>1. running' = [running EXCEPT ![i] = @ \ {c}] /\ cycled' = cycled \ {c}
  BY DEF StopsIO
<1>2. runNotices' \in [Instance -> 0..MaxNotices]
  BY HALNotifies DEF StopsIO, NoticeIf
<1>3. running' \in [Instance -> SUBSET (Client \cup {App})] /\ cycled' \subseteq Client
  BY <1>1 DEF DriverTypeOK
<1>4. /\ age' \in [Instance -> 0..2] /\ lastNotified' \in [Instance -> BOOLEAN]
      /\ idleNotices' \in [Instance -> 0..MaxNotices]
  <2>1. CASE running[i] = {c}
    <3>1. age' = [age EXCEPT ![i] = 2] /\ Notify(i, FALSE)
      BY <2>1 DEF StopsIO
    <3>2. age' \in [Instance -> 0..2]
      BY <3>1 DEF DriverTypeOK
    <3> QED
      BY <3>1, <3>2, Notifies
  <2>2. CASE running[i] # {c}
    BY <2>2 DEF StopsIO, DriverTypeOK
  <2> QED
    BY <2>1, <2>2
<1> QED
  BY <1>1, <1>2, <1>3, <1>4 DEF DriverTypeOK

LEMMA ClientStarts ==
  ASSUME DriverTypeOK, NEW c \in Client, ClientStartsIO(c)
  PROVE  DriverTypeOK' /\ running' = [running EXCEPT ![On[c]] = @ \cup {c}]
<1>1. On[c] \in Instance
  BY ClientAssumption
<1>2. /\ running' = [running EXCEPT ![On[c]] = @ \cup {c}]
      /\ age' = [age EXCEPT ![On[c]] = 0] /\ cycled' = cycled \cup {c} /\ Notify(On[c], TRUE)
  BY DEF ClientStartsIO
<1>3. runNotices' \in [Instance -> 0..MaxNotices]
  BY <1>1, HALNotifies DEF ClientStartsIO, NoticeIf
<1>4. /\ running' \in [Instance -> SUBSET (Client \cup {App})]
      /\ age' \in [Instance -> 0..2] /\ cycled' \subseteq Client
  BY <1>1, <1>2 DEF DriverTypeOK
<1>5. lastNotified' \in [Instance -> BOOLEAN] /\ idleNotices' \in [Instance -> 0..MaxNotices]
  BY <1>1, <1>2, Notifies
<1> QED
  BY <1>2, <1>3, <1>4, <1>5 DEF DriverTypeOK

LEMMA Records ==
  ASSUME DriverTypeOK, NEW c \in Client, RecordIO(c)
  PROVE  DriverTypeOK' /\ running' = running
<1>1. age' \in [Instance -> 0..2] /\ cycled' \subseteq Client
  BY ClientAssumption DEF DriverTypeOK, RecordIO
<1> QED
  BY <1>1 DEF DriverTypeOK, RecordIO

LEMMA Fires ==
  ASSUME DriverTypeOK, NEW i \in Instance, TimerFires(i)
  PROVE  DriverTypeOK' /\ running' = running
<1>1. idleNotices' = idleNotices \/ idleNotices' = OneMore(idleNotices, i)
  BY DEF TimerFires, Notify
<1>2. lastNotified' \in [Instance -> BOOLEAN]
  BY DEF TimerFires, Notify, OtherThanAppRunning, DriverTypeOK
<1>3. idleNotices' \in [Instance -> 0..MaxNotices]
  BY <1>1, OneMoreNotice DEF DriverTypeOK
<1> QED
  BY <1>2, <1>3 DEF TimerFires, DriverTypeOK

LEMMA Ticks ==
  ASSUME DriverTypeOK, NEW i \in Instance, Tick(i)
  PROVE  DriverTypeOK' /\ running' = running
<1>1. age[i] \in 0..2 /\ age[i] < 2
  BY DEF DriverTypeOK, Tick
<1>2. age' \in [Instance -> 0..2] /\ cycled' \subseteq Client
  BY <1>1 DEF DriverTypeOK, Tick
<1> QED
  BY <1>2 DEF Tick, DriverTypeOK

-----------------------------------------------------------------------------
(* Steps of others than the holder of stateLock.                              *)

(* They leave what the holder works on alone, and the app in the count.       *)
LEMMA Outsider ==
  ASSUME IInv, UNCHANGED <<lock, outputDevice, through, sync>>,
         DriverTypeOK', HandshakeTypes', \A i \in Instance : App \in running'[i] <=> App \in running[i]
  PROVE  IInv'
<1>1. UNCHANGED <<todo, call, result, outputDevice, through, sync>>
  BY DEF lock
<1>2. Ordered' /\ ManagerTypes'
  BY <1>1 DEF IInv, Ordered, LockTypes, InOrder, Calls, ManagerTypes
<1>3. Counted'
  BY <1>1 DEF IInv, Counted
<1>4. Progress' /\ Agreement'
  BY <1>1, Kept DEF IInv, Keeps, pc, First
<1> QED
  BY <1>2, <1>3, <1>4 DEF IInv

LEMMA Replies ==
  ASSUME HandshakeTypes, NEW c \in Client, Reply(c)
  PROVE  phase' \in [Client -> {"off", "starting", "on"}]
  BY DEF HandshakeTypes, Reply

LEMMA StartIOStep ==
  ASSUME IInv, NEW c \in Client, StartIO(c)
  PROVE  IInv'
<1>1. On[c] \in Instance /\ c # App
  BY ClientAssumption
<1>2. DriverTypeOK' /\ running' = [running EXCEPT ![On[c]] = @ \cup {c}]
  BY ClientStarts DEF IInv, StartIO
<1>3. \A i \in Instance : App \in running'[i] <=> App \in running[i]
  BY <1>1, <1>2 DEF IInv, DriverTypeOK
<1>4. /\ phase' = [phase EXCEPT ![c] = IF HelperWorks THEN "starting" ELSE "on"]
      /\ requests' = IF HelperWorks THEN requests \cup {c} ELSE requests
      /\ UNCHANGED <<blocks, bigSur, changes, failures>>
  BY DEF StartIO
<1>5. HandshakeTypes'
  BY <1>4 DEF IInv, HandshakeTypes
<1> QED
  BY <1>2, <1>3, <1>5, Outsider DEF StartIO

LEMMA XPCTimeoutStep ==
  ASSUME IInv, NEW c \in Client, XPCTimeout(c)
  PROVE  IInv'
<1>1. phase' \in [Client -> {"off", "starting", "on"}]
  BY Replies DEF IInv, XPCTimeout
<1>2. HandshakeTypes'
  BY <1>1 DEF IInv, HandshakeTypes, XPCTimeout
<1>3. DriverTypeOK' /\ running' = running
  BY DEF IInv, DriverTypeOK, XPCTimeout, driver
<1> QED
  BY <1>2, <1>3, Outsider DEF XPCTimeout

LEMMA StopIOStep ==
  ASSUME IInv, NEW c \in Client, StopIO(c)
  PROVE  IInv'
<1>1. On[c] \in Instance /\ c # App
  BY ClientAssumption
<1>2. DriverTypeOK' /\ running' = [running EXCEPT ![On[c]] = @ \ {c}]
  BY <1>1, Stops DEF IInv, StopIO
<1>3. \A i \in Instance : App \in running'[i] <=> App \in running[i]
  BY <1>1, <1>2 DEF IInv, DriverTypeOK
<1>4. HandshakeTypes'
  BY DEF IInv, HandshakeTypes, StopIO
<1> QED
  BY <1>2, <1>3, <1>4, Outsider DEF StopIO

LEMMA DriverStep ==
  ASSUME IInv, \/ \E c \in Client : DoIO(c)
               \/ \E i \in Instance : InactivityTimer(i) \/ SecondPasses(i)
  PROVE  IInv'
<1>1. DriverTypeOK' /\ running' = running
  BY Records, Fires, Ticks DEF IInv, DoIO, InactivityTimer, SecondPasses
<1>2. UNCHANGED Outside
  BY DEF DoIO, InactivityTimer, SecondPasses
<1>3. HandshakeTypes'
  BY <1>2 DEF IInv, HandshakeTypes, Outside, handshake
<1> QED
  BY <1>1, <1>2, <1>3, Outsider DEF Outside

(* Whoever takes stateLock while it is free.                                  *)
LEMMA Takes ==
  ASSUME IInv, Free, UNCHANGED <<call, result, outputDevice, through, sync, running>>,
         NEW steps \in Seq(Steps), InOrder(steps, "handle"), todo' = steps,
         DriverTypeOK', HandshakeTypes'
  PROVE  IInv'
<1>1. call.kind = "handle" /\ call = Handler
  BY DEF IInv, Ordered, Calls, Free
<1>2. Ordered'
  BY <1>1 DEF IInv, Ordered, LockTypes, InOrder, Calls
<1>3. ManagerTypes' /\ Counted'
  BY DEF IInv, ManagerTypes, Counted
<1>4. Progress' /\ Agreement'
  BY <1>1, Kept DEF IInv, Keeps
<1> QED
  BY <1>2, <1>3, <1>4 DEF IInv

(* A single step and two steps.                                               *)
LEMMA OneStep ==
  ASSUME NEW t \in Steps, <<"end">> \in Follows(t, "handle")
  PROVE  <<t>> \in Seq(Steps) /\ InOrder(<<t>>, "handle")
<1>1. <<t>> \in Seq(Steps) /\ Len(<<t>>) = 1 /\ <<t>>[1] = t
  OBVIOUS
<1> QED
  BY <1>1 DEF InOrder

LEMMA TwoSteps ==
  ASSUME NEW s \in Steps, NEW t \in Steps,
         t \in Follows(s, "handle"), <<"end">> \in Follows(t, "handle")
  PROVE  <<s, t>> \in Seq(Steps) /\ InOrder(<<s, t>>, "handle")
<1>1. <<s, t>> \in Seq(Steps) /\ Len(<<s, t>>) = 2 /\ <<s, t>>[1] = s /\ <<s, t>>[2] = t
  OBVIOUS
<1> QED
  BY <1>1 DEF InOrder

LEMMA SetOutputDeviceStep ==
  ASSUME IInv, NEW d \in Device, NEW r \in BOOLEAN, SetOutputDevice(d, r)
  PROVE  IInv'
<1>1. /\ changes < MaxChanges /\ changes' = changes + 1
      /\ call' = [kind |-> "set", to |-> d, from |-> outputDevice, revertOnFailure |-> r]
      /\ todo' = SetSteps(d)
      /\ UNCHANGED <<driver, result, outputDevice, through, sync, handshake, failures>>
  BY DEF SetOutputDevice
<1>2. call' \in Call /\ call'.kind = "set" /\ call'.from = outputDevice /\ call'.to = d
  BY <1>1 DEF IInv, ManagerTypes, Call
<1>3. /\ todo' \in Seq(Steps) /\ InOrder(todo', "set") /\ todo' # <<>>
      /\ pc' = IF d = outputDevice THEN <<"done">> ELSE <<"deactivate", "main">>
  BY <1>1, SetStepsInOrder DEF pc, First
<1>4. Ordered'
  BY <1>1, <1>2, <1>3 DEF IInv, Ordered, LockTypes, Calls, InOrder
<1>5. DriverTypeOK' /\ ManagerTypes' /\ Counted'
  BY <1>1 DEF IInv, DriverTypeOK, driver, ManagerTypes, Counted
<1>6. changes' \in 0..MaxChanges
  BY <1>1, ManagerAssumption DEF IInv, HandshakeTypes
<1>7. HandshakeTypes'
  BY <1>1, <1>6 DEF IInv, HandshakeTypes, handshake
<1>8. /\ pc' = <<"deactivate", "main">> => pc' \notin Synced /\ pc' \notin Assigned
      /\ \A i \in Instance : pc' = <<"deactivate", "main">> => pc' \notin Attached(i)
  BY DEF Synced, Attached, Assigned
<1>9. Progress'
  BY <1>2, <1>3, <1>8 DEF Progress, Attached, Synced, Assigned
<1>10. Agreement'
  BY <1>2 DEF Agreement, Settled, Handler
<1> QED
  BY <1>4, <1>5, <1>7, <1>9, <1>10 DEF IInv

(* The steps with which handlers, blocks and requests begin.                  *)
LEMMA NoStep == <<>> \in Seq(Steps) /\ InOrder(<<>>, "handle")
<1>1. PICK none : none = <<>>
  OBVIOUS
<1>2. none \in Seq(Steps) /\ Len(none) = 0
  BY <1>1
<1>3. InOrder(none, "handle")
  BY <1>2 DEF InOrder
<1> QED
  BY <1>1, <1>2, <1>3

LEMMA HandlerBegins ==
  ASSUME NEW i \in Instance, NEW s \in {"ifRunning", "ifIdle"}
  PROVE  <<<<s, i>>>> \in Seq(Steps) /\ InOrder(<<<<s, i>>>>, "handle")
<1>1. <<s, i>> \in {"deactivate", "attach", "start", "ifIdle", "stop", "ifRunning"} \X Instance
  OBVIOUS
<1>2. <<s, i>> \in Steps
  BY <1>1 DEF Steps
<1>3. Follows(<<s, i>>, "handle") = {<<"end">>}
  BY DEF Follows
<1> QED
  BY <1>2, <1>3, OneStep

LEMMA BlockBegins ==
  ASSUME NEW i \in Instance
  PROVE  LET steps == <<<<"start", i>>, <<"ifIdle", i>>>>
         IN  steps \in Seq(Steps) /\ InOrder(steps, "handle")
<1>1. <<"start", i>> \in Steps /\ <<"ifIdle", i>> \in Steps
  BY DEF Steps
<1>2. <<"ifIdle", i>> \in Follows(<<"start", i>>, "handle") /\ <<"end">> \in Follows(<<"ifIdle", i>>, "handle")
  BY DEF Follows
<1> QED
  BY <1>1, <1>2, TwoSteps

LEMMA RequestBegins ==
  ASSUME NEW c \in Client
  PROVE  LET steps == <<<<"startSync", c>>, <<"wait", c>>>>
         IN  steps \in Seq(Steps) /\ InOrder(steps, "handle")
<1>1. <<"startSync", c>> \in Steps /\ <<"wait", c>> \in Steps
  BY DEF Steps
<1>2. <<"wait", c>> \in Follows(<<"startSync", c>>, "handle") /\ <<"end">> \in Follows(<<"wait", c>>, "handle")
  BY DEF Follows
<1> QED
  BY <1>1, <1>2, TwoSteps

LEMMA HandleStep ==
  ASSUME IInv, NEW i \in Instance,
         \/ HandleDeviceIsRunningSomewhere(i)
         \/ HandleDeviceIsRunningSomewhereOtherThanBGMApp(i)
  PROVE  IInv'
<1>1. PICK s \in {"ifRunning", "ifIdle"} : Handle(<<<<s, i>>>>)
  BY DEF HandleDeviceIsRunningSomewhere, HandleDeviceIsRunningSomewhereOtherThanBGMApp
<1>2. /\ Free /\ todo' = IF outputDevice = None THEN <<>> ELSE <<<<s, i>>>>
      /\ UNCHANGED <<call, result, outputDevice, through, sync, phase, requests,
                     bigSur, changes, failures, running, age, cycled, lastNotified>>
  BY <1>1 DEF Handle
<1>3. \A n \in [Instance -> 0..MaxNotices] :
         n[i] > 0 => [n EXCEPT ![i] = @ - 1] \in [Instance -> 0..MaxNotices]
  <2> SUFFICES ASSUME NEW n \in [Instance -> 0..MaxNotices], n[i] > 0
               PROVE  [n EXCEPT ![i] = @ - 1] \in [Instance -> 0..MaxNotices]
    OBVIOUS
  <2>1. n[i] - 1 \in 0..MaxNotices
    BY ClientAssumption
  <2> QED
    BY <2>1
<1>4. /\ runNotices' \in [Instance -> 0..MaxNotices] /\ idleNotices' \in [Instance -> 0..MaxNotices]
      /\ blocks' = blocks
  BY <1>3 DEF HandleDeviceIsRunningSomewhere, HandleDeviceIsRunningSomewhereOtherThanBGMApp,
              IInv, DriverTypeOK
<1>5. DriverTypeOK' /\ HandshakeTypes'
  BY <1>2, <1>4 DEF IInv, DriverTypeOK, HandshakeTypes
<1>6. todo' \in Seq(Steps) /\ InOrder(todo', "handle")
  BY <1>2, NoStep, HandlerBegins
<1> QED
  BY <1>2, <1>5, <1>6, Takes

LEMMA RunBlockStep ==
  ASSUME IInv, NEW i \in Instance, RunBlock(i)
  PROVE  IInv'
<1>1. /\ Free /\ blocks[i] > 0 /\ blocks' = [blocks EXCEPT ![i] = @ - 1]
      /\ todo' = <<<<"start", i>>, <<"ifIdle", i>>>>
      /\ UNCHANGED <<driver, call, result, outputDevice, through, sync, phase,
                     requests, bigSur, changes, failures>>
  BY DEF RunBlock
<1>2. blocks[i] \in 0..MaxNotices /\ blocks[i] - 1 \in 0..MaxNotices
  BY <1>1, ClientAssumption DEF IInv, HandshakeTypes
<1>3. HandshakeTypes'
  BY <1>1, <1>2 DEF IInv, HandshakeTypes
<1>4. DriverTypeOK' /\ running' = running
  BY <1>1 DEF IInv, DriverTypeOK, driver
<1>5. todo' \in Seq(Steps) /\ InOrder(todo', "handle")
  BY <1>1, BlockBegins
<1> QED
  BY <1>1, <1>3, <1>4, <1>5, Takes

LEMMA StartPlayThroughSyncStep ==
  ASSUME IInv, NEW c \in Client, StartPlayThroughSync(c)
  PROVE  IInv'
<1>1. /\ requests' = requests \ {c}
      /\ UNCHANGED <<driver, call, result, outputDevice, through, sync, bigSur, changes, failures>>
  BY DEF StartPlayThroughSync
<1>2. On[c] \in Instance
  BY ClientAssumption
<1>3. DriverTypeOK' /\ running' = running
  BY <1>1 DEF IInv, DriverTypeOK, driver
<1>4. CASE Free /\ todo' = <<<<"startSync", c>>, <<"wait", c>>>> /\ UNCHANGED <<phase, blocks>>
  <2>1. HandshakeTypes'
    BY <1>1, <1>4 DEF IInv, HandshakeTypes
  <2>2. todo' \in Seq(Steps) /\ InOrder(todo', "handle")
    BY <1>4, RequestBegins
  <2> QED
    BY <1>1, <1>3, <1>4, <2>1, <2>2, Takes
<1>5. CASE Reply(c) /\ blocks' = OneMore(blocks, On[c]) /\ UNCHANGED todo
  <2>1. /\ phase' \in [Client -> {"off", "starting", "on"}]
        /\ blocks' \in [Instance -> 0..MaxNotices]
    BY <1>2, <1>5, Replies, OneMoreNotice DEF IInv, HandshakeTypes
  <2>2. HandshakeTypes'
    BY <1>1, <2>1 DEF IInv, HandshakeTypes
  <2> QED
    BY <1>1, <1>3, <1>5, <2>2, Outsider DEF lock
<1> QED
  BY <1>4, <1>5 DEF StartPlayThroughSync

-----------------------------------------------------------------------------
(* Steps of the holder of stateLock.                                          *)

LEMMA Updated ==
  ASSUME through \in [Instance -> Through], NEW i \in Instance, NEW t \in Through,
         through' = [through EXCEPT ![i] = t]
  PROVE  /\ through' \in [Instance -> Through] /\ through'[i] = t
         /\ \A j \in Instance : j # i => through'[j] = through[j]
  OBVIOUS

LEMMA Fails ==
  ASSUME HandshakeTypes, NEW d, Fail \/ FailWith(d)
  PROVE  Throw /\ failures' \in 0..MaxFailures
<1>1. CASE Fail
  BY <1>1, ManagerAssumption DEF Fail, HandshakeTypes
<1>2. CASE Throw /\ UNCHANGED failures
  BY <1>2 DEF HandshakeTypes
<1> QED
  BY <1>1, <1>2 DEF FailWith

(* A step that leaves what is set alone, or fails.                            *)
LEMMA HolderKeeps ==
  ASSUME IInv, NEW step, At(step), step # <<"done">>, Keeps,
         step \in Undisturbed \/ call.kind = "handle",
         (Does(<<>>) /\ UNCHANGED <<call, result>>) \/ Throw
  PROVE  Ordered' /\ Progress' /\ Agreement'
<1>1. CASE Does(<<>>) /\ UNCHANGED <<call, result>>
  <2>1. Ordered' /\ pc = step
    BY <1>1, Advances DEF IInv
  <2>2. Progress' /\ Agreement'
    BY <1>1, <2>1, Kept DEF IInv
  <2> QED
    BY <2>1, <2>2
<1>2. CASE Throw
  BY <1>2, GivesUp DEF IInv
<1> QED
  BY <1>1, <1>2

(* Playthrough is stopped.                                                    *)
LEMMA StopsPlaying ==
  ASSUME DriverTypeOK, ManagerTypes, Counted, NEW i \in Instance, StopPlayThrough(i),
         NEW t \in Through, ~t.playing, through' = [through EXCEPT ![i] = t]
  PROVE  DriverTypeOK' /\ Counted'
<1>1. /\ through'[i] = t
      /\ \A j \in Instance : j # i => through'[j] = through[j]
  BY Updated DEF ManagerTypes
<1>2. CASE through[i].playing
  <2>1. DriverTypeOK' /\ running' = [running EXCEPT ![i] = @ \ {App}]
    BY <1>2, Stops DEF StopPlayThrough
  <2>2. /\ App \notin running'[i]
        /\ \A j \in Instance : j # i => running'[j] = running[j]
    BY <2>1 DEF DriverTypeOK
  <2> QED
    BY <1>1, <2>1, <2>2 DEF Counted
<1>3. CASE ~through[i].playing
  <2>1. UNCHANGED driver
    BY <1>3 DEF StopPlayThrough
  <2>2. DriverTypeOK' /\ running' = running
    BY <2>1 DEF DriverTypeOK, driver
  <2> QED
    BY <1>1, <1>3, <2>2 DEF Counted
<1> QED
  BY <1>2, <1>3

(* Playthrough is started, is playing already, or fails to start.             *)
LEMMA StartsPlaying ==
  ASSUME IInv, NEW i \in Instance, StartPlayThrough(i)
  PROVE  /\ DriverTypeOK' /\ through' \in [Instance -> Through] /\ Counted'
         /\ \A j \in Instance : /\ through'[j].device = through[j].device
                                /\ through[j].active => through'[j].active
         /\ failures' \in 0..MaxFailures
         /\ (Does(<<>>) /\ UNCHANGED <<call, result>>) \/ Throw
<1> USE DEF IInv
<1>0. through[i] \in Through /\ failures \in 0..MaxFailures
  BY DEF ManagerTypes, HandshakeTypes
<1>1. CASE /\ through[i].playing /\ Does(<<>>)
           /\ UNCHANGED <<driver, call, result, through, failures>>
  <2>1. DriverTypeOK' /\ running' = running
    BY <1>1 DEF DriverTypeOK, driver
  <2> QED
    BY <1>0, <1>1, <2>1 DEF ManagerTypes, Counted
<1>2. CASE /\ ~through[i].playing /\ Does(<<>>)
           /\ through' = [through EXCEPT ![i].active = TRUE, ![i].playing = TRUE]
           /\ AppStartsIO(i) /\ UNCHANGED <<call, result, failures>>
  <2> DEFINE t == [through[i] EXCEPT !.active = TRUE, !.playing = TRUE]
  <2>1. t \in Through /\ t.device = through[i].device /\ t.active /\ t.playing
    BY <1>0 DEF Through
  <2>2. through' = [through EXCEPT ![i] = t]
    BY <1>2 DEF ManagerTypes
  <2> HIDE DEF t
  <2>3. /\ through' \in [Instance -> Through] /\ through'[i] = t
        /\ \A j \in Instance : j # i => through'[j] = through[j]
    BY <2>1, <2>2, Updated DEF ManagerTypes
  <2>4. DriverTypeOK' /\ running' = [running EXCEPT ![i] = @ \cup {App}]
    BY <1>2, Starts
  <2>5. /\ App \in running'[i]
        /\ \A j \in Instance : j # i => running'[j] = running[j]
    BY <2>4 DEF DriverTypeOK
  <2>6. Counted'
    BY <2>1, <2>3, <2>5 DEF Counted
  <2> QED
    BY <1>0, <1>2, <2>1, <2>3, <2>4, <2>6
<1>3. CASE /\ ~through[i].playing /\ FailWith(through[i].device)
           /\ through' = [through EXCEPT ![i].active = @ \/ through[i].device # None]
           /\ UNCHANGED driver
  <2>1. DriverTypeOK' /\ running' = running
    BY <1>3 DEF DriverTypeOK, driver
  <2>2. PICK b \in BOOLEAN : b <=> through[i].active \/ through[i].device # None
    OBVIOUS
  <2> DEFINE t == [through[i] EXCEPT !.active = b]
  <2>3. /\ t \in Through /\ t.device = through[i].device /\ (through[i].active => t.active)
        /\ ~t.playing
    BY <1>0, <1>3, <2>2 DEF Through
  <2>4. through' = [through EXCEPT ![i] = t]
    BY <1>0, <1>3, <2>2 DEF ManagerTypes, Through
  <2> HIDE DEF t
  <2>5. /\ through' \in [Instance -> Through] /\ through'[i] = t
        /\ \A j \in Instance : j # i => through'[j] = through[j]
    BY <2>3, <2>4, Updated DEF ManagerTypes
  <2>6. Counted'
    BY <1>3, <2>1, <2>3, <2>5 DEF Counted
  <2>7. Throw /\ failures' \in 0..MaxFailures
    BY <1>3, Fails
  <2> QED
    BY <2>1, <2>3, <2>5, <2>6, <2>7
<1> QED
  BY <1>1, <1>2, <1>3 DEF StartPlayThrough

(* A step of a change that has not failed.                                    *)
LEMMA Changes ==
  ASSUME Ordered, NEW step, At(step), call.kind # "handle", step # <<"done">>,
         Does(<<>>), UNCHANGED <<call, result>>, Progress,
         call.from # call.to /\ call.kind = "set" =>
            /\ pc' \in Synced => sync' = [device |-> call.to, active |-> TRUE]
            /\ \A i \in Instance : pc' \in Attached(i) =>
                  through'[i].device = call.to /\ through'[i].active
            /\ pc' \in Assigned => outputDevice' = call.to
  PROVE  Ordered' /\ Progress' /\ Agreement'
<1>1. Ordered' /\ pc = step
  BY Advances
<1>2. call.kind = "set" => call.from # call.to
  BY <1>1 DEF Progress
<1>3. Progress'
  BY <1>2 DEF Progress, Attached, Synced, Assigned
<1>4. Agreement'
  BY DEF Agreement, Settled, Handler
<1> QED
  BY <1>1, <1>3, <1>4

(* Steps of a change only.                                                    *)
LEMMA OnlyChanges ==
  ASSUME Ordered, NEW step, At(step),
         \/ \E i \in Instance : step = <<"deactivate", i>> \/ step = <<"attach", i>>
         \/ step \in {<<"sync">>, <<"assign">>, <<"done">>}
  PROVE  call.kind # "handle"
<1>1. call.kind = "handle" => Follows(step, call.kind) = {}
  BY HandlerFollows
<1> QED
  BY <1>1, Reached

LEMMA DeactivateStep ==
  ASSUME IInv, NEW i \in Instance, Deactivate(i)
  PROVE  IInv'
<1> DEFINE step == <<"deactivate", i>>
           t == [through[i] EXCEPT !.active = FALSE, !.playing = FALSE]
<1>1. /\ At(step) /\ Does(<<>>) /\ StopPlayThrough(i)
      /\ through' = [through EXCEPT ![i].active = FALSE, ![i].playing = FALSE]
      /\ UNCHANGED <<call, result, outputDevice, sync, handshake, changes, failures>>
  BY DEF Deactivate
<1>2. through[i] \in Through
  BY DEF IInv, ManagerTypes
<1>3. t \in Through /\ ~t.playing
  BY <1>2 DEF Through
<1>4. through' = [through EXCEPT ![i] = t]
  BY <1>1 DEF IInv, ManagerTypes
<1> HIDE DEF t
<1>5. through' \in [Instance -> Through]
  BY <1>3, <1>4, Updated DEF IInv, ManagerTypes
<1>6. DriverTypeOK' /\ Counted'
  BY <1>1, <1>3, <1>4, StopsPlaying DEF IInv
<1>7. ManagerTypes' /\ HandshakeTypes'
  BY <1>1, <1>5 DEF IInv, ManagerTypes, HandshakeTypes, handshake
<1>8. call.kind # "handle" /\ step # <<"done">>
  BY <1>1, OnlyChanges DEF IInv
<1>9. pc' \in Follows(step, call.kind)
  BY <1>1, <1>8, Advances DEF IInv
<1>10. pc' \in {<<"deactivate", "UISounds">>, <<"sync">>}
  BY <1>8, <1>9, ChangeFollows DEF Instance
<1>11. /\ pc' \notin Synced /\ pc' \notin Assigned
       /\ \A j \in Instance : pc' \notin Attached(j)
  BY <1>10 DEF Synced, Attached, Assigned
<1>12. Ordered' /\ Progress' /\ Agreement'
  BY <1>1, <1>8, <1>11, Changes DEF IInv
<1> QED
  BY <1>6, <1>7, <1>12 DEF IInv

LEMMA SyncControlsStep ==
  ASSUME IInv, SyncControls
  PROVE  IInv'
<1> DEFINE step == <<"sync">>
<1>1. /\ At(step)
      /\ UNCHANGED <<driver, outputDevice, through, handshake, changes>>
  BY DEF SyncControls
<1>2. call.kind # "handle" /\ step # <<"done">>
  BY <1>1, OnlyChanges DEF IInv
<1>3. call.to \in Device \cup {None}
  BY DEF IInv, Ordered, LockTypes, Call
<1>4. DriverTypeOK' /\ Counted'
  BY <1>1 DEF IInv, DriverTypeOK, driver, Counted
<1>5. CASE /\ Does(<<>>) /\ sync' = [device |-> call.to, active |-> TRUE]
           /\ UNCHANGED <<call, result, failures>>
  <2>1. pc' = <<"attach", "main">>
    BY <1>1, <1>2, <1>5, Advances, ChangeFollows DEF IInv
  <2>2. pc' \notin Assigned /\ \A j \in Instance : pc' \notin Attached(j)
    BY <2>1 DEF Attached, Assigned
  <2>3. Ordered' /\ Progress' /\ Agreement'
    BY <1>1, <1>2, <1>5, <2>2, Changes DEF IInv
  <2>4. ManagerTypes' /\ HandshakeTypes'
    BY <1>1, <1>3, <1>5 DEF IInv, ManagerTypes, Sync, HandshakeTypes, handshake
  <2> QED
    BY <1>4, <2>3, <2>4 DEF IInv
<1>6. CASE FailWith(call.to) /\ sync' = [device |-> call.to, active |-> FALSE]
  <2>1. Throw /\ failures' \in 0..MaxFailures
    BY <1>6, Fails DEF IInv
  <2>2. Ordered' /\ Progress' /\ Agreement'
    BY <1>1, <1>2, <2>1, GivesUp DEF IInv
  <2>3. ManagerTypes' /\ HandshakeTypes'
    BY <1>1, <1>3, <1>6, <2>1 DEF IInv, ManagerTypes, Sync, HandshakeTypes, handshake
  <2> QED
    BY <1>4, <2>2, <2>3 DEF IInv
<1> QED
  BY <1>5, <1>6 DEF SyncControls

LEMMA AttachStep ==
  ASSUME IInv, NEW i \in Instance, Attach(i)
  PROVE  IInv'
<1> DEFINE step == <<"attach", i>>
<1>1. At(step) /\ UNCHANGED <<driver, outputDevice, sync, handshake, changes>>
  BY DEF Attach
<1>2. call.kind # "handle" /\ step # <<"done">>
  BY <1>1, OnlyChanges DEF IInv
<1>3. call.to \in Device \cup {None} /\ through[i] \in Through
  BY DEF IInv, Ordered, LockTypes, Call, ManagerTypes
<1>4. DriverTypeOK' /\ running' = running
  BY <1>1 DEF IInv, DriverTypeOK, driver
<1>5. CASE /\ Does(<<>>)
           /\ through' = [through EXCEPT ![i].device = call.to, ![i].active = TRUE]
           /\ UNCHANGED <<call, result, failures>>
  <2> DEFINE t == [through[i] EXCEPT !.device = call.to, !.active = TRUE]
  <2>1. t \in Through /\ t.device = call.to /\ t.active /\ t.playing = through[i].playing
    BY <1>3 DEF Through
  <2>2. through' = [through EXCEPT ![i] = t]
    BY <1>5 DEF IInv, ManagerTypes
  <2> HIDE DEF t
  <2>3. /\ through' \in [Instance -> Through] /\ through'[i] = t
        /\ \A j \in Instance : j # i => through'[j] = through[j]
    BY <2>1, <2>2, Updated DEF IInv, ManagerTypes
  <2>4. Counted'
    BY <1>4, <2>1, <2>3 DEF IInv, Counted
  <2>5. ManagerTypes' /\ HandshakeTypes'
    BY <1>1, <1>5, <2>3 DEF IInv, ManagerTypes, HandshakeTypes, handshake
  <2>6. pc = step /\ pc' \in Follows(step, call.kind)
    BY <1>1, <1>2, <1>5, Advances DEF IInv
  <2>7. \/ i = "main" /\ pc' = <<"attach", "UISounds">>
        \/ i = "UISounds" /\ pc' = <<"assign">>
    BY <1>2, <2>6, ChangeFollows DEF Instance
  <2>8. /\ pc' \notin Assigned /\ pc \in Synced
        /\ \A j \in Instance : pc' \in Attached(j) => j = i \/ pc \in Attached(j)
    BY <2>6, <2>7 DEF Synced, Attached, Assigned, Instance
  <2>9. call.from # call.to /\ call.kind = "set" =>
            /\ sync' = [device |-> call.to, active |-> TRUE]
            /\ \A j \in Instance : pc' \in Attached(j) =>
                  through'[j].device = call.to /\ through'[j].active
    BY <1>1, <2>1, <2>3, <2>8 DEF IInv, Progress
  <2>10. Ordered' /\ Progress' /\ Agreement'
    BY <1>1, <1>2, <1>5, <2>8, <2>9, Changes DEF IInv
  <2> QED
    BY <1>4, <2>4, <2>5, <2>10 DEF IInv
<1>6. CASE FailWith(call.to) /\ through' = [through EXCEPT ![i].device = call.to]
  <2> DEFINE t == [through[i] EXCEPT !.device = call.to]
  <2>1. t \in Through /\ t.playing = through[i].playing
    BY <1>3 DEF Through
  <2>2. through' = [through EXCEPT ![i] = t]
    BY <1>6 DEF IInv, ManagerTypes
  <2> HIDE DEF t
  <2>3. /\ through' \in [Instance -> Through] /\ through'[i] = t
        /\ \A j \in Instance : j # i => through'[j] = through[j]
    BY <2>1, <2>2, Updated DEF IInv, ManagerTypes
  <2>4. Counted'
    BY <1>4, <2>1, <2>3 DEF IInv, Counted
  <2>5. Throw /\ failures' \in 0..MaxFailures
    BY <1>6, Fails DEF IInv
  <2>6. ManagerTypes' /\ HandshakeTypes'
    BY <1>1, <2>3, <2>5 DEF IInv, ManagerTypes, HandshakeTypes, handshake
  <2>7. Ordered' /\ Progress' /\ Agreement'
    BY <1>1, <1>2, <2>5, GivesUp DEF IInv
  <2> QED
    BY <1>4, <2>4, <2>6, <2>7 DEF IInv
<1> QED
  BY <1>5, <1>6 DEF Attach

LEMMA AssignStep ==
  ASSUME IInv, Assign
  PROVE  IInv'
<1> DEFINE step == <<"assign">>
<1>1. /\ At(step) /\ Does(<<>>) /\ outputDevice' = call.to
      /\ UNCHANGED <<driver, call, result, through, sync, handshake, changes, failures>>
  BY DEF Assign
<1>2. call.kind # "handle" /\ step # <<"done">>
  BY <1>1, OnlyChanges DEF IInv
<1>3. call.to \in Device \cup {None}
  BY DEF IInv, Ordered, LockTypes, Call
<1>4. DriverTypeOK' /\ Counted' /\ ManagerTypes' /\ HandshakeTypes'
  BY <1>1, <1>3 DEF IInv, DriverTypeOK, driver, Counted, ManagerTypes, HandshakeTypes, handshake
<1>5. pc = step
  BY <1>1, Reached DEF IInv
<1>6. pc \in Synced /\ \A j \in Instance : pc \in Attached(j)
  BY <1>5 DEF Synced, Attached
<1>7. call.from # call.to /\ call.kind = "set" =>
            /\ sync' = [device |-> call.to, active |-> TRUE]
            /\ \A j \in Instance : through'[j].device = call.to /\ through'[j].active
  BY <1>1, <1>6 DEF IInv, Progress
<1>8. Ordered' /\ Progress' /\ Agreement'
  BY <1>1, <1>2, <1>7, Changes DEF IInv
<1> QED
  BY <1>4, <1>8 DEF IInv

LEMMA StartStep ==
  ASSUME IInv, NEW i \in Instance, Start(i)
  PROVE  IInv'
<1> DEFINE step == <<"start", i>>
<1>1. At(step) /\ StartPlayThrough(i) /\ UNCHANGED <<outputDevice, sync, handshake, changes>>
  BY DEF Start
<1>2. /\ DriverTypeOK' /\ through' \in [Instance -> Through] /\ Counted'
      /\ \A j \in Instance : /\ through'[j].device = through[j].device
                             /\ through[j].active => through'[j].active
      /\ failures' \in 0..MaxFailures
      /\ (Does(<<>>) /\ UNCHANGED <<call, result>>) \/ Throw
  BY <1>1, StartsPlaying
<1>3. ManagerTypes' /\ HandshakeTypes'
  BY <1>1, <1>2 DEF IInv, ManagerTypes, HandshakeTypes, handshake
<1>4. step \in Undisturbed /\ step # <<"done">> /\ Keeps
  BY <1>1, <1>2 DEF Undisturbed, Keeps
<1>5. Ordered' /\ Progress' /\ Agreement'
  BY <1>1, <1>2, <1>4, HolderKeeps
<1> QED
  BY <1>2, <1>3, <1>5 DEF IInv

LEMMA StartSyncStep ==
  ASSUME IInv, NEW c \in Client, StartSync(c)
  PROVE  IInv'
<1> DEFINE step == <<"startSync", c>>
<1>0. On[c] \in Instance
  BY ClientAssumption
<1>1. At(step) /\ StartPlayThrough(On[c]) /\ UNCHANGED <<outputDevice, sync, handshake, changes>>
  BY DEF StartSync
<1>2. /\ DriverTypeOK' /\ through' \in [Instance -> Through] /\ Counted'
      /\ \A j \in Instance : /\ through'[j].device = through[j].device
                             /\ through[j].active => through'[j].active
      /\ failures' \in 0..MaxFailures
      /\ (Does(<<>>) /\ UNCHANGED <<call, result>>) \/ Throw
  BY <1>0, <1>1, StartsPlaying
<1>3. ManagerTypes' /\ HandshakeTypes'
  BY <1>1, <1>2 DEF IInv, ManagerTypes, HandshakeTypes, handshake
<1>4. call.kind = "handle" /\ step # <<"done">> /\ Keeps
  BY <1>1, <1>2, Reached, ChangeFollows DEF IInv, Keeps
<1>5. Ordered' /\ Progress' /\ Agreement'
  BY <1>1, <1>2, <1>4, HolderKeeps
<1> QED
  BY <1>2, <1>3, <1>5 DEF IInv

(* Steps that leave all but todo as it was, or fail.                          *)
LEMMA OnlyTodo ==
  ASSUME IInv, UNCHANGED <<driver, outputDevice, through, sync, phase, requests, blocks, bigSur, changes>>,
         failures' \in 0..MaxFailures, Ordered', Progress', Agreement'
  PROVE  IInv'
<1>1. DriverTypeOK' /\ Counted' /\ ManagerTypes' /\ HandshakeTypes'
  BY DEF IInv, DriverTypeOK, driver, Counted, ManagerTypes, HandshakeTypes
<1> QED
  BY <1>1 DEF IInv

LEMMA StopIfIdleStep ==
  ASSUME IInv, NEW i \in Instance, StopIfIdle(i)
  PROVE  IInv'
<1> DEFINE step == <<"ifIdle", i>>
           other == <<"stop", i>>
<1>1. At(step) /\ UNCHANGED <<driver, outputDevice, through, sync, handshake, changes>>
  BY DEF StopIfIdle
<1>2. step \in Undisturbed /\ step # <<"done">> /\ Keeps
  BY <1>1 DEF Undisturbed, Keeps
<1>3. other \in Steps /\ Follows(step, call.kind) \subseteq Follows(other, call.kind)
  <2>1. Follows(step, call.kind) = Follows(other, call.kind)
    <3>1. CASE call.kind = "handle"
      BY <3>1 DEF Follows
    <3>2. CASE call.kind # "handle" /\ i = "main"
      BY <3>2, ChangeFollows
    <3>3. CASE call.kind # "handle" /\ i = "UISounds"
      BY <3>3, ChangeFollows
    <3> QED
      BY <3>1, <3>2, <3>3 DEF Instance
  <2>2. other \in Steps
    BY DEF Steps
  <2> QED
    BY <2>1, <2>2
<1>4. CASE Does(<<other>>) /\ UNCHANGED <<call, result, failures>>
  <2>1. Ordered' /\ pc = step /\ pc' = other
    BY <1>1, <1>3, <1>4, Replaced DEF IInv
  <2>2. Progress' /\ Agreement'
    BY <1>2, <1>4, <2>1, Kept DEF IInv
  <2> QED
    BY <1>1, <1>4, <2>1, <2>2, OnlyTodo DEF IInv, HandshakeTypes, handshake
<1>5. CASE Does(<<>>) /\ UNCHANGED <<call, result, failures>>
  <2>1. Ordered' /\ Progress' /\ Agreement'
    BY <1>1, <1>2, <1>5, HolderKeeps
  <2> QED
    BY <1>1, <1>5, <2>1, OnlyTodo DEF IInv, HandshakeTypes, handshake
<1>6. CASE Fail
  <2>1. Throw /\ failures' \in 0..MaxFailures
    BY <1>6, Fails DEF IInv
  <2>2. Ordered' /\ Progress' /\ Agreement'
    BY <1>1, <1>2, <2>1, HolderKeeps
  <2> QED
    BY <1>1, <2>1, <2>2, OnlyTodo DEF handshake
<1> QED
  BY <1>4, <1>5, <1>6 DEF StopIfIdle

LEMMA StopStep ==
  ASSUME IInv, NEW i \in Instance, Stop(i)
  PROVE  IInv'
<1> DEFINE step == <<"stop", i>>
           t == [through[i] EXCEPT !.playing = FALSE]
<1>1. /\ At(step) /\ Does(<<>>) /\ StopPlayThrough(i)
      /\ through' = [through EXCEPT ![i].playing = FALSE]
      /\ UNCHANGED <<call, result, outputDevice, sync, handshake, changes, failures>>
  BY DEF Stop
<1>2. through[i] \in Through
  BY DEF IInv, ManagerTypes
<1>3. /\ t \in Through /\ ~t.playing /\ t.device = through[i].device
      /\ t.active = through[i].active
  BY <1>2 DEF Through
<1>4. through' = [through EXCEPT ![i] = t]
  BY <1>1 DEF IInv, ManagerTypes
<1> HIDE DEF t
<1>5. /\ through' \in [Instance -> Through] /\ through'[i] = t
      /\ \A j \in Instance : j # i => through'[j] = through[j]
  BY <1>3, <1>4, Updated DEF IInv, ManagerTypes
<1>6. DriverTypeOK' /\ Counted'
  BY <1>1, <1>3, <1>4, StopsPlaying DEF IInv
<1>7. ManagerTypes' /\ HandshakeTypes'
  BY <1>1, <1>5 DEF IInv, ManagerTypes, HandshakeTypes, handshake
<1>8. step \in Undisturbed /\ step # <<"done">> /\ Keeps
  BY <1>1, <1>3, <1>5 DEF Undisturbed, Keeps
<1>9. Ordered' /\ Progress' /\ Agreement'
  BY <1>1, <1>8, HolderKeeps
<1> QED
  BY <1>6, <1>7, <1>9 DEF IInv

LEMMA IfRunningStep ==
  ASSUME IInv, NEW i \in Instance, IfRunning(i)
  PROVE  IInv'
<1> DEFINE step == <<"ifRunning", i>>
           other == <<"start", i>>
<1>1. /\ At(step)
      /\ UNCHANGED <<driver, call, result, outputDevice, through, sync, handshake, changes>>
  BY DEF IfRunning
<1>2. call.kind = "handle" /\ step # <<"done">> /\ Keeps
  BY <1>1, Reached, ChangeFollows DEF IInv, Keeps
<1>3. failures' \in 0..MaxFailures
  <2>1. failures' = failures \/ (failures < MaxFailures /\ failures' = failures + 1)
    BY DEF IfRunning
  <2> QED
    BY <2>1, ManagerAssumption DEF IInv, HandshakeTypes
<1>4. other \in Steps /\ Follows(step, call.kind) \subseteq Follows(other, call.kind)
  <2>1. Follows(step, call.kind) = {<<"end">>} /\ <<"end">> \in Follows(other, call.kind)
    BY <1>2 DEF Follows
  <2>2. other \in Steps
    BY DEF Steps
  <2> QED
    BY <2>1, <2>2
<1>5. CASE Does(<<other>>)
  <2>1. Ordered' /\ pc = step /\ pc' = other
    BY <1>1, <1>4, <1>5, Replaced DEF IInv
  <2>2. Progress' /\ Agreement'
    BY <1>1, <1>2, <2>1, Kept DEF IInv
  <2> QED
    BY <1>1, <1>3, <2>1, <2>2, OnlyTodo DEF handshake
<1>6. CASE Does(<<>>)
  <2>1. Ordered' /\ Progress' /\ Agreement'
    BY <1>1, <1>2, <1>6, HolderKeeps
  <2> QED
    BY <1>1, <1>3, <2>1, OnlyTodo DEF handshake
<1> QED
  BY <1>5, <1>6 DEF IfRunning

LEMMA WaitStep ==
  ASSUME IInv, NEW c \in Client, WaitForOutputDeviceToStart(c)
  PROVE  IInv'
<1> DEFINE step == <<"wait", c>>
<1>1. /\ At(step) /\ Does(<<>>) /\ Reply(c)
      /\ UNCHANGED <<driver, call, result, outputDevice, through, sync, requests,
                     blocks, bigSur, changes, failures>>
  BY DEF WaitForOutputDeviceToStart
<1>2. call.kind = "handle" /\ step # <<"done">> /\ Keeps
  BY <1>1, Reached, ChangeFollows DEF IInv, Keeps
<1>3. Ordered' /\ Progress' /\ Agreement'
  BY <1>1, <1>2, HolderKeeps
<1>4. phase' \in [Client -> {"off", "starting", "on"}]
  BY <1>1, Replies DEF IInv
<1>5. DriverTypeOK' /\ Counted' /\ ManagerTypes' /\ HandshakeTypes'
  BY <1>1, <1>4 DEF IInv, DriverTypeOK, driver, Counted, ManagerTypes, HandshakeTypes
<1> QED
  BY <1>3, <1>5 DEF IInv

(* Only a change to another device that went all the way counts as done.      *)
LEMMA DoneStep ==
  ASSUME IInv, Done
  PROVE  IInv'
<1> DEFINE step == <<"done">>
           r == IF call.kind = "revert" THEN "reverted"
                ELSE IF call.from = call.to THEN "other" ELSE "ok"
<1>1. At(step) /\ UNCHANGED <<driver, outputDevice, through, sync, handshake, changes>>
  BY DEF Done
<1>2. call.kind # "handle" /\ pc = step /\ call.kind \in {"set", "revert", "handle"}
  BY <1>1, OnlyChanges, Reached DEF IInv, Ordered, LockTypes, Call
<1>3. CASE UNCHANGED failures /\ Return(r)
  <2>1. /\ r \in {"ok", "reverted", "other"}
        /\ r = "ok" => call.kind = "set" /\ call.from # call.to
    BY <1>2
  <2> HIDE DEF r
  <2>2. Ordered' /\ call'.kind = "handle" /\ result' = r
    BY <1>3, <2>1, Returns DEF IInv
  <2>3. pc \in Assigned /\ pc \in Synced /\ \A i \in Instance : pc \in Attached(i)
    BY <1>2 DEF Assigned, Synced, Attached
  <2>4. r = "ok" => Agree
    BY <2>1, <2>3 DEF IInv, Progress, Agree
  <2>5. Agree => Agree'
    BY <1>1 DEF Agree
  <2>6. Progress' /\ Agreement'
    BY <2>2, <2>4, <2>5 DEF Progress, Agreement
  <2> QED
    BY <1>1, <1>3, <2>2, <2>6, OnlyTodo DEF IInv, HandshakeTypes, handshake
<1>4. CASE FailWith(outputDevice)
  <2>1. Throw /\ failures' \in 0..MaxFailures
    BY <1>4, Fails DEF IInv
  <2>2. Ordered' /\ Progress' /\ Agreement'
    BY <1>1, <1>2, <2>1, GivesUp DEF IInv
  <2> QED
    BY <1>1, <2>1, <2>2, OnlyTodo DEF handshake
<1> QED
  BY <1>3, <1>4 DEF Done
-----------------------------------------------------------------------------
(* Theorems.                                                                  *)

LEMMA Initially == Init => IInv
<1> SUFFICES ASSUME Init PROVE IInv
  OBVIOUS
<1>1. DriverTypeOK
  BY ClientAssumption DEF Init, DriverInit, DriverTypeOK
<1>2. Handler \in Call /\ Handler.kind = "handle"
  BY DEF Handler, Call
<1>3. Ordered
  BY <1>2, NoStep DEF Init, Ordered, LockTypes, Calls
<1>4. ManagerTypes /\ Counted
  BY DEF Init, DriverInit, ManagerTypes, Through, Sync, Counted
<1>5. HandshakeTypes
  BY ClientAssumption, ManagerAssumption DEF Init, HandshakeTypes
<1>6. Progress /\ Agreement
  BY <1>2 DEF Init, Progress, Agreement
<1> QED
  BY <1>1, <1>3, <1>4, <1>5, <1>6 DEF IInv

LEMMA Step == IInv /\ [Next]_vars => IInv'
<1> SUFFICES ASSUME IInv, [Next]_vars PROVE IInv'
  OBVIOUS
<1>1. CASE UNCHANGED vars
  <2>1. UNCHANGED <<lock, outputDevice, through, sync>> /\ DriverTypeOK' /\ HandshakeTypes' /\ running' = running
    BY <1>1 DEF IInv, vars, DriverTypeOK, driver, HandshakeTypes, handshake
  <2> QED
    BY <2>1, Outsider
<1>2. CASE \E d \in Device, r \in BOOLEAN : SetOutputDevice(d, r)
  BY <1>2, SetOutputDeviceStep
<1>3. CASE LockHolder
  BY <1>3, SyncControlsStep, AssignStep, DoneStep, DeactivateStep, AttachStep, StartStep,
     StopIfIdleStep, StopStep, IfRunningStep, StartSyncStep, WaitStep DEF LockHolder
<1>4. CASE Blocks
  BY <1>4, HandleStep, RunBlockStep DEF Blocks
<1>5. CASE Clock \/ \E c \in Client : DoIO(c)
  BY <1>5, DriverStep DEF Clock
<1>6. CASE Requests
  BY <1>6, StartPlayThroughSyncStep DEF Requests
<1>7. CASE \E c \in Client : StartIO(c) \/ XPCTimeout(c) \/ StopIO(c)
  BY <1>7, StartIOStep, XPCTimeoutStep, StopIOStep
<1> QED
  BY <1>1, <1>2, <1>3, <1>4, <1>5, <1>6, <1>7 DEF Next

(* The strengthening: in which order the steps of whoever holds stateLock can *)
(* come, and which of control sync, the playthroughs and outputDevice have    *)
(* the new device at each of them.                                            *)
THEOREM Invariance == Spec => []IInv
<1> QED
  BY Initially, Step, PTL DEF Spec

(* Every variable keeps its type, and playthrough plays exactly while the     *)
(* driver counts the app as a client of the device: a start or stop of        *)
(* WCPlayThrough, failed or not, leaves neither without the other.            *)
THEOREM TypeCorrect == Spec => []TypeOK
<1>1. IInv => TypeOK
  BY DEF IInv, TypeOK, Ordered, LockTypes, Call, ManagerTypes, Through, Sync, HandshakeTypes, Counted
<1> QED
  BY <1>1, Invariance, PTL

(* After a change of the output device that did not fail, control sync and    *)
(* both playthroughs are active and on the device that is reported, whatever  *)
(* handlers, requests and failures come after it, for any devices and clients *)
(* (WCAudioDeviceManager.mm:318-337).                                         *)
THEOREM ChangesAgree == Spec => []Agreement
<1>1. IInv => Agreement
  BY DEF IInv
<1> QED
  BY <1>1, Invariance, PTL

=============================================================================

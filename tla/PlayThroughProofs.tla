-------------------------- MODULE PlayThroughProofs --------------------------
(* Proofs about PlayThrough: when playthrough says it is playing it is, when  *)
(* it does not only what the HAL refused to stop is left running, and a call  *)
(* of an IOProc finds what it relies on.                                      *)
EXTENDS PlayThrough, TLAPS

(* Where the holder of mStateMutex is, and which steps can come next.         *)
First(steps) == IF steps = <<>> THEN <<"end">> ELSE Head(steps)
pc == First(todo)

Follows(step) ==
    CASE step[1] \in {"start", "abort", "gone"}        -> {<<"end">>}
      [] step[1] \in {"stop", "reset"}                 -> {<<"end">>, <<"destroyIDs">>}
      [] step = <<"wait">>                             -> {<<"cleanUp", "input">>}
      [] step = <<"cleanUp", "input">>                 -> {<<"cleanUp", "output">>}
      [] step = <<"cleanUp", "output">>                -> {<<"reset">>}
      [] step = <<"destroyIDs">>                       -> {<<"end">>, <<"init">>, <<"deallocate">>}
      [] step = <<"init">>                             -> {<<"allocate">>}
      [] step = <<"allocate">>                         -> {<<"end">>, <<"activate">>, <<"start">>}
      [] step = <<"activate">>                         -> {<<"end">>, <<"start">>}
      [] step = <<"deallocate">>                       -> {<<"gone">>}
      [] step = <<"starting", "input">>                -> {<<"run", "input">>}
      [] step = <<"run", "input">>                     -> {<<"starting", "output">>}
      [] step = <<"starting", "output">>               -> {<<"run", "output">>}
      [] step = <<"run", "output">>                    -> {<<"end">>}

InOrder(steps) ==
    \A i \in 1..Len(steps) :
        (IF i < Len(steps) THEN steps[i + 1] ELSE <<"end">>) \in Follows(steps[i])

Starts == {<<"starting", "input">>, <<"run", "input">>, <<"starting", "output">>, <<"run", "output">>}
CleansUp == {<<"cleanUp", "input">>, <<"cleanUp", "output">>, <<"reset">>}
Ended == {<<"init">>, <<"allocate">>, <<"deallocate">>, <<"gone">>}

(* What mActive and mPlayingThrough are at each step.                         *)
Flags ==
    /\ pc \in Starts \cup {<<"abort">>} => active /\ ~playing
    /\ pc \in CleansUp \cup {<<"wait">>} => playing
    /\ pc = <<"destroyIDs">> => ~playing
    /\ pc \in Ended => ~active
    /\ pc = <<"abort">> => aborted

(* Playthrough is playing and not being stopped.                              *)
Plays == playing /\ pc \notin CleansUp \cup {<<"wait">>}

(* A side has been, or is about to be, started.                               *)
Begun(s) ==
    \/ Plays \/ pc = <<"run", "output">>
    \/ s = "input" /\ pc \in {<<"run", "input">>, <<"starting", "output">>}

States ==
    \A s \in Side :
        /\ Begun(s) => state[s] \in {"Starting", "Running"}
        /\ ~playing /\ ~Begun(s) /\ pc # <<"abort">> => state[s] = "Stopped"
        /\ pc = <<"abort">> => state[s] # "Stopping"
        /\ pc \in CleansUp \cup {<<"wait">>} => state[s] \in {"Stopping", "Stopped"}
        /\ pc = <<"reset">> \/ (s = "input" /\ pc = <<"cleanUp", "output">>) => state[s] = "Stopped"

(* What the HAL has been told.                                                *)
Stopped ==
    /\ \A s \in Side : state[s] = "Stopped" /\ ~mistaken =>
          hal[DeviceOf(s)] # "on" \/ DeviceOf(s) \in refused
    /\ \A d \in Device : lost[d] = "on" /\ ~mistaken => d \in refused
    /\ \A d \in Device : lost[d] # "off" => "destroy" \in env.failing
    /\ refused # {} => "stop" \in env.failing
    /\ \A d \in Device \ alive : hal[d] = "off"

(* An IOProc stops itself because of what it has read; only the output's      *)
(* treats its first call in a way of its own.                                 *)
Reads ==
    /\ \A d \in Device, at \in {"stopping", "stopped"}, prev \in IOState :
          io[d] = <<at, prev>> => prev \in {"Stopping", "Stopped"}
    /\ io[Input] # <<"first">>

Buffer == pc \in {<<"allocate">>, <<"gone">>} => ~Copying

(* The rest is about IO threads that are in time.  As long as no Start has    *)
(* failed half way, an IOProc that is not running is not in the middle of a   *)
(* call either; the output's never is, since it is started last.              *)
Within == {<<"idle">>, <<"first">>, <<"body">>, <<"copy">>, <<"skip">>}

Off(s) == hal[DeviceOf(s)] = "off" /\ io[DeviceOf(s)] = <<"idle">>
On(s) == hal[DeviceOf(s)] = "on" /\ io[DeviceOf(s)] \in Within

Running(s) == Plays \/ (s = "input" /\ pc \in {<<"starting", "output">>, <<"run", "output">>})

Handshake(s) ==
    \/ state[s] = "Stopping" /\ hal[DeviceOf(s)] = "on"
       /\ io[DeviceOf(s)] \in Within \cup {<<"stopping", "Stopping">>}
    \/ state[s] = "Stopping" /\ hal[DeviceOf(s)] = "off" /\ io[DeviceOf(s)] = <<"stopped", "Stopping">>
    \/ state[s] = "Stopped" /\ Off(s)

Clean(s) ==
    /\ ~playing /\ ~Running(s) => Off(s)
    /\ Running(s) => On(s)
    /\ pc = <<"wait">> => Handshake(s)
    /\ pc \in CleansUp => state[s] = "Stopped" /\ Off(s)

(* The input's may be, and may stop what the next Start has started; but it   *)
(* does not know of the next Stop.                                            *)
LeftOver ==
    /\ \A at \in {"stopping", "stopped"} : io[Input] = <<at, "Stopping">> =>
          pc = <<"wait">> /\ state["input"] = "Stopping" /\ (at = "stopped" => hal[Input] = "off")
    /\ pc = <<"cleanUp", "input">> /\ state["input"] = "Stopping" => hal[Input] = "off"

FirstCall ==
    /\ ~playing => ~outputTime
    /\ state["output"] = "Starting" => ~outputTime /\ io[output] = <<"idle">>
    /\ io[output] = <<"first">> => ~outputTime

InTime ==
    Timely =>
        /\ alive = Device /\ ~mistaken
        /\ \A d \in Output \ {output} : io[d] = <<"idle">>
        /\ Clean("output") /\ (~aborted => Clean("input"))
        /\ LeftOver /\ FirstCall

IInv ==
    /\ TypeOK /\ InOrder(todo) /\ Flags /\ States /\ Stopped /\ Reads /\ Buffer /\ InTime
-----------------------------------------------------------------------------
(* The order of the steps.                                                    *)

(* What comes after each step.                                                *)
LEMMA FollowsAre ==
    /\ Follows(<<"start">>) = {<<"end">>}
    /\ Follows(<<"abort">>) = {<<"end">>}
    /\ Follows(<<"gone">>) = {<<"end">>}
    /\ Follows(<<"stop">>) = {<<"end">>, <<"destroyIDs">>}
    /\ Follows(<<"reset">>) = {<<"end">>, <<"destroyIDs">>}
    /\ Follows(<<"wait">>) = {<<"cleanUp", "input">>}
    /\ Follows(<<"cleanUp", "input">>) = {<<"cleanUp", "output">>}
    /\ Follows(<<"cleanUp", "output">>) = {<<"reset">>}
    /\ Follows(<<"destroyIDs">>) = {<<"end">>, <<"init">>, <<"deallocate">>}
    /\ Follows(<<"init">>) = {<<"allocate">>}
    /\ Follows(<<"allocate">>) = {<<"end">>, <<"activate">>, <<"start">>}
    /\ Follows(<<"activate">>) = {<<"end">>, <<"start">>}
    /\ Follows(<<"deallocate">>) = {<<"gone">>}
    /\ Follows(<<"starting", "input">>) = {<<"run", "input">>}
    /\ Follows(<<"run", "input">>) = {<<"starting", "output">>}
    /\ Follows(<<"starting", "output">>) = {<<"run", "output">>}
    /\ Follows(<<"run", "output">>) = {<<"end">>}
  BY DEF Follows

(* Steps put before others that may follow them.                              *)
LEMMA Joined ==
  ASSUME NEW a \in Seq(Step), NEW b \in Seq(Step), a # <<>>, InOrder(b),
         \A i \in 1..(Len(a) - 1) : a[i + 1] \in Follows(a[i]),
         First(b) \in Follows(a[Len(a)])
  PROVE  a \o b \in Seq(Step) /\ InOrder(a \o b) /\ First(a \o b) = a[1]
<1>1. a \o b \in Seq(Step) /\ Len(a \o b) = Len(a) + Len(b)
  OBVIOUS
<1>2. Len(a) \in Nat \ {0} /\ Len(b) \in Nat
  OBVIOUS
<1>3. ASSUME NEW i \in 1..Len(a \o b)
      PROVE  (IF i < Len(a \o b) THEN (a \o b)[i + 1] ELSE <<"end">>) \in Follows((a \o b)[i])
  <2>1. CASE i < Len(a)
    <3>1. (a \o b)[i] = a[i] /\ (a \o b)[i + 1] = a[i + 1] /\ i < Len(a \o b)
      BY <1>1, <1>2, <2>1
    <3> QED
      BY <1>1, <1>2, <2>1, <3>1
  <2>2. CASE i = Len(a) /\ b = <<>>
    <3>1. (a \o b)[i] = a[i] /\ ~(i < Len(a \o b)) /\ First(b) = <<"end">>
      BY <1>1, <1>2, <2>2 DEF First
    <3> QED
      BY <2>2, <3>1
  <2>3. CASE i = Len(a) /\ b # <<>>
    <3>1. (a \o b)[i] = a[i] /\ (a \o b)[i + 1] = b[1] /\ i < Len(a \o b) /\ First(b) = b[1]
      BY <1>1, <1>2, <2>3 DEF First
    <3> QED
      BY <2>3, <3>1
  <2>4. CASE i > Len(a)
    <3> DEFINE j == i - Len(a)
    <3>1. j \in 1..Len(b) /\ (a \o b)[i] = b[j]
      BY <1>1, <1>2, <2>4
    <3>2. (IF j < Len(b) THEN b[j + 1] ELSE <<"end">>) \in Follows(b[j])
      BY <3>1 DEF InOrder
    <3>3. j < Len(b) => (a \o b)[i + 1] = b[j + 1]
      BY <1>1, <1>2, <2>4
    <3>4. j < Len(b) <=> i < Len(a \o b)
      BY <1>1, <1>2, <2>4
    <3> HIDE DEF j
    <3> QED
      BY <3>1, <3>2, <3>3, <3>4
  <2> QED
    BY <1>1, <1>2, <2>1, <2>2, <2>3, <2>4
<1>4. a \o b # <<>> /\ Head(a \o b) = a[1]
  BY <1>1, <1>2
<1> QED
  BY <1>1, <1>3, <1>4 DEF InOrder, First

(* What is left when a step has been taken.                                   *)
LEMMA Taken ==
  ASSUME todo \in Seq(Step), todo # <<>>, InOrder(todo)
  PROVE  /\ Tail(todo) \in Seq(Step) /\ InOrder(Tail(todo))
         /\ First(Tail(todo)) \in Follows(Head(todo))
<1>1. Len(todo) \in Nat \ {0} /\ Tail(todo) \in Seq(Step) /\ Len(Tail(todo)) = Len(todo) - 1
  OBVIOUS
<1>2. \A i \in 1..Len(Tail(todo)) : Tail(todo)[i] = todo[i + 1]
  OBVIOUS
<1>3. ASSUME NEW i \in 1..Len(Tail(todo))
      PROVE  (IF i < Len(Tail(todo)) THEN Tail(todo)[i + 1] ELSE <<"end">>) \in Follows(Tail(todo)[i])
  <2>1. i + 1 \in 1..Len(todo) /\ (i < Len(Tail(todo)) <=> i + 1 < Len(todo))
    BY <1>1
  <2>2. (IF i + 1 < Len(todo) THEN todo[i + 1 + 1] ELSE <<"end">>) \in Follows(todo[i + 1])
    BY <2>1 DEF InOrder
  <2>3. i < Len(Tail(todo)) => Tail(todo)[i + 1] = todo[i + 1 + 1]
    BY <1>1, <1>2, <2>1
  <2> QED
    BY <1>2, <2>1, <2>2, <2>3
<1>4. First(Tail(todo)) \in Follows(Head(todo))
  <2>1. (IF 1 < Len(todo) THEN todo[1 + 1] ELSE <<"end">>) \in Follows(todo[1])
    BY <1>1 DEF InOrder
  <2>2. Head(todo) = todo[1]
    OBVIOUS
  <2>3. CASE 1 < Len(todo)
    <3> DEFINE rest == Tail(todo)
    <3>1. rest \in Seq(Step) /\ Len(rest) # 0 /\ rest[1] = todo[2]
      BY <1>1, <1>2, <2>3
    <3>2. \A q \in Seq(Step) : Len(q) # 0 => q # <<>> /\ Head(q) = q[1]
      OBVIOUS
    <3>3. rest # <<>> /\ Head(rest) = rest[1]
      BY <3>1, <3>2
    <3> QED
      BY <2>1, <2>2, <2>3, <3>1, <3>3 DEF First
  <2>4. CASE ~(1 < Len(todo))
    <3>1. Tail(todo) = <<>>
      BY <1>1, <2>4
    <3> QED
      BY <2>1, <2>2, <2>4, <3>1 DEF First
  <2> QED
    BY <2>3, <2>4
<1> QED
  BY <1>1, <1>3, <1>4 DEF InOrder

(* The next step when one has been taken, given up, or replaced by others.    *)
LEMMA Advances ==
  ASSUME TypeOK, InOrder(todo), NEW step, At(step), Does(<<>>)
  PROVE  pc = step /\ todo' \in Seq(Step) /\ InOrder(todo)' /\ pc' \in Follows(step)
<1>1. todo \in Seq(Step) /\ todo # <<>> /\ Head(todo) = step
  BY DEF TypeOK, At
<1>2. todo' = Tail(todo)
  BY <1>1 DEF Does
<1> QED
  BY <1>1, <1>2, Taken DEF pc, First, InOrder

LEMMA Replaced ==
  ASSUME TypeOK, InOrder(todo), NEW step, At(step), NEW steps \in Seq(Step), steps # <<>>,
         \A i \in 1..(Len(steps) - 1) : steps[i + 1] \in Follows(steps[i]),
         Follows(step) \subseteq Follows(steps[Len(steps)]), Does(steps)
  PROVE  pc = step /\ todo' \in Seq(Step) /\ InOrder(todo)' /\ pc' = steps[1]
<1>1. todo \in Seq(Step) /\ todo # <<>> /\ Head(todo) = step
  BY DEF TypeOK, At
<1>2. /\ Tail(todo) \in Seq(Step) /\ InOrder(Tail(todo))
      /\ First(Tail(todo)) \in Follows(steps[Len(steps)])
  BY <1>1, Taken
<1>3. todo' = steps \o Tail(todo)
  BY DEF Does
<1>4. todo' \in Seq(Step) /\ InOrder(todo') /\ First(todo') = steps[1]
  BY <1>2, <1>3, Joined
<1> QED
  BY <1>1, <1>4 DEF InOrder, pc, First

LEMMA Throws ==
  ASSUME Throw
  PROVE  todo' \in Seq(Step) /\ InOrder(todo)' /\ pc' = <<"end">>
BY DEF Throw, InOrder, pc, First

LEMMA Stays ==
  ASSUME UNCHANGED todo
  PROVE  (InOrder(todo) => InOrder(todo)') /\ pc' = pc
BY DEF InOrder, pc, First

LEMMA Begins ==
  ASSUME NEW steps \in Seq(Step), steps # <<>>,
         \A i \in 1..(Len(steps) - 1) : steps[i + 1] \in Follows(steps[i]),
         NEW rest \in Seq(Step), InOrder(rest), First(rest) \in Follows(steps[Len(steps)]),
         todo' = steps \o rest
  PROVE  todo' \in Seq(Step) /\ InOrder(todo)' /\ pc' = steps[1]
<1>1. steps \o rest \in Seq(Step) /\ InOrder(steps \o rest) /\ First(steps \o rest) = steps[1]
  BY Joined
<1> QED
  BY <1>1 DEF InOrder, pc, First
-----------------------------------------------------------------------------
(* The IO threads.  What any step of an IOProc does: it changes no device but *)
(* its own and no state but its side's, it starts nothing, and it does not    *)
(* undo what Stop and Start have set.                                         *)
MayChange(old, new) ==
    \/ new = old
    \/ old = "Starting" /\ new = "Running"
    \/ old \in {"Stopping", "Stopped"} /\ new = "Stopped"

IOThreadStep(d) ==
    /\ hal' \in [Device -> {"off", "on", "late"}] /\ io' \in [Device -> IOStep]
    /\ \A e \in Device \ {d} : io'[e] = io[e]
    /\ "destroy" \notin env.failing => \A e \in Device \ {d} : hal'[e] = hal[e]
    /\ \A e \in Device : (hal'[e] # "off" => hal[e] # "off") /\ (hal'[e] = "on" => hal[e] = "on")
    /\ lost' \in [Device -> {"off", "on", "late"}]
    /\ \A e \in Device : lost'[e] = lost[e] \/ (lost'[e] = "off" /\ lost[e] # "off")
    /\ state' \in [Side -> IOState]
    /\ \A r \in Side \ {SideOf(d)} : state'[r] = state[r]
    /\ MayChange(state[SideOf(d)], state'[SideOf(d)])
    /\ state'[SideOf(d)] = "Stopped" /\ ~mistaken' =>
          state[SideOf(d)] = "Stopped" \/ hal[DeviceOf(SideOf(d))] # "on"
    /\ mistaken' \in BOOLEAN /\ (mistaken => mistaken')
    /\ \A at \in {"stopping", "stopped"}, prev \in IOState :
          io'[d] = <<at, prev>> => prev \in {"Stopping", "Stopped"}
    /\ d = Input => io'[d] # <<"first">>
    /\ io'[d] = <<"copy">> => io[d] = <<"copy">> \/ pc \notin {<<"allocate">>, <<"gone">>}
    /\ stale' \subseteq Device /\ inputTime' \in BOOLEAN /\ outputTime' \in BOOLEAN
    /\ waiter' \in [Waiter -> WaiterStep]
    /\ UNCHANGED <<control, alive, aborted, refused>>

LEMMA SidesAreSides ==
  ASSUME output \in Output
  PROVE  /\ \A s \in Side : DeviceOf(s) \in Device /\ SideOf(DeviceOf(s)) = s
         /\ \A d \in Device : SideOf(d) \in Side
         /\ DeviceOf("input") = Input /\ DeviceOf("output") = output
         /\ \A d \in Output : SideOf(d) = "output" /\ d # Input
BY DeviceAssumption DEF DeviceOf, SideOf, Device, Side

LEMMA IOThreadsKeep ==
  ASSUME IInv, NEW d \in Device, IOThreadStep(d), InTime'
  PROVE  IInv'
<1>0. TypeOK /\ InOrder(todo) /\ Flags /\ States /\ Stopped /\ Reads /\ Buffer
  BY DEF IInv
<1>1. todo' = todo /\ pc' = pc /\ InOrder(todo)' /\ output' = output /\ active' = active
      /\ playing' = playing /\ alive' = alive /\ aborted' = aborted
  BY <1>0, Stays DEF IOThreadStep, control
<1>2. output \in Output
  BY <1>0 DEF TypeOK
<1>3. /\ \A s \in Side : DeviceOf(s)' = DeviceOf(s) /\ DeviceOf(s) \in Device
      /\ \A s \in Side : Begun(s)' = Begun(s)
      /\ SideOf(d) \in Side
  BY <1>1, <1>2, SidesAreSides DEF DeviceOf, Begun, Plays
<1>4. TypeOK'
  BY <1>0, <1>1 DEF TypeOK, IOThreadStep, control
<1>5. Flags'
  BY <1>0, <1>1 DEF Flags
<1>6. States'
  <2> SUFFICES ASSUME NEW s \in Side
               PROVE  /\ Begun(s) => state'[s] \in {"Starting", "Running"}
                      /\ ~playing /\ ~Begun(s) /\ pc # <<"abort">> => state'[s] = "Stopped"
                      /\ pc = <<"abort">> => state'[s] # "Stopping"
                      /\ pc \in CleansUp \cup {<<"wait">>} => state'[s] \in {"Stopping", "Stopped"}
                      /\ pc = <<"reset">> \/ (s = "input" /\ pc = <<"cleanUp", "output">>) =>
                            state'[s] = "Stopped"
    BY <1>1, <1>3 DEF States
  <2>1. MayChange(state[s], state'[s])
    BY DEF IOThreadStep, MayChange
  <2> QED
    BY <1>0, <2>1 DEF States, MayChange
<1>7. Stopped'
  <2>1. ASSUME NEW s \in Side, state'[s] = "Stopped", ~mistaken'
        PROVE  hal'[DeviceOf(s)] # "on" \/ DeviceOf(s) \in refused
    <3>1. state[s] = "Stopped" \/ hal[DeviceOf(s)] # "on"
      BY <2>1 DEF IOThreadStep
    <3>2. hal[DeviceOf(s)] # "on" \/ DeviceOf(s) \in refused
      BY <1>0, <2>1, <3>1 DEF Stopped, IOThreadStep
    <3> QED
      BY <1>3, <3>2 DEF IOThreadStep
  <2>2. \A e \in Device \ alive : hal'[e] = "off"
    BY <1>0 DEF Stopped, IOThreadStep
  <2>3. \A e \in Device : /\ lost'[e] = "on" /\ ~mistaken' => e \in refused
                          /\ lost'[e] # "off" => "destroy" \in env.failing
    BY <1>0 DEF Stopped, IOThreadStep
  <2>4. env' = env /\ refused' = refused
    BY DEF IOThreadStep, control
  <2> QED
    BY <1>0, <1>1, <1>3, <2>1, <2>2, <2>3, <2>4 DEF Stopped
<1>8. Reads'
  <2>1. Input \in Device
    BY DEF Device
  <2> QED
    BY <1>0, <2>1 DEF Reads, IOThreadStep
<1>9. Buffer'
  BY <1>0, <1>1 DEF Buffer, Copying, IOThreadStep
<1> QED
  BY <1>1, <1>4, <1>5, <1>6, <1>7, <1>8, <1>9 DEF IInv

(* Each step of an IO thread is one of these.                                 *)
LEMMA CallsStep ==
  ASSUME IInv, NEW d \in Device, CallIOProc(d)
  PROVE  IOThreadStep(d)
<1> DEFINE s == SideOf(d)
<1>0. TypeOK /\ s \in Side
  BY SidesAreSides DEF IInv, TypeOK
<1>1. /\ hal' \in [Device -> {"off", "on", "late"}]
      /\ \A e \in Device \ {d} : hal'[e] = hal[e]
      /\ \A e \in Device : (hal'[e] # "off" => hal[e] # "off") /\ (hal'[e] = "on" => hal[e] = "on")
      /\ lost' \in [Device -> {"off", "on", "late"}]
      /\ \A e \in Device : lost'[e] = lost[e] \/ (lost'[e] = "off" /\ lost[e] # "off")
      /\ stale' \subseteq Device
  <2>1. CASE hal' = Called(hal, d) /\ UNCHANGED <<lost, stale>>
    BY <1>0, <2>1 DEF Called, TypeOK
  <2>2. CASE lost' = Called(lost, d) /\ stale' = stale \cup {d} /\ UNCHANGED hal
    BY <1>0, <2>2 DEF Called, TypeOK
  <2> QED
    BY <2>1, <2>2 DEF CallIOProc
<1>2. \E x \in {<<"first">>, <<"body">>, <<"stopping", "Stopping">>, <<"stopping", "Stopped">>} :
         io' = [io EXCEPT ![d] = x]
  BY <1>0 DEF CallIOProc
<1>3. io' \in [Device -> IOStep] /\ (\A e \in Device \ {d} : io'[e] = io[e])
      /\ io'[d] \in {<<"first">>, <<"body">>, <<"stopping", "Stopping">>, <<"stopping", "Stopped">>}
  BY <1>0, <1>2 DEF TypeOK, IOStep, IOState
<1>4. /\ \A at \in {"stopping", "stopped"}, prev \in IOState :
            io'[d] = <<at, prev>> => prev \in {"Stopping", "Stopped"}
      /\ io'[d] # <<"copy">>
  BY <1>3
<1>5. /\ state' \in [Side -> IOState] /\ \A r \in Side \ {s} : state'[r] = state[r]
      /\ state'[s] = state[s] \/ (state[s] = "Starting" /\ state'[s] = "Running")
  BY <1>0 DEF CallIOProc, TypeOK, IOState
<1>6. UNCHANGED <<control, times, alive, waiter, ghosts>>
  BY DEF CallIOProc
<1>7. d = Input => io'[d] # <<"first">>
  <2>1. d = Input => s = "input"
    BY DEF SideOf
  <2>2. s = "input" => \E x \in {<<"body">>, <<"stopping", "Stopping">>, <<"stopping", "Stopped">>} :
                          io' = [io EXCEPT ![d] = x]
    BY <1>0 DEF CallIOProc
  <2> QED
    BY <1>0, <2>1, <2>2 DEF TypeOK
<1> QED
  BY <1>0, <1>1, <1>3, <1>4, <1>5, <1>6, <1>7 DEF IOThreadStep, MayChange, TypeOK, times, ghosts

LEMMA StopsStep ==
  ASSUME IInv, NEW d \in Device, StopIOProcInside(d)
  PROVE  IOThreadStep(d)
<1>0. TypeOK /\ SideOf(d) \in Side
  BY SidesAreSides DEF IInv, TypeOK
<1>1. PICK prev \in IOState :
         /\ io[d] = <<"stopping", prev>>
         /\ \/ /\ hal' = [hal EXCEPT ![d] = "off"]
               /\ io' = [io EXCEPT ![d] = <<"stopped", prev>>] /\ UNCHANGED <<lost, stale>>
            \/ /\ "destroy" \in env.failing
               /\ hal' \in {hal, StoppedFromOutside({DeviceOf(SideOf(d))})}
               /\ lost' \in {lost, [lost EXCEPT ![d] = "off"]}
               /\ io' = [io EXCEPT ![d] = <<"stopped", prev>>] /\ UNCHANGED stale
            \/ Return(d) /\ UNCHANGED <<hal, lost>>
         /\ UNCHANGED <<control, state, times, alive, waiter, ghosts>>
  BY DEF StopIOProcInside
<1>2. prev \in {"Stopping", "Stopped"}
  BY <1>1 DEF IInv, Reads
<1>3. /\ hal' \in [Device -> {"off", "on", "late"}]
      /\ "destroy" \notin env.failing => \A e \in Device \ {d} : hal'[e] = hal[e]
      /\ \A e \in Device : (hal'[e] # "off" => hal[e] # "off") /\ (hal'[e] = "on" => hal[e] = "on")
      /\ lost' \in [Device -> {"off", "on", "late"}]
      /\ \A e \in Device : lost'[e] = lost[e] \/ (lost'[e] = "off" /\ lost[e] # "off")
  <2>1. CASE hal' = [hal EXCEPT ![d] = "off"] /\ lost' = lost
    BY <1>0, <2>1 DEF TypeOK
  <2>2. CASE /\ "destroy" \in env.failing
             /\ hal' \in {hal, StoppedFromOutside({DeviceOf(SideOf(d))})}
             /\ lost' \in {lost, [lost EXCEPT ![d] = "off"]}
    BY <1>0, <2>2 DEF TypeOK, StoppedFromOutside
  <2>3. CASE hal' = hal /\ lost' = lost
    BY <1>0, <2>3 DEF TypeOK
  <2> QED
    BY <1>1, <2>1, <2>2, <2>3
<1>4. \E x \in {<<"idle">>, <<"stopped", prev>>} : io' = [io EXCEPT ![d] = x]
  BY <1>1 DEF Return
<1>5. io' \in [Device -> IOStep] /\ (\A e \in Device \ {d} : io'[e] = io[e])
      /\ io'[d] \in {<<"idle">>, <<"stopped", prev>>}
  BY <1>0, <1>4 DEF TypeOK, IOStep
<1>6. /\ \A at \in {"stopping", "stopped"}, p \in IOState :
            io'[d] = <<at, p>> => p \in {"Stopping", "Stopped"}
      /\ io'[d] # <<"copy">> /\ io'[d] # <<"first">>
  BY <1>2, <1>5
<1>7. stale' \subseteq Device
  BY <1>0, <1>1 DEF Return, TypeOK
<1> QED
  BY <1>0, <1>1, <1>3, <1>5, <1>6, <1>7 DEF IOThreadStep, MayChange, TypeOK, times, ghosts

LEMMA ExchangesStep ==
  ASSUME IInv, NEW d \in Device, ExchangeStopped(d)
  PROVE  IOThreadStep(d)
<1> DEFINE s == SideOf(d)
<1>0. TypeOK /\ s \in Side
  BY SidesAreSides DEF IInv, TypeOK
<1>1. PICK prev \in IOState :
         /\ io[d] = <<"stopped", prev>>
         /\ \/ /\ state[s] = prev /\ state' = [state EXCEPT ![s] = "Stopped"] /\ Return(d)
               /\ mistaken' = (mistaken \/ hal[DeviceOf(s)] = "on")
            \/ /\ state[s] # prev /\ UNCHANGED <<state, mistaken>>
               /\ Return(d) \/ (io' = [io EXCEPT ![d] = <<"body">>] /\ UNCHANGED stale)
         /\ UNCHANGED <<control, times, external, waiter, aborted, refused>>
  BY DEF ExchangeStopped
<1>2. prev \in {"Stopping", "Stopped"}
  BY <1>1 DEF IInv, Reads
<1>3. hal' = hal /\ lost' = lost
  BY <1>1 DEF external
<1>4. \E x \in {<<"idle">>, <<"body">>} : io' = [io EXCEPT ![d] = x]
  BY <1>1 DEF Return
<1>5. io' \in [Device -> IOStep] /\ (\A e \in Device \ {d} : io'[e] = io[e])
      /\ io'[d] \in {<<"idle">>, <<"body">>}
  BY <1>0, <1>4 DEF TypeOK, IOStep
<1>6. /\ \A at \in {"stopping", "stopped"}, p \in IOState : io'[d] # <<at, p>>
      /\ io'[d] # <<"copy">> /\ io'[d] # <<"first">>
  BY <1>5
<1>7. stale' \subseteq Device
  BY <1>0, <1>1 DEF Return, TypeOK
<1>8. /\ state' \in [Side -> IOState] /\ \A r \in Side \ {s} : state'[r] = state[r]
      /\ MayChange(state[s], state'[s])
  BY <1>0, <1>1, <1>2 DEF TypeOK, IOState, MayChange
<1>9. /\ mistaken' \in BOOLEAN /\ (mistaken => mistaken')
      /\ state'[s] = "Stopped" /\ ~mistaken' =>
            state[s] = "Stopped" \/ hal[DeviceOf(s)] # "on"
  <2>1. CASE mistaken' = (mistaken \/ hal[DeviceOf(s)] = "on")
    BY <1>0, <2>1 DEF TypeOK
  <2>2. CASE UNCHANGED <<state, mistaken>>
    BY <1>0, <2>2 DEF TypeOK
  <2> QED
    BY <1>1, <2>1, <2>2
<1> QED
  BY <1>0, <1>1, <1>3, <1>5, <1>6, <1>7, <1>8, <1>9 DEF IOThreadStep, TypeOK, times, external

LEMMA BodyStep ==
  ASSUME IInv, NEW d \in Device, FirstOutput(d) \/ TryBufferLock(d) \/ FinishCall(d)
  PROVE  IOThreadStep(d)
<1>0. TypeOK /\ SideOf(d) \in Side
  BY SidesAreSides DEF IInv, TypeOK
<1>1. \E x \in {<<"idle">>, <<"body">>, <<"copy">>, <<"skip">>} : io' = [io EXCEPT ![d] = x]
  BY DEF FirstOutput, TryBufferLock, FinishCall, Return
<1>2. io' \in [Device -> IOStep] /\ (\A e \in Device \ {d} : io'[e] = io[e])
      /\ io'[d] \in {<<"idle">>, <<"body">>, <<"copy">>, <<"skip">>}
  BY <1>0, <1>1 DEF TypeOK, IOStep
<1>3. /\ \A at \in {"stopping", "stopped"}, p \in IOState : io'[d] # <<at, p>>
      /\ io'[d] # <<"first">>
  BY <1>2
<1>4. io'[d] = <<"copy">> => pc \notin {<<"allocate">>, <<"gone">>}
  <2>1. CASE FirstOutput(d) \/ FinishCall(d)
    <3>1. \E x \in {<<"idle">>, <<"body">>} : io' = [io EXCEPT ![d] = x]
      BY <2>1 DEF FirstOutput, FinishCall, Return
    <3> QED
      BY <1>0, <3>1 DEF TypeOK
  <2>2. CASE TryBufferLock(d)
    <3>1. BufferLocked \/ NoBuffer => io' = [io EXCEPT ![d] = <<"idle">>] \/ io' = [io EXCEPT ![d] = <<"skip">>]
      BY <2>2 DEF TryBufferLock, Return
    <3>2. pc \in {<<"allocate">>, <<"gone">>} => BufferLocked \/ NoBuffer
      BY DEF pc, First, BufferLocked, NoBuffer, Gone, At
    <3> QED
      BY <1>0, <3>1, <3>2 DEF TypeOK
  <2> QED
    BY <2>1, <2>2
<1>5. waiter' \in [Waiter -> WaiterStep]
  BY <1>0 DEF FirstOutput, TryBufferLock, FinishCall, ReleaseThreadsWaitingForOutputToStart,
              SignalAll, TypeOK, WaiterStep
<1>6. stale' \subseteq Device /\ inputTime' \in BOOLEAN /\ outputTime' \in BOOLEAN
  BY <1>0 DEF FirstOutput, TryBufferLock, FinishCall, Return, TypeOK, times
<1>7. UNCHANGED <<control, state, external, ghosts>>
  BY DEF FirstOutput, TryBufferLock, FinishCall
<1> QED
  BY <1>0, <1>2, <1>3, <1>4, <1>5, <1>6, <1>7 DEF IOThreadStep, MayChange, TypeOK, external, ghosts

(* Where a state of Stopping is seen.                                         *)
LEMMA StoppingWhere ==
  ASSUME States, NEW s \in Side, state[s] = "Stopping"
  PROVE  \/ pc \in {<<"wait">>, <<"cleanUp", "input">>}
         \/ s = "output" /\ pc = <<"cleanUp", "output">>
         \/ playing /\ Plays
<1>1. ~Begun(s) /\ ~(~playing /\ pc # <<"abort">>) /\ pc # <<"abort">>
  BY DEF States
<1>2. playing
  BY <1>1
<1>3. CASE Plays
  BY <1>2, <1>3
<1>4. CASE pc \in CleansUp \cup {<<"wait">>}
  BY <1>4 DEF States, CleansUp, Side
<1> QED
  BY <1>2, <1>3, <1>4 DEF Plays

(* IO threads that are in time: only the two devices in use have calls in     *)
(* progress, and what a side's thread does concerns that side.                *)
LEMMA ActsOnItsSide ==
  ASSUME IInv, Timely, NEW d \in Device, IOThread(d)
  PROVE  d = DeviceOf(SideOf(d)) /\ SideOf(d) \in Side
<1>1. TypeOK /\ (\A e \in Output \ {output} : io[e] = <<"idle">>) /\ lost[d] = "off"
  BY DEF IInv, InTime, Stopped, Timely
<1>2. hal[d] # "off" \/ io[d] # <<"idle">>
  BY <1>1 DEF IOThread, CallIOProc, StopIOProcInside, ExchangeStopped, FirstOutput, TryBufferLock, FinishCall
<1>3. d \in {Input, output}
  BY <1>1, <1>2 DEF TypeOK, Device
<1> QED
  BY <1>1, <1>3, SidesAreSides DEF TypeOK, SideOf, DeviceOf, Side

LEMMA InTimeKeeps ==
  ASSUME IInv, Timely, NEW s \in Side, IOThreadStep(DeviceOf(s)),
         s = "output" \/ ~aborted => Clean(s)',
         LeftOver', FirstCall', ~mistaken'
  PROVE  InTime'
<1>0. TypeOK /\ Clean("output") /\ (~aborted => Clean("input")) /\ alive = Device
      /\ \A d \in Output \ {output} : io[d] = <<"idle">>
  BY DEF IInv, InTime
<1>1. todo' = todo /\ pc' = pc /\ output' = output /\ playing' = playing /\ alive' = alive
      /\ aborted' = aborted
  BY Stays DEF IOThreadStep, control
<1>2. /\ \A r \in Side : DeviceOf(r)' = DeviceOf(r) /\ DeviceOf(r) \in Device
      /\ \A r \in Side : Running(r)' = Running(r)
      /\ SideOf(DeviceOf(s)) = s /\ \A r \in Side \ {s} : DeviceOf(r) # DeviceOf(s)
      /\ \A d \in Output \ {output} : d # DeviceOf(s) /\ d \in Device
  BY <1>0, <1>1, SidesAreSides DEF DeviceOf, Running, Plays, TypeOK, Device
<1>3. ASSUME NEW r \in Side \ {s}, Clean(r)
      PROVE  Clean(r)'
  <2>1. hal'[DeviceOf(r)] = hal[DeviceOf(r)] /\ io'[DeviceOf(r)] = io[DeviceOf(r)] /\ state'[r] = state[r]
    BY <1>2 DEF IOThreadStep, Timely
  <2> QED
    BY <1>1, <1>2, <1>3, <2>1 DEF Clean, Off, On, Handshake
<1>4. \A d \in Output \ {output} : io'[d] = <<"idle">>
  BY <1>0, <1>2 DEF IOThreadStep
<1>5. Clean("output")' /\ (~aborted => Clean("input")')
  BY <1>0, <1>3 DEF Side
<1> QED
  BY <1>0, <1>1, <1>4, <1>5 DEF InTime

(* What the first call and calls left over find is kept by a step that        *)
(* concerns neither.                                                          *)
LEMMA CallInTime ==
  ASSUME IInv, Timely, NEW d \in Device, CallIOProc(d)
  PROVE  InTime'
<1> DEFINE s == SideOf(d)
<1>0. TypeOK /\ States /\ Clean("output") /\ (~aborted => Clean("input")) /\ LeftOver /\ FirstCall
      /\ ~mistaken /\ lost[d] = "off" /\ "destroy" \notin env.failing
  BY DEF IInv, InTime, Stopped, Timely
<1>1. d = DeviceOf(s) /\ s \in Side
  BY ActsOnItsSide DEF IOThread
<1>2. IOThreadStep(d)
  BY CallsStep
<1>3. todo' = todo /\ pc' = pc /\ output' = output /\ playing' = playing /\ mistaken' = mistaken
      /\ outputTime' = outputTime
  BY Stays DEF CallIOProc, control, ghosts, times
<1>4. DeviceOf(s)' = DeviceOf(s) /\ Running(s)' = Running(s)
  BY <1>3 DEF DeviceOf, Running, Plays
<1>5. hal[d] # "off" /\ io[d] = <<"idle">> /\ (hal[d] = "on" => hal'[d] = "on")
  BY <1>0 DEF CallIOProc, Called, TypeOK
<1>6. /\ state[s] = "Starting" => state'[s] = "Running" /\ io'[d] \in {<<"first">>, <<"body">>}
      /\ state[s] = "Running" => state'[s] = "Running" /\ io'[d] = <<"body">>
      /\ state[s] \in {"Stopping", "Stopped"} => state' = state /\ io'[d] = <<"stopping", state[s]>>
  BY <1>0, <1>1 DEF CallIOProc, TypeOK
<1>7. ASSUME Clean(s)
      PROVE  Clean(s)'
  <2>1. CASE Running(s)
    <3>1. Begun(s) /\ pc \notin CleansUp \cup {<<"wait">>}
      BY <2>1 DEF Running, Begun, Plays, CleansUp
    <3>2. state[s] \in {"Starting", "Running"} /\ hal[d] = "on"
      BY <1>0, <1>1, <1>7, <2>1, <3>1 DEF States, Clean, On
    <3> QED
      BY <1>1, <1>3, <1>4, <1>5, <1>6, <2>1, <3>1, <3>2 DEF Clean, On, Within
  <2>2. CASE pc = <<"wait">>
    <3>1. state[s] = "Stopping" /\ hal[d] = "on"
      BY <1>1, <1>5, <1>7, <2>2 DEF Clean, Handshake, Off
    <3>2. ~Running(s) /\ pc \notin CleansUp /\ playing
      BY <1>0, <2>2 DEF Running, Plays, CleansUp, IInv, Flags
    <3> QED
      BY <1>1, <1>3, <1>4, <1>5, <1>6, <2>2, <3>1, <3>2 DEF Clean, Handshake
  <2>3. CASE ~Running(s) /\ pc # <<"wait">>
    <3>1. ~playing \/ pc \in CleansUp
      BY <2>3 DEF Running, Plays
    <3> QED
      BY <1>1, <1>5, <1>7, <2>3, <3>1 DEF Clean, Off
  <2> QED
    BY <2>1, <2>2, <2>3
<1>8. LeftOver'
  <2>1. CASE d = Input
    <3>1. s = "input"
      BY <2>1 DEF SideOf
    <3>2. ASSUME NEW at \in {"stopping", "stopped"}, io'[Input] = <<at, "Stopping">>
          PROVE  pc = <<"wait">> /\ state'["input"] = "Stopping" /\ at = "stopping"
      <4>1. state["input"] = "Stopping" /\ state' = state /\ at = "stopping"
        <5>1. state["input"] \in IOState
          BY <1>0 DEF TypeOK, Side
        <5> QED
          BY <1>6, <2>1, <3>1, <3>2, <5>1 DEF IOState
      <4>2. ~Plays
        BY <1>0, <4>1 DEF States, Begun, Side
      <4>3. pc # <<"cleanUp", "input">>
        BY <1>0, <1>5, <2>1, <4>1 DEF LeftOver
      <4> QED
        BY <1>0, <4>1, <4>2, <4>3, StoppingWhere DEF Side
    <3>3. pc = <<"cleanUp", "input">> /\ state'["input"] = "Stopping" => FALSE
      <4>1. state'["input"] = "Stopping" => state["input"] = "Stopping"
        BY <1>0, <1>6, <3>1 DEF TypeOK, Side, IOState
      <4> QED
        BY <1>0, <1>5, <2>1, <4>1 DEF LeftOver
    <3> QED
      BY <1>3, <3>2, <3>3 DEF LeftOver
  <2>2. CASE d # Input
    <3>1. s = "output" /\ Input \in Device /\ "input" \in Side
      BY <2>2 DEF SideOf, Device, Side
    <3>2. io'[Input] = io[Input] /\ hal'[Input] = hal[Input] /\ state'["input"] = state["input"]
      BY <1>0, <1>2, <2>2, <3>1 DEF IOThreadStep
    <3> QED
      BY <1>0, <1>3, <3>2 DEF LeftOver
  <2> QED
    BY <2>1, <2>2
<1>9. FirstCall'
  <2>1. CASE s = "output"
    <3>1. d = output
      BY <1>1, <2>1 DEF DeviceOf
    <3>2. state[s] \in IOState
      BY <1>0, <1>1 DEF TypeOK
    <3> QED
      BY <1>0, <1>3, <1>6, <2>1, <3>1, <3>2 DEF FirstCall, IOState
  <2>2. CASE s = "input"
    <3>1. d = Input /\ output # Input /\ output \in Device
      BY <1>0, <1>1, <2>2, SidesAreSides DEF DeviceOf, TypeOK, Device
    <3>2. io'[output] = io[output] /\ state'["output"] = state["output"]
      BY <1>2, <2>2, <3>1 DEF IOThreadStep, Side
    <3> QED
      BY <1>0, <1>3, <3>2 DEF FirstCall
  <2> QED
    BY <1>1, <2>1, <2>2 DEF Side
<1> QED
  BY <1>0, <1>1, <1>2, <1>3, <1>7, <1>8, <1>9, InTimeKeeps DEF Side

LEMMA SidesApart ==
  ASSUME TypeOK, Timely, NEW s \in Side, NEW d, d = DeviceOf(s), IOThreadStep(d)
  PROVE  /\ s = "input" => d = Input /\ io'[output] = io[output] /\ state'["output"] = state["output"]
         /\ s = "output" => d = output /\ d # Input /\ io'[Input] = io[Input]
                            /\ hal'[Input] = hal[Input] /\ state'["input"] = state["input"]
<1>1. output \in Output /\ output # Input /\ output \in Device /\ Input \in Device
  BY DeviceAssumption DEF TypeOK, Device
<1>2. SideOf(d) = s
  BY <1>1, SidesAreSides
<1>3. (s = "input" => d = Input) /\ (s = "output" => d = output)
  BY DEF DeviceOf
<1>4. "input" # "output" /\ "input" \in Side /\ "output" \in Side
  BY DEF Side
<1> QED
  BY <1>1, <1>2, <1>3, <1>4 DEF IOThreadStep, Timely

LEMMA StopInTime ==
  ASSUME IInv, Timely, NEW d \in Device, StopIOProcInside(d)
  PROVE  InTime'
<1> DEFINE s == SideOf(d)
<1>0. TypeOK /\ Clean("output") /\ (~aborted => Clean("input")) /\ LeftOver /\ FirstCall
      /\ ~mistaken
  BY DEF IInv, InTime
<1>1. d = DeviceOf(s) /\ s \in Side
  BY ActsOnItsSide DEF IOThread
<1>2. IOThreadStep(d)
  BY StopsStep
<1>3. PICK prev \in IOState :
         /\ io[d] = <<"stopping", prev>>
         /\ \/ /\ hal' = [hal EXCEPT ![d] = "off"]
               /\ io' = [io EXCEPT ![d] = <<"stopped", prev>>]
            \/ io' = [io EXCEPT ![d] = <<"idle">>] /\ UNCHANGED hal
         /\ UNCHANGED <<control, state, times, alive, waiter, ghosts>>
  BY DEF StopIOProcInside, Return, Timely
<1>4. todo' = todo /\ pc' = pc /\ output' = output /\ playing' = playing /\ mistaken' = mistaken
      /\ outputTime' = outputTime /\ state' = state
  BY <1>3, Stays DEF control, ghosts, times
<1>5. DeviceOf(s)' = DeviceOf(s) /\ Running(s)' = Running(s)
  BY <1>4 DEF DeviceOf, Running, Plays
<1>6. \/ hal'[d] = "off" /\ io'[d] = <<"stopped", prev>>
      \/ hal'[d] = hal[d] /\ io'[d] = <<"idle">>
  BY <1>0, <1>3 DEF TypeOK
<1>7. io[d] \notin Within
  BY <1>3 DEF Within
<1>8. ASSUME Clean(s)
      PROVE  Clean(s)'
  <2>1. ~Off(s) /\ ~On(s)
    BY <1>1, <1>7 DEF Off, On, Within
  <2>2. playing /\ ~Running(s) /\ pc \notin CleansUp
    BY <1>8, <2>1 DEF Clean, Running
  <2>3. CASE pc = <<"wait">>
    <3>1. state[s] = "Stopping" /\ hal[d] = "on" /\ prev = "Stopping"
      <4>1. Handshake(s)
        BY <1>8, <2>3 DEF Clean
      <4>2. io[d] = <<"stopping", "Stopping">> /\ state[s] = "Stopping" /\ hal[d] = "on"
        BY <1>1, <1>3, <1>7, <2>1, <4>1 DEF Handshake
      <4> QED
        BY <1>3, <4>2
    <3>2. Handshake(s)'
      BY <1>1, <1>4, <1>5, <1>6, <3>1 DEF Handshake, Within
    <3> QED
      BY <1>4, <1>5, <2>2, <3>2 DEF Clean
  <2>4. CASE pc # <<"wait">>
    BY <2>2, <2>4 DEF Running, Plays
  <2> QED
    BY <2>3, <2>4
<1>9. LeftOver'
  <2>1. CASE s = "input"
    <3>1. d = Input
      BY <1>0, <1>1, <1>2, <2>1, SidesApart
    <3>2. hal[Input] = "off" => hal'[Input] = "off"
      BY <1>6, <3>1
    <3>3. ASSUME NEW at \in {"stopping", "stopped"}, io'[Input] = <<at, "Stopping">>
          PROVE  pc = <<"wait">> /\ state["input"] = "Stopping" /\ hal'[Input] = "off"
      <4>1. hal'[Input] = "off" /\ prev = "Stopping"
        BY <1>6, <3>1, <3>3
      <4>2. io[Input] = <<"stopping", "Stopping">>
        BY <1>3, <3>1, <4>1
      <4> QED
        BY <1>0, <4>1, <4>2 DEF LeftOver
    <3> QED
      BY <1>0, <1>4, <3>2, <3>3 DEF LeftOver
  <2>2. CASE s = "output"
    BY <1>0, <1>1, <1>2, <1>4, <2>2, SidesApart DEF LeftOver
  <2> QED
    BY <1>1, <2>1, <2>2 DEF Side
<1>10. FirstCall'
  <2>1. CASE s = "output"
    <3>1. d = output
      BY <1>0, <1>1, <1>2, <2>1, SidesApart
    <3>2. state["output"] # "Starting" /\ io'[d] # <<"first">>
      BY <1>0, <1>6, <1>7, <3>1 DEF FirstCall, Within
    <3> QED
      BY <1>0, <1>4, <3>1, <3>2 DEF FirstCall
  <2>2. CASE s = "input"
    BY <1>0, <1>1, <1>2, <1>4, <2>2, SidesApart DEF FirstCall
  <2> QED
    BY <1>1, <2>1, <2>2 DEF Side
<1> QED
  BY <1>0, <1>1, <1>2, <1>4, <1>8, <1>9, <1>10, InTimeKeeps DEF Side

LEMMA ExchangeInTime ==
  ASSUME IInv, Timely, NEW d \in Device, ExchangeStopped(d)
  PROVE  InTime'
<1> DEFINE s == SideOf(d)
<1>0. TypeOK /\ Stopped /\ Reads /\ Clean("output") /\ (~aborted => Clean("input")) /\ LeftOver
      /\ FirstCall /\ ~mistaken
  BY DEF IInv, InTime
<1>1. d = DeviceOf(s) /\ s \in Side
  BY ActsOnItsSide DEF IOThread
<1>2. IOThreadStep(d)
  BY ExchangesStep
<1>3. PICK prev \in IOState :
         /\ io[d] = <<"stopped", prev>>
         /\ \/ /\ state[s] = prev /\ state' = [state EXCEPT ![s] = "Stopped"]
               /\ io' = [io EXCEPT ![d] = <<"idle">>]
               /\ mistaken' = (mistaken \/ hal[DeviceOf(s)] = "on")
            \/ /\ state[s] # prev /\ UNCHANGED <<state, mistaken>>
               /\ io' = [io EXCEPT ![d] = <<"idle">>] \/ io' = [io EXCEPT ![d] = <<"body">>]
         /\ UNCHANGED <<control, times, external, waiter, aborted, refused>>
  BY DEF ExchangeStopped, Return
<1>4. todo' = todo /\ pc' = pc /\ output' = output /\ playing' = playing
      /\ outputTime' = outputTime /\ hal' = hal
  BY <1>3, Stays DEF control, external, times
<1>5. DeviceOf(s)' = DeviceOf(s) /\ Running(s)' = Running(s)
  BY <1>4 DEF DeviceOf, Running, Plays
<1>6. /\ io'[d] \in {<<"idle">>, <<"body">>}
      /\ \/ state[s] = prev /\ state'[s] = "Stopped" /\ io'[d] = <<"idle">>
         \/ state[s] # prev /\ state' = state
  BY <1>0, <1>1, <1>3 DEF TypeOK
<1>7. io[d] \notin Within /\ io[d] # <<"stopping", "Stopping">>
  BY <1>3 DEF Within
<1>8. ASSUME Clean(s)
      PROVE  Clean(s)' /\ hal[d] = "off"
  <2>1. ~Off(s) /\ ~On(s)
    BY <1>1, <1>7 DEF Off, On, Within
  <2>2. playing /\ ~Running(s) /\ pc \notin CleansUp
    BY <1>8, <2>1 DEF Clean, Running
  <2>3. pc = <<"wait">>
    BY <2>2 DEF Running, Plays
  <2>4. Handshake(s)
    BY <1>8, <2>3 DEF Clean
  <2>5. state[s] = "Stopping" /\ hal[d] = "off" /\ io[d] = <<"stopped", "Stopping">>
    BY <1>1, <1>7, <2>1, <2>4 DEF Handshake
  <2>6. prev = "Stopping"
    BY <1>3, <2>5
  <2>7. state'[s] = "Stopped" /\ Off(s)'
    BY <1>1, <1>4, <1>5, <1>6, <2>5, <2>6 DEF Off
  <2> QED
    BY <1>4, <1>5, <2>2, <2>5, <2>7 DEF Clean, Handshake
<1>9. ~mistaken'
  <2>1. CASE s = "output"
    BY <1>0, <1>1, <1>3, <1>8, <2>1
  <2>2. CASE s = "input"
    <3>1. d = Input /\ prev \in {"Stopping", "Stopped"}
      BY <1>0, <1>1, <1>2, <1>3, <2>2, SidesApart DEF Reads
    <3>2. CASE prev = "Stopping"
      <4>1. hal[d] = "off"
        BY <1>0, <1>3, <3>1, <3>2 DEF LeftOver
      <4> QED
        BY <1>0, <1>1, <1>3, <4>1
    <3>3. CASE prev = "Stopped"
      BY <1>0, <1>1, <1>3, <3>3 DEF Stopped, Timely
    <3> QED
      BY <3>1, <3>2, <3>3
  <2> QED
    BY <1>1, <2>1, <2>2 DEF Side
<1>10. LeftOver'
  <2>1. CASE s = "input"
    <3>1. d = Input
      BY <1>0, <1>1, <1>2, <2>1, SidesApart
    <3>2. \A at \in {"stopping", "stopped"} : io'[Input] # <<at, "Stopping">>
      BY <1>6, <3>1
    <3>3. state'["input"] = "Stopping" => state["input"] = "Stopping"
      BY <1>6, <2>1
    <3> QED
      BY <1>0, <1>4, <3>2, <3>3 DEF LeftOver
  <2>2. CASE s = "output"
    BY <1>0, <1>1, <1>2, <1>4, <2>2, SidesApart DEF LeftOver
  <2> QED
    BY <1>1, <2>1, <2>2 DEF Side
<1>11. FirstCall'
  <2>1. CASE s = "output"
    <3>1. d = output
      BY <1>0, <1>1, <1>2, <2>1, SidesApart
    <3>2. state["output"] # "Starting" /\ io'[d] # <<"first">>
      BY <1>0, <1>6, <1>7, <3>1 DEF FirstCall, Within
    <3>3. state'["output"] # "Starting"
      BY <1>6, <2>1, <3>2
    <3> QED
      BY <1>0, <1>4, <3>1, <3>2, <3>3 DEF FirstCall
  <2>2. CASE s = "input"
    BY <1>0, <1>1, <1>2, <1>4, <2>2, SidesApart DEF FirstCall
  <2> QED
    BY <1>1, <2>1, <2>2 DEF Side
<1> QED
  BY <1>0, <1>1, <1>2, <1>8, <1>9, <1>10, <1>11, InTimeKeeps DEF Side

LEMMA BodyInTime ==
  ASSUME IInv, Timely, NEW d \in Device, FirstOutput(d) \/ TryBufferLock(d) \/ FinishCall(d)
  PROVE  InTime'
<1> DEFINE s == SideOf(d)
<1>0. TypeOK /\ Clean("output") /\ (~aborted => Clean("input")) /\ LeftOver /\ FirstCall
      /\ ~mistaken
  BY DEF IInv, InTime
<1>1. d = DeviceOf(s) /\ s \in Side
  BY ActsOnItsSide DEF IOThread
<1>2. IOThreadStep(d)
  BY BodyStep
<1>3. UNCHANGED <<control, state, external, ghosts>>
  BY DEF FirstOutput, TryBufferLock, FinishCall
<1>4. todo' = todo /\ pc' = pc /\ output' = output /\ playing' = playing /\ mistaken' = mistaken
      /\ state' = state /\ hal' = hal
  BY <1>3, Stays DEF control, external, ghosts
<1>5. DeviceOf(s)' = DeviceOf(s) /\ Running(s)' = Running(s)
  BY <1>4 DEF DeviceOf, Running, Plays
<1>6. io[d] \in Within \ {<<"idle">>}
  BY DEF FirstOutput, TryBufferLock, FinishCall, Within
<1>7. io'[d] \in Within \ {<<"first">>}
  <2>1. \E x \in Within \ {<<"first">>} : io' = [io EXCEPT ![d] = x]
    BY DEF FirstOutput, TryBufferLock, FinishCall, Return, Within
  <2> QED
    BY <1>0, <2>1 DEF TypeOK
<1>8. ~Off(s)
  BY <1>1, <1>6 DEF Off
<1>9. ASSUME Clean(s)
      PROVE  Clean(s)' /\ (playing \/ Running(s))
  <2>1. (playing \/ Running(s)) /\ pc \notin CleansUp
    BY <1>8, <1>9 DEF Clean
  <2>2. On(s) => On(s)'
    BY <1>1, <1>4, <1>5, <1>7 DEF On
  <2>3. pc = <<"wait">> => Handshake(s)'
    <3>1. ASSUME pc = <<"wait">> PROVE state[s] = "Stopping" /\ hal[d] = "on"
      <4>1. Handshake(s)
        BY <1>9, <3>1 DEF Clean
      <4>2. io[d] # <<"stopped", "Stopping">>
        BY <1>6 DEF Within
      <4> QED
        BY <1>1, <1>8, <4>1, <4>2 DEF Handshake
    <3> QED
      BY <1>1, <1>4, <1>5, <1>7, <3>1 DEF Handshake
  <2> QED
    BY <1>4, <1>5, <1>9, <2>1, <2>2, <2>3 DEF Clean
<1>10. LeftOver'
  <2>1. CASE s = "input"
    <3>1. d = Input
      BY <1>0, <1>1, <1>2, <2>1, SidesApart
    <3>2. \A at \in {"stopping", "stopped"} : io'[Input] # <<at, "Stopping">>
      BY <1>7, <3>1 DEF Within
    <3> QED
      BY <1>0, <1>4, <3>2 DEF LeftOver
  <2>2. CASE s = "output"
    BY <1>0, <1>1, <1>2, <1>4, <2>2, SidesApart DEF LeftOver
  <2> QED
    BY <1>1, <2>1, <2>2 DEF Side
<1>11. FirstCall'
  <2>1. CASE s = "output"
    <3>1. d = output
      BY <1>0, <1>1, <1>2, <2>1, SidesApart
    <3>2. playing
      BY <1>0, <1>9, <2>1 DEF Running, Plays
    <3>3. state["output"] # "Starting"
      BY <1>0, <1>6, <3>1 DEF FirstCall
    <3> QED
      BY <1>4, <1>7, <3>1, <3>2, <3>3 DEF FirstCall
  <2>2. CASE s = "input"
    <3>1. d = Input /\ io'[output] = io[output]
      BY <1>0, <1>1, <1>2, <2>2, SidesApart
    <3>2. outputTime' = outputTime
      BY <3>1 DEF FirstOutput, TryBufferLock, FinishCall, times
    <3> QED
      BY <1>0, <1>4, <3>1, <3>2 DEF FirstCall
  <2> QED
    BY <1>1, <2>1, <2>2 DEF Side
<1> QED
  BY <1>0, <1>1, <1>2, <1>4, <1>9, <1>10, <1>11, InTimeKeeps DEF Side

(* So the IO threads keep the invariant.                                      *)
LEMMA IOThreadKeeps ==
  ASSUME IInv, NEW d \in Device, IOThread(d)
  PROVE  IInv'
<1>1. Timely' = Timely
  BY DEF IOThread, CallIOProc, StopIOProcInside, ExchangeStopped, FirstOutput, TryBufferLock,
         FinishCall, control, Timely
<1>2. InTime'
  <2>1. CASE Timely
    BY <2>1, CallInTime, StopInTime, ExchangeInTime, BodyInTime DEF IOThread
  <2>2. CASE ~Timely
    BY <1>1, <2>2 DEF InTime
  <2> QED
    BY <2>1, <2>2
<1>3. IOThreadStep(d)
  BY CallsStep, StopsStep, ExchangesStep, BodyStep DEF IOThread
<1> QED
  BY <1>2, <1>3, IOThreadsKeep
-----------------------------------------------------------------------------
(* The waiting threads, and a device that goes away.                          *)
LEMMA WaitersKeep ==
  ASSUME IInv, waiter' \in [Waiter -> WaiterStep],
         UNCHANGED <<control, state, times, external, threads, ghosts>>
  PROVE  IInv'
<1>1. pc' = pc /\ InOrder(todo)'
  BY Stays DEF IInv, control
<1>2. TypeOK'
  BY DEF IInv, TypeOK, control, times, external, threads, ghosts
<1>3. Flags' /\ Buffer'
  BY <1>1 DEF IInv, Flags, Buffer, Copying, control, threads, ghosts
<1>4. States' /\ Stopped' /\ Reads'
  BY <1>1 DEF IInv, States, Begun, Plays, Stopped, Reads, DeviceOf, control, external, threads, ghosts
<1>5. InTime'
  <2>1. Clean("output")' = Clean("output") /\ Clean("input")' = Clean("input")
    BY <1>1 DEF Clean, Running, Plays, On, Off, Handshake, DeviceOf, control, external, threads
  <2>2. LeftOver' = LeftOver /\ FirstCall' = FirstCall
    BY <1>1 DEF LeftOver, FirstCall, control, external, threads, times
  <2> QED
    BY <2>1, <2>2 DEF IInv, InTime, Timely, control, external, threads, ghosts
<1> QED
  BY <1>1, <1>2, <1>3, <1>4, <1>5 DEF IInv

LEMMA DiesKeeps ==
  ASSUME IInv, NEW d \in Device, DeviceDies(d)
  PROVE  IInv'
<1>1. pc' = pc /\ InOrder(todo)'
  BY Stays DEF IInv, DeviceDies, control
<1>2. TypeOK'
  BY DEF IInv, TypeOK, DeviceDies, control, times, threads, ghosts
<1>3. Flags' /\ Buffer'
  BY <1>1 DEF IInv, Flags, Buffer, Copying, DeviceDies, control, threads, ghosts
<1>4. States' /\ Reads'
  BY <1>1 DEF IInv, States, Begun, Plays, Reads, DeviceDies, control, threads
<1>5. Stopped'
  <2>1. \A e \in Device : hal'[e] = hal[e] \/ hal'[e] = "off"
    BY DEF IInv, TypeOK, DeviceDies
  <2>2. \A e \in Device \ alive' : hal'[e] = "off"
    BY DEF IInv, TypeOK, Stopped, DeviceDies
  <2>3. \A s \in Side : DeviceOf(s)' = DeviceOf(s) /\ DeviceOf(s) \in Device
    BY SidesAreSides DEF IInv, TypeOK, DeviceOf, DeviceDies, control
  <2>4. \A e \in Device : lost'[e] = lost[e] \/ lost'[e] = "off"
    BY DEF IInv, TypeOK, DeviceDies
  <2> QED
    BY <2>1, <2>2, <2>3, <2>4 DEF IInv, Stopped, DeviceDies, control, ghosts
<1>6. InTime'
  BY DEF InTime, Timely, DeviceDies, control
<1> QED
  BY <1>1, <1>2, <1>3, <1>4, <1>5, <1>6 DEF IInv

-----------------------------------------------------------------------------
(* The operations begin, and go on, while nothing is being started or         *)
(* stopped.                                                                   *)
Between ==
    {<<"end">>, <<"start">>, <<"stop">>, <<"activate">>, <<"destroyIDs">>, <<"init">>,
     <<"allocate">>, <<"deallocate">>, <<"gone">>, <<"starting", "input">>}

LEMMA BetweenKeeps ==
  ASSUME IInv, pc \in Between, pc' \in Between, todo' \in Seq(Step), InOrder(todo)',
         Flags', Buffer', ops' \in 0..env.maxOps, to' \in Output,
         active' \in BOOLEAN, active => active', waiter' \in [Waiter -> WaiterStep],
         inputTime' \in BOOLEAN, outputTime' \in {outputTime, FALSE},
         UNCHANGED <<env, output, playing, state, external, threads, ghosts>>
  PROVE  IInv'
<1>1. TypeOK'
  BY DEF IInv, TypeOK, external, threads, ghosts
<1>2. /\ pc \notin CleansUp \cup {<<"wait">>} /\ pc' \notin CleansUp \cup {<<"wait">>}
      /\ pc # <<"abort">> /\ pc' # <<"abort">>
      /\ Plays = playing /\ Plays' = playing
      /\ \A s \in Side : Begun(s) = playing /\ Begun(s)' = playing
      /\ \A s \in Side : Running(s) = playing /\ Running(s)' = playing
  <2>1. \A p \in Between : /\ p \notin CleansUp \cup {<<"wait">>} /\ p # <<"abort">>
                           /\ p \notin {<<"run", "output">>, <<"run", "input">>, <<"starting", "output">>}
    BY DEF Between, CleansUp
  <2>2. playing \in BOOLEAN
    BY DEF IInv, TypeOK
  <2> QED
    BY <2>1, <2>2 DEF Plays, Begun, Running
<1>3. States'
  BY <1>2 DEF IInv, States, CleansUp
<1>4. Stopped' /\ Reads'
  BY DEF IInv, Stopped, Reads, DeviceOf, external, threads, ghosts
<1>5. InTime'
  <2> SUFFICES ASSUME Timely
               PROVE  /\ alive = Device /\ ~mistaken
                      /\ \A d \in Output \ {output} : io[d] = <<"idle">>
                      /\ Clean("output")' /\ (~aborted => Clean("input")')
                      /\ LeftOver' /\ FirstCall'
    BY DEF InTime, Timely, external, threads, ghosts
  <2>0. /\ alive = Device /\ ~mistaken /\ \A d \in Output \ {output} : io[d] = <<"idle">>
        /\ Clean("output") /\ (~aborted => Clean("input"))
        /\ LeftOver /\ FirstCall
    BY DEF IInv, InTime
  <2>1. ASSUME NEW s \in Side, Clean(s)
        PROVE  Clean(s)'
    BY <1>2, <2>1 DEF Clean, On, Off, DeviceOf, external, threads
  <2>2. LeftOver'
    BY <1>2, <2>0 DEF LeftOver, CleansUp, external, threads
  <2>3. FirstCall'
    <3>1. outputTime' => outputTime
      OBVIOUS
    <3>2. io' = io
      BY DEF threads
    <3> QED
      BY <2>0, <3>1, <3>2 DEF FirstCall
  <2> QED
    BY <2>0, <2>1, <2>2, <2>3 DEF Side
<1> QED
  BY <1>1, <1>3, <1>4, <1>5 DEF IInv

(* What an operation that begins has to do.                                   *)
LEMMA OperationBegins ==
  ASSUME IInv, Operation
  PROVE  /\ todo' \in Seq(Step) /\ InOrder(todo)'
         /\ pc' \in {<<"start">>, <<"stop">>, <<"activate">>, <<"init">>, <<"deallocate">>}
         /\ pc' \in {<<"init">>, <<"deallocate">>} => ~active
<1>0. /\ {<<"start">>, <<"stop">>, <<"activate">>, <<"destroyIDs">>, <<"init">>, <<"allocate">>,
          <<"deallocate">>, <<"gone">>} \subseteq Step
      /\ active \in BOOLEAN /\ playing \in BOOLEAN /\ (playing => active)
  BY DEF Step, IInv, TypeOK
<1>1. InOrder(<<>>) /\ First(<<>>) = <<"end">> /\ <<>> \in Seq(Step)
  BY DEF InOrder, First
<1>2. ASSUME NEW step \in {<<"start">>, <<"stop">>, <<"activate">>}
      PROVE  <<step>> \in Seq(Step) /\ InOrder(<<step>>) /\ First(<<step>>) = step
  <2>1. <<"end">> \in Follows(step)
    BY FollowsAre
  <2> QED
    BY <1>0, <2>1 DEF InOrder, First
<1> DEFINE stops == <<<<"stop">>, <<"destroyIDs">>>>
<1>3. /\ stops \in Seq(Step) /\ stops # <<>> /\ Len(stops) = 2 /\ stops[1] = <<"stop">>
      /\ stops[Len(stops)] = <<"destroyIDs">>
  BY <1>0
<1>4. \A i \in 1..(Len(stops) - 1) : stops[i + 1] \in Follows(stops[i])
  BY FollowsAre
<1>5. ASSUME NEW rest \in Seq(Step), InOrder(rest),
             First(rest) \in {<<"end">>, <<"init">>, <<"deallocate">>}, todo' = stops \o rest
      PROVE  todo' \in Seq(Step) /\ InOrder(todo)' /\ pc' = <<"stop">>
  <2>1. First(rest) \in Follows(stops[Len(stops)])
    BY <1>3, <1>5, FollowsAre
  <2> HIDE DEF stops
  <2> QED
    BY <1>3, <1>4, <1>5, <2>1, Begins
<1>6. CASE Start \/ Stop \/ Activate
  <2>1. PICK step \in {<<"start">>, <<"stop">>, <<"activate">>} : todo' = <<step>>
    BY <1>6 DEF Start, Stop, Activate, Begin
  <2> QED
    BY <1>2, <2>1 DEF InOrder, pc, First
<1>7. CASE Deactivate
  <2>1. todo' = stops \o <<>>
    BY <1>7 DEF Deactivate, Begin, Deactivation
  <2> HIDE DEF stops
  <2>2. todo' \in Seq(Step) /\ InOrder(todo)' /\ pc' = <<"stop">>
    BY <1>1, <1>5, <2>1
  <2> QED
    BY <2>2
<1>8. CASE Destroy
  <2> DEFINE end == <<<<"deallocate">>, <<"gone">>>>
  <2>1. end \in Seq(Step) /\ InOrder(end) /\ First(end) = <<"deallocate">>
    BY <1>0, FollowsAre DEF InOrder, First
  <2>2. todo' = Deactivation \o end
    BY <1>8 DEF Destroy, Begin
  <2> HIDE DEF end
  <2>3. CASE active
    <3>1. todo' = stops \o end
      BY <2>2, <2>3 DEF Deactivation
    <3> HIDE DEF stops
    <3>2. todo' \in Seq(Step) /\ InOrder(todo)' /\ pc' = <<"stop">>
      BY <1>5, <2>1, <3>1
    <3> QED
      BY <3>2
  <2>4. CASE ~active
    <3>1. todo' = end
      BY <2>1, <2>2, <2>4 DEF Deactivation
    <3> QED
      BY <2>1, <2>4, <3>1 DEF InOrder, pc, First
  <2> QED
    BY <2>3, <2>4
<1>9. CASE \E o \in Output : SetDevices(o)
  <2>1. todo' = Deactivation \o <<<<"init">>, <<"allocate">>>>
                  \o (IF active THEN <<<<"activate">>>> ELSE <<>>)
                  \o (IF playing THEN <<<<"start">>>> ELSE <<>>)
    BY <1>9 DEF SetDevices, Begin
  <2>2. CASE ~active
    <3> DEFINE steps == <<<<"init">>, <<"allocate">>>>
    <3>1. todo' = steps
      <4>1. todo' = <<>> \o steps \o <<>> \o <<>>
        BY <1>0, <2>1, <2>2, Zenon DEF Deactivation
      <4> QED
        BY <4>1
    <3>2. <<"allocate">> \in Follows(<<"init">>) /\ <<"end">> \in Follows(<<"allocate">>)
      BY FollowsAre
    <3>3. steps \in Seq(Step) /\ InOrder(steps) /\ First(steps) = <<"init">>
      BY <1>0, <3>2 DEF InOrder, First
    <3> QED
      BY <2>2, <3>1, <3>3 DEF InOrder, pc, First
  <2>3. CASE active
    <3> DEFINE again == IF playing THEN <<<<"start">>>> ELSE <<>>
    <3>1. todo' = <<<<"stop">>, <<"destroyIDs">>, <<"init">>, <<"allocate">>, <<"activate">>>> \o again
      BY <1>0, <2>1, <2>3 DEF Deactivation
    <3>2. again \in Seq(Step) /\ InOrder(again) /\ First(again) \in {<<"end">>, <<"start">>}
      BY <1>0, <1>1, <1>2
    <3> HIDE DEF again
    <3> DEFINE steps == <<<<"stop">>, <<"destroyIDs">>, <<"init">>, <<"allocate">>, <<"activate">>>>
    <3>3. steps \in Seq(Step) /\ steps # <<>> /\ Len(steps) = 5 /\ steps[1] = <<"stop">>
      BY <1>0
    <3>4. \A i \in 1..(Len(steps) - 1) : steps[i + 1] \in Follows(steps[i])
      BY FollowsAre
    <3>5. steps[Len(steps)] = <<"activate">>
      OBVIOUS
    <3>6. First(again) \in Follows(steps[Len(steps)])
      BY <3>2, <3>5, FollowsAre
    <3> HIDE DEF steps
    <3>7. todo' \in Seq(Step) /\ InOrder(todo)' /\ pc' = steps[1]
      BY <3>1, <3>2, <3>3, <3>4, <3>6, Begins DEF steps
    <3> QED
      BY <2>3, <3>3, <3>7
  <2> QED
    BY <1>0, <2>2, <2>3
<1> QED
  BY <1>6, <1>7, <1>8, <1>9 DEF Operation

LEMMA OperationKeeps ==
  ASSUME IInv, Operation
  PROVE  IInv'
<1>1. /\ Idle /\ ops' \in 0..env.maxOps /\ to' \in Output
      /\ UNCHANGED <<env, output, active, playing, state, times, external, threads, waiter, ghosts>>
  <2>1. TypeOK /\ env.maxOps \in Nat
    BY DeviceAssumption DEF IInv, TypeOK
  <2>2. (\E steps : Begin(steps)) /\ to' \in Output
    BY <2>1 DEF Operation, Start, Stop, Activate, Deactivate, Destroy, SetDevices, TypeOK
  <2>3. PICK steps : Begin(steps)
    BY <2>2
  <2>4. ops' \in 0..env.maxOps
    BY <2>1, <2>3 DEF Begin, TypeOK
  <2> QED
    BY <2>2, <2>3, <2>4 DEF Begin
<1>2. pc = <<"end">>
  BY <1>1 DEF Idle, pc, First
<1>3. Flags' /\ Buffer'
  BY <1>1, OperationBegins DEF Flags, Buffer, Starts, CleansUp, Ended
<1>4. active' \in BOOLEAN /\ waiter' \in [Waiter -> WaiterStep] /\ inputTime' \in BOOLEAN
      /\ outputTime' \in {outputTime, FALSE}
  BY <1>1 DEF IInv, TypeOK, times
<1>5. pc \in Between /\ pc' \in Between
  BY <1>2, OperationBegins DEF Between
<1> QED
  BY <1>1, <1>3, <1>4, <1>5, OperationBegins, BetweenKeeps

LEMMA ActivateKeeps ==
  ASSUME IInv, ActivateStep
  PROVE  IInv'
<1>0. TypeOK /\ InOrder(todo) /\ At(<<"activate">>)
  BY DEF IInv, ActivateStep
<1>1. pc = <<"activate">>
  BY <1>0 DEF At, pc, First
<1>2. todo' \in Seq(Step) /\ InOrder(todo)' /\ pc' \in {<<"end">>, <<"start">>}
  <2>1. Does(<<>>) \/ Throw
    BY DEF ActivateStep
  <2> QED
    BY <1>0, <2>1, Advances, Throws, FollowsAre
<1>3. /\ active' \in BOOLEAN /\ (active => active') /\ ops' \in 0..env.maxOps /\ to' \in Output
      /\ waiter' \in [Waiter -> WaiterStep] /\ inputTime' \in BOOLEAN /\ outputTime' = outputTime
      /\ UNCHANGED <<env, output, playing, state, external, threads, ghosts>>
  BY <1>0 DEF ActivateStep, TypeOK, times
<1>4. Flags' /\ Buffer'
  BY <1>2 DEF Flags, Buffer, Starts, CleansUp, Ended
<1> QED
  BY <1>1, <1>2, <1>3, <1>4, BetweenKeeps DEF Between

LEMMA StartStepKeeps ==
  ASSUME IInv, StartStep
  PROVE  IInv'
<1>0. TypeOK /\ InOrder(todo) /\ At(<<"start">>)
  BY DEF IInv, StartStep
<1>1. pc = <<"start">>
  BY <1>0 DEF At, pc, First
<1> DEFINE steps == <<<<"starting", "input">>, <<"run", "input">>,
                      <<"starting", "output">>, <<"run", "output">>>>
<1>2. /\ todo' \in Seq(Step) /\ InOrder(todo)' /\ pc' \in {<<"end">>, <<"starting", "input">>}
      /\ pc' = <<"starting", "input">> => active' /\ ~playing
  <2>1. \/ Does(<<>>) \/ Throw
        \/ Does(steps) /\ active' = TRUE /\ ~playing
    BY DEF StartStep
  <2>2. CASE Does(<<>>) \/ Throw
    <3>1. todo' \in Seq(Step) /\ InOrder(todo)' /\ pc' = <<"end">>
      BY <1>0, <2>2, Advances, Throws, FollowsAre
    <3> QED
      BY <3>1
  <2>3. CASE Does(steps) /\ active' = TRUE /\ ~playing
    <3>1. /\ steps \in Seq(Step) /\ steps # <<>> /\ steps[1] = <<"starting", "input">>
          /\ Len(steps) = 4 /\ steps[Len(steps)] = <<"run", "output">>
      BY DEF Step, Side
    <3>2. \A i \in 1..(Len(steps) - 1) : steps[i + 1] \in Follows(steps[i])
      BY FollowsAre
    <3>3. Follows(<<"start">>) \subseteq Follows(steps[Len(steps)])
      BY <3>1, FollowsAre
    <3> HIDE DEF steps
    <3>4. todo' \in Seq(Step) /\ InOrder(todo)' /\ pc' = steps[1]
      BY <1>0, <2>3, <3>1, <3>2, <3>3, Replaced
    <3> QED
      BY <2>3, <3>1, <3>4
  <2> QED
    BY <2>1, <2>2, <2>3
<1>3. /\ active' \in BOOLEAN /\ (active => active')
      /\ ops' \in 0..env.maxOps /\ to' \in Output
      /\ inputTime' \in BOOLEAN /\ outputTime' = outputTime
      /\ UNCHANGED <<env, output, playing, state, external, threads, ghosts>>
  BY <1>0 DEF StartStep, TypeOK, times
<1>4. waiter' \in [Waiter -> WaiterStep]
  BY <1>0 DEF StartStep, ReleaseThreadsWaitingForOutputToStart, SignalAll, TypeOK, WaiterStep
<1>5. Flags' /\ Buffer'
  BY <1>2, <1>3 DEF Flags, Buffer, Starts, CleansUp, Ended
<1> QED
  BY <1>1, <1>2, <1>3, <1>4, <1>5, BetweenKeeps DEF Between

LEMMA BufferStepsKeep ==
  ASSUME IInv, UnlockBuffer \/ DeallocateBuffer
  PROVE  IInv'
<1>0. TypeOK /\ InOrder(todo) /\ Flags /\ Does(<<>>)
  BY DEF IInv, UnlockBuffer, DeallocateBuffer
<1>1. PICK step \in {<<"allocate">>, <<"deallocate">>} :
         At(step) /\ (step = <<"deallocate">> => ~Copying)
  BY DEF UnlockBuffer, DeallocateBuffer, BufferLocked
<1>2. /\ pc = step /\ todo' \in Seq(Step) /\ InOrder(todo)' /\ pc' \in Follows(step)
  BY <1>0, <1>1, Advances
<1>3. /\ pc' \in {<<"end">>, <<"activate">>, <<"start">>, <<"gone">>}
      /\ pc' = <<"gone">> => step = <<"deallocate">>
  <2>1. CASE step = <<"allocate">>
    <3>1. pc' \in {<<"end">>, <<"activate">>, <<"start">>}
      BY <1>2, <2>1, FollowsAre
    <3> QED
      BY <3>1
  <2>2. CASE step = <<"deallocate">>
    <3>1. pc' \in {<<"gone">>}
      BY <1>2, <2>2, FollowsAre
    <3> QED
      BY <2>2, <3>1
  <2> QED
    BY <1>1, <2>1, <2>2
<1>4. /\ ops' \in 0..env.maxOps /\ to' \in Output
      /\ active' = active /\ waiter' \in [Waiter -> WaiterStep] /\ inputTime' \in BOOLEAN
      /\ outputTime' = outputTime
      /\ UNCHANGED <<env, output, playing, state, external, threads, ghosts>>
  BY <1>0 DEF UnlockBuffer, DeallocateBuffer, TypeOK, times
<1>5. ~active
  BY <1>0, <1>1, <1>2 DEF Flags, Ended
<1>6. Flags'
  BY <1>3, <1>4, <1>5 DEF Flags, Starts, CleansUp, Ended
<1>7. Buffer'
  BY <1>1, <1>3, <1>4 DEF Buffer, Copying, threads
<1>8. active \in BOOLEAN
  BY <1>0 DEF TypeOK
<1>9. pc \in Between /\ pc' \in Between
  BY <1>1, <1>2, <1>3 DEF Between
<1> QED
  BY <1>2, <1>4, <1>6, <1>7, <1>8, <1>9, BetweenKeeps

LEMMA NothingToStopKeeps ==
  ASSUME IInv, StopStep, ~(active /\ playing)
  PROVE  IInv'
<1>0. TypeOK /\ InOrder(todo) /\ At(<<"stop">>) /\ Does(<<>>)
  BY DEF IInv, StopStep
<1>1. /\ pc = <<"stop">> /\ todo' \in Seq(Step) /\ InOrder(todo)'
      /\ pc' \in {<<"end">>, <<"destroyIDs">>}
  BY <1>0, Advances, FollowsAre
<1>2. /\ ops' \in 0..env.maxOps /\ to' \in Output /\ active' = active
      /\ inputTime' \in BOOLEAN /\ outputTime' = FALSE
      /\ UNCHANGED <<env, output, playing, state, external, threads, ghosts>>
  BY <1>0 DEF StopStep, TypeOK
<1>3. waiter' \in [Waiter -> WaiterStep]
  BY <1>0 DEF StopStep, ReleaseThreadsWaitingForOutputToStart, SignalAll, TypeOK, WaiterStep
<1>4. ~playing
  BY <1>0 DEF TypeOK
<1>5. Flags' /\ Buffer'
  BY <1>1, <1>2, <1>4 DEF Flags, Buffer, Starts, CleansUp, Ended
<1>6. active \in BOOLEAN
  BY <1>0 DEF TypeOK
<1> QED
  BY <1>1, <1>2, <1>3, <1>5, <1>6, BetweenKeeps DEF Between

-----------------------------------------------------------------------------
(* Starting.                                                                  *)
LEMMA NoneLeft ==
  ASSUME LeftOver, pc # <<"wait">>
  PROVE  \A at \in {"stopping", "stopped"} : io[Input] # <<at, "Stopping">>
BY DEF LeftOver

LEMMA SetStartingKeeps ==
  ASSUME IInv, NEW s \in Side, SetStarting(s)
  PROVE  IInv'
<1>0. TypeOK /\ InOrder(todo) /\ Flags /\ States /\ Stopped /\ Reads
      /\ At(<<"starting", s>>) /\ Does(<<>>)
  BY DEF IInv, SetStarting
<1>1. /\ pc = <<"starting", s>> /\ todo' \in Seq(Step) /\ InOrder(todo)'
      /\ pc' \in Follows(<<"starting", s>>)
  BY <1>0, Advances
<1>2. pc' = <<"run", s>>
  <2>1. Follows(<<"starting", s>>) = {<<"run", s>>}
    BY FollowsAre DEF Side
  <2> QED
    BY <1>1, <2>1
<1>3. UNCHANGED <<env, to, output, active, playing, times, external, threads, waiter, ops, ghosts>>
      /\ state' = [state EXCEPT ![s] = "Starting"]
  BY DEF SetStarting
<1>4. /\ state' \in [Side -> IOState] /\ state'[s] = "Starting"
      /\ \A r \in Side \ {s} : state'[r] = state[r]
  BY <1>0, <1>3 DEF TypeOK, IOState
<1>5. TypeOK'
  BY <1>0, <1>1, <1>3, <1>4 DEF TypeOK, times, external, threads, ghosts
<1>6. active /\ ~playing /\ Flags'
  <2>1. pc \in Starts
    BY <1>1 DEF Starts, Side
  <2>2. active /\ ~playing
    BY <1>0, <2>1 DEF Flags
  <2> QED
    BY <1>2, <1>3, <2>2 DEF Flags, Starts, CleansUp, Ended
<1>7. pc \notin CleansUp \cup {<<"wait">>} /\ pc' \notin CleansUp \cup {<<"wait">>}
      /\ ~Plays /\ ~Plays'
  BY <1>1, <1>2, <1>3, <1>6 DEF CleansUp, Plays
<1>8. /\ s = "input" => ~Begun("input") /\ ~Begun("output") /\ Begun("input")' /\ ~Begun("output")'
      /\ s = "output" => Begun("input") /\ ~Begun("output") /\ Begun("input")' /\ Begun("output")'
  BY <1>1, <1>2, <1>7 DEF Begun
<1>9. States'
  <2>1. CASE s = "input"
    <3>1. state["output"] = "Stopped"
      BY <1>0, <1>1, <1>6, <1>8, <2>1 DEF States, Side
    <3>2. state'["input"] = "Starting" /\ state'["output"] = "Stopped"
      BY <1>4, <2>1, <3>1 DEF Side
    <3>3. pc' # <<"abort">> /\ pc' # <<"reset">> /\ pc' # <<"cleanUp", "output">>
      BY <1>2
    <3> QED
      BY <1>7, <1>8, <2>1, <3>2, <3>3 DEF States, Side
  <2>2. CASE s = "output"
    <3>1. state["input"] \in {"Starting", "Running"}
      BY <1>0, <1>8, <2>2 DEF States, Side
    <3>2. state'["input"] \in {"Starting", "Running"} /\ state'["output"] = "Starting"
      BY <1>4, <2>2, <3>1 DEF Side
    <3>3. pc' # <<"abort">> /\ pc' # <<"reset">> /\ pc' # <<"cleanUp", "output">>
      BY <1>2
    <3> QED
      BY <1>7, <1>8, <2>2, <3>2, <3>3 DEF States, Side
  <2> QED
    BY <2>1, <2>2 DEF Side
<1>10. Stopped' /\ Reads'
  BY <1>0, <1>3, <1>4 DEF Stopped, Reads, DeviceOf, external, threads, ghosts
<1>11. Buffer'
  BY <1>2 DEF Buffer
<1>12. InTime'
  <2> SUFFICES ASSUME Timely
               PROVE  /\ alive = Device /\ ~mistaken
                      /\ \A d \in Output \ {output} : io[d] = <<"idle">>
                      /\ Clean("output")' /\ (~aborted => Clean("input")')
                      /\ LeftOver' /\ FirstCall'
    BY <1>3 DEF InTime, Timely, external, threads, ghosts
  <2>0. /\ alive = Device /\ ~mistaken /\ \A d \in Output \ {output} : io[d] = <<"idle">>
        /\ Clean("output") /\ (~aborted => Clean("input")) /\ LeftOver /\ FirstCall
    BY DEF IInv, InTime
  <2>1. Running("output") = FALSE /\ Running("output")' = FALSE
        /\ Running("input")' = Running("input")
    BY <1>1, <1>2, <1>7 DEF Running, Side
  <2>2. Clean("output")' /\ Off("output")
    BY <1>3, <1>6, <1>7, <2>0, <2>1 DEF Clean, Off, DeviceOf, external, threads
  <2>3. ~aborted => Clean("input")'
    BY <1>3, <1>6, <1>7, <2>0, <2>1 DEF Clean, Off, On, DeviceOf, external, threads
  <2>4. LeftOver'
    <3>1. \A at \in {"stopping", "stopped"} : io'[Input] # <<at, "Stopping">>
      BY <1>3, <1>7, <2>0, NoneLeft DEF threads
    <3> QED
      BY <1>2, <3>1 DEF LeftOver
  <2>5. FirstCall'
    <3>1. ~outputTime /\ outputTime' = outputTime /\ io' = io /\ output' = output
      BY <1>3, <1>6, <2>0 DEF FirstCall, times, threads
    <3>2. io[output] = <<"idle">>
      BY <2>2 DEF Off, DeviceOf
    <3> QED
      BY <3>1, <3>2 DEF FirstCall
  <2> QED
    BY <2>0, <2>2, <2>3, <2>4, <2>5
<1> QED
  BY <1>1, <1>5, <1>6, <1>9, <1>10, <1>11, <1>12 DEF IInv

LEMMA RunKeeps ==
  ASSUME IInv, NEW s \in Side, RunIOProc(s)
  PROVE  IInv'
<1>0. TypeOK /\ InOrder(todo) /\ Flags /\ States /\ Stopped /\ Reads
      /\ At(<<"run", s>>) /\ Does(<<>>)
  BY DEF IInv, RunIOProc
<1>1. /\ pc = <<"run", s>> /\ todo' \in Seq(Step) /\ InOrder(todo)'
      /\ pc' \in Follows(<<"run", s>>)
  BY <1>0, Advances
<1>2. pc' = IF s = "input" THEN <<"starting", "output">> ELSE <<"end">>
  <2>1. Follows(<<"run", s>>) = {IF s = "input" THEN <<"starting", "output">> ELSE <<"end">>}
    BY FollowsAre DEF Side
  <2> QED
    BY <1>1, <2>1
<1>3. /\ UNCHANGED <<env, to, output, active, state, times, alive, lost, threads, waiter, ops>>
      /\ UNCHANGED <<aborted, mistaken>>
      /\ refused' = {d \in refused : d # DeviceOf(s) \/ lost[d] # "off"}
      /\ hal' = [hal EXCEPT ![DeviceOf(s)] = "on"] /\ playing' = (s = "output")
      /\ DeviceOf(s) \in alive
  BY DEF RunIOProc
<1>4. /\ DeviceOf(s) \in Device /\ DeviceOf(s) \in {Input, output}
      /\ \A r \in Side : DeviceOf(r)' = DeviceOf(r) /\ DeviceOf(r) \in Device
                         /\ (r # s => DeviceOf(r) # DeviceOf(s))
  BY <1>0, <1>3, SidesAreSides DEF TypeOK, DeviceOf, Side
<1>5. hal' \in [Device -> {"off", "on", "late"}] /\ hal'[DeviceOf(s)] = "on"
      /\ \A d \in Device \ {DeviceOf(s)} : hal'[d] = hal[d]
  BY <1>0, <1>3, <1>4 DEF TypeOK
<1>6. active /\ ~playing /\ Flags'
  <2>1. pc \in Starts
    BY <1>1 DEF Starts, Side
  <2>2. active /\ ~playing
    BY <1>0, <2>1 DEF Flags
  <2>3. pc' \in CleansUp \cup {<<"wait">>, <<"destroyIDs">>, <<"abort">>} \cup Ended => FALSE
    BY <1>2 DEF CleansUp, Ended
  <2>4. pc' \in Starts => ~playing'
    BY <1>2, <1>3 DEF Starts
  <2> QED
    BY <1>3, <2>2, <2>3, <2>4 DEF Flags
<1>7. TypeOK'
  BY <1>0, <1>1, <1>3, <1>4, <1>5, <1>6 DEF TypeOK, times, threads
<1>8. /\ pc \notin CleansUp \cup {<<"wait">>} /\ pc' \notin CleansUp \cup {<<"wait">>}
      /\ ~Plays /\ Plays' = (s = "output") /\ pc' # <<"abort">>
  BY <1>1, <1>2, <1>3, <1>6 DEF CleansUp, Plays
<1>9. /\ s = "input" => Begun("input") /\ ~Begun("output") /\ Begun("input")' /\ ~Begun("output")'
      /\ s = "output" => Begun("input") /\ Begun("output") /\ Begun("input")' /\ Begun("output")'
  BY <1>1, <1>2, <1>8 DEF Begun
<1>10. States'
  <2>1. pc # <<"abort">> /\ pc' # <<"reset">> /\ pc' # <<"cleanUp", "output">>
    BY <1>1, <1>2
  <2>2. \A r \in Side : Begun(r)' <=> Begun(r)
    BY <1>9 DEF Side
  <2>3. \A r \in Side : ~Begun(r)' => state[r] = "Stopped"
    BY <1>0, <1>6, <2>1, <2>2 DEF States
  <2> QED
    BY <1>0, <1>3, <1>8, <2>1, <2>2, <2>3 DEF States
<1>11. state[s] \in {"Starting", "Running"}
  BY <1>0, <1>9 DEF States, Side
<1>12. Stopped' /\ Reads'
  BY <1>0, <1>3, <1>4, <1>5, <1>11 DEF Stopped, Reads, threads
<1>13. Buffer'
  BY <1>2 DEF Buffer
<1>14. InTime'
  <2> SUFFICES ASSUME Timely
               PROVE  /\ alive = Device /\ ~mistaken
                      /\ \A d \in Output \ {output} : io[d] = <<"idle">>
                      /\ Clean("output")' /\ (~aborted => Clean("input")')
                      /\ LeftOver' /\ FirstCall'
    BY <1>3 DEF InTime, Timely, threads
  <2>0. /\ alive = Device /\ ~mistaken /\ \A d \in Output \ {output} : io[d] = <<"idle">>
        /\ Clean("output") /\ (~aborted => Clean("input")) /\ LeftOver /\ FirstCall
    BY DEF IInv, InTime
  <2>1. /\ ~Running("output") /\ Running("output")' = (s = "output")
        /\ Running("input")' /\ Running("input") = (s = "output")
    BY <1>1, <1>2, <1>8 DEF Running, Side
  <2>2. Off("output")
    BY <1>6, <2>0, <2>1 DEF Clean
  <2>3. Clean("output")'
    <3>1. CASE s = "output"
      <4>1. On("output")'
        BY <1>3, <1>4, <1>5, <2>2, <3>1 DEF On, Off, Within, threads
      <4> QED
        BY <1>8, <2>1, <3>1, <4>1 DEF Clean
    <3>2. CASE s = "input"
      <4>1. Off("output")'
        BY <1>3, <1>4, <1>5, <2>2, <3>2 DEF Off, threads, Side
      <4> QED
        BY <1>8, <2>1, <3>2, <4>1 DEF Clean
    <3> QED
      BY <3>1, <3>2 DEF Side
  <2>4. ASSUME ~aborted
        PROVE  Clean("input")'
    <3>1. Clean("input")
      BY <2>0, <2>4
    <3>2. CASE s = "output"
      <4>1. On("input")
        BY <2>1, <3>1, <3>2 DEF Clean
      <4>2. On("input")'
        BY <1>3, <1>4, <1>5, <3>2, <4>1 DEF On, threads, Side
      <4> QED
        BY <1>8, <2>1, <4>2 DEF Clean
    <3>3. CASE s = "input"
      <4>1. Off("input")
        BY <1>6, <2>1, <3>1, <3>3 DEF Clean
      <4>2. On("input")'
        BY <1>3, <1>4, <1>5, <3>3, <4>1 DEF On, Off, Within, threads
      <4> QED
        BY <1>8, <2>1, <4>2 DEF Clean
    <3> QED
      BY <3>2, <3>3 DEF Side
  <2>5. LeftOver'
    <3>1. \A at \in {"stopping", "stopped"} : io'[Input] # <<at, "Stopping">>
      BY <1>3, <1>8, <2>0, NoneLeft DEF threads
    <3> QED
      BY <1>2, <3>1 DEF LeftOver
  <2>6. FirstCall'
    BY <1>3, <1>6, <2>0 DEF FirstCall, times, threads
  <2> QED
    BY <2>0, <2>3, <2>4, <2>5, <2>6
<1> QED
  BY <1>1, <1>6, <1>7, <1>10, <1>12, <1>13, <1>14 DEF IInv

LEMMA StartFailsKeeps ==
  ASSUME IInv, NEW s \in Side, StartIOProcFails(s)
  PROVE  IInv'
<1>0. TypeOK /\ Flags /\ States /\ Stopped /\ Reads /\ At(<<"run", s>>)
  BY DEF IInv, StartIOProcFails
<1>1. pc = <<"run", s>> /\ todo' = <<<<"abort">>>>
  BY <1>0 DEF StartIOProcFails, At, pc, First
<1>2. todo' \in Seq(Step) /\ InOrder(todo)' /\ pc' = <<"abort">>
  <2>1. <<"abort">> \in Step /\ <<"end">> \in Follows(<<"abort">>)
    BY FollowsAre DEF Step
  <2> QED
    BY <1>1, <2>1 DEF InOrder, pc, First
<1>3. /\ UNCHANGED <<env, to, output, active, playing, state, times, external, threads, ops>>
      /\ UNCHANGED <<mistaken, refused>> /\ aborted' = TRUE
  BY DEF StartIOProcFails
<1>4. waiter' \in [Waiter -> WaiterStep]
  BY <1>0 DEF StartIOProcFails, ReleaseThreadsWaitingForOutputToStart, SignalAll, TypeOK, WaiterStep
<1>5. TypeOK'
  BY <1>0, <1>2, <1>3, <1>4 DEF TypeOK, times, external, threads
<1>6. active /\ ~playing /\ Flags'
  <2>1. pc \in Starts
    BY <1>1 DEF Starts, Side
  <2>2. active /\ ~playing
    BY <1>0, <2>1 DEF Flags
  <2>3. pc' \notin CleansUp \cup {<<"wait">>} \cup Ended /\ pc' # <<"destroyIDs">>
    BY <1>2 DEF CleansUp, Ended
  <2> QED
    BY <1>3, <2>2, <2>3 DEF Flags
<1>7. /\ pc # <<"abort">> /\ pc # <<"wait">>
      /\ pc' \notin CleansUp \cup {<<"wait">>} /\ ~Plays /\ ~Plays'
  BY <1>1, <1>2, <1>3, <1>6 DEF CleansUp, Plays
<1>8. \A r \in Side : ~Begun(r)'
  BY <1>2, <1>7 DEF Begun
<1>9. States'
  <2>1. \A r \in Side : state[r] # "Stopping"
    BY <1>0, <1>6, <1>7 DEF States
  <2>2. pc' # <<"reset">> /\ pc' # <<"cleanUp", "output">>
    BY <1>2
  <2> QED
    BY <1>2, <1>3, <1>7, <1>8, <2>1, <2>2 DEF States
<1>10. Stopped' /\ Reads' /\ Buffer'
  BY <1>0, <1>2, <1>3 DEF Stopped, Reads, Buffer, DeviceOf, external, threads
<1>11. InTime'
  <2> SUFFICES ASSUME Timely
               PROVE  /\ alive = Device /\ ~mistaken
                      /\ \A d \in Output \ {output} : io[d] = <<"idle">>
                      /\ Clean("output")' /\ LeftOver' /\ FirstCall'
    BY <1>3 DEF InTime, Timely, external, threads
  <2>0. /\ alive = Device /\ ~mistaken /\ \A d \in Output \ {output} : io[d] = <<"idle">>
        /\ Clean("output") /\ LeftOver /\ FirstCall
    BY DEF IInv, InTime
  <2>1. ~Running("output") /\ ~Running("output")'
    BY <1>7 DEF Running
  <2>2. Clean("output")'
    BY <1>3, <1>6, <1>7, <2>0, <2>1 DEF Clean, Off, DeviceOf, external, threads
  <2>3. LeftOver'
    <3>1. \A at \in {"stopping", "stopped"} : io'[Input] # <<at, "Stopping">>
      BY <1>3, <1>7, <2>0, NoneLeft DEF threads
    <3> QED
      BY <1>2, <3>1 DEF LeftOver
  <2>4. FirstCall'
    BY <1>3, <2>0 DEF FirstCall, times, threads
  <2> QED
    BY <2>0, <2>2, <2>3, <2>4
<1> QED
  BY <1>2, <1>5, <1>6, <1>9, <1>10, <1>11 DEF IInv

(* What stopping from outside does to what the HAL has been told.             *)
LEMMA StopsFromOutside ==
  ASSUME TypeOK, NEW D, D \subseteq Device, StopFromOutside(D)
  PROVE  /\ hal' \in [Device -> {"off", "on", "late"}]
         /\ \A d \in Device : /\ hal'[d] = hal[d] \/ (d \in D /\ hal[d] = "on" /\ hal'[d] = "late")
                              /\ d \in D => hal'[d] # "on" \/ d \in refused'
                              /\ hal'[d] = "off" <=> hal[d] = "off"
         /\ refused \subseteq refused' /\ refused' \subseteq Device
         /\ refused' = refused \/ "stop" \in env.failing
<1>1. PICK R \in SUBSET D :
         /\ R = {} \/ "stop" \in env.failing
         /\ hal' = StoppedFromOutside(D \ R)
         /\ refused' = refused \cup {d \in R : hal[d] = "on"}
  BY DEF StopFromOutside
<1>2. /\ hal' \in [Device -> {"off", "on", "late"}]
      /\ \A d \in Device : hal'[d] = IF d \in D \ R /\ hal[d] = "on" THEN "late" ELSE hal[d]
  BY <1>1 DEF TypeOK, StoppedFromOutside
<1> QED
  BY <1>1, <1>2 DEF TypeOK

LEMMA AbortKeeps ==
  ASSUME IInv, AbortStart
  PROVE  IInv'
<1>0. TypeOK /\ Flags /\ Stopped /\ Reads /\ At(<<"abort">>) /\ Throw
  BY DEF IInv, AbortStart
<1>1. pc = <<"abort">> /\ todo' \in Seq(Step) /\ InOrder(todo)' /\ pc' = <<"end">>
  BY <1>0, Throws DEF At, pc, First
<1>2. /\ UNCHANGED <<env, to, output, active, playing, times, alive, lost, threads, waiter, ops>>
      /\ UNCHANGED <<aborted, mistaken>>
      /\ StopFromOutside({Input, output}) /\ state' = [r \in Side |-> "Stopped"]
  BY DEF AbortStart
<1>3. /\ hal' \in [Device -> {"off", "on", "late"}]
      /\ \A d \in {Input, output} : hal'[d] # "on" \/ d \in refused'
      /\ \A d \in Device : hal'[d] = "off" <=> hal[d] = "off"
      /\ refused \subseteq refused' /\ refused' \subseteq Device
      /\ refused' = refused \/ "stop" \in env.failing
  <2>1. {Input, output} \subseteq Device
    BY <1>0 DEF TypeOK, Device
  <2> DEFINE D == {Input, output}
  <2>2. StopFromOutside(D) /\ D \subseteq Device
    BY <1>2, <2>1
  <2> HIDE DEF D
  <2>3. /\ hal' \in [Device -> {"off", "on", "late"}]
        /\ \A d \in Device : /\ d \in D => hal'[d] # "on" \/ d \in refused'
                             /\ hal'[d] = "off" <=> hal[d] = "off"
        /\ refused \subseteq refused' /\ refused' \subseteq Device
        /\ refused' = refused \/ "stop" \in env.failing
    BY <1>0, <2>2, StopsFromOutside
  <2> QED
    BY <2>1, <2>3 DEF D
<1>4. TypeOK'
  BY <1>0, <1>1, <1>2, <1>3 DEF TypeOK, IOState, times, threads
<1>5. active /\ ~playing /\ aborted
  BY <1>0, <1>1 DEF Flags
<1>6. /\ pc' \notin CleansUp \cup {<<"wait">>} \cup Ended \cup Starts
      /\ pc' # <<"abort">> /\ pc' # <<"destroyIDs">>
      /\ pc # <<"wait">> /\ pc \notin CleansUp
  BY <1>1 DEF CleansUp, Ended, Starts
<1>7. ~Plays /\ ~Plays' /\ \A r \in Side : ~Begun(r)'
  BY <1>1, <1>2, <1>5 DEF Plays, Begun
<1>8. Flags'
  BY <1>2, <1>6 DEF Flags
<1>9. States' /\ Buffer'
  BY <1>1, <1>2, <1>6, <1>7 DEF States, Buffer
<1>10. Stopped' /\ Reads'
  <2>1. \A r \in Side : DeviceOf(r)' \in {Input, output}
    BY <1>2 DEF DeviceOf
  <2> QED
    BY <1>0, <1>2, <1>3, <2>1 DEF Stopped, Reads, threads
<1>11. InTime'
  <2> SUFFICES ASSUME Timely
               PROVE  /\ alive = Device /\ ~mistaken
                      /\ \A d \in Output \ {output} : io[d] = <<"idle">>
                      /\ Clean("output")' /\ LeftOver' /\ FirstCall'
    BY <1>2, <1>5 DEF InTime, Timely, threads
  <2>0. /\ alive = Device /\ ~mistaken /\ \A d \in Output \ {output} : io[d] = <<"idle">>
        /\ Clean("output") /\ LeftOver /\ FirstCall
    BY DEF IInv, InTime
  <2>1. ~Running("output") /\ ~Running("output")'
    BY <1>7 DEF Running
  <2>2. Clean("output")'
    <3>1. Off("output")
      BY <1>5, <2>0, <2>1 DEF Clean
    <3>2. DeviceOf("output") = output /\ DeviceOf("output")' = output /\ output \in Device
      BY <1>0, <1>2 DEF DeviceOf, TypeOK, Device
    <3>3. Off("output")'
      BY <1>2, <1>3, <3>1, <3>2 DEF Off, threads
    <3> QED
      BY <1>6, <2>1, <3>3 DEF Clean
  <2>3. LeftOver'
    <3>1. \A at \in {"stopping", "stopped"} : io'[Input] # <<at, "Stopping">>
      BY <1>2, <1>6, <2>0, NoneLeft DEF threads
    <3> QED
      BY <1>1, <3>1 DEF LeftOver
  <2>4. FirstCall'
    BY <1>2, <2>0 DEF FirstCall, Side, times, threads
  <2> QED
    BY <2>0, <2>2, <2>3, <2>4
<1> QED
  BY <1>1, <1>4, <1>8, <1>9, <1>10, <1>11 DEF IInv

-----------------------------------------------------------------------------
(* Stopping.                                                                  *)
LEMMA StopStepKeeps ==
  ASSUME IInv, StopStep, active, playing
  PROVE  IInv'
<1>0. TypeOK /\ InOrder(todo) /\ Flags /\ States /\ Stopped /\ Reads /\ At(<<"stop">>)
  BY DEF IInv, StopStep
<1> DEFINE steps == <<<<"wait">>, <<"cleanUp", "input">>, <<"cleanUp", "output">>, <<"reset">>>>
<1>1. /\ Does(steps)
      /\ state' = [r \in Side |-> IF DeviceOf(r) \in alive THEN "Stopping" ELSE "Stopped"]
      /\ UNCHANGED <<env, to, output, active, playing, times, external, threads, ops, ghosts>>
  BY DEF StopStep
<1>2. pc = <<"stop">> /\ todo' \in Seq(Step) /\ InOrder(todo)' /\ pc' = <<"wait">>
  <2>1. /\ steps \in Seq(Step) /\ steps # <<>> /\ steps[1] = <<"wait">>
        /\ Len(steps) = 4 /\ steps[Len(steps)] = <<"reset">>
    BY DEF Step, Side
  <2>2. \A i \in 1..(Len(steps) - 1) : steps[i + 1] \in Follows(steps[i])
    BY FollowsAre
  <2>3. Follows(<<"stop">>) \subseteq Follows(steps[Len(steps)])
    BY <2>1, FollowsAre
  <2> HIDE DEF steps
  <2>4. pc = <<"stop">> /\ todo' \in Seq(Step) /\ InOrder(todo)' /\ pc' = steps[1]
    BY <1>0, <1>1, <2>1, <2>2, <2>3, Replaced
  <2> QED
    BY <2>1, <2>4
<1>3. waiter' \in [Waiter -> WaiterStep]
  BY <1>0 DEF StopStep, ReleaseThreadsWaitingForOutputToStart, SignalAll, TypeOK, WaiterStep
<1>4. /\ state' \in [Side -> IOState]
      /\ \A r \in Side : IF DeviceOf(r) \in alive THEN state'[r] = "Stopping" ELSE state'[r] = "Stopped"
  BY <1>1 DEF IOState
<1>5. TypeOK'
  BY <1>0, <1>1, <1>2, <1>3, <1>4 DEF TypeOK, times, external, threads, ghosts
<1>6. /\ pc' \notin CleansUp \cup Ended \cup Starts
      /\ pc' # <<"abort">> /\ pc' # <<"destroyIDs">>
      /\ pc # <<"wait">> /\ pc \notin CleansUp
  BY <1>2 DEF CleansUp, Ended, Starts
<1>7. Flags'
  BY <1>1, <1>6 DEF Flags
<1>8. Plays /\ ~Plays' /\ \A r \in Side : ~Begun(r)'
  BY <1>1, <1>2, <1>6 DEF Plays, Begun
<1>9. States' /\ Buffer'
  <2>1. pc' # <<"reset">> /\ pc' # <<"cleanUp", "output">> /\ pc' \notin {<<"allocate">>, <<"gone">>}
    BY <1>2
  <2> QED
    BY <1>1, <1>4, <1>6, <1>8, <2>1 DEF States, Buffer
<1>10. Stopped' /\ Reads'
  <2>1. \A r \in Side : DeviceOf(r)' = DeviceOf(r) /\ DeviceOf(r) \in Device
    BY <1>0, <1>1, SidesAreSides DEF DeviceOf, TypeOK
  <2> QED
    BY <1>0, <1>1, <1>4, <2>1 DEF Stopped, Reads, external, threads, ghosts
<1>11. InTime'
  <2> SUFFICES ASSUME Timely
               PROVE  /\ alive = Device /\ ~mistaken
                      /\ \A d \in Output \ {output} : io[d] = <<"idle">>
                      /\ Clean("output")' /\ (~aborted => Clean("input")')
                      /\ LeftOver' /\ FirstCall'
    BY <1>1 DEF InTime, Timely, external, threads, ghosts
  <2>0. /\ alive = Device /\ ~mistaken /\ \A d \in Output \ {output} : io[d] = <<"idle">>
        /\ Clean("output") /\ (~aborted => Clean("input")) /\ LeftOver /\ FirstCall
    BY DEF IInv, InTime
  <2>1. ASSUME NEW s \in Side, Clean(s)
        PROVE  Clean(s)'
    <3>1. On(s)
      BY <1>8, <2>1 DEF Clean, Running
    <3>2. DeviceOf(s) \in alive
      BY <1>0, <2>0, SidesAreSides DEF TypeOK
    <3>3. Handshake(s)'
      BY <1>1, <1>4, <3>1, <3>2 DEF On, Handshake, DeviceOf, external, threads
    <3>4. ~Running(s)' /\ playing'
      BY <1>1, <1>2, <1>8 DEF Running
    <3> QED
      BY <1>6, <3>3, <3>4 DEF Clean
  <2>2. LeftOver'
    <3>1. \A at \in {"stopping", "stopped"} : io'[Input] # <<at, "Stopping">>
      BY <1>1, <1>6, <2>0, NoneLeft DEF threads
    <3> QED
      BY <1>2, <3>1 DEF LeftOver
  <2>3. FirstCall'
    <3>1. state'["output"] # "Starting"
      BY <1>4 DEF Side
    <3> QED
      BY <1>1, <2>0, <3>1 DEF FirstCall, times, threads
  <2> QED
    BY <2>0, <2>1, <2>2, <2>3 DEF Side
<1> QED
  BY <1>2, <1>5, <1>7, <1>9, <1>10, <1>11 DEF IInv

LEMMA WaitEndsKeeps ==
  ASSUME IInv, WaitedForIOProcs \/ WaitTimesOut
  PROVE  IInv'
<1>0. TypeOK /\ InOrder(todo) /\ Flags /\ States /\ Stopped /\ Reads /\ At(<<"wait">>) /\ Does(<<>>)
  BY DEF IInv, WaitedForIOProcs, WaitTimesOut
<1>1. /\ UNCHANGED <<env, to, output, active, playing, state, times, external, threads, waiter, ops>>
      /\ UNCHANGED ghosts
  BY DEF WaitedForIOProcs, WaitTimesOut
<1>2. /\ pc = <<"wait">> /\ todo' \in Seq(Step) /\ InOrder(todo)'
      /\ pc' = <<"cleanUp", "input">>
  <2>1. pc' \in {<<"cleanUp", "input">>}
    BY <1>0, Advances, FollowsAre
  <2> QED
    BY <1>0, <2>1, Advances
<1>3. TypeOK'
  BY <1>0, <1>1, <1>2 DEF TypeOK, times, external, threads, ghosts
<1>4. /\ pc' \in CleansUp /\ pc' \notin Ended \cup Starts
      /\ pc' # <<"abort">> /\ pc' # <<"destroyIDs">> /\ pc' # <<"wait">>
      /\ pc' # <<"cleanUp", "output">> /\ pc' # <<"reset">>
  BY <1>2 DEF CleansUp, Ended, Starts
<1>5. playing
  BY <1>0, <1>2 DEF Flags
<1>6. Flags'
  BY <1>1, <1>4, <1>5 DEF Flags
<1>7. ~Plays' /\ \A r \in Side : ~Begun(r)'
  BY <1>1, <1>2, <1>4 DEF Plays, Begun
<1>8. States' /\ Buffer'
  <2>1. \A r \in Side : state[r] \in {"Stopping", "Stopped"}
    BY <1>0, <1>2 DEF States
  <2>2. pc' \notin {<<"allocate">>, <<"gone">>}
    BY <1>2
  <2> QED
    BY <1>1, <1>4, <1>5, <1>7, <2>1, <2>2 DEF States, Buffer
<1>9. Stopped' /\ Reads'
  BY <1>0, <1>1 DEF Stopped, Reads, DeviceOf, external, threads, ghosts
<1>10. InTime'
  <2> SUFFICES ASSUME Timely
               PROVE  /\ alive = Device /\ ~mistaken
                      /\ \A d \in Output \ {output} : io[d] = <<"idle">>
                      /\ Clean("output")' /\ (~aborted => Clean("input")')
                      /\ LeftOver' /\ FirstCall'
    BY <1>1 DEF InTime, Timely, external, threads, ghosts
  <2>0. /\ alive = Device /\ ~mistaken /\ \A d \in Output \ {output} : io[d] = <<"idle">>
        /\ Clean("output") /\ (~aborted => Clean("input")) /\ LeftOver /\ FirstCall
    BY DEF IInv, InTime
  <2>1. \A r \in Side : state[r] = "Stopping" => hal[DeviceOf(r)] = "off" /\ io[DeviceOf(r)] = <<"idle">>
    <3>1. CASE WaitedForIOProcs
      BY <3>1 DEF WaitedForIOProcs
    <3>2. CASE WaitTimesOut
      <4>1. DevicesAlive /\ "stop" \notin env.failing /\ env.late = {}
        BY <1>0, <2>0 DEF Timely, DevicesAlive, TypeOK, Device
      <4>2. \A r \in Side : lost[DeviceOf(r)] = "off"
        BY <1>0, SidesAreSides DEF Timely, TypeOK, Stopped
      <4> QED
        BY <3>2, <4>1, <4>2 DEF WaitTimesOut
    <3> QED
      BY <3>1, <3>2
  <2>2. ASSUME NEW s \in Side, Clean(s)
        PROVE  Clean(s)'
    <3>1. Handshake(s)
      BY <1>2, <2>2 DEF Clean
    <3>2. state[s] = "Stopped" /\ Off(s)
      BY <2>1, <3>1 DEF Handshake
    <3>3. state'[s] = "Stopped" /\ Off(s)'
      BY <1>1, <3>2 DEF Off, DeviceOf, external, threads
    <3>4. ~Running(s)'
      BY <1>2, <1>7 DEF Running
    <3> QED
      BY <1>4, <3>3, <3>4 DEF Clean
  <2>3. LeftOver'
    <3>1. state["input"] = "Stopping" => hal[Input] = "off" /\ io[Input] = <<"idle">>
      BY <2>1 DEF Side, DeviceOf
    <3>2. \A at \in {"stopping", "stopped"} : io'[Input] # <<at, "Stopping">>
      BY <1>1, <2>0, <3>1 DEF LeftOver, threads
    <3> QED
      BY <1>1, <3>1, <3>2 DEF LeftOver, external
  <2>4. FirstCall'
    BY <1>1, <2>0 DEF FirstCall, times, threads
  <2> QED
    BY <2>0, <2>2, <2>3, <2>4 DEF Side
<1> QED
  BY <1>2, <1>3, <1>6, <1>8, <1>9, <1>10 DEF IInv

LEMMA CleanUpKeeps ==
  ASSUME IInv, NEW s \in Side, CleanUp(s)
  PROVE  IInv'
<1>0. TypeOK /\ InOrder(todo) /\ Flags /\ States /\ Stopped /\ Reads
      /\ At(<<"cleanUp", s>>) /\ Does(<<>>)
  BY DEF IInv, CleanUp
<1>1. /\ UNCHANGED <<env, to, output, active, playing, times, alive, lost, threads, waiter, ops>>
      /\ UNCHANGED <<aborted, mistaken>>
      /\ IF state[s] = "Stopping"
         THEN StopFromOutside({DeviceOf(s)}) /\ state' = [state EXCEPT ![s] = "Stopped"]
         ELSE UNCHANGED <<hal, state, refused>>
  BY DEF CleanUp
<1>2. /\ pc = <<"cleanUp", s>> /\ todo' \in Seq(Step) /\ InOrder(todo)'
      /\ pc' = IF s = "input" THEN <<"cleanUp", "output">> ELSE <<"reset">>
  <2>1. Follows(<<"cleanUp", s>>) = {IF s = "input" THEN <<"cleanUp", "output">> ELSE <<"reset">>}
    BY FollowsAre DEF Side
  <2> QED
    BY <1>0, <2>1, Advances
<1>3. /\ pc \in CleansUp /\ pc' \in CleansUp /\ pc' \notin Ended \cup Starts
      /\ pc' # <<"abort">> /\ pc' # <<"destroyIDs">> /\ pc' # <<"wait">> /\ pc # <<"wait">>
      /\ pc' # <<"cleanUp", "input">>
  BY <1>2 DEF CleansUp, Ended, Starts, Side
<1>4. playing
  BY <1>0, <1>3 DEF Flags
<1>5. state[s] \in {"Stopping", "Stopped"}
  BY <1>0, <1>3 DEF States
<1>6. /\ state' \in [Side -> IOState] /\ state'[s] = "Stopped"
      /\ \A r \in Side \ {s} : state'[r] = state[r]
  BY <1>0, <1>1, <1>5 DEF TypeOK, IOState
<1>7. /\ \A r \in Side : DeviceOf(r)' = DeviceOf(r) /\ DeviceOf(r) \in Device
      /\ \A r \in Side \ {s} : DeviceOf(r) # DeviceOf(s)
  BY <1>0, <1>1, SidesAreSides DEF TypeOK, DeviceOf, Side
<1>8. /\ hal' \in [Device -> {"off", "on", "late"}]
      /\ \A d \in Device : /\ d # DeviceOf(s) => hal'[d] = hal[d]
                           /\ hal'[d] = "on" => hal[d] = "on"
                           /\ hal'[d] = "off" <=> hal[d] = "off"
      /\ state[s] = "Stopping" => hal'[DeviceOf(s)] # "on" \/ DeviceOf(s) \in refused'
      /\ refused \subseteq refused' /\ refused' \subseteq Device
      /\ refused' = refused \/ "stop" \in env.failing
  <2>1. CASE state[s] = "Stopping"
    <3> DEFINE D == {DeviceOf(s)}
    <3>1. StopFromOutside(D) /\ D \subseteq Device
      BY <1>1, <1>7, <2>1
    <3>2. DeviceOf(s) \in D /\ \A d : d # DeviceOf(s) => d \notin D
      OBVIOUS
    <3> HIDE DEF D
    <3>3. /\ hal' \in [Device -> {"off", "on", "late"}]
          /\ \A d \in Device : /\ hal'[d] = hal[d] \/ (d \in D /\ hal[d] = "on" /\ hal'[d] = "late")
                               /\ d \in D => hal'[d] # "on" \/ d \in refused'
                               /\ hal'[d] = "off" <=> hal[d] = "off"
          /\ refused \subseteq refused' /\ refused' \subseteq Device
          /\ refused' = refused \/ "stop" \in env.failing
      BY <1>0, <3>1, StopsFromOutside
    <3> QED
      BY <1>7, <3>2, <3>3
  <2>2. CASE state[s] # "Stopping"
    BY <1>0, <1>1, <2>2 DEF TypeOK
  <2> QED
    BY <2>1, <2>2
<1>9. TypeOK'
  BY <1>0, <1>1, <1>2, <1>6, <1>8 DEF TypeOK, times, threads
<1>10. Flags'
  BY <1>1, <1>3, <1>4 DEF Flags
<1>11. ~Plays' /\ \A r \in Side : ~Begun(r)' /\ ~Running(r)'
  BY <1>1, <1>3 DEF Plays, Begun, Running, Starts
<1>12. States' /\ Buffer'
  <2>1. \A r \in Side : state'[r] \in {"Stopping", "Stopped"}
    BY <1>0, <1>3, <1>6 DEF States
  <2>2. pc' \notin {<<"allocate">>, <<"gone">>}
    BY <1>2
  <2>3. s = "output" => state["input"] = "Stopped"
    BY <1>0, <1>2 DEF States, Side
  <2>4. /\ pc' = <<"reset">> => s = "output"
        /\ pc' = <<"cleanUp", "output">> => s = "input"
    BY <1>2 DEF Side
  <2>5. \A r \in Side : pc' = <<"reset">> \/ (r = "input" /\ pc' = <<"cleanUp", "output">>) =>
                        state'[r] = "Stopped"
    BY <1>6, <2>3, <2>4 DEF Side
  <2> QED
    BY <1>1, <1>3, <1>4, <1>11, <2>1, <2>2, <2>5 DEF States, Buffer
<1>13. Stopped' /\ Reads'
  <2>1. ASSUME NEW r \in Side, state'[r] = "Stopped", ~mistaken
        PROVE  hal'[DeviceOf(r)] # "on" \/ DeviceOf(r) \in refused'
    <3>1. state[r] = "Stopped" \/ (r = s /\ state[s] = "Stopping")
      BY <1>5, <1>6, <2>1
    <3> QED
      BY <1>0, <1>7, <1>8, <2>1, <3>1 DEF Stopped
  <2> QED
    BY <1>0, <1>1, <1>7, <1>8, <2>1 DEF Stopped, Reads, threads
<1>14. InTime'
  <2> SUFFICES ASSUME Timely
               PROVE  /\ alive = Device /\ ~mistaken
                      /\ \A d \in Output \ {output} : io[d] = <<"idle">>
                      /\ Clean("output")' /\ (~aborted => Clean("input")')
                      /\ LeftOver' /\ FirstCall'
    BY <1>1 DEF InTime, Timely, threads
  <2>0. /\ alive = Device /\ ~mistaken /\ \A d \in Output \ {output} : io[d] = <<"idle">>
        /\ Clean("output") /\ (~aborted => Clean("input")) /\ LeftOver /\ FirstCall
    BY DEF IInv, InTime
  <2>1. ASSUME NEW r \in Side, Clean(r)
        PROVE  Clean(r)'
    <3>1. state[r] = "Stopped" /\ Off(r)
      BY <1>3, <2>1 DEF Clean
    <3>2. state'[r] = "Stopped" /\ Off(r)'
      BY <1>1, <1>6, <1>7, <1>8, <3>1 DEF Off, threads
    <3> QED
      BY <1>3, <1>11, <3>2 DEF Clean
  <2>2. LeftOver'
    <3>1. \A at \in {"stopping", "stopped"} : io'[Input] # <<at, "Stopping">>
      BY <1>1, <1>3, <2>0, NoneLeft DEF threads
    <3> QED
      BY <1>3, <3>1 DEF LeftOver
  <2>3. FirstCall'
    <3>1. state'["output"] = "Starting" => state["output"] = "Starting"
      BY <1>6 DEF Side
    <3> QED
      BY <1>1, <2>0, <3>1 DEF FirstCall, times, threads
  <2> QED
    BY <2>0, <2>1, <2>2, <2>3 DEF Side
<1> QED
  BY <1>2, <1>9, <1>10, <1>12, <1>13, <1>14 DEF IInv

LEMMA ResetKeeps ==
  ASSUME IInv, ResetStep
  PROVE  IInv'
<1>0. TypeOK /\ InOrder(todo) /\ States /\ Stopped /\ Reads /\ At(<<"reset">>) /\ Does(<<>>)
  BY DEF IInv, ResetStep
<1>1. /\ UNCHANGED <<env, to, output, active, state, external, threads, waiter, ops, ghosts>>
      /\ playing' = FALSE /\ inputTime' = FALSE /\ outputTime' = FALSE
  BY DEF ResetStep
<1>2. /\ pc = <<"reset">> /\ todo' \in Seq(Step) /\ InOrder(todo)'
      /\ pc' \in {<<"end">>, <<"destroyIDs">>}
  BY <1>0, Advances, FollowsAre
<1>3. TypeOK'
  BY <1>0, <1>1, <1>2 DEF TypeOK, external, threads, ghosts
<1>4. /\ pc \in CleansUp /\ pc' \notin CleansUp \cup Ended \cup Starts
      /\ pc' # <<"abort">> /\ pc' # <<"wait">> /\ pc # <<"wait">>
      /\ pc' # <<"cleanUp", "output">> /\ pc' # <<"reset">>
      /\ pc' \notin {<<"allocate">>, <<"gone">>}
  BY <1>2 DEF CleansUp, Ended, Starts
<1>5. Flags'
  BY <1>1, <1>4 DEF Flags
<1>6. ~Plays' /\ \A r \in Side : ~Begun(r)' /\ ~Running(r)'
  BY <1>1, <1>4 DEF Plays, Begun, Running, Starts
<1>7. States' /\ Buffer'
  BY <1>0, <1>1, <1>2, <1>4, <1>6 DEF States, Buffer
<1>8. Stopped' /\ Reads'
  BY <1>0, <1>1 DEF Stopped, Reads, DeviceOf, external, threads, ghosts
<1>9. InTime'
  <2> SUFFICES ASSUME Timely
               PROVE  /\ alive = Device /\ ~mistaken
                      /\ \A d \in Output \ {output} : io[d] = <<"idle">>
                      /\ Clean("output")' /\ (~aborted => Clean("input")')
                      /\ LeftOver' /\ FirstCall'
    BY <1>1 DEF InTime, Timely, external, threads, ghosts
  <2>0. /\ alive = Device /\ ~mistaken /\ \A d \in Output \ {output} : io[d] = <<"idle">>
        /\ Clean("output") /\ (~aborted => Clean("input")) /\ LeftOver /\ FirstCall
    BY DEF IInv, InTime
  <2>1. ASSUME NEW r \in Side, Clean(r)
        PROVE  Clean(r)'
    BY <1>1, <1>4, <1>6, <2>1 DEF Clean, Off, DeviceOf, external, threads
  <2>2. LeftOver'
    <3>1. \A at \in {"stopping", "stopped"} : io'[Input] # <<at, "Stopping">>
      BY <1>1, <1>4, <2>0, NoneLeft DEF threads
    <3> QED
      BY <1>2, <3>1 DEF LeftOver
  <2>3. FirstCall'
    <3>1. state["output"] # "Starting"
      BY <1>0, <1>2 DEF States, Side
    <3> QED
      BY <1>1, <3>1 DEF FirstCall
  <2> QED
    BY <2>0, <2>1, <2>2, <2>3 DEF Side
<1> QED
  BY <1>2, <1>3, <1>5, <1>7, <1>8, <1>9 DEF IInv

LEMMA DestroyIDsKeeps ==
  ASSUME IInv, DestroyIOProcIDs
  PROVE  IInv'
<1>0. TypeOK /\ InOrder(todo) /\ Flags /\ States /\ Stopped /\ Reads
      /\ At(<<"destroyIDs">>) /\ Does(<<>>)
  BY DEF IInv, DestroyIOProcIDs
<1>1. /\ UNCHANGED <<env, to, output, playing, state, times, alive, io, waiter, ops, ghosts>>
      /\ active' = FALSE /\ hal' = [d \in Device |-> "off"] /\ stale' \subseteq Device
      /\ lost' \in [Device -> {"off", "on", "late"}]
      /\ \A d \in Device : lost'[d] # lost[d] => "destroy" \in env.failing /\ lost'[d] = hal[d]
  <2>1. PICK kept \in {{}, {output}, {Input, output}} :
           /\ UNCHANGED <<env, to, output, playing, state, times, alive, io, waiter, ops, ghosts>>
           /\ active' = FALSE /\ hal' = [d \in Device |-> "off"]
           /\ kept = {} \/ "destroy" \in env.failing
           /\ stale' = {d \in Device : io[d] # <<"idle">>}
           /\ lost' = [d \in Device |-> IF d \in kept /\ hal[d] # "off" /\ lost[d] # "on"
                                        THEN hal[d] ELSE lost[d]]
    BY DEF DestroyIOProcIDs
  <2> QED
    BY <1>0, <2>1 DEF TypeOK
<1>2. /\ pc = <<"destroyIDs">> /\ todo' \in Seq(Step) /\ InOrder(todo)'
      /\ pc' \in {<<"end">>, <<"init">>, <<"deallocate">>}
  BY <1>0, Advances, FollowsAre
<1>3. ~playing
  BY <1>0, <1>2 DEF Flags
<1>4. TypeOK'
  BY <1>0, <1>1, <1>2, <1>3 DEF TypeOK, times, ghosts
<1>5. /\ pc \notin CleansUp \cup {<<"wait">>} /\ pc' \notin CleansUp \cup {<<"wait">>} \cup Starts
      /\ pc # <<"abort">> /\ pc' # <<"abort">>
      /\ pc' \notin {<<"allocate">>, <<"gone">>} /\ pc \notin Starts
  BY <1>2 DEF CleansUp, Starts
<1>6. Flags'
  BY <1>1, <1>3, <1>5 DEF Flags
<1>7. /\ ~Plays /\ ~Plays'
      /\ \A r \in Side : ~Begun(r) /\ ~Begun(r)' /\ ~Running(r) /\ ~Running(r)'
  BY <1>1, <1>3, <1>5 DEF Plays, Begun, Running, Starts
<1>8. \A r \in Side : state[r] = "Stopped"
  BY <1>0, <1>3, <1>5, <1>7 DEF States
<1>9. States' /\ Buffer'
  BY <1>1, <1>5, <1>7, <1>8 DEF States, Buffer
<1>10. Stopped' /\ Reads'
  <2>1. \A r \in Side : DeviceOf(r)' \in Device
    BY <1>0, <1>1, SidesAreSides DEF DeviceOf, TypeOK
  <2>2. UNCHANGED <<env, state, alive, io, aborted, mistaken, refused>>
    BY <1>1 DEF ghosts
  <2>3. ASSUME NEW d \in Device, hal[d] = "on", ~mistaken
        PROVE  d \in refused
    <3>1. PICK r \in Side : d = DeviceOf(r)
      BY <1>0, <2>3 DEF TypeOK, DeviceOf, Side
    <3> QED
      BY <1>0, <1>8, <2>3, <3>1 DEF Stopped
  <2>4. \A d \in Device : /\ lost'[d] = "on" /\ ~mistaken => d \in refused
                          /\ lost'[d] # "off" => "destroy" \in env.failing
    BY <1>0, <1>1, <2>3 DEF Stopped
  <2> QED
    BY <1>0, <1>1, <2>1, <2>2, <2>4 DEF Stopped, Reads
<1>11. InTime'
  <2> SUFFICES ASSUME Timely
               PROVE  /\ alive = Device /\ ~mistaken
                      /\ \A d \in Output \ {output} : io[d] = <<"idle">>
                      /\ Clean("output")' /\ (~aborted => Clean("input")')
                      /\ LeftOver' /\ FirstCall'
    BY <1>1 DEF InTime, Timely, ghosts
  <2>0. /\ alive = Device /\ ~mistaken /\ \A d \in Output \ {output} : io[d] = <<"idle">>
        /\ Clean("output") /\ (~aborted => Clean("input")) /\ LeftOver /\ FirstCall
    BY DEF IInv, InTime
  <2>1. ASSUME NEW r \in Side, Clean(r)
        PROVE  Clean(r)'
    <3>1. Off(r) /\ DeviceOf(r)' = DeviceOf(r) /\ DeviceOf(r) \in Device
      BY <1>0, <1>1, <1>3, <1>7, <2>1, SidesAreSides DEF Clean, DeviceOf, TypeOK
    <3>2. Off(r)'
      BY <1>1, <3>1 DEF Off
    <3> QED
      BY <1>5, <1>7, <3>2 DEF Clean
  <2>2. LeftOver'
    <3>1. \A at \in {"stopping", "stopped"} : io'[Input] # <<at, "Stopping">>
      BY <1>1, <1>5, <2>0, NoneLeft
    <3> QED
      BY <1>2, <3>1 DEF LeftOver
  <2>3. FirstCall'
    BY <1>1, <2>0 DEF FirstCall, times
  <2> QED
    BY <2>0, <2>1, <2>2, <2>3 DEF Side
<1> QED
  BY <1>2, <1>4, <1>6, <1>9, <1>10, <1>11 DEF IInv

(* The output device changes when nothing is active, and before the buffer is *)
(* replaced the IOProcs are kept out of it.                                   *)
LEMMA InitStepKeeps ==
  ASSUME IInv, InitStep
  PROVE  IInv'
<1>0. TypeOK /\ InOrder(todo) /\ Flags /\ States /\ Stopped /\ Reads /\ At(<<"init">>)
  BY DEF IInv, InitStep
<1>1. /\ UNCHANGED <<env, to, active, playing, state, times, external, threads, waiter, ops, ghosts>>
      /\ output' = to
      /\ Throw \/ (~Copying /\ Does(<<>>))
  BY DEF InitStep
<1>2. /\ pc = <<"init">> /\ todo' \in Seq(Step) /\ InOrder(todo)'
      /\ pc' \in {<<"end">>, <<"allocate">>}
      /\ pc' = <<"allocate">> => ~Copying
  <2>1. pc = <<"init">>
    BY <1>0 DEF At, pc, First
  <2>2. CASE Throw
    <3>1. todo' \in Seq(Step) /\ InOrder(todo)' /\ pc' = <<"end">>
      BY <2>2, Throws
    <3> QED
      BY <2>1, <3>1
  <2>3. CASE ~Copying /\ Does(<<>>)
    BY <1>0, <2>3, Advances, FollowsAre
  <2> QED
    BY <1>1, <2>2, <2>3
<1>3. ~active /\ ~playing /\ \A d \in Device : hal[d] = "off"
  <2>1. ~active
    BY <1>0, <1>2 DEF Flags, Ended
  <2> QED
    BY <1>0, <2>1 DEF TypeOK
<1>4. TypeOK'
  BY <1>0, <1>1, <1>2, <1>3 DEF TypeOK, times, external, threads, ghosts
<1>5. /\ pc \notin CleansUp \cup {<<"wait">>} /\ pc' \notin CleansUp \cup {<<"wait">>} \cup Starts
      /\ pc # <<"abort">> /\ pc' # <<"abort">> /\ pc' # <<"destroyIDs">>
      /\ pc' # <<"gone">> /\ pc \notin Starts
  BY <1>2 DEF CleansUp, Starts
<1>6. Flags'
  BY <1>1, <1>3, <1>5 DEF Flags
<1>7. /\ ~Plays /\ ~Plays'
      /\ \A r \in Side : ~Begun(r) /\ ~Begun(r)' /\ ~Running(r) /\ ~Running(r)'
  BY <1>1, <1>3, <1>5 DEF Plays, Begun, Running, Starts
<1>8. \A r \in Side : state[r] = "Stopped"
  BY <1>0, <1>3, <1>5, <1>7 DEF States
<1>9. States' /\ Buffer'
  BY <1>1, <1>2, <1>5, <1>7, <1>8 DEF States, Buffer, Copying, threads
<1>10. /\ \A r \in Side : DeviceOf(r) \in Device /\ DeviceOf(r)' \in Device
       /\ DeviceOf("output") = output /\ DeviceOf("output")' = to
       /\ DeviceOf("input") = Input /\ DeviceOf("input")' = Input
       /\ to \in Output
  BY <1>0, <1>1, SidesAreSides DEF DeviceOf, TypeOK, Device
<1>11. Stopped' /\ Reads'
  BY <1>0, <1>1, <1>3, <1>10 DEF Stopped, Reads, external, threads, ghosts
<1>12. InTime'
  <2> SUFFICES ASSUME Timely
               PROVE  /\ alive = Device /\ ~mistaken
                      /\ \A d \in Output \ {to} : io[d] = <<"idle">>
                      /\ Clean("output")' /\ (~aborted => Clean("input")')
                      /\ LeftOver' /\ FirstCall'
    BY <1>1 DEF InTime, Timely, external, threads, ghosts
  <2>0. /\ alive = Device /\ ~mistaken /\ \A d \in Output \ {output} : io[d] = <<"idle">>
        /\ Clean("output") /\ (~aborted => Clean("input")) /\ LeftOver /\ FirstCall
    BY DEF IInv, InTime
  <2>1. \A d \in Output : io[d] = <<"idle">>
    <3>1. Off("output")
      BY <1>3, <1>7, <2>0 DEF Clean, Side
    <3> QED
      BY <1>10, <2>0, <3>1 DEF Off
  <2>2. Clean("output")'
    <3>1. Off("output")'
      BY <1>1, <1>3, <1>10, <2>1 DEF Off, Device, external, threads
    <3> QED
      BY <1>5, <1>7, <3>1 DEF Clean, Side
  <2>3. ASSUME ~aborted
        PROVE  Clean("input")'
    <3>1. Off("input")
      BY <1>3, <1>7, <2>0, <2>3 DEF Clean, Side
    <3>2. Off("input")'
      BY <1>1, <1>10, <3>1 DEF Off, external, threads
    <3> QED
      BY <1>5, <1>7, <3>2 DEF Clean, Side
  <2>4. LeftOver'
    <3>1. \A at \in {"stopping", "stopped"} : io'[Input] # <<at, "Stopping">>
      BY <1>1, <1>5, <2>0, NoneLeft DEF threads
    <3> QED
      BY <1>2, <3>1 DEF LeftOver
  <2>5. FirstCall'
    <3>1. state'["output"] # "Starting" /\ io'[to] = <<"idle">>
      BY <1>1, <1>8, <1>10, <2>1 DEF Side, threads
    <3> QED
      BY <1>1, <2>0, <3>1 DEF FirstCall, times
  <2> QED
    BY <2>0, <2>1, <2>2, <2>3, <2>4, <2>5
<1> QED
  BY <1>2, <1>4, <1>6, <1>9, <1>11, <1>12 DEF IInv

-----------------------------------------------------------------------------
LEMMA InitHolds == Init => IInv
<1> SUFFICES ASSUME Init PROVE IInv
  OBVIOUS
<1>1. pc = <<"end">> /\ InOrder(todo) /\ todo \in Seq(Step)
  BY DEF Init, pc, First, InOrder
<1>2. TypeOK
  <2>1. env.maxOps \in Nat
    BY DeviceAssumption DEF Init
  <2>2. /\ state \in [Side -> IOState] /\ hal \in [Device -> {"off", "on", "late"}]
        /\ io \in [Device -> IOStep] /\ waiter \in [Waiter -> WaiterStep]
    BY DEF Init, IOState, IOStep, WaiterStep
  <2>3. /\ env \in Environment /\ to \in Output /\ output \in Output
        /\ active = FALSE /\ playing = FALSE /\ inputTime = FALSE /\ outputTime = FALSE
        /\ alive = Device /\ stale = {} /\ ops = 0 /\ aborted = FALSE /\ mistaken = FALSE
        /\ refused = {} /\ lost = hal
        /\ \A d \in Device : hal[d] = "off"
    BY DEF Init
  <2>4. ops \in 0..env.maxOps
    BY <2>1, <2>3
  <2> QED
    BY <1>1, <2>2, <2>3, <2>4 DEF TypeOK
<1>3. /\ pc \notin CleansUp \cup {<<"wait">>} \cup Starts \cup Ended
      /\ pc # <<"abort">> /\ pc # <<"destroyIDs">> /\ pc \notin {<<"allocate">>, <<"gone">>}
  BY <1>1 DEF CleansUp, Starts, Ended
<1>4. Flags /\ Buffer
  BY <1>3 DEF Flags, Buffer
<1>5. ~Plays /\ \A r \in Side : ~Begun(r) /\ ~Running(r)
  BY <1>3 DEF Init, Plays, Begun, Running, Starts
<1>6. \A r \in Side : DeviceOf(r) \in Device /\ state[r] = "Stopped" /\ Off(r)
  BY <1>2, SidesAreSides DEF Init, Off, TypeOK
<1>7. States
  BY <1>3, <1>5, <1>6 DEF States
<1>8. Stopped /\ Reads
  <2>1. \A d \in Device : io[d] = <<"idle">>
    BY DEF Init
  <2>2. Reads
    BY <2>1 DEF Reads, Device
  <2> QED
    BY <1>6, <2>2 DEF Init, Stopped
<1>9. InTime
  <2>1. Clean("output") /\ Clean("input")
    BY <1>3, <1>5, <1>6 DEF Clean, Side
  <2>2. LeftOver
    <3>1. io[Input] = <<"idle">> /\ pc # <<"cleanUp", "input">>
      BY <1>1 DEF Init, Device
    <3> QED
      BY <3>1 DEF LeftOver
  <2>3. FirstCall
    <3>1. state["output"] = "Stopped" /\ io[output] = <<"idle">>
      BY <1>2 DEF Init, TypeOK, Side, Device
    <3> QED
      BY <3>1 DEF Init, FirstCall
  <2> QED
    BY <2>1, <2>2, <2>3 DEF Init, InTime, Device
<1> QED
  BY <1>1, <1>2, <1>4, <1>7, <1>8, <1>9 DEF IInv

LEMMA ControlKeeps ==
  ASSUME IInv, Control
  PROVE  IInv'
<1>1. CASE StopStep
  BY <1>1, StopStepKeeps, NothingToStopKeeps
<1>2. CASE ActivateStep \/ StartStep \/ UnlockBuffer \/ DeallocateBuffer
  BY <1>2, ActivateKeeps, StartStepKeeps, BufferStepsKeep
<1>3. CASE AbortStart \/ WaitedForIOProcs \/ WaitTimesOut
  BY <1>3, AbortKeeps, WaitEndsKeeps
<1>4. CASE ResetStep \/ DestroyIOProcIDs \/ InitStep
  BY <1>4, ResetKeeps, DestroyIDsKeeps, InitStepKeeps
<1>5. CASE \E s \in Side : SetStarting(s) \/ RunIOProc(s) \/ StartIOProcFails(s) \/ CleanUp(s)
  BY <1>5, SetStartingKeeps, RunKeeps, StartFailsKeeps, CleanUpKeeps
<1> QED
  BY <1>1, <1>2, <1>3, <1>4, <1>5 DEF Control

LEMMA WaiterStepKeeps ==
  ASSUME IInv, NEW w \in Waiter,
         WaitForOutputDeviceToStart(w) \/ WaiterReturns(w) \/ WaitAgain(w)
  PROVE  IInv'
<1>1. PICK from \in WaiterStep, next \in WaiterStep : WaiterGoes(w, from, next)
  BY DEF WaitForOutputDeviceToStart, WaiterReturns, WaitAgain, ReadState, SemaphoreWait,
         WaitExpires, GiveUp, Signalled, WaiterStep
<1>2. waiter' \in [Waiter -> WaiterStep]
      /\ UNCHANGED <<control, state, times, external, threads, ghosts>>
  BY <1>1 DEF WaiterGoes, IInv, TypeOK
<1> QED
  BY <1>2, WaitersKeep

LEMMA StepKeeps == IInv /\ [Next]_vars => IInv'
<1> SUFFICES ASSUME IInv, [Next]_vars PROVE IInv'
  OBVIOUS
<1>1. CASE Operation \/ Control
  BY <1>1, OperationKeeps, ControlKeeps
<1>2. CASE \E d \in Device : IOThread(d) \/ DeviceDies(d)
  BY <1>2, IOThreadKeeps, DiesKeeps
<1>3. CASE \E w \in Waiter : WaitForOutputDeviceToStart(w) \/ WaiterReturns(w) \/ WaitAgain(w)
  BY <1>3, WaiterStepKeeps
<1>4. CASE UNCHANGED vars
  BY <1>4, WaitersKeep DEF vars, IInv, TypeOK
<1> QED
  BY <1>1, <1>2, <1>3, <1>4 DEF Next

(* The inductive invariant.                                                   *)
THEOREM Invariance == Spec => []IInv
<1>1. Init => IInv
  BY InitHolds
<1>2. IInv /\ [Next]_vars => IInv'
  BY StepKeeps
<1> QED
  BY <1>1, <1>2, PTL DEF Spec

(* Every variable has its type, playthrough plays only when it is active, and *)
(* the HAL only calls IOProcs that have an ID, or had one that was forgotten. *)
THEOREM TypeCorrect == Spec => []TypeOK
<1>1. IInv => TypeOK
  BY DEF IInv
<1> QED
  BY <1>1, Invariance, PTL

(* When playthrough says it is playing, no IOProc call left over from before  *)
(* has stopped it; unless it says so, nothing is left running but what the    *)
(* HAL refused to stop, and what a late call said was stopped.                *)
THEOREM PlaysWhatItSays == Spec => []PlayingIsCalled
<1>1. IInv => PlayingIsCalled
  <2> SUFFICES ASSUME IInv PROVE PlayingIsCalled
    OBVIOUS
  <2>0. TypeOK /\ States /\ Stopped /\ InTime
    BY DEF IInv
  <2>1. ASSUME Idle
        PROVE  pc = <<"end">> /\ pc \notin CleansUp \cup {<<"wait">>} /\ Plays = playing
    <3>1. pc = <<"end">>
      BY <2>1 DEF Idle, pc, First
    <3>2. pc \notin CleansUp \cup {<<"wait">>} /\ playing \in BOOLEAN
      BY <2>0, <3>1 DEF CleansUp, TypeOK
    <3> QED
      BY <3>1, <3>2 DEF Plays
  <2>2. ASSUME Undisturbed, Idle, playing, NEW s \in Side
        PROVE  hal[DeviceOf(s)] = "on" /\ state[s] \in {"Starting", "Running"}
    <3>1. Plays /\ Begun(s) /\ Running(s)
      BY <2>1, <2>2 DEF Begun, Running
    <3>2. Clean(s)
      BY <2>0, <2>2 DEF Undisturbed, InTime, Side
    <3> QED
      BY <2>0, <3>1, <3>2 DEF States, Clean, On
  <2>3. ASSUME Idle, ~playing
        PROVE  \A s \in Side : state[s] = "Stopped"
    <3>1. \A s \in Side : ~Begun(s)
      BY <2>1, <2>3 DEF Begun
    <3>2. pc # <<"abort">>
      BY <2>1, <2>3
    <3> QED
      BY <2>0, <2>3, <3>1, <3>2 DEF States
  <2>4. ASSUME Idle, ~playing, ~mistaken, NEW d \in Device
        PROVE  hal[d] # "on" \/ d \in refused
    <3>1. CASE d \in {Input, output}
      <4>1. PICK s \in Side : d = DeviceOf(s)
        BY <3>1 DEF Side, DeviceOf
      <4> QED
        BY <2>0, <2>3, <2>4, <4>1 DEF Stopped
    <3>2. CASE d \notin {Input, output}
      BY <2>0, <3>2 DEF TypeOK
    <3> QED
      BY <3>1, <3>2
  <2>5. Timely => ~mistaken
    BY <2>0 DEF InTime
  <2>6. ASSUME ~mistaken, NEW d \in Device
        PROVE  lost[d] # "on" \/ d \in refused
    BY <2>0, <2>6 DEF Stopped
  <2> QED
    BY <2>2, <2>3, <2>4, <2>5, <2>6 DEF PlayingIsCalled
<1> QED
  BY <1>1, Invariance, PTL

(* The buffer outlives its users whatever IO threads do; the object outlives  *)
(* them, and the assertions of the IOProcs hold, as far as Stop is told in    *)
(* time.                                                                      *)
THEOREM CallsAreServed == Spec => []CallsFindTheirs
<1>1. IInv => CallsFindTheirs
  <2> SUFFICES ASSUME IInv PROVE CallsFindTheirs
    OBVIOUS
  <2>0. TypeOK /\ States /\ Flags /\ Reads /\ Buffer /\ InTime
    BY DEF IInv
  <2>1. BufferLocked \/ NoBuffer => ~Copying
    BY <2>0 DEF Buffer, BufferLocked, NoBuffer, Gone, At, pc, First
  <2>2. ASSUME Timely, NEW d \in Device, d \notin {Input, output}
        PROVE  io[d] = <<"idle">>
    BY <2>0, <2>2 DEF InTime, Device
  <2>3. ASSUME Undisturbed, Gone, NEW d \in Device
        PROVE  io[d] = <<"idle">>
    <3>1. pc = <<"gone">>
      BY <2>3 DEF Gone, At, pc, First
    <3>2. ~playing
      BY <2>0, <3>1 DEF Flags, Ended, TypeOK
    <3>3. \A s \in Side : ~Running(s)
      BY <3>1, <3>2 DEF Running, Plays
    <3>4. Clean("input") /\ Clean("output")
      BY <2>0, <2>3 DEF Undisturbed, InTime
    <3>5. Off("input") /\ Off("output")
      BY <3>2, <3>3, <3>4 DEF Clean, Side
    <3> QED
      BY <2>2, <2>3, <3>5 DEF Off, DeviceOf, Undisturbed
  <2>4. ASSUME Undisturbed, NEW s \in Side
        PROVE  io[DeviceOf(s)] # <<"stopping", "Stopped">>
    <3>1. Clean(s)
      BY <2>0, <2>4 DEF Undisturbed, InTime, Side
    <3>2. CASE Off(s) \/ On(s)
      BY <3>2 DEF Off, On, Within
    <3>3. CASE ~Off(s) /\ ~On(s)
      <4>1. pc = <<"wait">>
        BY <2>0, <3>1, <3>3 DEF Clean, Running, Plays
      <4> QED
        BY <3>1, <4>1 DEF Clean, Handshake, Off, Within
    <3> QED
      BY <3>2, <3>3
  <2>5. ASSUME NEW d \in Device, Undisturbed
        PROVE  io[d] # <<"stopping", "Stopped">>
    <3>1. CASE d \in {Input, output}
      <4>1. PICK s \in Side : d = DeviceOf(s)
        BY <3>1 DEF Side, DeviceOf
      <4> QED
        BY <2>4, <2>5, <4>1
    <3>2. CASE d \notin {Input, output}
      <4>1. io[d] = <<"idle">>
        BY <2>2, <2>5, <3>2 DEF Undisturbed
      <4> QED
        BY <4>1
    <3> QED
      BY <3>1, <3>2
  <2>6. ASSUME NEW d \in Device, Timely, io[d] = <<"first">>
        PROVE  ~outputTime
    <3>1. d = output
      BY <2>0, <2>2, <2>6 DEF Reads
    <3> QED
      BY <2>0, <2>6, <3>1 DEF InTime, FirstCall
  <2> QED
    BY <2>1, <2>3, <2>5, <2>6 DEF CallsFindTheirs, NoUseAfterFree, AssertionsHold
<1> QED
  BY <1>1, Invariance, PTL
=============================================================================

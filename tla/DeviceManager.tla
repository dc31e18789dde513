---------------------------- MODULE DeviceManager ----------------------------
(* WCAudioDeviceManager: choosing the output device, and starting and         *)
(* stopping playthrough as programs start and stop playing to the virtual     *)
(* devices.  Composed with the driver's WC_Clients and WC_Device::StartIO,    *)
(* which waits for playthrough to start.                                      *)
(*                                                                            *)
(* Whoever has stateLock has steps left in todo.  A WCPlayThrough is here its *)
(* device, whether it is active and whether it plays (module PlayThrough has  *)
(* the rest); Core Audio calls fail at most MaxFailures times.                *)
EXTENDS ClientsIO, Sequences

CONSTANTS
    Device,          \* real output devices
    None,            \* kAudioObjectUnknown
    HelperWorks,     \* whether WC_Device::StartIO reaches the app
    MaxChanges,      \* bound on calls of setOutputDeviceWithID
    MaxFailures      \* bound on failures of Core Audio calls

ASSUME ManagerAssumption ==
    /\ None \notin Device /\ HelperWorks \in BOOLEAN
    /\ MaxChanges \in Nat /\ MaxFailures \in Nat

VARIABLES
    todo,            \* the steps of the holder of stateLock
    call,            \* its call of setOutputDeviceWithID, or Handler
    result,          \* whether the last such call changed the device or reverted
    outputDevice,
    through,         \* playThrough and playThrough_UISounds
    sync,            \* deviceControlSync
    phase,           \* per client: not in IO, in WC_Device::StartIO, after it
    requests,        \* clients whose request to start playthrough is on its way
    blocks,          \* per device: blocks startPlayThroughSync has dispatched
    bigSur,          \* macOS 11 or later
    changes, failures

lock == <<todo, call, result>>
handshake == <<phase, requests, blocks, bigSur>>
vars == <<driver, lock, outputDevice, through, sync, handshake, changes, failures>>

Handler == [kind |-> "handle", to |-> None, from |-> None, revertOnFailure |-> FALSE]

Free == todo = <<>>
At(step) == ~Free /\ Head(todo) = step
Steps == {<<"assign">>, <<"sync">>, <<"done">>}
         \cup ({"deactivate", "attach", "start", "ifIdle", "stop", "ifRunning"} \X Instance)
         \cup ({"startSync", "wait"} \X Client)

TypeOK ==
    /\ DriverTypeOK
    /\ todo \in Seq(Steps)
    /\ call \in [kind : {"set", "revert", "handle"}, to : Device \cup {None},
                 from : Device \cup {None}, revertOnFailure : BOOLEAN]
    /\ result \in {"ok", "reverted", "other"}
    /\ outputDevice \in Device \cup {None}
    /\ through \in [Instance ->
          [device : Device \cup {None}, active : BOOLEAN, playing : BOOLEAN]]
    /\ sync \in [device : Device \cup {None}, active : BOOLEAN]
    /\ phase \in [Client -> {"off", "starting", "on"}]
    /\ requests \subseteq Client
    /\ blocks \in [Instance -> 0..MaxNotices]
    /\ bigSur \in BOOLEAN
    /\ changes \in 0..MaxChanges /\ failures \in 0..MaxFailures
    /\ \A i \in Instance : through[i].playing <=> App \in running[i]

Init ==
    /\ DriverInit
    /\ todo = <<>> /\ call = Handler /\ result = "other"
    /\ outputDevice = None
    /\ through = [i \in Instance |-> [device |-> None, active |-> FALSE, playing |-> FALSE]]
    /\ sync = [device |-> None, active |-> FALSE]
    /\ phase = [c \in Client |-> "off"]
    /\ requests = {}
    /\ blocks = [i \in Instance |-> 0]
    /\ bigSur \in BOOLEAN
    /\ changes = 0 /\ failures = 0
-----------------------------------------------------------------------------
(* Steps of the holder of stateLock.                                         *)

(* The HAL makes requests about a virtual device wait while a client of it is *)
(* in WC_Device::StartIO (the comment in startPlayThroughSync).               *)
Blocked(i) == \E c \in Client : On[c] = i /\ phase[c] = "starting"

Does(steps) == todo' = steps \o Tail(todo)

(* setOutputDeviceWithIDImpl: everything up to propagateOutputDeviceChange.   *)
SetSteps(d) ==
    (IF d = outputDevice THEN <<>> ELSE
        <<<<"deactivate", "main">>, <<"deactivate", "UISounds">>, <<"sync">>,
          <<"attach", "main">>, <<"attach", "UISounds">>, <<"assign">>,
          <<"start", "main">>, <<"start", "UISounds">>,
          <<"ifIdle", "main">>, <<"ifIdle", "UISounds">>>>)
    \o <<<<"done">>>>

SetOutputDevice(d, revertOnFailure) ==
    /\ Free /\ changes < MaxChanges /\ changes' = changes + 1
    /\ call' = [kind |-> "set", to |-> d, from |-> outputDevice, revertOnFailure |-> revertOnFailure]
    /\ todo' = SetSteps(d)
    /\ UNCHANGED <<driver, result, outputDevice, through, sync, handshake, failures>>

(* A CAException: the handlers log it; setOutputDeviceWithIDImpl calls itself *)
(* with the previous device, or returns the error.                            *)
Return(r) == todo' = <<>> /\ call' = Handler /\ result' = r

Throw ==
    \/ call.kind = "handle" /\ Does(<<>>) /\ UNCHANGED <<call, result>>
    \/ /\ call.kind = "set" /\ call.revertOnFailure
       /\ call' = [call EXCEPT !.kind = "revert", !.to = call.from]
       /\ todo' = SetSteps(call.from) /\ UNCHANGED result
    \/ call.kind = "set" /\ ~call.revertOnFailure /\ Return("other")
    \/ call.kind = "revert" /\ Return("other")

Fail == failures < MaxFailures /\ failures' = failures + 1 /\ Throw
FailWith(d) == Fail \/ (d = None /\ Throw /\ UNCHANGED failures)

StopPlayThrough(i) ==
    IF through[i].playing THEN StopsIO(i, App) ELSE UNCHANGED driver

Deactivate(i) ==
    /\ At(<<"deactivate", i>>) /\ ~Blocked(i) /\ Does(<<>>)
    /\ through' = [through EXCEPT ![i].active = FALSE, ![i].playing = FALSE]
    /\ StopPlayThrough(i)
    /\ UNCHANGED <<call, result, outputDevice, sync, handshake, changes, failures>>

(* A mutant: an exception is swallowed.                                      *)
SyncControlsSwallowing ==
    /\ At(<<"sync">>) /\ ~Blocked("main") /\ Does(<<>>)
    /\ \/ UNCHANGED failures /\ sync' = [device |-> call.to, active |-> TRUE]
       \/ /\ failures < MaxFailures /\ failures' = failures + 1
          /\ sync' = [device |-> call.to, active |-> FALSE]
    /\ UNCHANGED <<driver, call, result, outputDevice, through, handshake, changes>>

(* WCDeviceControlSync's SetDevices and Activate.                            *)
SyncControls ==
    /\ At(<<"sync">>) /\ ~Blocked("main")
    /\ \/ /\ call.to # None /\ Does(<<>>)
          /\ sync' = [device |-> call.to, active |-> TRUE]
          /\ UNCHANGED <<call, result, failures>>
       \/ FailWith(call.to) /\ sync' = [device |-> call.to, active |-> FALSE]
    /\ UNCHANGED <<driver, outputDevice, through, handshake, changes>>

(* WCPlayThrough's SetDevices, after which it has the new device even if      *)
(* allocating the buffer fails, and Activate.                                 *)
Attach(i) ==
    /\ At(<<"attach", i>>) /\ ~Blocked(i)
    /\ \/ /\ call.to # None /\ Does(<<>>)
          /\ through' = [through EXCEPT ![i].device = call.to, ![i].active = TRUE]
          /\ UNCHANGED <<call, result, failures>>
       \/ FailWith(call.to) /\ through' = [through EXCEPT ![i].device = call.to]
    /\ UNCHANGED <<driver, outputDevice, sync, handshake, changes>>

Assign ==
    /\ At(<<"assign">>) /\ Does(<<>>)
    /\ outputDevice' = call.to
    /\ UNCHANGED <<driver, call, result, through, sync, handshake, changes, failures>>

(* WCPlayThrough::Start activates if need be.                                *)
StartPlayThrough(i) ==
    \/ /\ through[i].playing /\ Does(<<>>)
       /\ UNCHANGED <<driver, call, result, through, failures>>
    \/ /\ ~through[i].playing /\ through[i].device # None /\ Does(<<>>)
       /\ through' = [through EXCEPT ![i].active = TRUE, ![i].playing = TRUE]
       /\ AppStartsIO(i)
       /\ UNCHANGED <<call, result, failures>>
    \/ /\ ~through[i].playing /\ FailWith(through[i].device)
       /\ through' = [through EXCEPT ![i].active = @ \/ through[i].device # None]
       /\ UNCHANGED driver

Start(i) ==
    /\ At(<<"start", i>>) /\ ~Blocked(i)
    /\ StartPlayThrough(i)
    /\ UNCHANGED <<outputDevice, sync, handshake, changes>>

(* StopIfIdle asks the driver, then stops.                                   *)
StopIfIdle(i) ==
    /\ At(<<"ifIdle", i>>)
    /\ \/ /\ ~through[i].playing /\ Does(<<>>) /\ UNCHANGED <<call, result, failures>>
       \/ /\ through[i].playing /\ ~Blocked(i)
          /\ \/ /\ Does(IF OtherThanAppRunning(i) THEN <<>> ELSE <<<<"stop", i>>>>)
                /\ UNCHANGED <<call, result, failures>>
             \/ Fail
    /\ UNCHANGED <<driver, outputDevice, through, sync, handshake, changes>>

Stop(i) ==
    /\ At(<<"stop", i>>) /\ ~Blocked(i) /\ Does(<<>>)
    /\ through' = [through EXCEPT ![i].playing = FALSE]
    /\ StopPlayThrough(i)
    /\ UNCHANGED <<call, result, outputDevice, sync, handshake, changes, failures>>

(* The end of setOutputDeviceWithIDImpl: CopyDeviceUID may still throw.      *)
Done ==
    /\ At(<<"done">>)
    /\ \/ /\ outputDevice # None /\ UNCHANGED failures
          /\ Return(IF call.kind = "revert" THEN "reverted"
                    ELSE IF call.from = call.to THEN "other" ELSE "ok")
       \/ FailWith(outputDevice)
    /\ UNCHANGED <<driver, outputDevice, through, sync, handshake, changes>>
-----------------------------------------------------------------------------
(* Notifications, handled on concurrent queues.                              *)

Handle(steps) ==
    /\ Free
    /\ todo' = IF outputDevice = None THEN <<>> ELSE steps
    /\ UNCHANGED <<call, result, outputDevice, through, sync, phase, requests,
                   bigSur, changes, failures, running, age, cycled, lastNotified>>

HandleDeviceIsRunningSomewhere(i) ==
    /\ runNotices[i] > 0 /\ runNotices' = [runNotices EXCEPT ![i] = @ - 1]
    /\ Handle(<<<<"ifRunning", i>>>>)
    /\ UNCHANGED <<idleNotices, blocks>>

HandleDeviceIsRunningSomewhereOtherThanBGMApp(i) ==
    /\ idleNotices[i] > 0 /\ idleNotices' = [idleNotices EXCEPT ![i] = @ - 1]
    /\ Handle(<<<<"ifIdle", i>>>>)
    /\ UNCHANGED <<runNotices, blocks>>

(* A failure to get the property counts as running.                          *)
IfRunning(i) ==
    /\ At(<<"ifRunning", i>>) /\ ~Blocked(i)
    /\ \/ Does(IF running[i] # {} THEN <<<<"start", i>>>> ELSE <<>>) /\ UNCHANGED failures
       \/ /\ failures < MaxFailures /\ failures' = failures + 1
          /\ Does(<<<<"start", i>>>>)
    /\ UNCHANGED <<driver, call, result, outputDevice, through, sync, handshake, changes>>

(* The block startPlayThroughSync dispatches; it does not look at the device. *)
RunBlock(i) ==
    /\ Free /\ blocks[i] > 0 /\ blocks' = [blocks EXCEPT ![i] = @ - 1]
    /\ todo' = <<<<"start", i>>, <<"ifIdle", i>>>>
    /\ UNCHANGED <<driver, call, result, outputDevice, through, sync, phase,
                   requests, bigSur, changes, failures>>

-----------------------------------------------------------------------------
(* WC_Device::StartIO and its request to the app.                            *)

StartIO(c) ==
    /\ phase[c] = "off" /\ c \notin requests
    /\ ClientStartsIO(c)
    /\ phase' = [phase EXCEPT ![c] = IF HelperWorks THEN "starting" ELSE "on"]
    /\ requests' = IF HelperWorks THEN requests \cup {c} ELSE requests
    /\ UNCHANGED <<lock, outputDevice, through, sync, blocks, bigSur, changes, failures>>

Reply(c) == phase' = [phase EXCEPT ![c] = IF @ = "starting" THEN "on" ELSE @]

(* A mutant: it waits for stateLock.                                         *)
StartPlayThroughSyncWaits(c) ==
    /\ c \in requests /\ requests' = requests \ {c}
    /\ Free
    /\ todo' = <<<<"startSync", c>>, <<"wait", c>>>>
    /\ UNCHANGED <<phase, blocks>>
    /\ UNCHANGED <<driver, call, result, outputDevice, through, sync, bigSur, changes, failures>>

(* A mutant: without stateLock, nothing is dispatched.                        *)
StartPlayThroughSyncDropped(c) ==
    /\ c \in requests /\ requests' = requests \ {c}
    /\ \/ /\ Free /\ ~bigSur
          /\ todo' = <<<<"startSync", c>>, <<"wait", c>>>>
          /\ UNCHANGED <<phase, blocks>>
       \/ /\ ~Free \/ bigSur
          /\ Reply(c)
          /\ UNCHANGED <<blocks, todo>>
    /\ UNCHANGED <<driver, call, result, outputDevice, through, sync, bigSur, changes, failures>>

(* With stateLock, and before macOS 11, playthrough is started and waited for; *)
(* else a block is dispatched and the driver told not to wait.                *)
StartPlayThroughSync(c) ==
    /\ c \in requests /\ requests' = requests \ {c}
    /\ \/ /\ Free /\ ~bigSur
          /\ todo' = <<<<"startSync", c>>, <<"wait", c>>>>
          /\ UNCHANGED <<phase, blocks>>
       \/ /\ ~Free \/ bigSur
          /\ Reply(c)
          /\ blocks' = OneMore(blocks, On[c])
          /\ UNCHANGED todo
    /\ UNCHANGED <<driver, call, result, outputDevice, through, sync, bigSur, changes, failures>>

StartSync(c) ==
    /\ At(<<"startSync", c>>)
    /\ StartPlayThrough(On[c])
    /\ UNCHANGED <<outputDevice, sync, handshake, changes>>

WaitForOutputDeviceToStart(c) ==
    /\ At(<<"wait", c>>) /\ Does(<<>>)
    /\ Reply(c)
    /\ UNCHANGED <<driver, call, result, outputDevice, through, sync, requests,
                   blocks, bigSur, changes, failures>>

(* The driver stops waiting; the request is still on its way.                *)
XPCTimeout(c) ==
    /\ phase[c] = "starting" /\ Reply(c)
    /\ UNCHANGED <<driver, lock, outputDevice, through, sync, requests, blocks, bigSur, changes, failures>>

StopIO(c) ==
    /\ phase[c] = "on"
    /\ StopsIO(On[c], c)
    /\ phase' = [phase EXCEPT ![c] = "off"]
    /\ UNCHANGED <<lock, outputDevice, through, sync, requests, blocks, bigSur, changes, failures>>

Outside == <<lock, outputDevice, through, sync, handshake, changes, failures>>
DoIO(c) == phase[c] = "on" /\ RecordIO(c) /\ UNCHANGED Outside
InactivityTimer(i) == TimerFires(i) /\ UNCHANGED Outside
SecondPasses(i) == Tick(i) /\ UNCHANGED Outside
-----------------------------------------------------------------------------
LockHolder ==
    \/ SyncControls \/ Assign \/ Done
    \/ \E i \in Instance :
          \/ Deactivate(i) \/ Attach(i) \/ Start(i) \/ StopIfIdle(i) \/ Stop(i) \/ IfRunning(i)
    \/ \E c \in Client : StartSync(c) \/ WaitForOutputDeviceToStart(c)

Blocks ==
    \E i \in Instance :
        \/ HandleDeviceIsRunningSomewhere(i)
        \/ HandleDeviceIsRunningSomewhereOtherThanBGMApp(i)
        \/ RunBlock(i)

Clock == \E i \in Instance : InactivityTimer(i) \/ SecondPasses(i)
Requests == \E c \in Client : StartPlayThroughSync(c)

Next ==
    \/ \E d \in Device, r \in BOOLEAN : SetOutputDevice(d, r)
    \/ LockHolder \/ Blocks \/ Clock \/ Requests
    \/ \E c \in Client : StartIO(c) \/ XPCTimeout(c) \/ DoIO(c) \/ StopIO(c)

(* The HAL's requests and the threads that wait for stateLock get their turn, *)
(* requests arrive, time passes.  The driver's time-out is not relied on.     *)
Fairness == SF_vars(LockHolder) /\ SF_vars(Blocks) /\ WF_vars(Clock) /\ WF_vars(Requests)

Spec == Init /\ [][Next]_vars
FairSpec == Spec /\ Fairness
-----------------------------------------------------------------------------
(* Properties.                                                               *)

Agree ==
    /\ sync = [device |-> outputDevice, active |-> TRUE]
    /\ \A i \in Instance : through[i].device = outputDevice /\ through[i].active
Settled == call = Handler

(* After a change of the output device that did not fail, control sync and    *)
(* both playthroughs are active and on the device setOutputDeviceWithID       *)
(* reports, whatever handlers, requests and failures of theirs come after it: *)
(* WCAudioDeviceManager.mm:318-337 sets these one by one.                     *)
Agreement == Settled /\ result = "ok" => Agree

(* A client that does IO on a virtual device is heard: in the end playthrough *)
(* plays for it, or the client has stopped.  Its start races an idle stop and *)
(* a change of device, and the handlers of WCAudioDeviceManager.mm:438-456,   *)
(* 600-691 each see only the moment they run at.  Nothing can play before an  *)
(* output device is set, or need play after a Core Audio call has failed.     *)
PlaysWhenUsed ==
    \A c \in Client : phase[c] = "on" ~>
        through[On[c]].playing \/ phase[c] # "on" \/ outputDevice = None \/ failures > 0

(* The app does not play on for nobody: with only its own IOProcs left on the *)
(* device, it stops them (StopIfIdle, WCPlayThrough.cpp:753-788), which hangs *)
(* on one notification of the driver's timer.  From macOS 11 on: see README.  *)
StopsWhenIdle ==
    \A i \in Instance : bigSur /\ running[i] = {App} ~> running[i] # {App} \/ failures > 0

(* Both: playthrough follows the use of the devices.                         *)
FollowsUse == PlaysWhenUsed /\ StopsWhenIdle

(* WC_Device::StartIO returns although it waits for the app, whose holder of  *)
(* stateLock may wait for a HAL request that waits for StartIO: the deadlock  *)
(* startPlayThroughSync's tryLock avoids (WCAudioDeviceManager.mm:393-401).   *)
(* The driver's time-out is not needed.                                       *)
StartIOReturns == \A c \in Client : phase[c] = "starting" ~> phase[c] = "on"
=============================================================================

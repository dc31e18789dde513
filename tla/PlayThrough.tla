----------------------------- MODULE PlayThrough -----------------------------
(* WCPlayThrough: copying audio from Wavecraft's input device to an output    *)
(* device through a ring buffer.                                              *)
(*                                                                            *)
(* One thread at a time runs Start, Stop, SetDevices or the destructor, under *)
(* mStateMutex.  The HAL calls one IOProc per device, each on its own thread, *)
(* and the IOProcs take no lock but the buffer's: an atomic state per side    *)
(* tells an IOProc to stop itself and tells Stop that it has.  Other threads  *)
(* wait, without the mutex, for the output device to start.                   *)
(*                                                                            *)
(* A device that goes away never comes back as the same object.  Sample times *)
(* are modelled by whether they are set; audio data is not modelled.          *)
EXTENDS Naturals, Sequences

CONSTANTS
    Input, Output,   \* the input device, the output devices
    Waiter,          \* threads that may call WaitForOutputDeviceToStart
    Environment      \* what devices, HAL and scheduler do, see below

(* In an environment the mortal devices can go away, the failing HAL calls    *)
(* can fail on a device that is alive, only the IO threads of the late        *)
(* devices can miss Stop's time-out, only the waiters wait for the output     *)
(* device to start, and maxOps bounds the number of operations.               *)

ASSUME DeviceAssumption ==
    /\ Input \notin Output
    /\ \A e \in Environment :
          /\ e.mortal \subseteq {Input} \cup Output /\ e.late \subseteq {Input} \cup Output
          /\ e.failing \subseteq {"create", "start", "stop", "destroy"}
          /\ e.waiters \subseteq Waiter /\ e.maxOps \in Nat

VARIABLES
    env,             \* the environment; it does not change
    todo,            \* what the holder of mStateMutex has still to do
    to,              \* the output device SetDevices was given
    output,          \* mOutputDevice
    active, playing, \* mActive, mPlayingThrough
    state,           \* mInputDeviceIOProcState, mOutputDeviceIOProcState
    inputTime,       \* whether mLastInputSampleTime is set
    outputTime,      \* whether mLastOutputSampleTime is set
    alive,           \* the devices that exist
    hal,             \* whether the HAL calls the IOProc on a device
    lost,            \* and one whose ID has been forgotten, not destroyed
    io,              \* the step of the IOProc on a device
    stale,           \* IOProc calls whose ID has been destroyed or forgotten
    waiter,          \* the step of a waiting thread
    ops,
    aborted,         \* ghost: a Start has failed after starting an IOProc
    mistaken,        \* ghost: see ExchangeStopped
    refused          \* ghost: devices whose IOProc the HAL refused to stop

control == <<env, todo, to, output, active, playing, ops>>
times == <<inputTime, outputTime>>
external == <<alive, hal, lost>>
threads == <<io, stale>>
ghosts == <<aborted, mistaken, refused>>
vars == <<control, state, times, external, threads, waiter, ghosts>>

Device == {Input} \cup Output
Side == {"input", "output"}
IOState == {"Stopped", "Starting", "Running", "Stopping"}

(* The steps of the operations: of both IOProcs, or of one side's.           *)
Step == {<<"start">>, <<"abort">>, <<"stop">>, <<"wait">>, <<"reset">>, <<"destroyIDs">>,
         <<"init">>, <<"allocate">>, <<"activate">>, <<"deallocate">>, <<"gone">>}
        \cup ({"starting", "run", "cleanUp"} \X Side)

(* An IOProc call in the middle of UpdateIOProcState has read a state.       *)
IOStep == {<<"idle">>, <<"first">>, <<"body">>, <<"copy">>, <<"skip">>}
          \cup ({"stopping", "stopped"} \X IOState)

WaiterStep == {"idle", "checked", "entering", "waiting", "signalled", "expired"}

DeviceOf(s) == IF s = "input" THEN Input ELSE output
SideOf(d) == IF d = Input THEN "input" ELSE "output"

Idle == todo = <<>>
At(step) == todo # <<>> /\ Head(todo) = step
Gone == At(<<"gone">>)

(* The last two: the sanity check in SetDevices, and that the HAL calls only  *)
(* IOProcs that have an ID.                                                   *)
TypeOK ==
    /\ env \in Environment
    /\ todo \in Seq(Step) /\ to \in Output /\ output \in Output
    /\ active \in BOOLEAN /\ playing \in BOOLEAN
    /\ state \in [Side -> IOState]
    /\ inputTime \in BOOLEAN /\ outputTime \in BOOLEAN
    /\ alive \subseteq Device
    /\ hal \in [Device -> {"off", "on", "late"}]
    /\ lost \in [Device -> {"off", "on", "late"}]
    /\ io \in [Device -> IOStep] /\ stale \subseteq Device
    /\ waiter \in [Waiter -> WaiterStep]
    /\ ops \in 0..env.maxOps
    /\ aborted \in BOOLEAN /\ mistaken \in BOOLEAN /\ refused \subseteq Device
    /\ playing => active
    /\ \A d \in Device : hal[d] # "off" => active /\ d \in {Input, output}

Init ==
    /\ env \in Environment
    /\ todo = <<>> /\ to \in Output /\ output = to
    /\ active = FALSE /\ playing = FALSE
    /\ state = [s \in Side |-> "Stopped"]
    /\ inputTime = FALSE /\ outputTime = FALSE
    /\ alive = Device /\ hal = [d \in Device |-> "off"] /\ lost = hal
    /\ io = [d \in Device |-> <<"idle">>] /\ stale = {}
    /\ waiter = [w \in Waiter |-> "idle"]
    /\ ops = 0 /\ aborted = FALSE /\ mistaken = FALSE /\ refused = {}
-----------------------------------------------------------------------------
(* The operations.                                                           *)

Does(steps) == todo' = steps \o Tail(todo)
Throw == todo' = <<>>

(* semaphore_signal_all: nobody waiting, nothing kept.                       *)
SignalAll ==
    waiter' = [w \in Waiter |-> IF waiter[w] = "waiting" THEN "signalled" ELSE waiter[w]]

ReleaseThreadsWaitingForOutputToStart ==
    IF active THEN SignalAll ELSE UNCHANGED waiter

(* A mutant: Deactivate does not stop playthrough.                           *)
DestroyOnly == IF active THEN <<<<"destroyIDs">>>> ELSE <<>>

Deactivation == IF active THEN <<<<"stop">>, <<"destroyIDs">>>> ELSE <<>>

(* The callers lock mStateMutex; StopIfIdle is Stop when the HAL says so.    *)
Begin(steps) ==
    /\ Idle /\ ops < env.maxOps /\ ops' = ops + 1
    /\ todo' = steps
    /\ UNCHANGED <<env, output, active, playing, state, times, external, threads, waiter, ghosts>>

Start == Begin(<<<<"start">>>>) /\ UNCHANGED to
Stop == Begin(<<<<"stop">>>>) /\ UNCHANGED to
Activate == Begin(<<<<"activate">>>>) /\ UNCHANGED to
Deactivate == active /\ Begin(Deactivation) /\ UNCHANGED to

SetDevices(o) ==
    /\ to' = o
    /\ Begin(Deactivation \o <<<<"init">>, <<"allocate">>>>
             \o (IF active THEN <<<<"activate">>>> ELSE <<>>)
             \o (IF playing THEN <<<<"start">>>> ELSE <<>>))

(* ~WCPlayThrough.                                                           *)
Destroy == Begin(Deactivation \o <<<<"deallocate">>, <<"gone">>>>) /\ UNCHANGED to

DevicesAlive == {Input, output} \subseteq alive

(* CreateIOProcIDs may throw, and does when a device is not alive.           *)
Activated == active \/ DevicesAlive
CannotActivate == ~active /\ (~DevicesAlive \/ "create" \in env.failing)

ActivateStep ==
    /\ At(<<"activate">>)
    /\ \/ Activated /\ active' = TRUE /\ Does(<<>>)
       \/ CannotActivate /\ Throw /\ UNCHANGED active
    /\ UNCHANGED <<env, to, output, playing, state, times, external, threads, waiter, ops, ghosts>>

(* Start up to where it starts the IOProcs.  IsAlive throws, before the       *)
(* waiting threads are released, if the device object is gone.                *)
StartStep ==
    /\ At(<<"start">>)
    /\ \/ /\ playing /\ Does(<<>>) /\ UNCHANGED active
          /\ IF state["output"] = "Running"
             THEN ReleaseThreadsWaitingForOutputToStart ELSE UNCHANGED waiter
       \/ /\ ~playing /\ ~DevicesAlive /\ Throw /\ UNCHANGED active
          /\ ReleaseThreadsWaitingForOutputToStart \/ UNCHANGED waiter
       \/ /\ ~playing /\ DevicesAlive
          /\ active' = TRUE
          /\ Does(<<<<"starting", "input">>, <<"run", "input">>,
                    <<"starting", "output">>, <<"run", "output">>>>)
          /\ UNCHANGED waiter
       \/ ~playing /\ CannotActivate /\ Throw /\ UNCHANGED <<active, waiter>>
    /\ UNCHANGED <<env, to, output, playing, state, times, external, threads, ops, ghosts>>

SetStarting(s) ==
    /\ At(<<"starting", s>>) /\ Does(<<>>)
    /\ state' = [state EXCEPT ![s] = "Starting"]
    /\ UNCHANGED <<env, to, output, active, playing, times, external, threads, waiter, ops, ghosts>>

(* StartIOProc, and once both are started, mPlayingThrough.                  *)
RunIOProc(s) ==
    /\ At(<<"run", s>>) /\ DeviceOf(s) \in alive
    /\ hal' = [hal EXCEPT ![DeviceOf(s)] = "on"]
    /\ Does(<<>>)
    /\ playing' = (s = "output")
    /\ refused' = {d \in refused : d # DeviceOf(s) \/ lost[d] # "off"}
    /\ UNCHANGED <<env, to, output, active, state, times, alive, lost, threads, waiter, ops,
                   aborted, mistaken>>

StartIOProcFails(s) ==
    /\ At(<<"run", s>>) /\ (DeviceOf(s) \notin alive \/ "start" \in env.failing)
    /\ ReleaseThreadsWaitingForOutputToStart
    /\ todo' = <<<<"abort">>>> /\ aborted' = TRUE
    /\ UNCHANGED <<env, to, output, active, playing, state, times, external, threads, ops,
                   mistaken, refused>>

(* From outside the IOProc, AudioDeviceStop does not promise that the IOProc  *)
(* is not called any more when it returns.                                    *)
StoppedFromOutside(D) ==
    [d \in Device |-> IF d \in D /\ hal[d] = "on" THEN "late" ELSE hal[d]]

(* StopIOProc on each of the devices D.  It throws where the HAL refuses; the *)
(* callers swallow that and go on as if it had stopped the IOProc.            *)
StopFromOutside(D) ==
    \E R \in SUBSET D :
        /\ R = {} \/ "stop" \in env.failing
        /\ hal' = StoppedFromOutside(D \ R)
        /\ refused' = refused \cup {d \in R : hal[d] = "on"}

AbortStart ==
    /\ At(<<"abort">>) /\ Throw
    /\ StopFromOutside({Input, output})
    /\ state' = [s \in Side |-> "Stopped"]
    /\ UNCHANGED <<env, to, output, active, playing, times, alive, lost, threads, waiter, ops,
                   aborted, mistaken>>

(* A mutant: the IOProcs are not waited for.                                 *)
StopStepNoWait ==
    /\ At(<<"stop">>)
    /\ ReleaseThreadsWaitingForOutputToStart
    /\ Does(<<<<"cleanUp", "input">>, <<"cleanUp", "output">>, <<"reset">>>>)
    /\ state' = [s \in Side |-> "Stopping"]
    /\ UNCHANGED <<env, to, output, active, playing, times, external, threads, ops, ghosts>>

(* Stop up to where it waits for the IOProcs to stop themselves.             *)
StopStep ==
    /\ At(<<"stop">>)
    /\ ReleaseThreadsWaitingForOutputToStart
    /\ \/ /\ active /\ playing
          /\ state' = [s \in Side |-> IF DeviceOf(s) \in alive THEN "Stopping" ELSE "Stopped"]
          /\ Does(<<<<"wait">>, <<"cleanUp", "input">>, <<"cleanUp", "output">>, <<"reset">>>>)
          /\ UNCHANGED times
       \/ /\ ~(active /\ playing)
          /\ inputTime' = FALSE /\ outputTime' = FALSE
          /\ Does(<<>>) /\ UNCHANGED state
    /\ UNCHANGED <<env, to, output, active, playing, external, threads, ops, ghosts>>

WaitedForIOProcs ==
    /\ At(<<"wait">>) /\ Does(<<>>)
    /\ \A s \in Side : state[s] # "Stopping"
    /\ UNCHANGED <<env, to, output, active, playing, state, times, external, threads, waiter, ops, ghosts>>

(* A mutant: never giving up.                                                *)
TimesOutNever ==
    /\ FALSE
    /\ UNCHANGED vars

(* Six hundred IO cycles have passed; or there is no waiting at all, because  *)
(* a device that has just gone away cannot tell the length of a cycle.        *)
WaitTimesOut ==
    /\ At(<<"wait">>) /\ Does(<<>>)
    /\ \E s \in Side : state[s] = "Stopping"
    /\ \/ ~DevicesAlive \/ "stop" \in env.failing
       \/ \A s \in Side : state[s] = "Stopping" =>
             \/ DeviceOf(s) \in env.late \/ lost[DeviceOf(s)] # "off"
             \/ hal[DeviceOf(s)] = "off" /\ io[DeviceOf(s)] = <<"idle">>
    /\ UNCHANGED <<env, to, output, active, playing, state, times, external, threads, waiter, ops, ghosts>>

CleanUp(s) ==
    /\ At(<<"cleanUp", s>>) /\ Does(<<>>)
    /\ IF state[s] = "Stopping"
       THEN /\ StopFromOutside({DeviceOf(s)})
            /\ state' = [state EXCEPT ![s] = "Stopped"]
       ELSE UNCHANGED <<hal, state, refused>>
    /\ UNCHANGED <<env, to, output, active, playing, times, alive, lost, threads, waiter, ops,
                   aborted, mistaken>>

ResetStep ==
    /\ At(<<"reset">>) /\ Does(<<>>)
    /\ playing' = FALSE
    /\ inputTime' = FALSE /\ outputTime' = FALSE
    /\ UNCHANGED <<env, to, output, active, state, external, threads, waiter, ops, ghosts>>

(* The input's ID, then the output's.  Where destroying one throws, neither   *)
(* that nor the next is destroyed, and Deactivate, which swallows it, forgets *)
(* the IDs all the same: an IOProc that was called still is.                  *)
DestroyIOProcIDs ==
    \E kept \in {{}, {output}, {Input, output}} :
        /\ At(<<"destroyIDs">>) /\ Does(<<>>)
        /\ kept = {} \/ "destroy" \in env.failing
        /\ active' = FALSE
        /\ hal' = [d \in Device |-> "off"]
        /\ lost' = [d \in Device |-> IF d \in kept /\ hal[d] # "off" /\ lost[d] # "on"
                                     THEN hal[d] ELSE lost[d]]
        /\ stale' = {d \in Device : io[d] # <<"idle">>}
        /\ UNCHANGED <<env, to, output, playing, state, times, alive, io, waiter, ops, ghosts>>

(* SetDevices changes mOutputDevice; AllocateBuffer asks it for its format,   *)
(* then takes the buffer locks, which IOProcs only try to take.               *)
Copying == \E d \in Device : io[d] = <<"copy">>

InitStep ==
    /\ At(<<"init">>)
    /\ output' = to
    /\ \/ to \notin alive /\ Throw
       \/ to \in alive /\ ~Copying /\ Does(<<>>)
    /\ UNCHANGED <<env, to, active, playing, state, times, external, threads, waiter, ops, ghosts>>

BufferLocked == At(<<"allocate">>)
NoBuffer == Gone

UnlockBuffer ==
    /\ BufferLocked /\ Does(<<>>)
    /\ UNCHANGED <<env, to, output, active, playing, state, times, external, threads, waiter, ops, ghosts>>

DeallocateBuffer ==
    /\ At(<<"deallocate">>) /\ ~Copying /\ Does(<<>>)
    /\ UNCHANGED <<env, to, output, active, playing, state, times, external, threads, waiter, ops, ghosts>>

-----------------------------------------------------------------------------
(* The IO threads.                                                           *)

(* A call that comes late is the last one.                                   *)
Called(calls, d) == [calls EXCEPT ![d] = IF @ = "late" THEN "off" ELSE @]

(* Any other state than Starting and Running makes the IOProc stop itself.   *)
CallIOProc(d) ==
    LET s == SideOf(d) IN
    /\ io[d] = <<"idle">>
    /\ \/ hal[d] # "off" /\ hal' = Called(hal, d) /\ UNCHANGED <<lost, stale>>
       \/ lost[d] # "off" /\ lost' = Called(lost, d) /\ stale' = stale \cup {d} /\ UNCHANGED hal
    /\ \/ /\ state[s] = "Starting"
          /\ state' = [state EXCEPT ![s] = "Running"]
          /\ io' = [io EXCEPT ![d] = IF s = "output" THEN <<"first">> ELSE <<"body">>]
       \/ /\ state[s] = "Running"
          /\ io' = [io EXCEPT ![d] = <<"body">>] /\ UNCHANGED state
       \/ /\ state[s] \in {"Stopping", "Stopped"}
          /\ io' = [io EXCEPT ![d] = <<"stopping", state[s]>>] /\ UNCHANGED state
    /\ UNCHANGED <<control, times, alive, waiter, ghosts>>

Return(d) == io' = [io EXCEPT ![d] = <<"idle">>] /\ stale' = stale \ {d}

(* AudioDeviceStop inside the IOProc: it is not called again.  The call fails *)
(* with an ID that was destroyed or on a device that has gone.  If IDs have   *)
(* been forgotten, an old call can stop its own IOProc, or the one that now   *)
(* is where it looks for its ID and its device, or neither.                   *)
StopIOProcInside(d) ==
    \E prev \in IOState :
        /\ io[d] = <<"stopping", prev>>
        /\ \/ /\ d \in alive \ stale
              /\ hal' = [hal EXCEPT ![d] = "off"]
              /\ io' = [io EXCEPT ![d] = <<"stopped", prev>>] /\ UNCHANGED <<lost, stale>>
           \/ /\ d \in stale /\ "destroy" \in env.failing
              /\ hal' \in {hal, StoppedFromOutside({DeviceOf(SideOf(d))})}
              /\ lost' \in {lost, [lost EXCEPT ![d] = "off"]}
              /\ io' = [io EXCEPT ![d] = <<"stopped", prev>>] /\ UNCHANGED stale
           \/ /\ d \notin alive \ stale \/ "stop" \in env.failing
              /\ Return(d) /\ UNCHANGED <<hal, lost>>
        /\ UNCHANGED <<control, state, times, alive, waiter, ghosts>>

(* compare_exchange_strong: if another thread has changed the state since, it *)
(* is left alone, and the IOProc may go on as if it were running.  If others  *)
(* have changed it and changed it back, that is not noticed: a call from      *)
(* before the last Start can then say of an IOProc that it has been stopped   *)
(* when the HAL still calls it.                                               *)
ExchangeStopped(d) ==
    LET s == SideOf(d) IN
    \E prev \in IOState :
        /\ io[d] = <<"stopped", prev>>
        /\ \/ /\ state[s] = prev /\ state' = [state EXCEPT ![s] = "Stopped"] /\ Return(d)
              /\ mistaken' = (mistaken \/ hal[DeviceOf(s)] = "on")
           \/ /\ state[s] # prev /\ UNCHANGED <<state, mistaken>>
              /\ IF state[s] \in {"Stopped", "Stopping"} THEN Return(d)
                 ELSE io' = [io EXCEPT ![d] = <<"body">>] /\ UNCHANGED stale
        /\ UNCHANGED <<control, times, external, waiter, aborted, refused>>

(* The first call of the output IOProc releases the waiting threads.         *)
FirstOutput(d) ==
    /\ io[d] = <<"first">> /\ io' = [io EXCEPT ![d] = <<"body">>]
    /\ ReleaseThreadsWaitingForOutputToStart
    /\ UNCHANGED <<control, state, times, external, stale, ghosts>>

(* A mutant: the IOProcs copy without the lock.                              *)
CopyUnlocked(d) ==
    /\ io[d] = <<"body">> /\ (d = Input \/ inputTime)
    /\ io' = [io EXCEPT ![d] = <<"copy">>]
    /\ UNCHANGED <<control, state, times, external, stale, waiter, ghosts>>

(* The output IOProc has nothing to do until there has been input.  The input *)
(* IOProc drops its data if it does not get the lock or there is no buffer.   *)
TryBufferLock(d) ==
    /\ io[d] = <<"body">>
    /\ \/ d # Input /\ ~inputTime /\ Return(d)
       \/ /\ d = Input \/ inputTime
          /\ IF ~BufferLocked /\ ~NoBuffer THEN io' = [io EXCEPT ![d] = <<"copy">>] /\ UNCHANGED stale
             ELSE IF d = Input THEN Return(d)
             ELSE io' = [io EXCEPT ![d] = <<"skip">>] /\ UNCHANGED stale
    /\ UNCHANGED <<control, state, times, external, waiter, ghosts>>

FinishCall(d) ==
    /\ io[d] \in {<<"copy">>, <<"skip">>} /\ Return(d)
    /\ IF d = Input THEN inputTime' = TRUE /\ UNCHANGED outputTime
                    ELSE outputTime' = TRUE /\ UNCHANGED inputTime
    /\ UNCHANGED <<control, state, external, waiter, ghosts>>

(* A device goes away: the HAL calls its IOProc no more, the call it is in    *)
(* ends on its own.                                                           *)
DeviceDies(d) ==
    /\ d \in env.mortal \cap alive
    /\ alive' = alive \ {d}
    /\ hal' = [hal EXCEPT ![d] = "off"] /\ lost' = [lost EXCEPT ![d] = "off"]
    /\ UNCHANGED <<control, state, times, threads, waiter, ghosts>>
-----------------------------------------------------------------------------
(* WaitForOutputDeviceToStart, without the mutex.                            *)

WaiterGoes(w, from, next) ==
    /\ waiter[w] = from /\ waiter' = [waiter EXCEPT ![w] = next]
    /\ UNCHANGED <<control, state, times, external, threads, ghosts>>

WaitForOutputDeviceToStart(w) ==
    w \in env.waiters /\ active /\ output \in alive /\ ~Gone /\ WaiterGoes(w, "idle", "checked")

ReadState(w) ==
    WaiterGoes(w, "checked", IF state["output"] = "Starting" THEN "entering" ELSE "idle")

SemaphoreWait(w) == WaiterGoes(w, "entering", "waiting")

(* Two hundred milliseconds have passed, or a spurious wake-up.              *)
WaitExpires(w) == WaiterGoes(w, "waiting", "expired")

WaitAgain(w) == state["output"] = "Starting" /\ WaiterGoes(w, "expired", "entering")

(* The state is no longer Starting, or kStartIOTimeoutNsec have passed.      *)
GiveUp(w) == WaiterGoes(w, "expired", "idle")

(* Returns kAudioHardwareNoError.                                            *)
Signalled(w) == WaiterGoes(w, "signalled", "idle")

-----------------------------------------------------------------------------
Operation ==
    \/ Start \/ Stop \/ Activate \/ Deactivate \/ Destroy
    \/ \E o \in Output : SetDevices(o)

Control ==
    \/ ActivateStep \/ StartStep \/ AbortStart \/ StopStep \/ WaitedForIOProcs \/ WaitTimesOut
    \/ ResetStep \/ DestroyIOProcIDs \/ InitStep \/ UnlockBuffer \/ DeallocateBuffer
    \/ \E s \in Side : SetStarting(s) \/ RunIOProc(s) \/ StartIOProcFails(s) \/ CleanUp(s)

IOThread(d) ==
    \/ CallIOProc(d) \/ StopIOProcInside(d) \/ ExchangeStopped(d)
    \/ FirstOutput(d) \/ TryBufferLock(d) \/ FinishCall(d)

WaiterReturns(w) ==
    ReadState(w) \/ SemaphoreWait(w) \/ WaitExpires(w) \/ GiveUp(w) \/ Signalled(w)

Next ==
    \/ Operation \/ Control
    \/ \E d \in Device : IOThread(d) \/ DeviceDies(d)
    \/ \E w \in Waiter : WaitForOutputDeviceToStart(w) \/ WaiterReturns(w) \/ WaitAgain(w)

(* Threads make progress, the HAL calls the IOProc of a device that runs, and *)
(* a wait that is entered again and again comes to its overall time-out.      *)
Fairness ==
    /\ WF_vars(Control)
    /\ \A d \in Device : WF_vars(IOThread(d))
    /\ \A w \in Waiter : WF_vars(WaiterReturns(w)) /\ SF_vars(GiveUp(w))

Spec == Init /\ [][Next]_vars
FairSpec == Spec /\ Fairness
-----------------------------------------------------------------------------
(* Properties.  A Start that fails after starting an IOProc stops it from     *)
(* outside and does not wait for it: a call that is left over may then do     *)
(* what three of the properties rule out as long as no Start has failed so.   *)
(* So may one that Stop has not waited for, because it timed out.             *)

Timely == env.late = {} /\ env.mortal = {} /\ env.failing \cap {"stop", "destroy"} = {}
Undisturbed == Timely /\ ~aborted

(* When playthrough says it is playing, it is: neither side was stopped by an *)
(* IOProc call left over from before Start, or stays in Starting forever      *)
(* because the HAL does not call it (the comment in UpdateIOProcState).       *)
(* Unless it says so, no IOProc is called any more but for a last late call,  *)
(* also when creating or starting the second one fails after the first was    *)
(* started.  Two things the code does leave one running: it swallows that the *)
(* HAL refuses to stop or destroy it, when Stop has timed out or a Start has  *)
(* failed; and Stop takes a late call's word for it, which it does not as     *)
(* long as IO threads are in time.                                            *)
PlayingIsCalled ==
    /\ Undisturbed /\ Idle /\ playing =>
          \A s \in Side : hal[DeviceOf(s)] = "on" /\ state[s] \in {"Starting", "Running"}
    /\ Idle /\ ~playing => \A s \in Side : state[s] = "Stopped"
    /\ Idle /\ ~playing /\ ~mistaken =>
          \A d \in Device : "on" \in {hal[d], lost[d]} => d \in refused
    /\ Timely => ~mistaken

(* No IOProc call uses what is gone.  The ring buffer is not replaced or      *)
(* freed while one copies, also when Stop has given up on it; and none uses   *)
(* the object after its destructor, as Stop waits for both IOProcs.           *)
NoUseAfterFree ==
    /\ BufferLocked \/ NoBuffer => ~Copying
    /\ Undisturbed /\ Gone => \A d \in Device : io[d] = <<"idle">>

(* The assertions of the IOProcs.  UpdateIOProcState: one that is called when *)
(* it should neither start nor run has been told to stop, and not been        *)
(* stopped.  OutputDeviceIOProc: the first call after Start finds             *)
(* mLastOutputSampleTime reset, also after a Start that failed.               *)
AssertionsHold ==
    \A d \in Device :
        /\ Undisturbed => io[d] # <<"stopping", "Stopped">>
        /\ Timely /\ io[d] = <<"first">> => ~outputTime

(* Both: a call of an IOProc finds what it relies on.                         *)
CallsFindTheirs == NoUseAfterFree /\ AssertionsHold

(* WaitForOutputDeviceToStart returns, even when the signal comes between its *)
(* look at the state and its wait, or never.  Every operation ends and gives  *)
(* the mutex back: Stop does not wait forever for an IOProc that is not       *)
(* called any more, nor SetDevices for the buffer.                            *)
OperationsEnd ==
    /\ \A w \in Waiter : waiter[w] # "idle" ~> waiter[w] = "idle"
    /\ []<>(Idle \/ Gone)
=============================================================================

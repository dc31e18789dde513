# Wavecraft: TLA+ models, model checking and proofs

Wavecraft is a macOS audio application (a descendant of Background Music). A
virtual audio device takes the output of every program; the application plays
it on a real output device, and along the way gives each program its own volume,
equaliser and, if the user wants, its own output device.

This directory models the parts of it that are hard to test: code in which
several threads, dispatch queues and devices that come and go share state. Every
module is translated from the source; `PROJECT.json` names the lines each
definition stands for.

Running things, in this directory:

    tlc -workers 2 -config MCTaskQueue.cfg MCTaskQueue
    tlapm ClientMapProofs.tla

## 1. The system

    programs --IO--> BGMDriver (in coreaudiod)        BGMXPCHelper (launchd)
                      WC_Device                          ^   |
                        WC_Clients --- WC_ClientMap      |   | XPC: StartIO waits for
                        WC_TaskQueue (2 workers)  -------+   v playthrough
                        WC_AudibleState                Wavecraft.app
                          | notifications  ----------->  WCAudioDeviceManager
                          | input stream                   WCPlayThrough (x2)
                          +------------------------------->  ring buffer -> output device
                                                           WCDeviceControlSync
                                                         WCAppOutputRoutingController
                                                           WCTapRoute (per program)
                                                         WCAutoPauseMusic, WCDoNotDisturb

### 1.1 Components

| Component | State it keeps | Operations | Talks to |
|---|---|---|---|
| `WC_ClientMap` (driver) | three maps (by ID, PID, bundle ID), a shadow of each, settings of past clients, two mutexes | add, remove, look up, set volume/pan/EQ, music player flags | the real-time worker swaps maps for it |
| `WC_TaskQueue` (driver) | per worker an atomic stack and a semaphore; a free list of tasks; a semaphore for finished synchronous tasks | queue and wait, queue and go on, destroy | `WC_ClientMap`, `WC_Device`, the HAL |
| `WC_Clients` (driver) | IO counts, last-IO times, a timer, the music player | StartIO, StopIO, IO cycle begins, timer fires, set music player, set volumes and EQs | `WC_ClientMap`; notifications to the app |
| `WC_Device`, `WC_NullDevice` (driver) | active and pending sample rate and controls, loopback buffer, clock, map of equalisers, two mutexes | HAL calls, IO operations, request/perform/abort a configuration change | everything in the driver |
| `WC_PlugIn`, `BGM_PlugInInterface`, streams, controls (driver) | whether the Null Device is active, raw volume, mute, stream formats | get and set properties, announce changes | coreaudiod |
| `WC_AppEQ`, `WC_Biquad` (driver) | per client: gains and filters | set up, process | `WC_Device` |
| `WC_AudibleState` (driver) | audible, silent or silent except music, with sample times | update with every buffer | `WCAutoPauseMusic` through a property |
| `WCPlayThrough` (app) | two devices, one atomic state per IOProc, ring buffer, sample times, waiting threads | activate, deactivate, set devices, start, stop, wait for start; the IOProcs | the HAL |
| `WCPlayThroughRTLogger` (app) | messages left by the IOProcs, a semaphore, a thread | log, destroy | the IOProcs |
| `WCAudioDeviceManager` (app) | output device, two playthroughs, control sync, helper connection, a recursive lock | set output device and revert, handlers of IO status, start for the helper | `WCPlayThrough`, helper, menus |
| `WCAppOutputRoutingController`, `WCTapRoute` (app) | persisted choice per program, a tap and its outputs per routed program | user's choice, reset, program launched, device list changed | the HAL; user defaults; three queues |
| `WCDeviceControlSync`, `WCDeviceControlsList` (app) | the two devices, listeners, the device toggled to make others see a changed list | activate, deactivate, listeners | the HAL |
| `WCAutoPauseMusic` (app) | whether the player was paused by the app, times of changes | audible state changes, delayed pause and unpause | music players |
| `WCDoNotDisturb` (app) | which apps are muted and the volumes they had, in the user defaults too | on, off, list changes, app launched, restore at launch | the driver's volumes |
| `WCPreferredOutputDevices` (app) | the list of preferred devices, in macOS's settings and its own | device appears, device goes, user picks one, launch | `WCAudioDeviceManager` |
| `BGMXPCHelper` and its clients | connection to the app, output device to restore | start playthrough, register, restore | app and driver |
| `CARingBuffer`, `TAtomicStack`, `CAMutex`, `CAVolumeCurve`, `CAHALAudio*` (Apple's PublicUtility, built in) | buffer and time bounds; list; owner; ranges; none | store and fetch; push and pop; lock; convert; get and set properties | all of the above |
| menus, preferences, hotkeys, scripting, music players, installers | views and glue | | |

### 1.2 What is hard

* **Real-time threads** may not block, so the driver uses try-locks, atomic
  stacks and a swap of whole maps; the app uses atomic states, a
  compare-and-exchange, a lock-free ring buffer and flags for messages. They
  depend on orders nobody can write a test for.
* **Three queues** (main, routing, HAL listeners) edit the same routing, each
  with its own delay; two edit the state of auto-pause; a chain of delayed blocks
  toggles the default device while other code sets it.
* **The host is told of a change later** and reads it in two calls, between
  which it can change again.
* **Devices go away** at any moment, in the middle of an IO call too, and a
  device that is plugged in again is another object with the same name.
* **Calls into the HAL fail** half-way through an operation, and the host may
  refuse a change of configuration.
* **Waits with time-outs** (0.2 s, 0.5 s, 2 s, 2.8 s) race with late answers.
* **The app, the helper or coreaudiod stops** between persisting something and
  applying it; what the app left behind in the driver, in macOS or in its
  settings has to be undone.

`PROJECT.json` ("hazards") lists each of them at the line where it bites, with
the properties that would catch it going wrong. Two known ones have no property
and are in section 5: `WC_TaskQueue.cpp:113`, where the semaphores are destroyed
before the workers have left their loops, and `WC_ClientMap.cpp:68`, where past
clients' settings are not the last ones.

### 1.3 What makes each component correct

| Component | It is correct when |
|---|---|
| `WC_ClientMap` | each call is atomic for all others; no lookup meets a removed client; no lookup blocks on a modification |
| `WC_TaskQueue` | each task is processed once, in order; no task is stranded; callers return; memory is recycled once |
| `WC_Clients` with `WCAudioDeviceManager` | playthrough runs whenever a program plays, and not for ever otherwise |
| `WC_Device` and the HAL objects | what the host knows is what is; the configuration requested last is the one in force; locks are never waited for in vain; the clock does not drift |
| `WC_AudibleState`, `WCAutoPauseMusic` | the state follows the sound; the player is paused while others are audible, and unpaused only if the app paused it |
| `WCPlayThrough` | audio flows if and only if it says so; no IO call outlives the object or its buffer; the read head stays in the buffer; waits end |
| `WCPlayThroughRTLogger` | messages are whole, are logged but for errors set while the last is being logged, and the thread can be joined |
| `WCAudioDeviceManager` | after an error the previous device plays again; StartIO and `stateLock` do not deadlock |
| `WCAppOutputRoutingController` | what plays is what the user's settings say; no program is muted by a tap that plays nowhere; a failure stays local |
| `WCDeviceControlSync`, `WCDeviceControlsList` | the virtual device has the controls and values of the real one; the Null Device never stays the default |
| `WCDoNotDisturb` | who should be silent is, and every program gets back the volume it had |
| `WCPreferredOutputDevices` | a connected device is played to, the one the user prefers; the choice survives quitting and crashes |
| `BGMXPCHelper` | a call reaches the app while it is registered; a crash of the app gives the user's device back |
| `CARingBuffer`, `TAtomicStack`, `CAMutex` | bounds cover only frames that are there; no item is lost or twice on a list; one thread holds the mutex |

## 2. Modules

| Module | Models | Note |
|---|---|---|
| `ClientTypes` | records of clients, the calls and their arguments | shared by the next two |
| `ClientRegistry` | what `WC_ClientMap` promises: one table, every call takes effect in one instant between its beginning and its end | abstract specification |
| `ClientMap` | `WC_ClientMap.cpp`, and the swap task of the real-time worker | implements `ClientRegistry` |
| `TaskOrder` | what `WC_TaskQueue` promises: two first-in first-out queues, each task processed once; what is left is dropped when the queue is destroyed | abstract specification |
| `TaskQueue` | `WC_TaskQueue.cpp` | implements `TaskOrder` |
| `AtomicSequence`, `AtomicStack` | what `TAtomicStack` promises, and its compare-and-swap loops | the second implements the first |
| `MutualExclusion`, `Mutex` | what a mutex promises, and `CAMutex` with its nested scopes | the second implements the first |
| `OutputRouting` | `WCAppOutputRoutingController.mm`, `WCTapRoute.mm`, `WCOutputDeviceDiff.cpp` | |
| `PlayThrough` | `WCPlayThrough.cpp`: states, operations, waits | |
| `RingBuffer`, `AudioCopy` | `CARingBuffer.cpp`; its two users, the IOProcs of `WCPlayThrough.cpp` and the loopback buffer of `WC_Device.cpp` | the second extends the first |
| `RTLogger` | `WCPlayThroughRTLogger.cpp` | |
| `LoopbackClock` | `GetZeroTimeStamp`, StartIO and StopIO of `WC_Device` and `WC_NullDevice` | |
| `ClientsIO` | the IO status kept by `WC_Clients.cpp` | used by the next |
| `DeviceManager` | `WCAudioDeviceManager.mm` and `WC_Device::StartIO`, with `ClientsIO` and what they see of two playthroughs and control sync | composition |
| `XPCHelper` | `WCXPCHelperService.mm`, `WCXPCListener.mm`, `BGM_XPCHelper.m` | app, helper and driver |
| `AudibleState` | `WC_AudibleState.cpp` | used by the next |
| `AutoPause` | `WCAutoPauseMusic.mm` above the driver's audible state | composition |
| `Controls` | `WCDeviceControlSync.cpp`, `WCDeviceControlsList.cpp`, with the driver's configuration changes and the Null Device | composition |
| `DoNotDisturb` | `WCDoNotDisturb.mm` above the driver's clients and their volumes | composition |
| `PreferredDevices` | `WCPreferredOutputDevices.mm`, the picking of a device in the menu, the toggling of the default device | composition |
| `VolumeCurve` | `CAVolumeCurve.cpp` and the volume controls' conversions | pure |
| `HALObjects` | the property tables of plug-in, devices, streams and controls | extends the previous |
| `HALCalls` | `CAHALAudioObject`, `-Device`, `-Stream`: what the app asks, and what it is answered | extends the previous |
| `HALDevice` | the driver's HAL interface: setters, clients, IO operations, configuration changes, announcements | extends the previous |
| `ClientMapProofs`, `TaskQueueProofs`, `PlayThroughProofs`, `DeviceManagerProofs`, `HALDeviceProofs` | theorems about the modules they are named after | TLAPS |
| `OutputRoutingProofs` | theorems about `OutputRouting` and `Controls`, what becomes of the user's choice of outputs | TLAPS |
| `AppProofs` | theorems about `AutoPause` and `XPCHelper` | TLAPS |
| `PartsProofs` | theorems about the smaller parts: `RTLogger`, `AudioCopy`, `LoopbackClock`, `Mutex`, `DoNotDisturb` | TLAPS |
| `MC...` | instances of the above for TLC; `MCTaskQueue` and `MCIOProcs` put several modules side by side | `PreferredDevices` needs none, its configuration is its own |

**ClientMap.** A caller holds `mShadowMapsMutex` from `Lock` to `Unlock`. A
modification is made on the shadow maps (`AddClient`, `RemoveClient`,
`SetClients`, `UpdateMusicPlayerFlags`), the worker swaps them in (`WorkerLock`,
`SwapInShadowMapsRT`), and `Again` repeats it on the other set. IO threads look
clients up in between (`GetClientRT`). A pointer in a list is the ID of the
client it points at in the client map of the same side; swapping
`std::map`s keeps the addresses of their elements, so pointers swap with them.
`RemoveClient` erases the bundle's list from the *main* map and everything else
from the shadow maps, as the code does. Pan positions are set by the same code
as volumes and are not told apart. The wait for the swap is the contract of
`QueueSync`; `TaskQueue` has the rest.

**TaskQueue.** The worker fetches its whole stack, reverses it and processes the
batch. A caller pushes, signals, then checks, enters the wait and waits:
`semaphore_signal_all` wakes those that wait, and one that is about to enter
the wait misses it. `Fetch`, `Process`, `MarkCompleted`, `SignalAll` and
`Recycle` are the steps of the worker's loop; `StopWorker` and `Destroy` those
of the destructor. A task on its caller's stack is named after the caller.

**OutputRouting.** The main thread writes the user defaults and posts requests;
`BeginApply`, `AddOutputDevice` and `FinishApply` are the routing queue's work
on one request, during which devices may be unplugged; `Reconcile` and
`DevicesChanged` are the blocks that come back to the main queue. `Restart`
forgets everything but the user defaults and the devices. A tap's creation can
fail and an output's start can fail, at every request. The ghost `overlooked` has the
apps with an output to a vanished device to which `DevicesChanged` came and saw nothing to do.

**PlayThrough.** `todo` is what the holder of `mStateMutex` has still to do:
each operation (`Start`, `Stop`, `SetDevices`, `Activate`, `Deactivate`,
`Destroy`) begins by putting its steps there. The IOProcs run without the mutex:
`CallIOProc`, `StopIOProcInside` and `ExchangeStopped` are the three places of
`UpdateIOProcState` between which Stop and Start can interfere. `stale` has the
calls whose IOProc ID was destroyed under them. The waiting threads are those of
`WaitForOutputDeviceToStart`, with a semaphore each call makes for itself. Start and
Stop swallow an AudioDeviceStop that throws (`StopFromOutside`, which `AbortStart` and
`CleanUp` use), and `refused` has the devices where that happened. DestroyIOProcIDs swallows
failures as well and forgets the ID: `lost` is what the HAL then still does with such
an IOProc, which nobody can stop any more but itself.

**DeviceManager** composes the app and the driver. `todo` is what the holder of
`stateLock` has still to do: the ten steps of `setOutputDeviceWithIDImpl`, or
those of a handler, and between two of them programs start and stop IO (`StartIO`,
`DoIO`, `StopIO`), the driver's timer fires and requests arrive. A HAL request
about a virtual device waits while a client is in `WC_Device::StartIO` (`Blocked`),
which is what the comment in `startPlayThroughSync` says of it. A playthrough
is its device and whether it is active and playing; `Attach` is `SetDevices` and
`Activate` together, since no other thread looks at it without `stateLock`. Core
Audio calls fail at most `MaxFailures` times, each at any step. `sync` is whether
`WCDeviceControlSync` is active and on which device. Notifications beyond
`MaxNotices` are merged with the waiting ones.

**XPCHelper.** Connections are model values that die with the process at either
end; the helper's endpoint, its connection to the app and the reply it owes are
variables of the helper, and a restart of it forgets them. Handlers of
interruption and invalidation are blocks that run later, in any order.
It assumes that the app is launched again only after the helper has seen the old
process go, that messages and handlers take less than the second before the
clean-up and the ten of the retry timer, that `unregisterAsBGMApp` does not run
while the app lives, and that incoming connections are invalidated and not
interrupted.

**AudibleState, AutoPause.** Buffers are audible or not. The driver compares
distances between sample times with one threshold, so distances are counted in
buffers and cut off there (`MinChanged`). The listener queue and the pause queue
each have a program counter, so that the reads and writes of `wePaused` and of
the times by one fall between those of the other.

**Controls.** The host performs or aborts a requested configuration change at any
later time. Activating, deactivating, the listeners and the three delayed blocks
of the toggling are actions. Every call of the HAL that the toggling and the
matching of the controls make may throw (`Throws`, an event); the code logs it and
goes on, each time from another place. `unhandled` collects by name what the code
does not handle, these included (see 5.8), and the properties say which of them
they except. A failure of copying values or of adding listeners, which leaves
`WCDeviceControlSync` inactive, is `DeviceManager`'s.

**DoNotDisturb.** A pass over the apps is a step for each, since every one is a
call to the driver that may fail, and ends by persisting. The app can crash between any
two steps, also within a pass; coreaudiod can restart and forget all volumes. The ghost
`strange` has why an app counted as muted may sound, and `lost` the apps whose volume
the code has lost.

**PreferredDevices.** macOS's list of three and the app's longer one are
sequences. The handler of a device-list change, the launch and the blocks of the
menu each find a device in one step and set it in a later one. The toggling of
the default device, which puts Wavecraft's own devices on macOS's list, goes on
beside them. Restrictions: the app exits only when it is not toggling, setting a
device fails only if it has gone or is the Null Device, and macOS's list changes
only when a default device is set.

**HALObjects, HALCalls, HALDevice.** An object's property is a size, counted in
items, and a value; both are operators of the state. The host knows what it last
read (`view`). A change is announced by a block on one serial queue; the host
then reads size and data in two steps. Calls that hold `mStateMutex` from
beginning to end are one step; those that take both mutexes, or none, have
several. The IO thread's operations hold `mIOMutex`. `VolumesConvert` puts every
raw volume through the three scales of both curves, `VolumesEnd` the volumes set beyond
an end of their range.

**AtomicStack, Mutex, RingBuffer, RTLogger, LoopbackClock** go down to single
reads and writes of shared memory. `RingBuffer` lets the reader read each word
of the bounds on its own; `RTLogger` does so for each plain variable of
a message; `Mutex` reads and writes `mOwner` outside the mutex. Memory is
taken to be sequentially consistent in all of them.

## 3. Runs

| Run | Instance | Shows |
|---|---|---|
| `client_map` | 2 clients, 1 process, 1 bundle ID (or none), 2 volumes, 2 gains, 2 callers, 1 IO thread, fair | maps identical between calls, no dangling pointer, atomic calls (`ImplementsRegistry`), calls return |
| `task_queue` | 1 synchronous caller (the shadow maps' mutex admits one), 2 IO threads, the destructor, 1 preallocated and 1 heap task, fair; beside it 3 items and 2 threads on a `TAtomicStack`; beside it 3 threads with 3 nested scopes on a `CAMutex` | no task in two places; implements `TaskOrder`; callers return and notifications are sent; the stack implements a sequence, the mutex mutual exclusion |
| `output_routing` | 2 programs, 2 devices that can both go, restarts, 4 events, fair | settings and routing agree when settled, and they settle; a tap plays somewhere, or its vanished output is about to be removed or was overlooked (5.13); kept outputs are not interrupted |
| `play_through` | 2 output devices, 1 waiting thread, in one of four environments: Calm (creating and starting can fail, IO threads in time, 4 operations), Rough (a device dies, creating can fail, Stop times out, 2 operations), Refusing (starting, stopping and destroying can fail, nobody waits, 2 operations), Late (the input's IO thread can be late, 3 operations), fair | what is playing is called; what is not, and is called, is what the HAL refused to stop; no IO call meets a freed buffer or object, and the asserts of both IOProcs hold; waits and operations end |
| `device_manager` | 2 output devices, 2 changes, 1 failure anywhere, 1 client of the main virtual device, both kinds of macOS, fair | what is reported as the output device is in use; a client is heard, and playthrough stops after it has gone; StartIO returns |
| `xpc_helper` | 3 connections, 3 events (launches, crashes, restarts of the helper), fair | a call reaches a registered app whichever dead connections are met; a crash gives the default device back; the app registers again with a restarted helper, unless its connection was left without a handler (5.10) |
| `io_procs` | logger: 2 IOProcs, 3 messages, 4 calls; buffer: 4 frames, 2 slots, times to 8, 3 stores, 1 jump of a clock, both users; clock: 2 rates (5 and 7 ticks for 3 periods), 12 ticks, 2 clients; fair for the logger | messages are whole and are logged; bounds and frames of the ring buffer agree; the read head is inside it; clocks keep time |
| `auto_pause` | threshold of 2 buffers, 1 notification under way, 1 change by the user, each of the two delays 0 or not, fair | the state follows the sound; the app unpauses only what it paused, or what crossed (5.6); the music yields, but without the pause delay alone, and comes back, but without the unpause delay alone |
| `controls` | 2 output devices, one without a volume, 2 changes, 2 events (failing calls among them), the host may abort, fair | the Null Device does not vanish while it is the default, does not stay the default and is hidden again, but for the refused calls and overlapping togglings the properties name; controls and values follow the output device |
| `do_not_disturb` | 2 apps, 3 volumes, any call of the driver can fail, crashes anywhere, 8 events | who should be muted is, nobody else is, volumes come back, but for those lost as 5.7 says |
| `preferred_devices` | 2 devices, 5 events, fair | a connected device is played to, the preferred one; the choice is remembered |
| `hal_device` | 2 threads of the host, 2 clients (the app and a program with a helper, which is the music player), 2 rates, 2 calls, fair | the host knows the state, what it is answered is consistent, the app's calls are answered, each with the exceptions named in section 3 and in 5.12; the map of equalisers has one holder; no lock is waited for in vain |

**Properties.** Where a property has several parts, they are named
definitions joined in one (`FollowsUse` is `PlaysWhenUsed` and `StopsWhenIdle`).
The modules of components also have a type invariant, `TypeOK` (with a prefix where
modules are proved about side by side). Those of the modules with proofs are proved,
but for that of `HALDevice`, of which the proofs need a part; it and that of
`PreferredDevices` hold on the instances above, but are not part of the runs.

**Side by side.** `MCTaskQueue` and `MCIOProcs` put modules that share no
variables next to each other. `part` says which of them an execution is of, and
the others stand still: the states are the sum and not the product.

**Bounds.** `MaxEvents`, `MaxOps`, `MaxChanges`, `MaxUser` and `MaxCalls` bound
what the user or the host does; `MaxSignals` the count of a semaphore (a caller
that would exceed it waits in the model; counts above the number of pending
tasks add only spurious rounds of the worker). Two of each kind are enough for
the interactions here: two callers to contend for the mutex, two clients to share a process or a bundle ID, a task behind
another in a batch, an app whose route is edited while another's request is
applied, a device kept while the other goes, two threads that both read the head
of a stack before one changes it, two slots so that the writer can come round
while the reader copies. Two changes of the output device set one and then fail
to set, or revert, another; one failure is the hazard in question, as nothing
promises anything after two. With a single notice of each kind in flight and
those beyond it merged, every handler still runs after the last change it is told
of. Four operations of `PlayThrough` reach "start, stop, change the device, start
again", after which it is in a state it was in before except for the devices; in
the rough environment, where the device that goes may be the one in use or the next, what is to end is the operation or wait in progress; in the refusing one two are
a start that fails or is followed by a Stop or a change of device whose calls are refused; three of
the late one are a start, a change of device whose Stop gives up on a call, and the
Stop that the call then answers. Three
events of `XPCHelper` are a crash, a relaunch and a restart of the helper, of
which each can fall into the handling of another. Five events of
`PreferredDevices` are plug, pick, quit or crash, open, unplug. Eight of
`DoNotDisturb` are a slider, the switch, an app's quit and launch, a crash within a pass
and the switch again, with coreaudiod's restart or another app's launch anywhere. The
user's one change in `AutoPause` is to start the player again while a queue is about
to unpause it. In `HALDevice`
removals, IO and configuration changes are not counted: two calls are one that is
under way and one that crosses it. Volumes are only the ends of the range in its
state, as the host does not tell them apart. The clock's rates are no whole
number of ticks per period, and 12 ticks have more periods than the remainder
needs to come round. The invariants with proofs hold for all constants,
so their instances are small.

**Deadlock** is checked for `client_map`, `device_manager` and `auto_pause`. The
others can stop rightly: the task queue and the logger are destroyed, the bound on
events, operations or calls is reached.

**Fairness.** It is never assumed of anyone's decision to call, press, plug or
launch something.
* `ClientMap`: a thread that holds a mutex goes on. The worker is strongly fair
  in taking `mMapsMutex`: IO threads take it once per IO cycle for one lookup
  and spend the rest of the cycle without it.
* `TaskQueue`: a caller that has begun goes on, the workers run, timed waits end.
* `OutputRouting`: a dispatch queue runs its blocks; the HAL calls a listener it
  owes a call.
* `PlayThrough`: the operation in progress and IO calls go on; a waiting thread's
  loop, which re-enters the wait while the state is Starting, comes to its
  overall time-out (`kStartIOTimeoutNsec`): strong fairness of `GiveUp`.
* `DeviceManager`: whoever holds `stateLock` goes on when the HAL lets it, the
  threads that wait for the lock get it in turn, requests arrive, time passes.
  The fairness is that of the lot, not of each thread, and neither a client's
  IO nor the driver's time-out (`XPCTimeout`) is relied on.
* `XPCHelper`: each process handles what it was sent while it lives.
* `AutoPause`: IO cycles, the listener queue and the pause queue go on; delays end.
* `Controls`: the host performs or aborts what it was asked for and updates its
  list, blocks and listeners run.
* `PreferredDevices`: the handler, the toggling's blocks and the menu's block
  run.
* `RTLogger`: its thread, the destructor, and a caller that has begun.
* `HALDevice`: blocks run, the host reads what it is told of, calls and IO
  operations go on; strong fairness for taking `mIOMutex`, which the IO thread
  frees in every cycle, and for configuration changes, which need IO to be
  stopped.
* `AtomicStack`, `Mutex`, `RingBuffer`, `LoopbackClock`, `DoNotDisturb`: none. That
  a pthread mutex is given to those who wait is assumed where it is used, not shown.

**Environments and excuses.** In `PlayThrough`, `Timely` says that IO threads beat
Stop's half-second wait and devices stay; the code gives the handshake up on
purpose when the wait times out. `Undisturbed` adds that no Start has failed half
way (`aborted`): see 5.3. That nothing is left running unless playthrough says it
is playing, and that the buffer outlives its users, is claimed of every environment,
the former with two exceptions: what the HAL refused to stop (`refused`), and where a call that Stop has given up on has answered a later Stop
(`mistaken`): 5.3 again.
In `HALDevice`, a request for what an instance has is ignored even if another change is
pending (`ignored`, 5.8), `DebugLogging` is announced on one instance (`announced`), and
two lists are one item shorter than announced (`CutShort`), 5.12.
`overlooked`, `unattended`, `TogglesForever`, `disturbed`, `unhandled`, `skipped`, `aborted` and `strange` of
other modules name in the same way what the code does not handle;
each is in section 5.

`device_manager` makes two more assumptions about time. While a second passes
(`Tick`), every client that is doing IO does some, and a client in StartIO comes
out of it: a start that takes longer than the two seconds a client counts as
running could be stopped by `StopIfIdle`. And the HAL calls StartIO and StopIO for
each client. A comment (`WC_Clients.h:153`) says that it calls them for the first
and the last only; then a client that starts while playthrough is being stopped
announces itself to nobody, as with `HelperWorks` FALSE (5.4).

## 4. Proofs

Each theorem holds for every value of its module's constants that the module's
named assumptions allow.

| Module | Theorem | Property |
|---|---|---|
| `ClientMapProofs` | `TypeCorrect` | `TypeOK` |
| | `MapsIdentical` | `MapsIdenticalWhenUnlocked` |
| | `PointersAreLive` | `ListedClientsLive` |
| | `SwapExclusive` | `SwapExcludesEverybody`: nobody else is in the maps while the worker swaps them |
| | `Refinement` | `ImplementsRegistry`: every behaviour of the shadow-map protocol is one of the abstract registry |
| `TaskQueueProofs` | `TypeCorrect` | `TypeOK` |
| | `NoWakeupLost` | `NoLostWakeup`: a worker does not sleep on tasks unless it is about to be woken |
| | `OnePlace` | `TasksInOnePlace` |
| | `Implements` | `ImplementsOrder` |
| `OutputRoutingProofs` | `TypeCorrect` | `TypeOK` |
| | `TapsNotSilent` | `NoSilentTap` |
| | `SettledAgrees` | `RoutedIsPersisted`, the safety part of `SettlesAsPersisted` |
| | `KeptPlayOn` | `KeptOutputsPlayOn`, an action property |
| | `ControlsTypeCorrect` | `ControlsTypeOK` |
| | `NullStays` | `NullStaysWhileDefault`, an action property |
| | `NullDeviceSeenTo` | `NullHidden`, the safety part of `NullDeviceHiddenAgain` |
| | `ControlsMatched` | `ControlsMatch`, the safety part of `ControlsFollowOutput` |
| | `ValuesAgree` | `ValuesEqual`, the safety part of `ValuesConverge` |
| `PlayThroughProofs` | `TypeCorrect` | `TypeOK` |
| | `PlaysWhatItSays` | `PlayingIsCalled`: what playthrough says of itself is so |
| | `CallsAreServed` | `CallsFindTheirs`: no IO call meets a buffer or an object that is gone, and the asserts hold |
| `DeviceManagerProofs` | `TypeCorrect` | `TypeOK` |
| | `ChangesAgree` | `Agreement`: a change that did not fail has reached control sync and both playthroughs |
| `AppProofs` | `TypeCorrect` | `TypeOK` of auto-pause |
| | `NeverUnpausesAnothersPause` | `UnpausesOnlyWhatItPaused`, whichever delays are 0 |
| | `HelperTypeCorrect` | `HelperTypeOK` |
| | `CallsGetThrough` | `CallGetsThrough`: a driver's call reaches an app that stays registered |
| `PartsProofs` | `TypeCorrect` | `TypeOK` of the logger |
| | `NoMessageForgotten` | the logging thread does not sleep on a message |
| | `LoggedWhole` | messages of one thread are logged whole (`WholeMessages` of the run) |
| | `FramesStayHeld` | `FramesHeld`: the ring buffer holds what its bounds say, and a reader that is not lapped gets whole bounds |
| | `HeadStaysInBuffer` | `HeadInBuffer`: playthrough fetches from a time that is in the buffer |
| | `KeepsTime` | `ClockKeepsTime` |
| | `MutexTypeCorrect` | `MutexTypeOK` |
| | `OneHolds` | one thread at a time holds the mutex |
| | `ImplementsExclusion` | scopes of a `CAMutex` implement `MutualExclusion` (`MutexExcludes` of the run) |
| | `DNDTypeCorrect` | `DNDTypeOK` |
| | `MutesWhileOn` | `MutedWhileOn`, the first half of the next |
| | `VolumesComeBack` | `VolumesAsSwitched`: who should be silent is, the others have their volumes, with the exceptions of 5.7 |
| `HALDeviceProofs` | `MapHeldByOne` | `EQMapHeldByOne`: no client is put into the map of equalisers, or taken out, under an IO thread that looks one up |
| | `PlayersStayMarked` | `PlayersMarked`, a part of `HostServed` |
| | `HostKnows` | `HostUpToDate`, a part of `HostServed`: no change is lost on its way to the host (`DebugLogging` is compared on the instance it was announced on), and the rate and controls are those last accepted as pending, or last asked for if no request was ignored |
| | `ObjectsStayServed` | every property of every object in every scope is answered, in the size announced but for two lists that are one item shorter (the output scope of `OwnedObjects`, the Null Device's input `Streams`); the lists of objects name active ones of the owner once each |
| | `AppStaysServed` | `AppServed`, a part of `HostServed`: BGMApp's calls are answered, in the middle of a change too |
| | `HostIsServed` | `HostServed`, from `VolumesConvert` and `VolumesEnd` |

`Invariance`, with a prefix where a proof module is about several, is the theorem that
the inductive invariant holds.

**ClientMap.** Assumptions: `OwnersAssumption` (the owners of a mutex are told
apart) and those of `ClientTypes` (defaults are among the values, the "absent"
values are not). The properties are not inductive. `MapsIdenticalWhenUnlocked`
says nothing of what the maps are *while* the mutex is held, and that is what
makes them identical again. The strengthening, `IInv`, has three parts: types;
`Mutexes` (who holds which mutex at each place of a call, so at most one caller is
not idle); and `Phases`: before the first half the two sides are equal and sound,
after it the shadow side is the main side with the call half applied (`Halfway`),
after the swap the same with the sides exchanged. `Halfway` is not the same
relation before and after for `RemoveClient`, which erases one of its lists on the
other side. "Sound" (`Good`) is that listed pointers lead to live clients of the
right process or bundle ID. The proof has a lemma per group of actions:
`FirstHalf`, `SwapTurns`, `SecondHalf` and the steps that leave the maps alone. For
`Refinement`, `Answers` adds what a caller that has queued its swap will be told,
since the abstract call takes effect at the swap.

**TaskQueue.** A worker's batch and its stack are one line,
`Line(q) == batch[q] \o tasks[q]`: fetching moves tasks within it. The invariant
says of the line that what was fetched is what the worker's place in the loop
needs (`Fetched`), that it has no repetitions and no task is in both (`Once`), that
synchronous tasks on it are those of callers inside `QueueSync` with the right
answer (`Owned`), that asynchronous ones are in no other list (`Objects`), that
whoever may be asleep has been or will be signalled (`Signalled`, `SignalsFit`),
and what is left when workers have stopped (`Stopping`). For the refinement,
`StateOf` a task is worked out from two predicates, whether it is in line
(`InLine`) and whether somebody still has it (`Used`); a lemma per kind of
abstract step (`MapsToAdd`, `MapsToProcess`, `MapsToRelease`, `MapsToStutter`) turns
what a step does to these into the abstract step.

**OutputRouting.** What is persisted and what plays differ while blocks are
queued. `Agree` says of every app that no request is waiting for or being applied to
that whatever it plays to will be part of what is persisted once the last reconcile
block of that app on the main queue has run (`AgreesIn`); with the queues empty it is
the property.
`HasTap`, `HasOutput` and `Live` relate outputs, taps and connected devices. `SeenTo` follows a
vanished device from the HAL's notice through the listener's block to the request that
block makes, or to `overlooked`.

**RTLogger.** `NoneForgotten` says where a set message has been seen to: the
logging thread has still to come by it, or a signal or a caller's wake is on its
way. `Stores`, `Flagged` and `Reads` are the protocol of the flag: which plain
variables a caller has stored, that they do not change while it is set, and
that what was read of them is of one call.

**Mutex.** `Owner` relates `mOwner` to the holder, which differ for one step on
either side of the lock; `Nested` is the discipline of scopes, a sequence per
thread; `Standings` relates the two. Each step is then a stutter or a Wait, Acquire
or Release of `MutualExclusion`.

**AutoPause.** One queue pauses and one unpauses, which are two if one delay is 0
and the other not (`QueuesKeepToTheirs`). While `wePaused` is set, or a queue is about
to set it or to unpause, the player is owed an unpause, or a queue has paused it while
the other was about to unpause it (`FlagIsOwed`, with the ghost `crossed`). That needs
two queues (`CrossingNeedsTwo`), so with both delays or none the exception of
`UnpausesOnlyWhatItPaused` is empty; which delays are used is no assumption.

**XPCHelper.** Assumption: `XPCHelperAssumption`. While the app is registered and alive
the helper's endpoint is `"current"`, and the connection the helper makes from it is the
second try's: `Served` says so of every point of the call, so only a crash, a restart of the
helper or a reconnection ends `served`. `Backlog` bounds what a connection carries: a
registration, what follows it, and one message more after an interruption, so at most
three.

**DeviceManager.** Assumption: `ManagerAssumption`. `Follows` is the order in which the steps of whoever
holds `stateLock` can come, of a change of the output device and of a handler; `InOrder` says it of
all of `todo`, which a handler may lengthen in the middle (a playthrough that is
started may have to look whether it is idle). The next step then says how far a change
has come: `Progress` has for each step what is on the new device already. A failure ends
a change without a result or replaces it by the revert to the previous device, and
neither has the result that `Agreement` is about. `Counted`, that a playthrough plays exactly while the
driver counts the app among the device's clients, needs that starting, stopping and
attaching keep the two together, and no more.

**DoNotDisturb.** No call is assumed to succeed and no crash excluded. A pass persists
at its end only, so a crash within one makes `lost` and `strange` of the apps whose entry
differs from the persisted one, or is about to be dropped (`Unsaved`); a volume that could
not be set back is dropped from the saved ones and `lost` too (5.7). `Behind` says that the app's list of running apps differs
from what runs by the notices under way; `Persisted`, what the settings have of the
entries of muted apps; `Passes`, that off means no entries except of apps a pass has still
to come to; `Came`, that an app a pass has come to is muted and has an entry, or is spared and
has none; `Kept`, that an app with an entry is at the minimum and the entry is the
volume it had, and that one without an entry has that volume, which across a
crash is said of the entries in the settings (`Saved`). `Passes` and the last half of
`Kept` leave out the apps in `lost`.

**Controls.** Assumption: `ControlsAssumption`. The properties of the run are leads-to formulas and one action
property; the theorems are the action property and, of the others, that when nothing is under way the
goal has been reached. `Dispatched` is the heart of the toggling: whatever crossed
what, at each stage of it the block of the next stage is on its queue, so the stage cannot be
where it ends. `ToggledOnce` says when the Null Device is active,
if two togglings have not overlapped. Both name the refused call that is the exception at the
place where the code swallows it, so that `NullDeviceSeenTo` has to find, of every state at rest,
which of them it was. `Asked` relates the requested configuration change to
what the current output device wants; `Copied` says that a value
copied before its control was enabled is equal as well, for which it has to say that a control
the virtual device lacks is not about to come, or the value was skipped (5.8).

**HALDevice.** Assumption: `HALAssumption` (the app and the player are among the clients, no call is `NoCall`).
The map of equalisers is guarded by the IO mutex, and what is in it by the state
mutex, which a call takes first and keeps. `Locked` says which of the two a call holds
at each place, hence that a device has one such call; `MapMatches` says by which client
the map differs from the device's clients until the call has changed it. `Types` has
only the variables these are about. `PlayersStayMarked` needs nothing of this: it is
inductive with the types of its three variables, since setting one ID unsets the other.

`HostKnows` is about the driver and the host as they run beside each other. A change is made
in one step, announced on a queue in the same one or a later one, taken off the queue in
another and read by the host in two more, with other changes between any of these, so the
property says nothing while they go on. `HostInv` does. `Followed` says of each watched
property that a block on the queue, the host's list of what to read or a call that has
still to announce it is `Coming`; or else that it is `Fresh`: the host has its value, or
has asked for its size and that size is still right. Two properties are looser because the
code is: the flag of debug logging is one for the process and announced on one device
(5.12), so it is of that device (`announced`) that it is followed; of clients' settings only the part about
clients that have not gone counts, for which `Newcomers` says that a client
that is added has none. `RateAsked` and `ControlsAsked` say of what is pending that it
is in force, was refused or is `Under` way; `LastAsked` says that what is pending is what
was last asked for, unless a request was ignored (5.8). The parts about types say what the
steps need and no more. The lemma `Answers` ties it to the driver's getters, which
through their tables of sizes and values give what the state says. `HostKnows` follows since when it is `Quiet` nothing is coming or under way.

`ObjectsStayServed` and `AppStaysServed` are about the tables of properties, for which
almost any state will do: `Loaded` (the instances are active; the list of devices that
the host knows has devices only) is all that the steps must keep. `AllServed` goes
through the objects and their properties, `AllNamed` through the lists of objects,
`AllDiscoverable` and `AllCustom` say that they leave nothing out. `FoundIsRead` carries this over to
BGMApp, which sees the driver through the HAL: a property is read without an error exactly if
the library finds it, whichever controls the host believes the device to have at the time.
`AllAsksAnswered` and `AllCallsAnswered` are then one step for each thing BGMApp asks.
For `HostIsServed` there is `AtEnds`: levels and apps' volumes are among those that the
model's clients set, the ends of a range where what is set lies beyond it. That a conversion gives
those ends, and that the scales agree, is arithmetic with powers and with folds over the pieces of a curve,
of which the provers have no theory. These are the two hypotheses, `VolumesEnd` and
`VolumesConvert`; they have no variables and no parameters, only the two curves in use, and
TLC evaluates both as parts of `HostServed` in `hal_device`.

**PlayThrough.** Assumption: `DeviceAssumption` (the input is none of the outputs).
The invariant has a part for each thing that a step of an operation leaves to the
next: `InOrder`, which steps can follow which, so that `pc`, the next one, says
enough; `Flags`, `mActive` and `mPlayingThrough` at each; `States`, the IO states at
each; `Stopped`, that a state of Stopped means that the HAL has been told, or has refused;
`Buffer`. None of these assumes anything of IO threads. `InTime` does: `Clean` says
of a side that is not playing that its IOProc is in the middle of nothing, and follows
the handshake of Stop and the IOProc through its three stages. After a Start that failed
half way this is no longer so of the input side, whose call may be left over; but
that call has not seen the "Stopping" of the next Stop (`LeftOver`), so the compare-and-exchange
does not mistake it. The output side is started last, and stays clean. Any step of an IOProc
is an `IOThreadStep`, which is why the parts that are not about time are shown once
for all six of them.

**AudioCopy.** Assumptions: `AudioCopyAssumption`, `RingBufferAssumption` (a queue of
bounds has two slots or more, an IO cycle fits the buffer). The queue of bounds is read while it is written,
so the properties are about what a reader that was *not* lapped has: `PairRead` says that
each of the words it has read so far is the slot's as it was published, as long as the
counter has not come round. `Publishing` says that what a call of Store is about to publish
it can already vouch for, `Overwriting` and `Storing` which frames it is
replacing meanwhile and that the bounds have been narrowed before; `UnderMutex` that with
the IO mutex none of this overlaps; `Playing` relates playthrough's offset to the bounds it
was computed from. The places of frames are remainders, and `ModApart` (frames less than the capacity
apart have different places) is the lemma everything rests on.

**LoopbackClock.** Assumption: `LoopbackClockAssumption`, which includes that a
period takes a tick or more; one of `WC_Device` takes 0.37 s. Cutting a time to
whole ticks is division, and the lemmas on it are what the proof is made of: two
quotients add up to at most the quotient of the sum (`DivAdds`), so a host that asks
again within a period has missed the start of one period at most, and one step of
the clock is enough. A clock that added whole ticks
to its last answer would have no such bound; it is the run's mutant.

Not proved, and why: liveness (`CallsReturn`, `TasksComplete`, `<>Settled`, ...)
and anything with ENABLED is out of the prover's reach and is model-checked; where a
liveness property says that something settles, what it settles as is proved if it is
in the table. `PreferredDevices` folds over sequences and `AtomicStack` maps a chain of
links to a sequence, which would need induction over data. No module uses
RECURSIVE operators. Of `HostServed`, the arithmetic of `VolumesConvert` and `VolumesEnd`
is model-checked only, as said above.

## 5. Where the code does something else than it says

These were met while modelling, the larger ones with TLC's help: each is the
counterexample that a property had before it was restricted to what the code
does promise. They have no run of their own.

5.1 *Clients by PID.* `WC_ClientMap::RemoveClient` erases the whole list of the
removed client's PID and bundle ID. When a process has two clients and closes one,
the other can no longer be found: `SetClientsRelativeVolume` returns as though
there was no such client, and its volume stays as it is. `ClientRegistry` has
this behaviour.

5.2 *Unplugged devices.* The comments in `WCAppOutputRoutingController` promise
that an unplugged device stays assigned and is used again when it returns. The
code writes the reduced set to the user defaults.

5.3 *A failed Start.* When starting the output IOProc fails, `WCPlayThrough::Start`
stops the input IOProc from outside. A call of it in progress, which finds it
"Stopped", stops it once more, after the next Start has started it. Then
playthrough believes it is playing and its input side is never called; an IOProc
may also find itself called in state Stopped (`WCPlayThrough.cpp:1071`), and be
inside a call when the object is destroyed. The same compare-and-exchange has the
ABA problem its comment (`WCPlayThrough.cpp:1107`) names, when Stop times out:
a call that has stopped its IOProc, and not yet said so, before one Stop can say so to
the next, which then leaves the IOProc running; or when a device dies between being
found alive and being asked for its buffer size.
A StopIOProc that throws is swallowed wherever it is made from outside an IOProc: after a Start that
failed (`WCPlayThrough.cpp:502-507`) and at the end of Stop (`:724-728`, `:736-740`). The
state is Stopped and playthrough says it is not playing, but the HAL goes on calling the IOProc
until a call finds that state and stops itself. An AudioDeviceDestroyIOProcID that
fails is swallowed too and the ID reset (`:364-368`), so that an IOProc still called
can be stopped by nobody else; its calls look at whichever ID and device have come
in its place.

5.4 *Reverting.* A new output device can fail before it is recorded as
`outputDevice`, with playthrough already deactivated or on the new device. The
revert then finds that the device to revert to is the current one and does
nothing, without an error (`WCAudioDeviceManager.mm:377`). The user hears nothing
until a client starts, and then hears the device that was refused, while the menu
shows the other; choosing the device shown changes nothing for the same reason.
With `HelperWorks` FALSE, `PlaysWhenUsed` does not hold either: a client that
starts while playthrough is being stopped causes no notification, although the
comment at `WCAudioDeviceManager.mm:597` says that the notification alone is enough.

5.5 *Clients and tasks.*
* a new client is given the volume its application's last client was *added*
  with, not the one set since: the past settings are written by `AddClient` only
  (`WC_ClientMap.cpp:63`, `:68`, against `WC_ClientMap.h:54-56`, `:195-196`);
* "Join the worker threads" (`WC_TaskQueue.cpp:100`): the destructor goes on to
  destroy the semaphores when the stop tasks are marked complete, which is before
  a worker's last `semaphore_signal_all`;
* `pop_atomic` puts older items back on top of newer ones; only the queue's
  destructor uses it. `pop_atomic_single_reader` has an ABA problem and is not used;
* `mOwner` of `CAMutex` is read without the mutex, formally a data race. It is
  harmless because only a thread's own write makes it equal to that thread.

5.6 *Auto-pause.* With one delay of zero and the other not (they are set
independently, `WCUserDefaults.m:148-172`), one queue pauses the player and the other
unpauses it, with nothing between them; the run has all four pairs, and names three
consequences. A queue can pause the player, which the user has started again, after the
other has cleared `wePaused` and before it calls `unpause`: the flag stays set for a
player that plays, and one that the user then pauses is unpaused with the next silence
(`crossed`). Without the pause delay, the listener can find `wePaused` still set by an
unpause block that has just found the device silent, does nothing, and the player plays
on under the other app (`PausesForAudio` excludes this pair). Without the unpause delay,
the listener can find it not yet set by a pause block that is waiting for the player's
answer, and the music stays paused (`ResumesUnlessReset` excludes this pair). Switching
auto-pause off while the player is paused by it leaves it paused, and
so the music does not come back (`README.md:69-70`, `WCAutoPauseMusic.mm:121-124`).
An app that the user muted counts as audible. The documentation of the audible
state (`BGM_Types.h:105-110`) speaks of a silent period that the code does not
wait for when the music player plays.

5.7 *Do not disturb.*
* an app that is launched while it is on is muted only if it was a client
  when the list was updated (`WCDoNotDisturb.mm:187` against `README.md:84-88`);
* a crash between muting and persisting, or in the middle of restoring, leaves apps
  muted, and the next launch takes the minimum for the volume they had, or waits with
  the rest of the restoring until the switch is moved again; a restore that fails drops
  the saved volume (`:203-207`). Both are `lost`, the exception of `VolumesBack`, until the user
  moves the slider or the app becomes a client anew;
* an app whose muting failed keeps its entry, if the failing call was the one that mutes,
  and is not muted by later passes (`strange`, the exception of `MutedWhileOn`);
* an app that quits and is relaunched before the list is updated can lose its volume
  when the switch is moved at that moment; an app whose client goes and comes
  back, or coreaudiod's restart, is unmuted until the next pass; a slider moved
  while an app is muted is overwritten.

5.8 *Controls.*
* values are copied to controls the virtual device does not have yet
  (`WCDeviceControlSync.cpp:89`), so a control that is enabled by the same change is
  not initialised;
* `RequestEnabledControls` and `RequestSampleRate` compare with the current state
  and not with the pending one: a request that undoes one under way is ignored, that
  of `RemoveClient` too, and a change that was aborted is applied with a later one;
* setting the default device back overwrites a choice made meanwhile; two
  togglings at once can leave the Null Device visible; a crash in the middle leaves
  it the default;
* the toggling swallows every failure. If BGMDevice cannot be made the default
  again (`WCDeviceControlsList.cpp:474-478`) the Null Device is disabled all the same,
  while it is the default. If the Null Device cannot be made the default
  (`:442-446`) no further block is dispatched and it stays active; if it cannot be
  disabled (`:521-526`) it stays active, and the default as well after the former.
  If the default device cannot be read (`:265-268`) it is taken to be BGMDevice, and
  a toggling that begins on that guess while an earlier one has the Null Device
  as the default leaves it so: the earlier one's block finds another state and no
  notification comes. If the Null Device cannot be enabled (`:285-291`) the state is
  reset, which stops an earlier toggling half way in the same manner.

5.9 *Preferred devices.*
* `findPreferredDevice` may return the Null Device while that is the default
  (`WCPreferredOutputDevices.mm:298`, `BGMAudioDevice.cpp:353-355`, against
  `WCPreferredOutputDevices.h:53-54`), and the search by latency as well; setting it
  fails, and with the toggling this can go round for ever;
* picking a device that is on the list already duplicates it and pushes another out
  (`WCPreferredOutputDevices.mm:455-489`); two picks at once are set in either order
  (`WCOutputDeviceMenuSection.mm:394`);
* a default set in macOS is noticed only at the next change of the device list, and
  loses to an older pick in the menu after a crash; a pick made while Wavecraft is not
  the default is forgotten at the next launch; a list that cannot be read, and a
  crash, leave an empty one; the launch may set a device found before the handler
  found a newer one.

5.10 *The helper.* After a crash of the helper and a new registration the output
device is not sent again (against `BGMXPCProtocols.h:51-57`). A manual reconnection
(`WCTroubleshootMenu.mm:293`) lets the old connection's invalidation handler clear
the new connection (`WCXPCListener.mm:146`) and start the retry timer. If it does so before the
reply to the new registration, the reply stops the timer and sets the handler that
retries on no connection at all (`:144`). The new connection, which the device manager still
holds, then recovers from an interruption of the helper, but not when the helper's service is
invalidated: BGMApp does not register again, for good or until the user reconnects
once more. This is the exception of `Reconnects` (`unattended`). The
invalidation handler of an old connection clears whatever connection is stored, so
that the check that the app has not reconnected (`WCXPCHelperService.mm:136`) can
find none and give the default device back although it has. The other way round, a
connection the helper has made itself counts as one when it is dead.

5.11 *Logging and audio buffers.*
* a message that both IOProcs log can be torn, since each finds the flag reset
  and both store (`WCPlayThroughRTLogger.cpp:262`; `WCPlayThrough.cpp:881`, `:1019`); a
  message pending when the destructor begins is dropped; an error code stored between
  reading the last one and resetting it is erased unread (`WCPlayThroughRTLogger.cpp:433`,
  `:459`): the exception of `MessagesLogged`, which `toLog` leaves out by name;
* `CARingBuffer::GetTimeBounds` accepts bounds of two different stores if the writer
  comes round the whole queue meanwhile; `Fetch` reports the size without the
  silence it put in front;
* the comment at `WCPlayThrough.cpp:963-966` does not hold when the read head has
  drifted to the beginning of the buffer;
* a device that dies during an IO call lets the call set `mLastOutputSampleTime`
  after Stop has reset it (`WCPlayThrough.cpp:1024`); Stop and a failed Start signal
  the threads that wait for the output device, which then report that it has
  started (`:655`);
* `WC_Device::StartIO` resets the clock and not the loopback buffer, so that a
  client can record up to 0.37 s of an earlier time; `InitLoopback` reallocates that
  buffer under the state mutex only; `GetZeroTimeStamp` advances by one period per call,
  and so falls behind for a host that asks less often.

5.12 *The HAL interface.*
* an instance's list of owned objects is announced with another size than it is
  given in for the output scope, where it leaves out the last control (`WC_Device.cpp:418-421`, `:621`); the Null Device
  owns a stream that its list leaves out, and announces a stream for the input scope
  that it does not give; the UI-sounds instance lists object 0 when its mute control,
  which has no ID, is enabled;
* no notification is sent when the Null Device is activated, when clients with
  volumes or equalisers go, or for entries that
  `SetClientsRelativeVolumes` has applied before it throws (`WC_Clients.cpp:365`),
  where an entry with a bundle ID only leaves `theAppPID` uninitialised; debug logging
  is one switch for the process and announced on one device;
* the filters should be set up again when the sample rate changes
  (`WC_Biquad.h:152-154`), and `ApplyClientEQ` looks at the gains only
  (`WC_Device.cpp:1856`);
* setting the music player by one kind of ID clears the other, and setting
  PID 0 when it was set by bundle ID changes nothing; both streams are constructed
  with `inIsInput` false; the getters of names check for room for an `AudioObjectID`
  and write a `CFStringRef`; a stream reads the sample rate without its mutex;
  `BGM_Release` compares the count with `UINT32_MAX`;
* in the library: `IsValidNominalSampleRate` compares with the minimum twice,
  `AddRange` misses some overlaps, an amplitude gain is 0 for raw volumes up to 9,
  the average volume of `BGMAudioDevice` divides by all channels.

5.13 *Routing and starting.*
* a block posted by an earlier request overwrites the choice made since, until
  the later request is applied (`WCAppOutputRoutingController.h:83`);
* an output to an unplugged device stays in its tap, and an app that has no other one
  stays muted until the user chooses again, if the settings name no unconnected device when
  the listener's block looks there (`WCAppOutputRoutingController.mm:148`): because a
  reconciliation has already dropped the device from them, or because it is back, as
  another audio object. The check at the end of a request (`:466`) does not find
  such a tap empty. This is the exception of `NoSilentTap` (`overlooked`);
* choosing "Default" erases the tap without reconciling, so that a block posted by
  an earlier request writes the earlier devices back: the menu shows a route that
  does not exist, and it is restored at the next launch
  (`WCAppOutputRoutingController.mm:373`);
* before macOS 11, a request whose client has gone by the time it arrives starts
  playthrough, and the path with the lock, unlike the dispatched one, does not
  look whether it is idle: it plays on until the next client
  (`WCAudioDeviceManager.mm:416`); `StopsWhenIdle` is about macOS 11 and later.

## 6. Plan

Done: the driver's clients, tasks, audible state, clock, buffers and HAL
interface; the app's playthrough, logger, device manager, routing, controls,
auto-pause, do-not-disturb and preferred devices; the helper; proofs about all of these
but `PreferredDevices` and `AtomicStack`.

What would add most next:
1. the refinement of `AtomicSequence` by `AtomicStack`, from an invariant that names the
   sequence a chain of links stands for;
2. data sources in `DeviceManager` and `PreferredDevices`, and the app's notices to
   the helper and the menus when the output device changes;
3. `WCTapRoute`'s muting while a tap starts.

## 7. Not modelled

Samples: mixing, equalising and converting audio is floating-point arithmetic on
buffers; the models say which frames are read and written and with which
settings. The user interface, the preferences' views, hotkeys and scripting forward
events to what is modelled. The music players' scripting interfaces and the
connection to one of them have no protocol of their own. Installers and build
scripts run once. Of the driver: COM reference counting, the checks of arguments,
and creating and destroying devices, which it does not support. Of PublicUtility:
the wrappers of Core Foundation types, debugging and host time. Of the app's
`BGMAudioDevice`: the virtual main volume, which sets both channels alike and restores the
balance.

Core Audio itself is modelled by what the code relies on: IOProcs are
called while started and one at a time per device, property listeners are called
after a change, calls may fail and devices may vanish. Mutexes are single steps
wherever they are used; `Mutex` says why they may be. Each part that is left out is
listed in `PROJECT.json` with its reason.

---------------------------- MODULE OutputRouting ----------------------------
(* WCAppOutputRoutingController and WCTapRoute: routing single apps to output *)
(* devices other than Wavecraft's own.                                        *)
(*                                                                            *)
(* The main thread keeps what the user asked for in the user defaults and     *)
(* queues a request; the serial routing queue creates and changes the taps,   *)
(* which can block and fail, and posts what really runs back to the main      *)
(* queue, to be written over what was asked for.  Core Audio tells a listener *)
(* on a third queue when devices come and go.  A device that was unplugged    *)
(* and plugged in again is a new audio object: an output that plays to the    *)
(* old one is dead.  Lists of devices are sets.                               *)
EXTENDS Naturals, Sequences, SequencesExt

CONSTANTS
    App, Device,
    Unpluggable,     \* devices that can come and go
    Restarts,        \* whether Wavecraft may be quit and started again
    MaxEvents,       \* bound on the number of steps of the user, apps and devices
    NoJob

ASSUME UnpluggableAssumption == Unpluggable \subseteq Device /\ Restarts \in BOOLEAN

ASSUME BoundAssumption ==
    IsFiniteSet(App) /\ MaxEvents \in Nat /\ NoJob \notin [app : App, toAdd : SUBSET Device]

VARIABLES
    persisted,       \* userDefaults.outputRouteDeviceUIDsByBundleID
    connected,       \* devices the HAL lists
    notified,        \* the HAL owes the device list listener a call
    tapped,          \* apps with a WCTapRoute in `routes`
    outputs, dead,   \* its outputs on live and on vanished device objects
    overlooked,      \* ghost: apps with a vanished output that nothing will remove
    mainQueue,       \* blocks dispatched to the main queue
    routingQueue,    \* requests dispatched to routingQueue
    job,             \* the request being applied, outputs still to be added
    events

route == <<tapped, outputs, dead, overlooked>>
devices == <<connected, notified>>
queues == <<mainQueue, routingQueue, job>>
vars == <<persisted, devices, route, queues, events>>

Request == [app : App, devices : SUBSET Device]
Block == [kind : {"reconcile"}, app : App, devices : SUBSET Device]
         \cup [kind : {"devicesChanged"}]

(* The last conjunct: outputs are held by a WCTapRoute.                       *)
TypeOK ==
    /\ persisted \in [App -> SUBSET Device]
    /\ connected \subseteq Device /\ notified \in BOOLEAN
    /\ tapped \subseteq App
    /\ outputs \in [App -> SUBSET Device] /\ dead \in [App -> SUBSET Device]
    /\ overlooked \subseteq App
    /\ mainQueue \in Seq(Block) /\ routingQueue \in Seq(Request)
    /\ job \in [app : App, toAdd : SUBSET Device] \cup {NoJob}
    /\ events \in 0..MaxEvents
    /\ \A a \in App \ tapped : outputs[a] = {} /\ dead[a] = {}

Nothing == [a \in App |-> {}]

Init ==
    /\ persisted = Nothing /\ connected = Device /\ notified = FALSE
    /\ tapped = {} /\ outputs = Nothing /\ dead = Nothing /\ overlooked = {}
    /\ mainQueue = <<>> /\ routingQueue = <<>> /\ job = NoJob
    /\ events = 0

Happens == events < MaxEvents /\ events' = events + 1
-----------------------------------------------------------------------------
(* The main thread.                                                          *)

(* setOutputOverrideDeviceUIDs: the choice is persisted at once, the route    *)
(* follows later.                                                             *)
SetOutputOverride(a, D) ==
    /\ persisted' = [persisted EXCEPT ![a] = D]
    /\ routingQueue' = Append(routingQueue, [app |-> a, devices |-> D])

(* The menu offers connected devices.                                        *)
UserToggled(a, d) ==
    /\ Happens /\ d \in connected
    /\ SetOutputOverride(a, IF d \in persisted[a] THEN persisted[a] \ {d}
                                                   ELSE persisted[a] \cup {d})
    /\ UNCHANGED <<devices, route, mainQueue, job>>

(* "Default" in the menu is the empty set; a script gives any devices.       *)
SetOutputDevices(a, D) ==
    /\ Happens /\ D \subseteq connected
    /\ SetOutputOverride(a, D)
    /\ UNCHANGED <<devices, route, mainQueue, job>>

(* One request for each app of S.                                            *)
Requests(S, D) == LET order == SetToSeq(S) IN
    [i \in 1..Len(order) |-> [app |-> order[i], devices |-> D[order[i]]]]

Routed == {a \in App : persisted[a] # {}}

RemoveAllOutputOverrides ==
    /\ Happens
    /\ persisted' = Nothing
    /\ routingQueue' = routingQueue \o Requests(Routed, Nothing)
    /\ UNCHANGED <<devices, route, mainQueue, job>>

(* runningApplications: an app the user has routed appears.                  *)
AppLaunches(a) ==
    /\ Happens /\ a \in Routed
    /\ routingQueue' = routingQueue \o Requests({a}, persisted)
    /\ UNCHANGED <<persisted, devices, route, mainQueue, job>>

(* The block of removeRoutesForDisconnectedDevices, which looks at the        *)
(* settings and not at the routes: an app whose settings name only connected  *)
(* devices keeps the output to a vanished one.                                *)
DevicesChanged ==
    LET affected == {a \in App : ~(persisted[a] \subseteq connected)}
        left == [a \in App |-> persisted[a] \cap connected]
    IN
    /\ mainQueue # <<>> /\ Head(mainQueue).kind = "devicesChanged"
    /\ mainQueue' = Tail(mainQueue)
    /\ persisted' = left
    /\ routingQueue' = routingQueue \o Requests(affected, left)
    /\ overlooked' = overlooked \cup {a \in App \ affected : dead[a] # {}}
    /\ UNCHANGED <<devices, tapped, outputs, dead, job, events>>

(* The block of reconcilePersistedAssignmentForBundleID.                     *)
Reconcile ==
    /\ mainQueue # <<>> /\ Head(mainQueue).kind = "reconcile"
    /\ mainQueue' = Tail(mainQueue)
    /\ persisted' = [persisted EXCEPT ![Head(mainQueue).app] = Head(mainQueue).devices]
    /\ UNCHANGED <<devices, route, routingQueue, job, events>>

-----------------------------------------------------------------------------
(* routingQueue: applyRouteForBundleID.                                      *)

(* A mutant: the main queue does not keep the order of the blocks.           *)
PostFirst(a, D) ==
    mainQueue' = <<[kind |-> "reconcile", app |-> a, devices |-> D]>> \o mainQueue

(* reconcilePersistedAssignmentForBundleID: the UIDs of the route's outputs; *)
(* a vanished device has none to give.                                       *)
Post(a, D) ==
    mainQueue' = Append(mainQueue, [kind |-> "reconcile", app |-> a, devices |-> D])

(* routes.erase: ~WCTapRoute stops the outputs and destroys the tap.         *)
EraseRoute(a) ==
    /\ tapped' = tapped \ {a}
    /\ outputs' = [outputs EXCEPT ![a] = {}]
    /\ dead' = [dead EXCEPT ![a] = {}] /\ overlooked' = overlooked \ {a}

(* A mutant: every output is started afresh.                                 *)
RestartOutputs(a, D) ==
    /\ tapped' = tapped \cup {a}
    /\ outputs' = [outputs EXCEPT ![a] = {}]
    /\ dead' = [dead EXCEPT ![a] = {}] /\ overlooked' = overlooked \ {a}
    /\ job' = [app |-> a, toAdd |-> D]

(* BGMComputeOutputDeviceDiff: outputs that are wanted are left alone.  What *)
(* plays to a dead device object is never wanted.                            *)
KeepWantedOutputs(a, D) ==
    /\ tapped' = tapped \cup {a}
    /\ outputs' = [outputs EXCEPT ![a] = @ \cap D]
    /\ dead' = [dead EXCEPT ![a] = {}] /\ overlooked' = overlooked \ {a}
    /\ job' = [app |-> a, toAdd |-> D \ outputs[a]]

(* Takes a request up to the point where outputs are added.  The empty one   *)
(* erases the route and returns; so, after reconciling, do one whose devices *)
(* are all missing and one whose tap cannot be created.                      *)
BeginApply ==
    LET r == Head(routingQueue)
        found == r.devices \cap connected
    IN
    /\ job = NoJob /\ routingQueue # <<>>
    /\ routingQueue' = Tail(routingQueue)
    /\ \/ r.devices = {} /\ EraseRoute(r.app) /\ UNCHANGED <<mainQueue, job>>
       \/ /\ r.devices # {} /\ found = {}
          /\ EraseRoute(r.app) /\ Post(r.app, {}) /\ UNCHANGED job
       \/ /\ found # {} /\ r.app \notin tapped
          /\ Post(r.app, {}) /\ UNCHANGED <<route, job>>
       \/ found # {} /\ KeepWantedOutputs(r.app, found) /\ UNCHANGED mainQueue
    /\ UNCHANGED <<persisted, devices, events>>

(* WCTapRoute::AddOutputDevice; WCPlayThrough's Activate and Start may throw. *)
AddOutputDevice(d) ==
    /\ job # NoJob /\ d \in job.toAdd
    /\ job' = [job EXCEPT !.toAdd = @ \ {d}]
    /\ \/ outputs' = [outputs EXCEPT ![job.app] = @ \cup {d}]
       \/ UNCHANGED outputs
    /\ UNCHANGED <<persisted, devices, tapped, dead, overlooked, mainQueue, routingQueue, events>>

(* A mutant: a route with no output is left.                                 *)
FinishKeepingTap ==
    /\ job # NoJob /\ job.toAdd = {}
    /\ Post(job.app, outputs[job.app])
    /\ job' = NoJob
    /\ UNCHANGED <<persisted, devices, route, routingQueue, events>>

FinishApply ==
    /\ job # NoJob /\ job.toAdd = {}
    /\ IF outputs[job.app] = {} /\ dead[job.app] = {}
       THEN EraseRoute(job.app) ELSE UNCHANGED route
    /\ Post(job.app, outputs[job.app])
    /\ job' = NoJob
    /\ UNCHANGED <<persisted, devices, routingQueue, events>>
-----------------------------------------------------------------------------
(* Devices, the HAL's listener, and the life of the process.                 *)

(* Outputs on the device die with it; one that was about to be added fails.  *)
Unplug(d) ==
    /\ Happens /\ d \in Unpluggable \cap connected
    /\ connected' = connected \ {d} /\ notified' = TRUE
    /\ outputs' = [a \in App |-> outputs[a] \ {d}]
    /\ dead' = [a \in App |-> dead[a] \cup (outputs[a] \cap {d})]
    /\ job' = IF job = NoJob THEN NoJob ELSE [job EXCEPT !.toAdd = @ \ {d}]
    /\ UNCHANGED <<persisted, tapped, overlooked, mainQueue, routingQueue>>

PlugIn(d) ==
    /\ Happens /\ d \in Unpluggable \ connected
    /\ connected' = connected \cup {d} /\ notified' = TRUE
    /\ UNCHANGED <<persisted, route, queues>>

Listener ==
    /\ notified /\ notified' = FALSE
    /\ mainQueue' = Append(mainQueue, [kind |-> "devicesChanged"])
    /\ UNCHANGED <<persisted, connected, route, routingQueue, job, events>>

(* The process ends at any point, its private taps with it; the user defaults *)
(* survive, and the next one restores the routes of the apps that run.        *)
Restart ==
    /\ Happens /\ Restarts
    /\ tapped' = {} /\ outputs' = Nothing /\ dead' = Nothing /\ overlooked' = {}
    /\ mainQueue' = <<>> /\ job' = NoJob /\ notified' = FALSE
    /\ \E running \in SUBSET Routed : routingQueue' = Requests(running, persisted)
    /\ UNCHANGED <<persisted, connected>>

Main == DevicesChanged \/ Reconcile
Routing == BeginApply \/ FinishApply \/ \E d \in Device : AddOutputDevice(d)

Next ==
    \/ \E a \in App : \/ AppLaunches(a)
                      \/ \E d \in Device : UserToggled(a, d)
                      \/ \E D \in SUBSET Device : SetOutputDevices(a, D)
    \/ RemoveAllOutputOverrides \/ Main \/ Routing \/ Listener \/ Restart
    \/ \E d \in Device : Unplug(d) \/ PlugIn(d)

(* Dispatch queues run the blocks they are given, and the HAL calls listeners. *)
Fairness == WF_vars(Main) /\ WF_vars(Routing) /\ WF_vars(Listener)

Spec == Init /\ [][Next]_vars
FairSpec == Spec /\ Fairness
-----------------------------------------------------------------------------
(* Properties.                                                               *)

Settled == mainQueue = <<>> /\ routingQueue = <<>> /\ job = NoJob /\ ~notified

(* Whatever fails, every request is applied and every block posted for it is  *)
(* run; and when all queues are empty, every device an app plays to is one    *)
(* the menu shows as chosen, whatever the order in which requests, failures,  *)
(* reconcile blocks and notifications crossed (reconcilePersistedAssignment). *)
RoutedIsPersisted == Settled => \A a \in App : outputs[a] \subseteq persisted[a]
SettlesAsPersisted == [](RoutedIsPersisted /\ <>Settled)

(* The outputs to vanished devices are about to be removed: the device list's *)
(* listener has to be called, its block to run, or the request it made to be  *)
(* applied.                                                                   *)
Noticed == notified \/ \E i \in 1..Len(mainQueue) : mainQueue[i].kind = "devicesChanged"
Requested(a) == \E i \in 1..Len(routingQueue) : routingQueue[i].app = a

(* An app is not left muted by a tap that plays nowhere.  A tap without an    *)
(* output to a connected device exists only while a request for the app is    *)
(* being applied (the check at the end of applyRouteForBundleID), or while    *)
(* the vanished device's removal is under way -- with one exception, which    *)
(* lasts until the user's next choice for the app: when the block of          *)
(* removeRoutesForDisconnectedDevices came to the app, its settings named     *)
(* connected devices only, as a reconciliation had dropped the vanished one   *)
(* from them or it was back.                                                  *)
NoSilentTap ==
    \A a \in tapped :
        \/ outputs[a] # {} \/ (job # NoJob /\ job.app = a)
        \/ dead[a] # {} /\ (Noticed \/ Requested(a) \/ a \in overlooked)

(* Changing an app's devices does not interrupt those it keeps: an output on  *)
(* a connected device ends only when a request without that device is taken   *)
(* up, or with the process (BGMComputeOutputDeviceDiff).                      *)
KeptOutputsPlayOn ==
    [][\A a \in App : \A d \in (outputs[a] \ outputs'[a]) \cap connected' :
          \/ routingQueue # <<>> /\ Head(routingQueue).app = a
             /\ d \notin Head(routingQueue).devices
          \/ tapped' = {} /\ events' # events]_vars
=============================================================================

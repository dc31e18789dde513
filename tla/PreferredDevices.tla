-------------------------- MODULE PreferredDevices --------------------------
(***************************************************************************)
(* WCPreferredOutputDevices: which device BGMApp plays to when devices     *)
(* come and go, when it is opened, and when the user picks one in          *)
(* WCOutputDeviceMenuSection.                                              *)
(*                                                                         *)
(* macOS has its own list of preferred devices, and puts whatever is set   *)
(* as the default device at its head: BGMDevice when the app is opened,    *)
(* the Null Device for half a second whenever BGMDevice's controls change  *)
(* (module Controls has that in detail).  The app derives its list from    *)
(* macOS's and from the choices the user made in it.                       *)
(*                                                                         *)
(* The handler of changes to the HAL's list of devices runs under          *)
(* _stateLock; launching runs beside it on the main thread without, and    *)
(* the device picked in the menu is set by a block on a concurrent queue.  *)
(* A notification that has not been handled stands for any number of them. *)
(* An AudioObjectID that the HAL does not know any more is "dead", also    *)
(* when the device comes back.  Setting an output device fails only if it  *)
(* is gone, or is the Null Device (module DeviceManager has the rest).     *)
(***************************************************************************)
EXTENDS Naturals, SequencesExt

CONSTANTS
  Device,      \* the UIDs of real output devices
  MaxEvents    \* bound on what the user does and devices do

VARIABLES
  connected,   \* the real devices that exist
  default,     \* macOS's default device
  osList,      \* the devices last set as default, in the HAL's preference file
  toggle,      \* where the toggling of the default device is
  app,         \* where BGMApp is in launching
  output,      \* WCAudioDeviceManager's outputDevice
  preferred,   \* _preferredDeviceUIDs
  stored,      \* the list kept in the user defaults
  notified,    \* a change of the HAL's devices has not been handled yet
  pc, found,   \* per thread: where it is in findPreferredDevice, and the result
  clicks,      \* blocks that are to set a device picked in the menu
  chosen,      \* ghost: the device last picked in the menu, if nothing else was
  disturbed,   \* ghost: something the handler is not told of has come last
  events

host == <<connected, default, osList>>
lists == <<preferred, stored>>
search == <<pc, found>>
ghosts == <<chosen, disturbed>>
vars == <<host, toggle, app, output, lists, notified, search, clicks, ghosts, events>>

Thread == {"main", "handler"}
Virtual == {"wavecraft", "null"}
Listed == toggle \in {"listed", "nulled", "back"}
Existing == connected \cup (IF Listed THEN {"null"} ELSE {})

TypeOK ==
  /\ connected \subseteq Device
  /\ default \in Device \cup Virtual
  /\ osList \in Seq(Device \cup Virtual) /\ Len(osList) <= 3 /\ IsInjective(osList)
  /\ toggle \in {"off", "enabling", "listed", "nulled", "back"}
  /\ app \in {"off", "waiting", "choosing", "chosen", "running"}
  /\ output \in Device \cup {"null", "dead", "none"}
  /\ preferred \in Seq(Device) /\ Len(preferred) <= 3
  /\ stored \in Seq(Device) /\ Len(stored) <= 3
  /\ notified \in BOOLEAN /\ disturbed \in BOOLEAN
  /\ pc \in [Thread -> {"idle", "default", "list", "current", "latency", "decided"}]
  /\ found \in [Thread -> Device \cup {"null", "dead", "none"}]
  /\ clicks \subseteq Device /\ chosen \in Device \cup {"none"}
  /\ events \in 0 .. MaxEvents
  /\ default \in connected \cup Virtual /\ output \in Existing \cup {"dead", "none"}

Nothing == [t \in Thread |-> "none"]
AllIdle == [t \in Thread |-> "idle"]

\* The app has not been opened before.
Init ==
  /\ connected \in SUBSET Device \ {{}} /\ default \in connected
  /\ osList = <<default>> /\ toggle = "off"
  /\ app = "off" /\ output = "none" /\ preferred = <<>> /\ stored = <<>>
  /\ notified = FALSE /\ pc = AllIdle /\ found = Nothing /\ clicks = {}
  /\ chosen = "none" /\ disturbed = FALSE /\ events = 0

-----------------------------------------------------------------------------
(* The lists.                                                              *)

\* macOS keeps the last three devices that were set.
PutFirst(list, d) ==
  LET rest == SelectSeq(list, LAMBDA e : e # d)
  IN SubSeq(<<d>> \o rest, 1, IF Len(rest) < 2 THEN Len(rest) + 1 ELSE 3)

SetsDefault(d) == default' = d /\ osList' = PutFirst(osList, d)

\* addNextStoredPreferredDevice: the first stored device not in the list yet.
AddNextStored(uids, saved) ==
  LET new == SelectSeq(saved, LAMBDA d : d \notin ToSet(uids))
  IN IF new = <<>> THEN uids ELSE Append(uids, Head(new))

\* A mutant: Wavecraft's own devices are left out.
DerivedWithoutOwn(list, saved) ==
  FoldLeft(LAMBDA uids, d : IF d \in Virtual \cup ToSet(uids) THEN uids ELSE Append(uids, d),
           <<>>, list)

\* preferredDeviceUIDsFrom: a stored device stands in for each of Wavecraft's
\* own, and fills the places that are left.
PreferredDeviceUIDsFrom(list, saved) ==
  LET Add(uids, d) ==
        IF d \in Virtual THEN AddNextStored(uids, saved)
        ELSE IF d \in ToSet(uids) THEN uids ELSE Append(uids, d)
      Fill(uids, i) == IF Len(uids) < 3 THEN AddNextStored(uids, saved) ELSE uids
  IN FoldLeft(Fill, FoldLeft(Add, <<>>, list), <<1, 2, 3>>)

\* A mutant: the list grows.
PickedKeepsAll(d) == <<d>> \o preferred

\* The list after the user has picked d: two places are left for the others.
Picked(d) == <<d>> \o SubSeq(preferred, 1, IF Len(preferred) < 2 THEN Len(preferred) ELSE 2)

-----------------------------------------------------------------------------
(* The devices and macOS.                                                  *)

Event == events < MaxEvents /\ events' = events + 1

Listening == app # "off"
Notify == notified' = Listening
Forget(x, d) == IF x = d THEN "dead" ELSE x
Forgets(d) ==
  /\ output' = Forget(output, d)
  /\ found' = [t \in Thread |-> Forget(found[t], d)]
  /\ clicks' = clicks \ {d}

\* macOS may make a new device the default.
Plug(d) ==
  /\ Event /\ d \notin connected /\ connected' = connected \cup {d}
  /\ \/ UNCHANGED <<default, osList, ghosts>>
     \/ SetsDefault(d) /\ chosen' = "none" /\ UNCHANGED disturbed
  /\ Notify
  /\ UNCHANGED <<toggle, app, output, lists, search, clicks>>

Unplug(d) ==
  /\ Event /\ d \in connected /\ connected' = connected \ {d}
  /\ IF default = d
     THEN /\ default' \in connected' \cup {"wavecraft"} \cup (Existing \ Device)
          /\ chosen' = "none"
     ELSE UNCHANGED <<default, chosen>>
  /\ Notify /\ Forgets(d)
  /\ UNCHANGED <<osList, toggle, app, lists, pc, disturbed>>

\* The user sets macOS's default device.  Nobody tells the app.
UserSetsDefault(d) ==
  /\ Event /\ d # default /\ SetsDefault(d)
  /\ chosen' = "none" /\ disturbed' = TRUE
  /\ UNCHANGED <<connected, toggle, app, output, lists, notified, search, clicks>>

-----------------------------------------------------------------------------
(* findPreferredDevice, in the handler and while launching.                *)

Decide(t, devices, otherwise) ==
  /\ \/ devices # {} /\ \E d \in devices : found' = [found EXCEPT ![t] = d]
     \/ devices = {} /\ found' = [found EXCEPT ![t] = "none"]
  /\ pc' = [pc EXCEPT ![t] = IF devices = {} THEN otherwise ELSE "decided"]
  /\ UNCHANGED <<host, toggle, app, output, lists, notified, clicks, ghosts, events>>

\* Any default device but BGMDevice's instances, the Null Device included.
FindDefault(t) == pc[t] = "default" /\ Decide(t, {default} \ {"wavecraft"}, "list")

\* A mutant: the device in use is kept as long as it is connected.
FindCurrentFirst(t) ==
  pc[t] = "list" /\ Decide(t, {output} \cap connected, "current")

\* findPreferredDeviceInDerivedList takes devices that can be output devices.
FindInDerivedList(t) ==
  /\ pc[t] = "list"
  /\ LET there == SelectSeq(preferred, LAMBDA d : d \in connected)
     IN Decide(t, IF there = <<>> THEN {} ELSE {Head(there)}, "current")

FindCurrent(t) == pc[t] = "current" /\ Decide(t, {output} \cap Existing, "latency")

\* Any device with outputs that is not BGMDevice may have the least latency.
FindByLatency(t) == pc[t] = "latency" /\ Decide(t, Existing, "decided")

Find(t) == FindDefault(t) \/ FindInDerivedList(t) \/ FindCurrent(t) \/ FindByLatency(t)

\* setOutputDeviceWithID.  If BGMDevice's controls have to change for the new
\* device and BGMDevice is the default device, the toggling starts.
SetOutput(d) ==
  \/ /\ d \in connected /\ output' = d
     /\ \/ UNCHANGED toggle
        \/ default = "wavecraft" /\ toggle = "off" /\ output # d /\ toggle' = "enabling"
  \/ d = "null" /\ output' = d /\ UNCHANGED toggle
  \/ d \in {"null", "dead"} /\ UNCHANGED <<output, toggle>>

-----------------------------------------------------------------------------
(* Changes of the HAL's list of devices.                                   *)

Unlocked == pc["handler"] = "idle"

\* A mutant: a notification that finds the lock taken is dropped.
HandleIfUnlocked ==
  /\ notified /\ notified' = FALSE
  /\ IF Unlocked THEN pc' = [pc EXCEPT !["handler"] = "default"] ELSE UNCHANGED pc
  /\ disturbed' = (disturbed /\ clicks # {})
  /\ UNCHANGED <<host, toggle, app, output, lists, found, clicks, chosen, events>>

ConnectedDeviceListChanged ==
  /\ notified /\ Unlocked /\ notified' = FALSE
  /\ pc' = [pc EXCEPT !["handler"] = "default"]
  /\ disturbed' = (disturbed /\ clicks # {})
  /\ UNCHANGED <<host, toggle, app, output, lists, found, clicks, chosen, events>>

HandlerSets ==
  /\ pc["handler"] = "decided" /\ pc' = [pc EXCEPT !["handler"] = "idle"]
  /\ IF found["handler"] \in {"none", output}
     THEN UNCHANGED <<output, toggle>> ELSE SetOutput(found["handler"])
  /\ found' = [found EXCEPT !["handler"] = "none"]
  /\ UNCHANGED <<host, app, lists, notified, clicks, ghosts, events>>

Handler == ConnectedDeviceListChanged \/ Find("handler") \/ HandlerSets

-----------------------------------------------------------------------------
(* The toggling of the default device.                                     *)

NullDeviceEnabled ==
  /\ toggle = "enabling" /\ toggle' = "listed" /\ notified' = TRUE
  /\ UNCHANGED <<host, app, output, lists, search, clicks, ghosts, events>>

ToggleDefaultDevice ==
  /\ toggle = "listed" /\ toggle' = "nulled" /\ SetsDefault("null")
  /\ UNCHANGED <<connected, app, output, lists, notified, search, clicks, ghosts, events>>

ToggleBack ==
  /\ toggle = "nulled" /\ toggle' = "back" /\ SetsDefault("wavecraft")
  /\ chosen' = IF default = "null" THEN chosen ELSE "none"
  /\ disturbed' = (disturbed \/ default # "null")
  /\ UNCHANGED <<connected, app, output, lists, notified, search, clicks, events>>

\* macOS can have picked the Null Device again when another one went.
NullDeviceDisabled ==
  /\ toggle = "back" /\ toggle' = "off" /\ notified' = TRUE
  /\ IF default = "null"
     THEN default' \in connected \cup {"wavecraft"} /\ chosen' = "none"
     ELSE UNCHANGED <<default, chosen>>
  /\ Forgets("null")
  /\ UNCHANGED <<connected, osList, app, lists, pc, disturbed, events>>

Toggling == NullDeviceEnabled \/ ToggleDefaultDevice \/ ToggleBack \/ NullDeviceDisabled

-----------------------------------------------------------------------------
(* The menu.                                                               *)

\* outputDeviceButtonClicked, which waits for _stateLock in
\* userChangedOutputDeviceTo.
Pick(d) ==
  /\ Event /\ app = "running" /\ Unlocked /\ d \in connected \ {output} /\ d \notin clicks
  /\ preferred' = Picked(d) /\ stored' = preferred'
  /\ clicks' = clicks \cup {d}
  /\ chosen' = d /\ disturbed' = (disturbed \/ clicks # {})
  /\ UNCHANGED <<host, toggle, app, output, notified, search>>

ChangeToOutputDevice(d) ==
  /\ d \in clicks /\ clicks' = clicks \ {d}
  /\ SetOutput(d)
  /\ UNCHANGED <<host, app, lists, notified, search, ghosts, events>>

-----------------------------------------------------------------------------
(* Launching and quitting.                                                 *)

\* initWithDevices reads the lists and registers the listener.  If macOS's
\* list cannot be read, it counts as just the default device.
Open ==
  /\ Event /\ app = "off" /\ app' = "waiting"
  /\ \E list \in {osList, <<default>>} : preferred' = PreferredDeviceUIDsFrom(list, stored)
  /\ disturbed' = TRUE
  /\ UNCHANGED <<host, toggle, output, stored, notified, search, clicks, chosen>>

\* The user has let the app use the microphone.
ContinueLaunch ==
  /\ app = "waiting" /\ app' = "choosing"
  /\ pc' = [pc EXCEPT !["main"] = "default"]
  /\ UNCHANGED <<host, toggle, output, lists, notified, found, clicks, ghosts, events>>

Exits ==
  /\ app' = "off" /\ output' = "none" /\ preferred' = <<>> /\ notified' = FALSE
  /\ pc' = AllIdle /\ found' = Nothing /\ clicks' = {} /\ disturbed' = FALSE
  /\ UNCHANGED <<connected, toggle, stored>>

SetInitialOutputDevice ==
  /\ pc["main"] = "decided" /\ found["main"] # "none"
  /\ app' = "chosen" /\ SetOutput(found["main"])
  /\ pc' = [pc EXCEPT !["main"] = "idle"] /\ found' = [found EXCEPT !["main"] = "none"]
  /\ disturbed' = TRUE
  /\ UNCHANGED <<host, lists, notified, clicks, chosen, events>>

NoDeviceFound ==
  /\ pc["main"] = "decided" /\ found["main"] = "none" /\ toggle = "off"
  /\ Exits
  /\ UNCHANGED <<default, osList, chosen, events>>

SetBGMDeviceAsDefault ==
  /\ app = "chosen" /\ app' = "running" /\ SetsDefault("wavecraft")
  /\ disturbed' = TRUE
  /\ UNCHANGED <<connected, toggle, output, lists, notified, search, clicks, chosen, events>>

Launch == Find("main") \/ SetInitialOutputDevice \/ NoDeviceFound \/ SetBGMDeviceAsDefault

\* The app quits, and gives the default device back if it can; or it crashes,
\* and BGMXPCHelper may do so.  Module Controls has an exit during toggling.
GivesDefaultBack == default = "wavecraft" /\ output \in connected

Exit ==
  /\ Event /\ app = "running" /\ toggle = "off"
  /\ \/ GivesDefaultBack /\ SetsDefault(output)
     \/ UNCHANGED <<default, osList>>
  /\ chosen' = IF default = "wavecraft" /\ output = chosen THEN chosen ELSE "none"
  /\ Exits

-----------------------------------------------------------------------------
Next ==
  \/ \E d \in Device : Plug(d) \/ Unplug(d) \/ Pick(d) \/ ChangeToOutputDevice(d)
  \/ \E d \in connected \cup {"wavecraft"} : UserSetsDefault(d)
  \/ Handler \/ Toggling
  \/ Open \/ ContinueLaunch \/ Launch \/ Exit

Spec == Init /\ [][Next]_vars

\* The app's blocks run, and whoever waits for _stateLock gets it.
FairSpec ==
  /\ Spec
  /\ WF_vars(Handler) /\ WF_vars(Toggling)
  /\ WF_vars(\E d \in Device : ChangeToOutputDevice(d))

-----------------------------------------------------------------------------
(* Properties.                                                             *)

\* However devices come and go, and whatever the handler, the launch and the
\* blocks of the menu find and set at the wrong moment, the app ends up
\* playing to a device that is connected, if there is one
\* (WCPreferredOutputDevices.mm:259-291).  Excused: a toggling that never ends,
\* because the handler finds the Null Device every time.
TogglesForever == []<>(toggle # "off")
OutputConnected ==
  TogglesForever \/ <>[](app = "running" /\ connected # {} => output \in connected)

\* While BGMDevice is the default device, the app ends up playing to the first
\* connected device of its list, whatever is unplugged, plugged in or picked
\* in between.  Excused: a default device set meanwhile or by the launch, of
\* which there is no notification, two picks at once, and the same toggling
\* (WCPreferredOutputDevices.mm:312-346, WCOutputDeviceMenuSection.mm:389-398).
FollowsPreference ==
  LET there == SelectSeq(preferred, LAMBDA d : d \in connected) IN
  TogglesForever \/
    <>[](app = "running" /\ default = "wavecraft" /\ ~disturbed /\ there # <<>>
           => output = Head(there))

\* The device the user picked last heads the list when the app is opened
\* again, after quitting and after a crash, although macOS's list may be full
\* of Wavecraft's own devices or not be readable: unless macOS's default was
\* changed meanwhile, or was another device or the app played to another one
\* when it quit
\* (WCPreferredOutputDevices.mm:152-211).
ChoiceRemembered ==
  [][Open /\ chosen # "none" => preferred' # <<>> /\ Head(preferred') = chosen]_vars
=============================================================================

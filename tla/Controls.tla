------------------------------ MODULE Controls ------------------------------
(***************************************************************************)
(* WCDeviceControlSync and WCDeviceControlsList (app) with the parts of    *)
(* WC_Device, WC_PlugIn and WC_NullDevice (driver) they use: keeping       *)
(* BGMDevice's volume and mute controls like those of the output device.   *)
(*                                                                         *)
(* When the output device changes, the app asks the driver to enable just  *)
(* the controls the new device has.  The driver may change its list of     *)
(* controls only when the host calls PerformConfigChange, some time after  *)
(* it was requested.  Programs notice the change only when the default     *)
(* device changes, so the app enables the Null Device, makes it the        *)
(* default device, makes BGMDevice the default again and disables the Null *)
(* Device, in blocks that run after delays.  Meanwhile it copies the       *)
(* values of the controls, from then on in the other direction, in a       *)
(* listener of BGMDevice.                                                  *)
(***************************************************************************)
EXTENDS Naturals

CONSTANTS
  Control,      \* controls a device may have: volume, mute
  OutputDevice, \* output devices
  Has,          \* Has[d]: the settable controls of device d
  MayAbort,     \* whether the host may abort a configuration change
  MaxChanges,   \* bound on changes of the output device
  MaxOthers     \* bound on what the user and other devices do and on calls
                \* of the HAL that fail

ASSUME ControlsAssumption ==
  /\ Has \in [OutputDevice -> SUBSET Control]
  /\ MayAbort \in BOOLEAN /\ MaxChanges \in Nat /\ MaxOthers \in Nat

VARIABLES
  output,        \* WCDeviceControlSync::mOutputDevice
  active,        \* mActive: the listeners of BGMDevice's controls are added
  pc,            \* where the thread that changes the output device is
  value,         \* value[c]: control c of BGMDevice and of the output device
  valueChanged,  \* controls of BGMDevice of which a notification is under way
  enabled,       \* the active controls of BGMDevice
  pending,       \* mPendingOutput...ControlEnabled
  requests,      \* configuration changes requested and not performed
  nullActive,    \* WC_NullDevice is active
  listed,        \* the HAL's list of devices has it
  default,       \* the default device
  devicesChanged,\* a kAudioHardwarePropertyDevices notification is under way
  toggle,        \* WCDeviceControlsList::mDeviceToggleState
  blocks,        \* dispatched blocks
  disabling,     \* the last block is about to disable the Null Device
  alive,         \* BGMApp runs
  changes, others,
  skipped,       \* ghost: controls not initialised, since BGMDevice lacked them
  unhandled      \* ghost: what happened that the code does not deal with: a
                 \* request that was lost or aborted, a second toggling, and
                 \* the calls of the HAL that failed

sync == <<output, active, pc, value, valueChanged, skipped>>
driver == <<enabled, pending, requests>>
null == <<nullActive, listed, default, devicesChanged>>
toggling == <<toggle, blocks, disabling>>
counters == <<changes, others>>
controlsVars == <<sync, driver, null, toggling, alive, counters, unhandled>>

ToggleStates == {"NotToggling", "SettingNullDeviceAsDefault",
                 "SettingBGMDeviceAsDefault", "DisablingNullDevice"}

\* Calls that may throw; the exception is logged and the code goes on.
SwallowedCalls == {"match", "getDefault", "enableNull", "setNull", "setBGM", "disableNull"}
Unhandled == {"ignored", "abort", "toggledAgain"} \cup SwallowedCalls

ControlsTypeOK ==
  /\ output \in OutputDevice /\ active \in BOOLEAN
  /\ pc \in {"idle", "match", "request", "propagate", "enable", "copy", "listen"}
  /\ value \in [Control -> [{"bgm", "output"} -> 0 .. 1]]
  /\ valueChanged \subseteq Control
  /\ enabled \subseteq Control /\ pending \subseteq Control
  /\ requests \in 0 .. MaxChanges + 1
  /\ nullActive \in BOOLEAN /\ listed \in BOOLEAN
  /\ default \in {"bgm", "null", "other"} /\ devicesChanged \in BOOLEAN
  /\ toggle \in ToggleStates
  /\ blocks \subseteq {"toggle", "toggleBack", "disable"} /\ disabling \in BOOLEAN
  /\ alive \in BOOLEAN
  /\ changes \in 0 .. MaxChanges /\ others \in 0 .. MaxOthers
  /\ skipped \subseteq Control
  /\ unhandled \subseteq Unhandled

\* BGMApp has synchronised the controls with its first output device.
ControlsInit ==
  /\ output \in OutputDevice /\ active = TRUE /\ pc = "idle"
  /\ value = [c \in Control |-> [device \in {"bgm", "output"} |-> 0]]
  /\ valueChanged = {} /\ enabled = Has[output] /\ pending = enabled /\ requests = 0
  /\ nullActive = FALSE /\ listed = FALSE /\ default = "bgm" /\ devicesChanged = FALSE
  /\ toggle = "NotToggling" /\ blocks = {} /\ disabling = FALSE
  /\ alive = TRUE /\ changes = 0 /\ others = 0 /\ skipped = {} /\ unhandled = {}

\* What the user, other devices and a failing HAL do, MaxOthers times at most.
Event == others < MaxOthers /\ others' = others + 1 /\ UNCHANGED changes

\* A call of the HAL is made, or throws.
Succeeds == UNCHANGED <<counters, unhandled>>
Throws(call) == Event /\ unhandled' = unhandled \cup {call}

-----------------------------------------------------------------------------
(* The driver and the host.                                                *)

\* RequestEnabledControls compares with the controls that are active now: one
\* that has the wanted state already keeps what an earlier request left pending
\* for it.
RequestEnabledControls(wanted) ==
  LET changed == (enabled \ wanted) \cup (wanted \ enabled) IN
  /\ pending' = (pending \ changed) \cup (wanted \cap changed)
  /\ requests' = IF changed = {} THEN requests ELSE requests + 1
  /\ unhandled' = IF requests > 0 /\ pending' # wanted
                  THEN unhandled \cup {"ignored"} ELSE unhandled
  /\ UNCHANGED enabled

\* A mutant: the values left pending by an earlier request are forgotten.
PerformConfigChangeOnce ==
  /\ requests > 0 /\ requests' = 0 /\ enabled' = pending /\ pending' = {}
  /\ UNCHANGED <<sync, null, toggling, alive, counters, unhandled>>

SetEnabledControls == enabled' = pending

PerformConfigChange ==
  /\ requests > 0 /\ requests' = requests - 1
  /\ SetEnabledControls
  /\ UNCHANGED <<sync, pending, null, toggling, alive, counters, unhandled>>

AbortConfigChange ==
  /\ MayAbort /\ requests > 0 /\ requests' = requests - 1
  /\ unhandled' = unhandled \cup {"abort"}
  /\ UNCHANGED <<sync, enabled, pending, null, toggling, alive, counters>>

\* The HAL learns that the Null Device was activated or deactivated and tells
\* its clients.  If the default device goes, the HAL picks another.
HostUpdatesDevices ==
  /\ listed # nullActive /\ listed' = nullActive
  /\ devicesChanged' = TRUE
  /\ default' \in IF default = "null" THEN {"bgm", "other"} ELSE {default}
  /\ UNCHANGED <<sync, driver, nullActive, toggling, alive, counters, unhandled>>

-----------------------------------------------------------------------------
(* Changing the output device: WCDeviceControlSync::SetDevices, then       *)
(* Activate.                                                               *)

ChangeOutput(d) ==
  /\ alive /\ pc = "idle" /\ d # output /\ changes < MaxChanges
  /\ changes' = changes + 1
  /\ output' = d /\ active' = FALSE /\ pc' = "match"
  /\ \E v \in 0 .. 1 :
        value' = [c \in Control |-> [value[c] EXCEPT !["output"] = v]]
  /\ skipped' = {}
  /\ UNCHANGED <<valueChanged, driver, null, toggling, alive, others, unhandled>>

\* MatchControlsListOf reads the list of enabled controls, ...
MatchControlsListOf ==
  /\ alive /\ pc = "match"
  /\ \/ /\ pc' = IF enabled = Has[output] THEN "copy" ELSE "request"
        /\ unhandled' = IF enabled = Has[output] /\ pending # Has[output]
                        THEN unhandled \cup {"ignored"} ELSE unhandled
        /\ UNCHANGED counters
     \/ pc' = "copy" /\ Throws("match")
  /\ UNCHANGED <<output, active, value, valueChanged, skipped, driver, null, toggling, alive>>

\* ... and sets it if that is not what the output device has.
SetEnabledOutputControls ==
  /\ alive /\ pc = "request"
  /\ \/ pc' = "propagate" /\ RequestEnabledControls(Has[output]) /\ UNCHANGED counters
     \/ pc' = "copy" /\ Throws("match") /\ UNCHANGED driver
  /\ UNCHANGED <<output, active, value, valueChanged, skipped, null, toggling, alive>>

\* An earlier toggling of the default device is not finished.
Toggled == toggle # "NotToggling" \/ disabling \/ nullActive \/ listed

\* PropagateControlListChange, only if BGMDevice is the default device, or if
\* it cannot be found out which device that is.
PropagateControlListChange ==
  /\ alive /\ pc = "propagate"
  /\ LET again == IF Toggled THEN {"toggledAgain"} ELSE {} IN
     \/ /\ default = "bgm" /\ pc' = "enable" /\ toggle' = "SettingNullDeviceAsDefault"
        /\ unhandled' = unhandled \cup again /\ UNCHANGED counters
     \/ default # "bgm" /\ pc' = "copy" /\ UNCHANGED <<toggle, counters, unhandled>>
     \/ /\ default # "bgm" /\ pc' = "enable" /\ toggle' = "SettingNullDeviceAsDefault"
        /\ Event /\ unhandled' = unhandled \cup again \cup {"getDefault"}
  /\ UNCHANGED <<output, active, value, valueChanged, skipped, driver, null, blocks,
                 disabling, alive>>

\* SetNullDeviceEnabled(true), without the lock.  If it throws, the toggling is
\* over, and Activate goes on with the values.
EnableNullDevice ==
  /\ alive /\ pc = "enable" /\ pc' = "copy"
  /\ \/ nullActive' = TRUE /\ UNCHANGED toggle /\ Succeeds
     \/ toggle' = "NotToggling" /\ UNCHANGED nullActive /\ Throws("enableNull")
  /\ UNCHANGED <<output, active, value, valueChanged, skipped, driver, listed, default,
                 devicesChanged, blocks, disabling, alive>>

\* A mutant: the values are left as they are.
CopyNothing ==
  /\ alive /\ pc = "copy" /\ pc' = "listen"
  /\ UNCHANGED <<output, active, value, valueChanged, skipped, driver, null, toggling,
                 alive, counters, unhandled>>

\* CopyVolumeFrom and CopyMuteFrom: a control BGMDevice does not have (yet)
\* cannot be set.
CopyFromOutput ==
  /\ alive /\ pc = "copy" /\ pc' = "listen"
  /\ LET copied == Has[output] \cap enabled IN
     /\ value' = [c \in Control |->
                    IF c \in copied THEN [value[c] EXCEPT !["bgm"] = value[c]["output"]]
                    ELSE value[c]]
     /\ valueChanged' = valueChanged \cup
                          {c \in copied : value[c]["bgm"] # value[c]["output"]}
     /\ skipped' = Has[output] \ enabled
  /\ UNCHANGED <<output, active, driver, null, toggling, alive, counters, unhandled>>

AddListeners ==
  /\ alive /\ pc = "listen" /\ pc' = "idle" /\ active' = TRUE
  /\ UNCHANGED <<output, value, valueChanged, skipped, driver, null, toggling, alive,
                 counters, unhandled>>

Activate == \/ MatchControlsListOf \/ SetEnabledOutputControls
            \/ PropagateControlListChange \/ EnableNullDevice
            \/ CopyFromOutput \/ AddListeners

\* BGMDeviceListenerProc waits for a change of the output device to complete.
BGMDeviceListenerProc ==
  /\ alive /\ pc = "idle" /\ active
  /\ \E c \in valueChanged :
        LET copied == c \in Has[output] \cap enabled IN
        /\ valueChanged' = valueChanged \ {c}
        /\ value' = IF copied
                    THEN [value EXCEPT ![c]["output"] = value[c]["bgm"]] ELSE value
        /\ skipped' = IF copied THEN skipped \ {c} ELSE skipped
  /\ UNCHANGED <<output, active, pc, driver, null, toggling, alive, counters, unhandled>>

\* Nobody is told while the listeners are removed.
NobodyListens ==
  /\ alive /\ ~active
  /\ \E c \in valueChanged :
        /\ valueChanged' = valueChanged \ {c}
        /\ skipped' = IF pc = "listen" THEN skipped \cup {c} ELSE skipped
  /\ UNCHANGED <<output, active, pc, value, driver, null, toggling, alive, counters, unhandled>>

-----------------------------------------------------------------------------
(* Toggling the default device.  The lock of WCDeviceControlsList is held  *)
(* while the list of controls is matched.                                  *)

Unlocked == alive /\ pc # "request"

\* Called when devices come or go.  The block that was dispatched before, if
\* it has not run yet, is replaced.
DevicesListener ==
  /\ alive /\ devicesChanged /\ devicesChanged' = FALSE
  /\ IF toggle = "NotToggling" THEN UNCHANGED blocks
     ELSE Unlocked /\ blocks' = blocks \cup {"toggle"}
  /\ UNCHANGED <<sync, driver, nullActive, listed, default, toggle, disabling, alive,
                 counters, unhandled>>

\* ToggleDefaultDevice, unless the Null Device is not there.  If it throws, only
\* the next notification of the HAL's list of devices has it tried again.
ToggleBlock ==
  /\ Unlocked /\ "toggle" \in blocks
  /\ IF toggle = "SettingNullDeviceAsDefault" /\ listed
     THEN \/ /\ default' = "null" /\ toggle' = "SettingBGMDeviceAsDefault"
             /\ blocks' = (blocks \ {"toggle"}) \cup {"toggleBack"}
             /\ Succeeds
          \/ /\ blocks' = blocks \ {"toggle"} /\ UNCHANGED <<default, toggle>>
             /\ Throws("setNull")
     ELSE blocks' = blocks \ {"toggle"} /\ UNCHANGED <<default, toggle>> /\ Succeeds
  /\ UNCHANGED <<sync, driver, nullActive, listed, devicesChanged, disabling, alive>>

\* A mutant: the default device is not set back.
ToggleBackKeepsDefault ==
  /\ Unlocked /\ "toggleBack" \in blocks /\ toggle = "SettingBGMDeviceAsDefault"
  /\ toggle' = "DisablingNullDevice"
  /\ blocks' = (blocks \ {"toggleBack"}) \cup {"disable"}
  /\ UNCHANGED <<sync, driver, null, disabling, alive, counters, unhandled>>

\* A mutant: the toggling counts as finished before the Null Device is disabled.
ToggleBackEnds ==
  /\ Unlocked /\ "toggleBack" \in blocks
  /\ IF toggle = "SettingBGMDeviceAsDefault"
     THEN /\ default' = "bgm" /\ toggle' = "NotToggling"
          /\ blocks' = (blocks \ {"toggleBack"}) \cup {"disable"}
     ELSE blocks' = blocks \ {"toggleBack"} /\ UNCHANGED <<default, toggle>>
  /\ UNCHANGED <<sync, driver, nullActive, listed, devicesChanged, disabling, alive,
                 counters, unhandled>>

\* If BGMDevice cannot be made the default device, the Null Device is disabled
\* all the same.
ToggleBackBlock ==
  /\ Unlocked /\ "toggleBack" \in blocks
  /\ IF toggle = "SettingBGMDeviceAsDefault"
     THEN /\ \/ default' = "bgm" /\ Succeeds
             \/ UNCHANGED default /\ Throws("setBGM")
          /\ toggle' = "DisablingNullDevice"
          /\ blocks' = (blocks \ {"toggleBack"}) \cup {"disable"}
     ELSE blocks' = blocks \ {"toggleBack"} /\ UNCHANGED <<default, toggle>> /\ Succeeds
  /\ UNCHANGED <<sync, driver, nullActive, listed, devicesChanged, disabling, alive>>

DisableNullDeviceBlock ==
  /\ Unlocked /\ "disable" \in blocks /\ ~disabling
  /\ blocks' = blocks \ {"disable"}
  /\ IF toggle = "DisablingNullDevice"
     THEN toggle' = "NotToggling" /\ disabling' = TRUE
     ELSE UNCHANGED <<toggle, disabling>>
  /\ UNCHANGED <<sync, driver, null, alive, counters, unhandled>>

\* SetNullDeviceEnabled(false), without the lock.
DisableNullDevice ==
  /\ alive /\ disabling /\ disabling' = FALSE
  /\ \/ nullActive' = FALSE /\ Succeeds
     \/ UNCHANGED nullActive /\ Throws("disableNull")
  /\ UNCHANGED <<sync, driver, listed, default, devicesChanged, toggle, blocks, alive>>

Toggling == \/ DevicesListener \/ ToggleBlock \/ ToggleBackBlock
            \/ DisableNullDeviceBlock \/ DisableNullDevice

-----------------------------------------------------------------------------
(* The user and other devices.                                             *)

UserSets(c) ==
  /\ Event /\ c \in enabled
  /\ value' = [value EXCEPT ![c]["bgm"] = 1 - @]
  /\ valueChanged' = valueChanged \cup {c}
  /\ UNCHANGED <<output, active, pc, skipped, driver, null, toggling, alive, unhandled>>

UserChangesDefault ==
  /\ Event
  /\ default' \in {"bgm", "other"} \ {default}
  /\ UNCHANGED <<sync, driver, nullActive, listed, devicesChanged, toggling, alive, unhandled>>

OtherDeviceComesOrGoes ==
  /\ Event /\ devicesChanged' = TRUE
  /\ UNCHANGED <<sync, driver, nullActive, listed, default, toggling, alive, unhandled>>

\* BGMApp quits or crashes; the driver's RemoveClient enables every control.
BGMAppGoes ==
  /\ Event /\ alive /\ alive' = FALSE
  /\ RequestEnabledControls(Control)
  /\ UNCHANGED <<sync, null, toggling>>

ControlsNext ==
  \/ PerformConfigChange \/ AbortConfigChange \/ HostUpdatesDevices
  \/ \E d \in OutputDevice : ChangeOutput(d)
  \/ Activate \/ BGMDeviceListenerProc \/ NobodyListens \/ Toggling
  \/ \E c \in Control : UserSets(c)
  \/ UserChangesDefault \/ OtherDeviceComesOrGoes \/ BGMAppGoes

ControlsSpec == ControlsInit /\ [][ControlsNext]_controlsVars

\* The host answers every request and every notification, and the app's
\* threads and blocks run.
FairControlsSpec ==
  /\ ControlsSpec
  /\ WF_controlsVars(PerformConfigChange \/ AbortConfigChange)
  /\ WF_controlsVars(HostUpdatesDevices) /\ WF_controlsVars(Activate)
  /\ WF_controlsVars(BGMDeviceListenerProc \/ NobodyListens)
  /\ WF_controlsVars(Toggling)

-----------------------------------------------------------------------------
(* Properties.                                                             *)

\* What has the Null Device stay the default device.
NullMayStayDefault ==
  \/ "setBGM" \in unhandled /\ unhandled \cap {"toggledAgain", "disableNull"} # {}
  \/ "toggledAgain" \in unhandled /\ unhandled \cap {"enableNull", "getDefault"} # {}

\* The call that disables the Null Device is not made while that is the default
\* device, so that nobody's sound vanishes with it, except in two cases the code
\* lets go: the HAL refused to make BGMDevice the default again
\* (WCDeviceControlsList.cpp:474-478), or a second toggling began before the
\* first was over (:253-275).
NullStaysWhileDefault ==
  [][DisableNullDevice /\ ~nullActive' =>
       default # "null" \/ unhandled \cap {"setBGM", "toggledAgain"} # {}]_controlsVars

\* While BGMApp runs, the Null Device ends up hidden from the user again
\* (WCDeviceControlsList.h:64-66), unless togglings overlapped or the HAL
\* refused to make it the default or to disable it; each of these is logged and
\* left.  It does not stay the default device, which would be silence, unless
\* the HAL refused to make BGMDevice the default again and either togglings
\* overlapped or the Null Device could not be disabled, or togglings overlapped
\* and one began on a guess of the default device or could not enable the Null
\* Device
\* (WCDeviceControlsList.cpp:271-290, 442-446, 474-478, 521-526).
NullDeviceHiddenAgain ==
  []alive =>
    <>[](/\ ~nullActive \/ unhandled \cap {"toggledAgain", "setNull", "disableNull"} # {}
         /\ default # "null" \/ NullMayStayDefault)

\* BGMDevice ends up with the controls of the output device, or all of them
\* when BGMApp has gone, however requests cross, unless one asked for a control
\* as it was while an earlier request was about to change that
\* (WC_Device.cpp:1937), the host aborted one, or the list could not be read or
\* set (WCDeviceControlsList.h:46-48, WC_Device.cpp:2118-2122).
Wanted == IF alive THEN Has[output] ELSE Control
ControlsFollowOutput ==
  <>[](enabled = Wanted \/ unhandled \cap {"ignored", "abort", "match"} # {})

\* The controls of both devices end up with the same value, except those
\* BGMDevice lacked when they were to be initialised, or that were moved
\* between that and adding the listeners (WCDeviceControlSync.cpp:89-97).
ValuesConverge ==
  <>[](alive => \A c \in (enabled \cap Has[output]) \ skipped :
                   value[c]["bgm"] = value[c]["output"])
=============================================================================

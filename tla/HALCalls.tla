------------------------------- MODULE HALCalls -------------------------------
(***************************************************************************)
(* What BGMApp asks of BGMDriver's devices and streams, through the        *)
(* library's CAHALAudioObject, CAHALAudioDevice and CAHALAudioStream.      *)
(* Each group of methods is about one property: Has... asks whether it is  *)
(* there, ...IsSettable whether it can be set, and Get... or Copy... reads *)
(* it and throws if coreaudiod returns an error.  Some ask first whether   *)
(* it is there.                                                            *)
(*                                                                         *)
(* coreaudiod answers some properties itself for every device, and         *)
(* translates those of a device's volume and mute into the properties of   *)
(* the controls it knows the device to have, given here as `controls`.     *)
(***************************************************************************)
EXTENDS HALObjects

Sides == {"Input", "Output"}
Call(p, scopes, guarded) ==
  [property |-> p, scopes |-> scopes, guarded |-> guarded]
Asking(ps, scopes) == {Call(p, scopes, FALSE) : p \in ps}
AskingFirst(ps, scopes) == {Call(p, scopes, TRUE) : p \in ps}

ObjectCalls ==
  AskingFirst({"Class", "Owner", "Creator", "Name", "Manufacturer"}, {"Global"})
    \cup Asking({"OwnedObjects"}, {"Global"})
IdentityCalls ==
  Asking({"DeviceUID", "ModelUID", "ConfigurationApplication", "Icon",
          "TransportType", "PlugIn", "DeviceIsAlive", "IsHidden"}, {"Global"})
    \cup Asking({"CanBeDefaultDevice", "CanBeDefaultSystemDevice"}, Sides)
    \cup AskingFirst({"HogMode"}, {"Global"})
ChannelCalls ==
  Asking({"PreferredChannelsForStereo", "PreferredChannelLayout"}, Sides)
StreamListCalls ==
  AskingFirst({"RelatedDevices"}, {"Global"})
    \cup Asking({"Streams", "StreamConfiguration"}, Sides)
TimingCalls ==
  Asking({"DeviceIsRunning", "ClockDomain", "NominalSampleRate"}, {"Global"})
    \cup AskingFirst({"DeviceIsRunningSomewhere", "ActualSampleRate",
                      "AvailableNominalSampleRates"}, {"Global"})
    \cup Asking({"Latency", "SafetyOffset"}, Sides)
IOCalls ==
  Asking({"BufferFrameSize", "UsesVariableBufferFrameSizes",
          "BufferFrameSizeRange", "IOCycleUsage"}, {"Global"})
    \cup Asking({"IOProcStreamUsage"}, Sides)
VolumeCalls ==
  Asking({"VolumeScalar", "VolumeDecibels", "VolumeDecibelsToScalar",
          "VolumeScalarToDecibels", "Mute"}, Sides)
SubVolumeCalls ==
  Asking({"SubVolumeScalar", "SubVolumeDecibels", "SubVolumeDecibelsToScalar",
          "SubVolumeScalarToDecibels"}, Sides)
SwitchCalls ==
  Asking({"Solo", "StereoPan", "StereoPanChannels", "JackIsConnected",
          "SubMute", "DriverShouldOwniSub"}, Sides)
SelectorCalls ==
  Asking({"DataSource", "DataSourceNameForID", "PlayThruDestination",
          "PlayThruDestinationNameForID"}, Sides)
    \cup AskingFirst({"DataSources", "PlayThruDestinations"}, Sides)
ClockSourceCalls ==
  Asking({"ClockSource", "ClockSourceNameForID", "ClockSourceKindForID"},
         {"Global"})
    \cup AskingFirst({"ClockSources"}, {"Global"})
DeviceCalls ==
  ObjectCalls \cup IdentityCalls \cup ChannelCalls \cup StreamListCalls
    \cup TimingCalls \cup IOCalls \cup VolumeCalls \cup SubVolumeCalls
    \cup SwitchCalls \cup SelectorCalls \cup ClockSourceCalls
StreamCalls ==
  Asking({"Direction", "TerminalType", "StartingChannel", "Latency",
          "VirtualFormat", "AvailableVirtualFormats", "PhysicalFormat",
          "AvailablePhysicalFormats"}, {"Global"})

\* What coreaudiod answers itself.
HALsOwn ==
  {"Creator", "ConfigurationApplication", "PlugIn", "HogMode",
   "StreamConfiguration", "DeviceIsRunningSomewhere", "ActualSampleRate",
   "BufferFrameSize", "BufferFrameSizeRange", "IOCycleUsage",
   "IOProcStreamUsage"}
TranslatedTo ==
  [VolumeScalar |-> "ScalarValue", VolumeDecibels |-> "DecibelValue",
   VolumeDecibelsToScalar |-> "ConvertDecibelsToScalar",
   VolumeScalarToDecibels |-> "ConvertScalarToDecibels", Mute |-> "Value"]
ControlFor(d, p) == IF p = "Mute" THEN MuteControl[d] ELSE VolumeControl[d]
\* Both controls are in the output scope.
Controlled(d, p, s, controls) ==
  d \in Instances /\ s = "Output" /\ ControlFor(d, p) \in controls \ {"Unknown"}

AudioObjectHasProperty(o, p, s, controls) ==
  CASE p \in HALsOwn             -> TRUE
    [] p \in DOMAIN TranslatedTo -> Controlled(o, p, s, controls)
    [] OTHER                     -> BGM_HasProperty(o, p, s)
AudioObjectIsPropertySettable(o, p, s, controls) ==
  CASE p \in HALsOwn -> p \in {"HogMode", "BufferFrameSize", "IOCycleUsage",
                               "IOProcStreamUsage"}
    [] p \in DOMAIN TranslatedTo ->
         /\ Controlled(o, p, s, controls)
         /\ BGM_IsPropertySettable(ControlFor(o, p), TranslatedTo[p], "Global")
    [] OTHER -> BGM_IsPropertySettable(o, p, s)
\* Room for the value is made for as many items as there are.
AudioObjectGetPropertyData(o, p, s, controls) ==
  CASE p \in HALsOwn -> Answer(<<p>>)
    [] p \in DOMAIN TranslatedTo ->
         IF Controlled(o, p, s, controls)
         THEN BGM_GetPropertyData(ControlFor(o, p), TranslatedTo[p], "Global", 1)
         ELSE Error("UnknownProperty")
    [] OTHER ->
         BGM_GetPropertyData(o, p, s, BGM_GetPropertyDataSize(o, p, s))
Throws(o, c, s, controls) ==
  /\ c.guarded => AudioObjectHasProperty(o, c.property, s, controls)
  /\ AudioObjectGetPropertyData(o, c.property, s, controls).error # "none"

-----------------------------------------------------------------------------
(* BGMAudioDevice                                                          *)

CopyDeviceUID(d) ==
  AudioObjectGetPropertyData(d, "DeviceUID", "Global", {}).data[1]
IsBGMDeviceInstance(d) == CopyDeviceUID(d) \in Instances
CanBeOutputDeviceInBGMApp(d) ==
  /\ ~IsBGMDeviceInstance(d) /\ CopyDeviceUID(d) # "Null"
  /\ AudioObjectGetPropertyData(d, "IsHidden", "Global", {}).data # <<TRUE>>
  /\ AudioObjectGetPropertyData(d, "Streams", "Output", {}).data # <<>>
  /\ AudioObjectGetPropertyData(d, "CanBeDefaultDevice", "Output", {}).data[1]
HasSettableMain(d, p, controls) ==
  /\ AudioObjectHasProperty(d, p, "Output", controls)
  /\ AudioObjectIsPropertySettable(d, p, "Output", controls)

\* What BGMApp asks of a device without asking whether it is there.
AppAsks ==
  {"DeviceUID", "Name", "TransportType", "DeviceIsAlive", "IsHidden",
   "CanBeDefaultDevice", "StreamConfiguration", "Streams", "DeviceIsRunning",
   "NominalSampleRate", "Latency", "BufferFrameSize", "IOProcStreamUsage",
   "IOCycleUsage"}
AppCalls == {c \in DeviceCalls : c.property \in AppAsks}
\* What it reads of its own device, and throws at if it is not of the type.
AppReads == {"AudibleState", "MusicPlayerProcessID", "MusicPlayerBundleID",
             "DebugLogging"}
\* What it sets on its own device.
AppSets == {"NominalSampleRate", "AppVolumes", "AppEQ", "MusicPlayerProcessID",
            "MusicPlayerBundleID", "EnabledOutputControls", "DebugLogging"}

(* A call of the library about a property that a device or stream has      *)
(* never throws, and one about another throws unless it asks first.        *)
CallsAnswered(d, controls) ==
  /\ \A c \in DeviceCalls : \A s \in c.scopes :
       Throws(d, c, s, controls) <=>
         /\ ~c.guarded
         /\ ~AudioObjectHasProperty(d, c.property, s, controls)
  /\ d \in Instances =>
       \A x \in {InputStream[d], OutputStream[d]}, c \in StreamCalls :
         ~Throws(x, c, "Global", controls)

(* The calls BGMApp makes without asking never throw; a control that it    *)
(* has found settable can be read; what it reads of its own device is      *)
(* there and what it sets is settable; none of the driver's devices is     *)
(* offered as an output device; and the UID of a device leads back to it.  *)
AsksAnswered(d, controls) ==
  /\ \A c \in AppCalls : \A s \in c.scopes : ~Throws(d, c, s, controls)
  /\ \A p \in {"VolumeScalar", "Mute"} :
       HasSettableMain(d, p, controls) =>
         AudioObjectGetPropertyData(d, p, "Output", controls).error = "none"
  /\ d \in Instances =>
       /\ \A p \in AppReads : ~Throws(d, Call(p, Sides, FALSE), "Global", controls)
       /\ \A p \in AppSets : AudioObjectIsPropertySettable(d, p, "Global", controls)
  /\ ~CanBeOutputDeviceInBGMApp(d)
  /\ d \in active => TranslateUIDToDevice(CopyDeviceUID(d)) = d
=============================================================================

----------------------------- MODULE HALObjects -----------------------------
(***************************************************************************)
(* The audio objects BGMDriver publishes to coreaudiod, and what their     *)
(* properties say: which properties an object has, which can be set, how   *)
(* much room their values need and what the values are.  Each class asks   *)
(* its superclass about a property it does not know.                       *)
(*                                                                         *)
(* Sizes are numbers of items, not of bytes.  A value that never changes,  *)
(* and the two of WC_Device that IO changes (DeviceIsRunning and           *)
(* AudibleState), are represented by their selector; a UID by its device.  *)
(***************************************************************************)
EXTENDS VolumeCurve, Sequences

CONSTANTS Client, Rate, DefaultRate

VARIABLES
  active,    \* the objects whose mIsActive is true
  level,     \* mVolumeRaw of the volume controls
  muted,     \* mMuted of the mute control
  on,        \* mIsStreamActive of the streams
  rate,      \* mLoopbackSampleRate of the two instances of WC_Device
  format,    \* mSampleRate of the streams
  music,     \* the two music player properties of an instance
  volumes,   \* the relative volumes of an instance's clients
  gains,     \* the equaliser gains of an instance's clients
  clients,   \* the clients of an instance
  debug,     \* BGMDebugLoggingIsEnabled(), of the whole process
  nullIO     \* WC_NullDevice::mClientsDoingIO

objects == <<active, level, muted, on, rate, format, music, volumes, gains,
             clients, debug, nullIO>>

Scopes == {"Global", "Input", "Output"}
Instances == {"Device", "UI"}
InputStream == [Device |-> "In", UI |-> "UIIn"]
OutputStream == [Device |-> "Out", UI |-> "UIOut"]
VolumeControl == [Device |-> "Volume", UI |-> "UIVolume"]
\* The UI sounds instance has no mute control: its ID is kAudioObjectUnknown.
MuteControl == [Device |-> "Mute", UI |-> "Unknown"]
Streams == {"In", "Out", "UIIn", "UIOut", "NullOut"}
Volumes == {"Volume", "UIVolume"}

SubObjects(d) ==
  {InputStream[d], OutputStream[d], VolumeControl[d], MuteControl[d]}
    \ {"Unknown"}
Objects ==
  {"PlugIn", "Null", "NullOut"} \cup Instances
    \cup UNION {SubObjects(d) : d \in Instances}
Devices == {"Device", "UI", "Null"}

\* The owner passed to the object's constructor.
OwnerOf(o) ==
  CASE o = "PlugIn"  -> "Unknown"
    [] o \in Devices -> "PlugIn"
    [] o = "NullOut" -> "Null"
    [] OTHER         -> CHOOSE d \in Instances : o \in SubObjects(d)

Error(e) == [error |-> e, data |-> <<>>]
Answer(data) == [error |-> "none", data |-> data]
Scalar(room, v) == IF room < 1 THEN Error("BadPropertySize") ELSE Answer(<<v>>)
\* A list is cut to the room there is.
List(room, items) ==
  Answer(SubSeq(items, 1, IF room < Len(items) THEN room ELSE Len(items)))
IfActive(o) == IF o \in active THEN <<o>> ELSE <<>>

-----------------------------------------------------------------------------
(* WC_Object                                                               *)

ObjectProperties == {"BaseClass", "Class", "Owner", "OwnedObjects"}
Object_Has(p) == p \in ObjectProperties
Object_Size(p) == IF p = "OwnedObjects" THEN 0 ELSE 1
Object_Get(o, p, room) ==
  CASE p = "OwnedObjects" -> Answer(<<>>)
    [] p = "Owner"        -> Scalar(room, OwnerOf(o))
    [] p \in ObjectProperties \ {"OwnedObjects", "Owner"} -> Scalar(room, p)
    [] OTHER              -> Error("UnknownProperty")

-----------------------------------------------------------------------------
(* WC_Control, WC_VolumeControl and WC_MuteControl                         *)

ControlProperties == {"Scope", "Element"}
Control_Has(p) == p \in ControlProperties \/ Object_Has(p)
Control_Size(p) == IF p \in ControlProperties THEN 1 ELSE Object_Size(p)
Control_Get(o, p, room) ==
  IF p \in ControlProperties THEN Scalar(room, p) ELSE Object_Get(o, p, room)

VolumeSettable == {"ScalarValue", "DecibelValue"}
\* The curve of the instance's volume control and, once it is at full volume,
\* the steeper one of the UI sounds instance.
NewVolumeCurve == AddRange(NewCurve, CurveRange(0, 96, -19200, 0))
Curve ==
  [Volume |-> NewVolumeCurve, UIVolume |-> SetTransferFunction(NewVolumeCurve, 7)]
\* The gain that the volume is applied with, of FullScalar(c): the curve once
\* more, from the position of the slider in whole raw steps.
AmplitudeGain(c, raw) ==
  LET slider == ConvertRawToScalar(c, raw) \div RawRange(c) ^ (Exponent(c) - 1)
  IN  ConvertRawToScalar(c, GetMinimumRaw(c) + slider)
VolumeProperties ==
  VolumeSettable \cup
    {"DecibelRange", "ConvertScalarToDecibels", "ConvertDecibelsToScalar"}
Volume_Has(p) == p \in VolumeProperties \/ Control_Has(p)
Volume_Size(p) == IF p \in VolumeProperties THEN 1 ELSE Control_Size(p)
Volume_Get(o, p, room) ==
  CASE p = "ScalarValue" -> Scalar(room, ConvertRawToScalar(Curve[o], level[o]))
    [] p = "DecibelValue" -> Scalar(room, ConvertRawToDB(Curve[o], level[o]))
    [] p = "DecibelRange" ->
         Scalar(room, <<GetMinimumDB(Curve[o]), GetMaximumDB(Curve[o])>>)
    [] p \in {"ConvertScalarToDecibels", "ConvertDecibelsToScalar"} ->
         Scalar(room, p)
    [] OTHER -> Control_Get(o, p, room)

Mute_Has(p) == p = "Value" \/ Control_Has(p)
Mute_Size(p) == IF p = "Value" THEN 1 ELSE Control_Size(p)
Mute_Get(o, p, room) ==
  IF p = "Value" THEN Scalar(room, muted) ELSE Control_Get(o, p, room)

-----------------------------------------------------------------------------
(* WC_Stream                                                               *)

StreamSettable == {"IsActive", "VirtualFormat", "PhysicalFormat"}
StreamLists == {"AvailableVirtualFormats", "AvailablePhysicalFormats"}
StreamProperties ==
  StreamSettable \cup StreamLists \cup
    {"Direction", "TerminalType", "StartingChannel", "Latency"}
Stream_Has(p) == p \in StreamProperties \/ Object_Has(p)
Stream_Size(p) == IF p \in StreamProperties THEN 1 ELSE Object_Size(p)
\* Both streams of an instance are constructed with inIsInput = false.
Stream_Get(o, p, room) ==
  CASE p = "IsActive" -> Scalar(room, on[o])
    [] p \in {"VirtualFormat", "PhysicalFormat"} -> Scalar(room, format[o])
    [] p \in StreamLists -> List(room, <<format[o]>>)
    [] p = "Direction" -> Scalar(room, 0)
    [] p = "TerminalType" -> Scalar(room, "Speaker")
    [] p \in {"StartingChannel", "Latency"} -> Scalar(room, p)
    [] OTHER -> Object_Get(o, p, room)

-----------------------------------------------------------------------------
(* WC_AbstractDevice                                                       *)

AnsweredBySubclass ==
  {"Name", "Manufacturer", "DeviceUID", "ModelUID", "DeviceIsRunning",
   "ZeroTimeStampPeriod", "NominalSampleRate", "AvailableNominalSampleRates"}
AbstractLists ==
  {"RelatedDevices", "Streams", "ControlList", "AvailableNominalSampleRates"}
AbstractValues ==
  {"TransportType", "ClockDomain", "DeviceIsAlive", "CanBeDefaultDevice",
   "CanBeDefaultSystemDevice", "Latency", "SafetyOffset", "IsHidden"}
AbstractProperties == AnsweredBySubclass \cup AbstractLists \cup AbstractValues

Abstract_Has(p) == p \in AbstractProperties \/ Object_Has(p)
Abstract_Size(p) ==
  CASE p \in {"Streams", "ControlList", "AvailableNominalSampleRates"} -> 0
    [] p \in AbstractProperties
         \ {"Streams", "ControlList", "AvailableNominalSampleRates"} -> 1
    [] OTHER -> Object_Size(p)
\* Asked for a property that the subclass should have answered, it throws.
Abstract_Get(o, p, room) ==
  CASE p \in AnsweredBySubclass -> Error("IllegalOperation")
    [] p = "RelatedDevices" -> List(room, <<o>>)
    [] p \in {"Streams", "ControlList"} -> Answer(<<>>)
    [] p = "DeviceIsAlive" -> Scalar(room, TRUE)
    [] p \in {"CanBeDefaultDevice", "CanBeDefaultSystemDevice"} ->
         Scalar(room, TRUE)
    [] p = "IsHidden" -> Scalar(room, FALSE)
    [] p \in {"TransportType", "ClockDomain", "Latency", "SafetyOffset"} ->
         Scalar(room, p)
    [] OTHER -> Object_Get(o, p, room)

-----------------------------------------------------------------------------
(* WC_NullDevice                                                           *)

NullConstants ==
  {"Name", "Manufacturer", "ModelUID", "NominalSampleRate",
   "ZeroTimeStampPeriod"}
Null_Has(p) ==
  p \in {"CanBeDefaultDevice", "CanBeDefaultSystemDevice"} \/ Abstract_Has(p)
Null_Size(p) ==
  IF p \in {"Streams", "AvailableNominalSampleRates"} THEN 1
  ELSE Abstract_Size(p)
Null_Get(p, s, room) ==
  CASE p \in NullConstants -> Scalar(room, p)
    [] p = "DeviceUID" -> Scalar(room, "Null")
    [] p = "DeviceIsAlive" -> Scalar(room, "Null" \in active)
    [] p = "DeviceIsRunning" -> Scalar(room, nullIO > 0)
    [] p = "Streams" -> List(room, IF s = "Input" THEN <<>> ELSE <<"NullOut">>)
    [] p = "AvailableNominalSampleRates" -> List(room, <<p>>)
    [] OTHER -> Abstract_Get("Null", p, room)

-----------------------------------------------------------------------------
(* WC_PlugIn                                                               *)

PlugInSettable == {"NullDeviceActive"}
PlugInProperties ==
  {"Manufacturer", "DeviceList", "TranslateUIDToDevice", "ResourceBundle",
   "CustomPropertyInfoList", "NullDeviceActive"}
PlugIn_Has(p) == p \in PlugInProperties \/ Object_Has(p)
PlugIn_Size(p) ==
  CASE p \in {"OwnedObjects", "DeviceList"} ->
         IF "Null" \in active THEN 3 ELSE 2
    [] p \in PlugInProperties \ {"DeviceList"} -> 1
    [] OTHER -> Object_Size(p)
DeviceList(room) == List(room, <<"Device", "UI">> \o IfActive("Null"))
PlugIn_Get(p, room) ==
  CASE p \in {"OwnedObjects", "DeviceList"} -> DeviceList(room)
    [] p = "CustomPropertyInfoList" -> List(room, <<"NullDeviceActive">>)
    [] p = "NullDeviceActive" -> Scalar(room, "Null" \in active)
    [] p \in {"Manufacturer", "ResourceBundle", "TranslateUIDToDevice"} ->
         Scalar(room, p)
    [] OTHER -> Object_Get("PlugIn", p, room)
\* TranslateUIDToDevice for the UID of device d, as qualifier.
TranslateUIDToDevice(d) ==
  IF d \in Instances \/ (d = "Null" /\ "Null" \in active) THEN d ELSE "Unknown"

-----------------------------------------------------------------------------
(* WC_Device                                                               *)

\* In the order in which CustomPropertyInfoList has them.
CustomProperties ==
  <<"AppVolumes", "MusicPlayerProcessID", "MusicPlayerBundleID",
    "IsRunningElsewhere", "AudibleState", "EnabledOutputControls",
    "DebugLogging", "AppEQ">>
Custom == {CustomProperties[i] : i \in DOMAIN CustomProperties}
kNumCustomProperties == 8

ScopedProperties ==
  {"Latency", "SafetyOffset", "PreferredChannelsForStereo",
   "PreferredChannelLayout", "CanBeDefaultDevice", "CanBeDefaultSystemDevice"}
Device_HasProperty(p, s) ==
  IF p \in ScopedProperties THEN s \in {"Input", "Output"}
  ELSE \/ p \in {"Streams", "Icon", "CustomPropertyInfoList"} \cup Custom
       \/ Abstract_Has(p)
DeviceSettable ==
  {"NominalSampleRate"} \cup (Custom \ {"IsRunningElsewhere", "AudibleState"})

\* The controls that are active, volume before mute.
Controls(d) == IfActive(VolumeControl[d]) \o IfActive(MuteControl[d])
GetNumberOfOutputControls(d) ==
  (IF VolumeControl[d] \in active THEN 1 ELSE 0)
    + (IF MuteControl[d] \in active THEN 1 ELSE 0)
GetNumberOfOutputSubObjects(d) == 1 + GetNumberOfOutputControls(d)
GetNumberOfSubObjects(d) == 1 + GetNumberOfOutputSubObjects(d)

OwnedObjectsSize(d, s) ==
  CASE s = "Global" -> GetNumberOfSubObjects(d)
    [] s = "Input"  -> 1
    [] s = "Output" -> 1 + GetNumberOfOutputControls(d)
Device_GetPropertyDataSize(d, p, s) ==
  CASE p = "OwnedObjects" -> OwnedObjectsSize(d, s)
    [] p = "Streams" -> IF s = "Global" THEN 2 ELSE 1
    [] p = "ControlList" -> GetNumberOfOutputControls(d)
    [] p = "AvailableNominalSampleRates" -> 1
    [] p = "CustomPropertyInfoList" -> kNumCustomProperties
    [] p \in {"PreferredChannelsForStereo", "PreferredChannelLayout"} -> 2
    [] p \in {"Icon"} \cup Custom -> 1
    [] OTHER -> Abstract_Size(p)

\* For the output scope the data is cut to the number of controls.
OwnedObjectsData(d, s, room) ==
  LET controls == GetNumberOfOutputControls(d)
      cut == IF room < controls THEN room ELSE controls
  IN  CASE s = "Global" ->
             List(room, <<InputStream[d], OutputStream[d]>> \o Controls(d))
        [] s = "Input"  -> List(room, <<InputStream[d]>>)
        [] s = "Output" -> List(cut, <<OutputStream[d]>> \o Controls(d))
StreamsData(d, s, room) ==
  List(room, CASE s = "Global" -> <<InputStream[d], OutputStream[d]>>
               [] s = "Input"  -> <<InputStream[d]>>
               [] s = "Output" -> <<OutputStream[d]>>)
CustomInfoData(room) ==
  List(IF room < kNumCustomProperties THEN room ELSE kNumCustomProperties,
       CustomProperties)

\* A client keeps the scalar of its volume; the default is that of the middle.
AppVolumeCurve == AddRange(NewCurve, CurveRange(0, 100, -19200, 0))
RelativeVolume(raw) == ConvertRawToScalar(AppVolumeCurve, raw)
DefaultVolume == RelativeVolume(50)
\* Only the settings that are not the default ones are listed.
AppVolumes(d) ==
  {<<c, ConvertScalarToRaw(AppVolumeCurve, volumes[d][c])>> :
     c \in {x \in clients[d] : volumes[d][x] # DefaultVolume}}
AppEQ(d) ==
  {<<c, gains[d][c]>> : c \in {x \in clients[d] : gains[d][x] # "flat"}}

CustomData(d) ==
  [AppVolumes |-> AppVolumes(d),
   MusicPlayerProcessID |-> music[d].pid,
   MusicPlayerBundleID |-> music[d].bundle,
   EnabledOutputControls |->
     <<VolumeControl[d] \in active, MuteControl[d] \in active>>,
   DebugLogging |-> debug,
   AppEQ |-> AppEQ(d)]
DeviceConstants ==
  {"Name", "Manufacturer", "ModelUID", "DeviceIsRunning",
   "ZeroTimeStampPeriod", "Icon", "IsRunningElsewhere", "AudibleState"}
PreferredData(p, room) ==
  IF room < 2 THEN Error("BadPropertySize") ELSE Answer(<<p, p>>)
Device_GetPropertyData(d, p, s, room) ==
  CASE p = "OwnedObjects" -> OwnedObjectsData(d, s, room)
    [] p = "Streams" -> StreamsData(d, s, room)
    [] p = "ControlList" -> List(room, Controls(d))
    [] p = "CustomPropertyInfoList" -> CustomInfoData(room)
    [] p \in DOMAIN CustomData(d) -> Scalar(room, CustomData(d)[p])
    [] p = "NominalSampleRate" -> Scalar(room, rate[d])
    [] p = "AvailableNominalSampleRates" -> List(room, <<p>>)
    [] p = "DeviceUID" -> Scalar(room, d)
    [] p = "CanBeDefaultDevice" -> Scalar(room, d # "UI")
    [] p \in {"PreferredChannelsForStereo", "PreferredChannelLayout"} ->
         PreferredData(p, room)
    [] p \in DeviceConstants -> Scalar(room, p)
    [] OTHER -> Abstract_Get(d, p, room)

-----------------------------------------------------------------------------
(* From an object's ID to the object, and what the plug-in's interface     *)
(* answers about it.                                                       *)

\* The two controls check the ID they are asked about, so that the mute
\* control whose ID is kAudioObjectUnknown never answers.
LookUpOwnerObject(o) == o \in Objects

HasProperty(o, p, s) ==
  CASE o = "PlugIn"       -> PlugIn_Has(p)
    [] o \in Instances    -> Device_HasProperty(p, s)
    [] o = "Null"         -> Null_Has(p)
    [] o \in Streams      -> Stream_Has(p)
    [] o \in Volumes      -> Volume_Has(p)
    [] o = "Mute"         -> Mute_Has(p)
IsPropertySettable(o, p) ==
  p \in CASE o = "PlugIn"       -> PlugInSettable
          [] o \in Instances    -> DeviceSettable
          [] o = "Null"         -> {}
          [] o \in Streams      -> StreamSettable
          [] o \in Volumes      -> VolumeSettable
          [] o = "Mute"         -> {"Value"}
SizeOf(o, p, s) ==
  CASE o = "PlugIn"       -> PlugIn_Size(p)
    [] o \in Instances    -> Device_GetPropertyDataSize(o, p, s)
    [] o = "Null"         -> Null_Size(p)
    [] o \in Streams      -> Stream_Size(p)
    [] o \in Volumes      -> Volume_Size(p)
    [] o = "Mute"         -> Mute_Size(p)
DataOf(o, p, s, room) ==
  CASE o = "PlugIn"       -> PlugIn_Get(p, room)
    [] o \in Instances    -> Device_GetPropertyData(o, p, s, room)
    [] o = "Null"         -> Null_Get(p, s, room)
    [] o \in Streams      -> Stream_Get(o, p, room)
    [] o \in Volumes      -> Volume_Get(o, p, room)
    [] o = "Mute"         -> Mute_Get(o, p, room)

BGM_HasProperty(o, p, s) == LookUpOwnerObject(o) /\ HasProperty(o, p, s)
BGM_IsPropertySettable(o, p, s) ==
  BGM_HasProperty(o, p, s) /\ IsPropertySettable(o, p)
BGM_GetPropertyDataSize(o, p, s) ==
  IF BGM_HasProperty(o, p, s) THEN SizeOf(o, p, s) ELSE 0
BGM_GetPropertyData(o, p, s, room) ==
  CASE ~LookUpOwnerObject(o)    -> Error("BadObject")
    [] BGM_HasProperty(o, p, s) -> DataOf(o, p, s, room)
    [] OTHER                    -> Error("UnknownProperty")

Properties ==
  ObjectProperties \cup ControlProperties \cup VolumeProperties \cup {"Value"}
    \cup StreamProperties \cup AbstractProperties \cup PlugInProperties
    \cup ScopedProperties \cup Custom \cup {"Icon"}
ObjectLists == {"OwnedObjects", "Streams", "ControlList", "DeviceList"}

-----------------------------------------------------------------------------
(* A client asks how much room a value needs and then for the value.  It   *)
(* gets a value of that size, of every property the object says it has:    *)
(* no superclass is left with a property it cannot answer.  In two cases   *)
(* it gets one item fewer: the output scope of an instance's OwnedObjects, *)
(* where the last control is left out, or the stream when there is none,   *)
(* and the input scope of the Null Device's Streams, which are none.       *)
CutShort(o, p, s) ==
  \/ p = "OwnedObjects" /\ o \in Instances /\ s = "Output"
  \/ p = "Streams" /\ o = "Null" /\ s = "Input"
Served(o, p, s) ==
  LET room == BGM_GetPropertyDataSize(o, p, s)
      got == BGM_GetPropertyData(o, p, s, room)
  IN  /\ got.error = "none"
      /\ Len(got.data) = IF CutShort(o, p, s) THEN room - 1 ELSE room

(* A list of objects names active objects, each once, and their owner is   *)
(* the object that has the list.  Nobody asks whether a stream is active,  *)
(* and that of the Null Device never is.  The exception is the mute        *)
(* control without an ID, which the UI sounds instance lists once active.  *)
Named(o, p, s) ==
  LET got == BGM_GetPropertyData(o, p, s, BGM_GetPropertyDataSize(o, p, s)).data
      names == {got[i] : i \in DOMAIN got} \ {"Unknown"}
  IN  /\ \A x \in names : (x \in active \/ x \in Streams) /\ OwnerOf(x) = o
      /\ \A i, j \in DOMAIN got : got[i] = got[j] => i = j
      /\ ("Unknown" \in {got[i] : i \in DOMAIN got}) => o = "UI"

(* The list of custom properties has every custom property of a device:    *)
(* what it leaves out nobody can discover.                                 *)
Discoverable(d) ==
  LET got == BGM_GetPropertyData(d, "CustomPropertyInfoList", "Global",
               BGM_GetPropertyDataSize(d, "CustomPropertyInfoList", "Global"))
  IN  Custom \subseteq {got.data[i] : i \in DOMAIN got.data}

(* The volumes that clients see are one volume, and it is never applied as *)
(* a boost, nor a higher one as a lower gain: silence and full volume are  *)
(* the ends of the slider.                                                 *)
GainFollows(c) ==
  /\ AmplitudeGain(c, GetMinimumRaw(c)) = 0
  /\ AmplitudeGain(c, GetMaximumRaw(c)) = FullScalar(c)
  /\ \A raw \in GetMinimumRaw(c) .. GetMaximumRaw(c) - 1 :
       AmplitudeGain(c, raw) <= AmplitudeGain(c, raw + 1)
VolumesConvert ==
  /\ \A o \in Volumes : ScalesAgree(Curve[o]) /\ GainFollows(Curve[o])
  /\ ScalesAgree(AppVolumeCurve)

PropertiesServed ==
  /\ VolumesConvert
  /\ \A o \in Objects \cap (active \cup Streams), p \in Properties, s \in Scopes :
       BGM_HasProperty(o, p, s) => Served(o, p, s)
  /\ \A o \in Objects \cap active, p \in ObjectLists, s \in Scopes :
       BGM_HasProperty(o, p, s) => Named(o, p, s)
  /\ \A d \in Instances \cap active : Discoverable(d)
=============================================================================

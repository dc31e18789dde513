------------------------------ MODULE HALDevice ------------------------------
(***************************************************************************)
(* The HAL interface of BGMDriver: coreaudiod and its clients set          *)
(* properties, add and remove clients and run IO; the driver announces     *)
(* what changed, and asks to be stopped before its sample rate or its list *)
(* of controls changes.                                                    *)
(*                                                                         *)
(* Every notification and request is a block on one serial dispatch queue, *)
(* because the host must not be called with a lock held.  The host reads   *)
(* again what it is told about, in two calls: how much room the value      *)
(* needs, then the value.  A device has two mutexes: mStateMutex, which    *)
(* most setters hold from beginning to end, and mIOMutex, which the IO     *)
(* thread holds during an operation.  Adding and removing a client takes   *)
(* both, so these calls, and those that take no lock, have several steps.  *)
(***************************************************************************)
EXTENDS HALCalls

CONSTANTS
  BGMApp,       \* the client that is BGMApp
  Helpers,      \* the helper processes whose settings follow an app's
  MusicApp,     \* the client that the music player's IDs are of
  Thread,       \* the host's threads that make calls of several steps
  NoCall,       \* what a thread that makes none is doing
  MaxCalls      \* bound on the calls that change something

ASSUME HALAssumption ==
  /\ BGMApp \in Client /\ MusicApp \in Client
  /\ Helpers \in [Client -> Seq(Client)]
  /\ DefaultRate \in Rate
  /\ NoCall \notin [op : {"null"}, value : BOOLEAN, at : {"change", "announce"}]
  /\ MaxCalls \in Nat

VARIABLES
  phase,            \* "none", "created" or "ready"
  queue,            \* CADispatchQueue::GetGlobalSerialQueue()
  requests,         \* configuration changes the host has been asked for
  pendingRate,      \* mPendingSampleRate
  pendingControls,  \* mPendingOutput{Volume,Mute}ControlEnabled
  aborted,          \* ghost: instances one of whose changes was aborted
  asked,            \* ghost: the rate and the controls last asked for
  ignored,          \* ghost: instances that ignored a request for what they
                    \* had, though another change was pending
  announced,        \* ghost: the instance DebugLogging was last announced on
  call,             \* what each thread is doing
  added,            \* ghost: clients added so far, whose IDs are not used again
  marked,           \* clients with mIsMusicPlayer set
  stateLock,        \* mStateMutex is held between steps
  ioLock,           \* who holds mIOMutex: nobody, the IO thread or a call
  processors,       \* mClientEQProcessors
  io,               \* what the IO thread of an instance is doing
  view,             \* what the host last read of each watched property
  told,             \* properties the host has still to read again
  reading,          \* the property the host is reading and the room it has
  calls             \* number of calls made

setup == <<phase, calls>>
asks == <<asked, ignored>>
config == <<requests, pendingRate, pendingControls, aborted, asks, announced>>
members == <<added, marked>>
locks == <<stateLock, ioLock>>
equalisers == <<processors, io>>
host == <<view, told, reading>>
vars == <<objects, setup, queue, config, call, members, locks, equalisers, host>>

Nothing == <<>>
Idle == [at |-> "idle", client |-> BGMApp]
BusyCalls == {t \in Thread : call[t] # NoCall}
Flat == [gains |-> "flat", rate |-> DefaultRate]
\* The ends of a volume control's range, and the scalars and decibels beyond
\* them that a client sets.
Levels == {0, 96}
BeyondScalars == {-1, 96 ^ 4 + 1}
BeyondDecibels == {-20000, 1200}
\* The default raw setting, and the end of the range a slider is pulled beyond.
AppVolumeSet == {50, 100}
GainSet == {"flat", "boost"}
Players == {"nobody", "player"}

Watched ==
  {<<"PlugIn", "DeviceList">>, <<"PlugIn", "OwnedObjects">>,
   <<"Null", "DeviceIsAlive">>, <<"Null", "DeviceIsRunning">>,
   <<"Mute", "Value">>}
    \cup {<<v, "ScalarValue">> : v \in Volumes}
    \cup Streams \X {"IsActive"}
    \cup (Streams \ {"NullOut"}) \X {"VirtualFormat"}
    \cup Instances \X
           {"OwnedObjects", "ControlList", "NominalSampleRate",
            "EnabledOutputControls", "MusicPlayerProcessID",
            "MusicPlayerBundleID", "AppVolumes", "AppEQ", "DebugLogging"}
Read(k, room) == BGM_GetPropertyData(k[1], k[2], "Global", room).data
Room(k) == BGM_GetPropertyDataSize(k[1], k[2], "Global")

TypeOK ==
  /\ active \subseteq Objects \cup {"Unknown"}
  /\ level \in [Volumes -> Levels] /\ muted \in BOOLEAN
  /\ on \in [Streams -> BOOLEAN]
  /\ rate \in [Instances -> Rate] /\ format \in [Streams -> Rate]
  /\ music \in [Instances -> [pid : Players, bundle : Players]]
  /\ volumes \in [Instances -> [Client -> {RelativeVolume(v) : v \in AppVolumeSet}]]
  /\ gains \in [Instances -> [Client -> GainSet]]
  /\ clients \in [Instances -> SUBSET Client] /\ added \in [Instances -> SUBSET Client]
  /\ marked \in [Instances -> SUBSET Client]
  /\ debug \in BOOLEAN /\ nullIO \in Nat
  /\ phase \in {"none", "created", "ready"} /\ calls \in 0 .. MaxCalls
  /\ queue \in Seq([kind : {"changed"}, keys : SUBSET (Objects \X Properties)]
                   \cup [kind : {"request"}, device : Instances,
                         action : {"SetSampleRate", "SetEnabledControls"}])
  /\ requests \in Seq([device : Instances,
                       action : {"SetSampleRate", "SetEnabledControls"}])
  /\ pendingRate \in [Instances -> Rate]
  /\ pendingControls \in [Instances -> BOOLEAN \X BOOLEAN]
  /\ aborted \subseteq Instances /\ ignored \subseteq Instances
  /\ asked \in [Instances -> [rate : Rate, controls : BOOLEAN \X BOOLEAN]]
  /\ announced \in Instances
  /\ stateLock \in [Instances -> BOOLEAN]
  /\ ioLock \in [Instances -> {"nobody", "IO", "call"}]
  /\ io \in [Instances -> [at : {"idle", "busy", "eq"}, client : Client]]
  /\ told \subseteq Watched

-----------------------------------------------------------------------------
(* Loading the plug-in                                                     *)

Init ==
  /\ active = {} /\ level = [v \in Volumes |-> 0] /\ muted = FALSE
  /\ on = [s \in Streams |-> FALSE]
  /\ rate = [d \in Instances |-> DefaultRate]
  /\ format = [s \in Streams |-> DefaultRate]
  /\ music = [d \in Instances |-> [pid |-> "nobody", bundle |-> "nobody"]]
  /\ volumes = [d \in Instances |-> [c \in Client |-> DefaultVolume]]
  /\ gains = [d \in Instances |-> [c \in Client |-> "flat"]]
  /\ clients = [d \in Instances |-> {}] /\ added = [d \in Instances |-> {}]
  /\ marked = [d \in Instances |-> {}]
  /\ debug = FALSE /\ nullIO = 0
  /\ phase = "none" /\ calls = 0
  /\ queue = <<>> /\ requests = <<>>
  /\ pendingRate = [d \in Instances |-> DefaultRate]
  /\ pendingControls = [d \in Instances |-> <<TRUE, TRUE>>]
  /\ aborted = {} /\ call = [t \in Thread |-> NoCall]
  /\ asked = [d \in Instances |-> [rate |-> DefaultRate, controls |-> <<TRUE, TRUE>>]]
  /\ ignored = {} /\ announced = "Device"
  /\ stateLock = [d \in Instances |-> FALSE]
  /\ ioLock = [d \in Instances |-> "nobody"]
  /\ processors = [d \in Instances |-> <<>>] /\ io = [d \in Instances |-> Idle]
  /\ view = <<>> /\ told = {} /\ reading = Nothing

Changed(o, ps) == [kind |-> "changed", keys |-> {o} \X ps]
Request(d, a) == [kind |-> "request", device |-> d, action |-> a]
Dispatch(block) == queue' = Append(queue, block)

ActivatePlugIn == active' = active \cup {"PlugIn"}
BGM_Create ==
  /\ phase = "none" /\ phase' = "created" /\ ActivatePlugIn
  /\ UNCHANGED <<level, muted, on, rate, format, music, volumes, gains,
                 clients, debug, nullIO>>
  /\ UNCHANGED <<calls, queue, config, call, members, locks, equalisers, host>>

\* What WC_Device::Activate activates: no control without an ID.
Activated(d) == {d} \cup SubObjects(d)
\* The volume of the UI sounds instance is set to the highest one.
CreateInstances ==
  /\ active' = active \cup UNION {Activated(d) : d \in Instances}
  /\ level' = [level EXCEPT !["UIVolume"] = 96]
  /\ Dispatch(Changed("UIVolume", {"ScalarValue", "DecibelValue"}))
\* The host then reads every property it watches.
BGM_Initialize ==
  /\ phase = "created" /\ phase' = "ready" /\ CreateInstances
  /\ UNCHANGED <<muted, on, rate, format, music, volumes, gains, clients,
                 debug, nullIO>>
  /\ view' = [k \in Watched |-> Read(k, Room(k))']
  /\ UNCHANGED <<calls, config, call, members, locks, equalisers, told, reading>>

-----------------------------------------------------------------------------
(* Setting a property.  What a setter changes it announces, once it has    *)
(* changed it: AnnounceIf is the end of every setter.                      *)

Setter(o, p) ==
  /\ phase = "ready" /\ calls < MaxCalls /\ calls' = calls + 1
  /\ BGM_IsPropertySettable(o, p, "Global")
AnnounceIf(changed, o, ps) ==
  IF changed THEN Dispatch(Changed(o, ps)) ELSE UNCHANGED queue

\* The two scales of a volume are the same raw value.
SetVolumeRaw(o, v) ==
  /\ level' = [level EXCEPT ![o] = v]
  /\ AnnounceIf(level[o] # v, o, {"ScalarValue", "DecibelValue"})
SetVolume ==
  /\ \E o \in Volumes :
       \/ \E s \in BeyondScalars :
            Setter(o, "ScalarValue") /\ SetVolumeRaw(o, ConvertScalarToRaw(Curve[o], s))
       \/ \E db \in BeyondDecibels :
            Setter(o, "DecibelValue") /\ SetVolumeRaw(o, ConvertDBToRaw(Curve[o], db))
  /\ UNCHANGED <<active, muted, on, rate, format, music, volumes, gains,
                 clients, debug, nullIO, phase, config, call, members, locks,
                 equalisers, host>>

SetMute ==
  /\ Setter("Mute", "Value")
  /\ \E m \in BOOLEAN :
       muted' = m /\ AnnounceIf(muted # m, "Mute", {"Value"})
  /\ UNCHANGED <<active, level, on, rate, format, music, volumes, gains,
                 clients, debug, nullIO, phase, config, call, members, locks,
                 equalisers, host>>

SetStreamActive ==
  /\ \E s \in Streams, b \in BOOLEAN :
       /\ Setter(s, "IsActive")
       /\ on' = [on EXCEPT ![s] = b]
       /\ AnnounceIf(on[s] # b, s, {"IsActive"})
  /\ UNCHANGED <<active, level, muted, rate, format, music, volumes, gains,
                 clients, debug, nullIO, phase, config, call, members, locks,
                 equalisers, host>>

\* Compared with the rate there is, not with the one last asked for.
Ask(d, what, x, ignores) ==
  /\ asked' = [asked EXCEPT ![d][what] = x]
  /\ ignored' = IF ignores THEN ignored \cup {d} ELSE ignored
RequestSampleRate(d, r) ==
  /\ ~stateLock[d]
  /\ Ask(d, "rate", r, r = rate[d] /\ r # pendingRate[d])
  /\ IF r # rate[d]
     THEN /\ pendingRate' = [pendingRate EXCEPT ![d] = r]
          /\ Dispatch(Request(d, "SetSampleRate"))
     ELSE UNCHANGED <<pendingRate, queue>>
\* Through the device, or through either of its streams, whose format
\* differs from the one they have in nothing but the rate.
SetRateOrFormat ==
  /\ \E d \in Instances, r \in Rate :
       /\ \/ Setter(d, "NominalSampleRate")
          \/ \E s \in {InputStream[d], OutputStream[d]} :
               Setter(s, "VirtualFormat")
       /\ RequestSampleRate(d, r)
  /\ UNCHANGED <<objects, phase, requests, pendingControls, aborted, announced,
                 call, members, locks, equalisers, host>>

IsActive(o) == o \in active
RequestEnabledControls(d, v, m) ==
  LET changeVolume == IsActive(VolumeControl[d]) # v
      changeMute == IsActive(MuteControl[d]) # m
  IN  /\ pendingControls' =
           [pendingControls EXCEPT
              ![d] = <<IF changeVolume THEN v ELSE @[1],
                       IF changeMute THEN m ELSE @[2]>>]
      /\ Ask(d, "controls", <<v, m>>,
             \/ ~changeVolume /\ pendingControls[d][1] # v
             \/ ~changeMute /\ pendingControls[d][2] # m)
      /\ IF changeVolume \/ changeMute
         THEN Dispatch(Request(d, "SetEnabledControls"))
         ELSE UNCHANGED queue
SetEnabledOutputControls ==
  /\ \E d \in Instances, v, m \in BOOLEAN :
       /\ Setter(d, "EnabledOutputControls") /\ ~stateLock[d]
       /\ RequestEnabledControls(d, v, m)
  /\ UNCHANGED <<objects, phase, requests, pendingRate, aborted, announced, call,
                 members, locks, equalisers, host>>

IsPlayer(c, player) == c = MusicApp /\ player = "player"
OtherID(id) == IF id = "pid" THEN "bundle" ELSE "pid"
UpdateMusicPlayerFlags(d, player) ==
  marked' = [marked EXCEPT ![d] = {c \in clients[d] : IsPlayer(c, player)}]
SetMusicPlayerAnnouncingOne(d, id, player) ==
  IF music[d][id] = player THEN UNCHANGED <<music, marked, queue>>
  ELSE /\ music' = [music EXCEPT ![d][id] = player, ![d][OtherID(id)] = "nobody"]
       /\ UpdateMusicPlayerFlags(d, player)
       /\ Dispatch(Changed(d, IF id = "pid" THEN {"MusicPlayerProcessID"}
                              ELSE {"MusicPlayerBundleID"}))
\* Setting one of a music player's two IDs unsets the other, unless the one
\* that is set is the one it had.
SetMusicPlayer(d, id, player) ==
  IF music[d][id] = player THEN UNCHANGED <<music, marked, queue>>
  ELSE /\ music' = [music EXCEPT ![d][id] = player, ![d][OtherID(id)] = "nobody"]
       /\ UpdateMusicPlayerFlags(d, player)
       /\ Dispatch(Changed(d, {"MusicPlayerProcessID", "MusicPlayerBundleID"}))
SetMusicPlayerProperty ==
  /\ \E d \in Instances, player \in Players :
       /\ ~stateLock[d]
       /\ \/ Setter(d, "MusicPlayerProcessID") /\ SetMusicPlayer(d, "pid", player)
          \/ Setter(d, "MusicPlayerBundleID") /\ SetMusicPlayer(d, "bundle", player)
  /\ UNCHANGED <<active, level, muted, on, rate, format, volumes, gains,
                 clients, debug, nullIO, phase, config, call, added, locks,
                 equalisers, host>>

\* The flag belongs to the process, the announcement to the instance.
SetDebugLogging ==
  /\ \E d \in Instances, b \in BOOLEAN :
       /\ Setter(d, "DebugLogging")
       /\ debug' = b /\ AnnounceIf(debug # b, d, {"DebugLogging"})
       /\ announced' = IF debug # b THEN d ELSE announced
  /\ UNCHANGED <<active, level, muted, on, rate, format, music, volumes, gains,
                 clients, nullIO, phase, requests, pendingRate, pendingControls,
                 aborted, asks, call, members, locks, equalisers, host>>

-----------------------------------------------------------------------------
(* The Null Device.  WC_PlugIn looks at it without a lock; Activate and    *)
(* Deactivate look again.                                                  *)

Begin(t, c) == call[t] = NoCall /\ call' = [call EXCEPT ![t] = c]
Continue(t, c) == call' = [call EXCEPT ![t] = c]
End(t) == call' = [call EXCEPT ![t] = NoCall]

SetNullDeviceActive(t) ==
  /\ Setter("PlugIn", "NullDeviceActive")
  /\ \E b \in BOOLEAN :
       /\ b # IsActive("Null")
       /\ Begin(t, [op |-> "null", value |-> b, at |-> "change"])
  /\ UNCHANGED <<objects, phase, queue, config, members, locks, equalisers, host>>
Null_Activate ==
  /\ active' = active \cup {"Null"}
  /\ AnnounceIf(~IsActive("Null"), "Null", {"DeviceIsAlive"})
Null_Deactivate ==
  /\ active' = active \ {"Null"}
  /\ AnnounceIf(IsActive("Null"), "Null", {"DeviceIsAlive"})
Making(t, op) == call[t] # NoCall /\ call[t].op = op
ChangeNullDevice(t) ==
  /\ Making(t, "null") /\ call[t].at = "change"
  /\ IF call[t].value THEN Null_Activate ELSE Null_Deactivate
  /\ Continue(t, [call[t] EXCEPT !.at = "announce"])
  /\ UNCHANGED <<level, muted, on, rate, format, music, volumes, gains, clients,
                 debug, nullIO, setup, config, members, locks, equalisers, host>>
AnnounceNullDevice(t) ==
  /\ Making(t, "null") /\ call[t].at = "announce" /\ End(t)
  /\ Dispatch(Changed("PlugIn", {"OwnedObjects", "DeviceList"}))
  /\ UNCHANGED <<objects, setup, config, members, locks, equalisers, host>>

Null_StartIO ==
  /\ phase = "ready" /\ calls < MaxCalls /\ calls' = calls + 1
  /\ \E i \in DOMAIN view[<<"PlugIn", "DeviceList">>] :
       view[<<"PlugIn", "DeviceList">>][i] = "Null"
  /\ nullIO' = nullIO + 1
  /\ AnnounceIf(nullIO = 0, "Null", {"DeviceIsRunning"})
  /\ UNCHANGED <<active, level, muted, on, rate, format, music, volumes, gains,
                 clients, debug, phase, config, call, members, locks, equalisers,
                 host>>
Null_StopIO ==
  /\ nullIO > 0 /\ nullIO' = nullIO - 1
  /\ AnnounceIf(nullIO' = 0, "Null", {"DeviceIsRunning"})
  /\ UNCHANGED <<active, level, muted, on, rate, format, music, volumes, gains,
                 clients, debug, setup, config, call, members, locks, equalisers,
                 host>>

-----------------------------------------------------------------------------
(* BGMApp's WCBackgroundMusicDevice sets an app's volume or equaliser, and *)
(* those of its helper processes, on both instances.                       *)

ClampVolume(v) == Clamp(v, 0, 100)
ClampGain(g) == IF g \in GainSet THEN g ELSE "boost"
ResponsibleBundleIDsOf(c) == Helpers[c]
Processes(c) == <<c>> \o ResponsibleBundleIDsOf(c)
Entries(cs, v) == [who |-> cs, value |-> v]
\* The volumes of an app and its helpers travel in one array.
SendAppVolume(c, v) ==
  [i \in 1 .. 2 |-> <<IF i = 1 THEN "Device" ELSE "UI",
     Entries({Processes(c)[j] : j \in DOMAIN Processes(c)}, v)>>]
\* Their equalisers have an array each.
SendAppEQ(c, g) ==
  [i \in 1 .. 2 * Len(Processes(c)) |-> <<IF i % 2 = 1 THEN "Device" ELSE "UI",
     Entries({Processes(c)[(i + 1) \div 2]}, g)>>]

App_SetAppVolume(t) ==
  /\ Setter("Device", "AppVolumes")
  /\ \E c \in Client, v \in AppVolumeSet \cup {101} :
       Begin(t, [op |-> "volumes", todo |-> SendAppVolume(c, ClampVolume(v))])
  /\ UNCHANGED <<objects, phase, queue, config, members, locks, equalisers, host>>
App_SetAppEQBandGains(t) ==
  /\ Setter("Device", "AppEQ")
  /\ \E c \in Client, g \in GainSet \cup {"beyond"} :
       Begin(t, [op |-> "gains", todo |-> SendAppEQ(c, ClampGain(g))])
  /\ UNCHANGED <<objects, phase, queue, config, members, locks, equalisers, host>>

ValidateAppVolumesProperty(e) == e.value \in 0 .. 100
ValidateAppEQProperty(e) == e.value \in GainSet
\* A setting counts as changed when a client was found for it.
Found(d, e) == e.who \cap clients[d]
Apply(settings, d, e) ==
  [settings EXCEPT ![d] =
     [c \in Client |-> IF c \in Found(d, e) THEN e.value ELSE @[c]]]
Rest(t) ==
  IF Len(call[t].todo) = 1 THEN End(t)
  ELSE Continue(t, [call[t] EXCEPT !.todo = Tail(@)])
SetAppVolumes(t) ==
  LET d == Head(call[t].todo)[1]
      e == Head(call[t].todo)[2]
  IN  /\ Making(t, "volumes") /\ ~stateLock[d] /\ ValidateAppVolumesProperty(e)
      /\ volumes' = Apply(volumes, d, [e EXCEPT !.value = RelativeVolume(@)])
      /\ Rest(t)
      /\ AnnounceIf(Found(d, e) # {}, d, {"AppVolumes"})
      /\ UNCHANGED <<active, level, muted, on, rate, format, music, gains,
                     clients, debug, nullIO, setup, config, members, locks,
                     equalisers, host>>
SetAppEQ(t) ==
  LET d == Head(call[t].todo)[1]
      e == Head(call[t].todo)[2]
  IN  /\ Making(t, "gains") /\ ~stateLock[d] /\ ValidateAppEQProperty(e)
      /\ gains' = Apply(gains, d, e) /\ Rest(t)
      /\ AnnounceIf(Found(d, e) # {}, d, {"AppEQ"})
      /\ UNCHANGED <<active, level, muted, on, rate, format, music, volumes,
                     clients, debug, nullIO, setup, config, members, locks,
                     equalisers, host>>

-----------------------------------------------------------------------------
(* Clients.  Their IDs are not used twice.                                 *)

\* WC_Clients' part.  It also remembers which client is BGMApp.
Clients_AddClient(d, c) ==
  LET isPlayer == IsPlayer(c, music[d].pid) \/ IsPlayer(c, music[d].bundle)
  IN  /\ clients' = [clients EXCEPT ![d] = @ \cup {c}]
      /\ marked' = IF isPlayer THEN [marked EXCEPT ![d] = @ \cup {c}] ELSE marked
Clients_RemoveClient(d, c) ==
  /\ clients' = [clients EXCEPT ![d] = @ \ {c}]
  /\ marked' = [marked EXCEPT ![d] = @ \ {c}]

AddClient(t, d, c) ==
  /\ calls < MaxCalls /\ calls' = calls + 1
  /\ c \notin added[d] /\ ~stateLock[d]
  /\ Begin(t, [op |-> "add", device |-> d, client |-> c, at |-> "lock"])
  /\ stateLock' = [stateLock EXCEPT ![d] = TRUE]
  /\ Clients_AddClient(d, c)
  /\ added' = [added EXCEPT ![d] = @ \cup {c}]
  /\ UNCHANGED <<active, level, muted, on, rate, format, music, volumes, gains,
                 debug, nullIO, phase, queue, config, ioLock, equalisers, host>>
BGM_AddDeviceClient(t) ==
  phase = "ready" /\ \E d \in Instances, c \in Client : AddClient(t, d, c)

\* BGMApp's going asks for every control to be enabled again.
RemoveClient(t, d, c) ==
  /\ c \in clients[d] /\ ~stateLock[d]
  /\ Begin(t, [op |-> "remove", device |-> d, client |-> c, at |-> "lock"])
  /\ stateLock' = [stateLock EXCEPT ![d] = TRUE]
  /\ IF c = BGMApp THEN RequestEnabledControls(d, TRUE, TRUE)
     ELSE UNCHANGED <<pendingControls, queue, asks>>
  /\ Clients_RemoveClient(d, c)
  /\ UNCHANGED <<active, level, muted, on, rate, format, music, volumes, gains,
                 debug, nullIO, setup, requests, pendingRate, aborted, announced,
                 added, ioLock, equalisers, host>>
BGM_RemoveDeviceClient(t) ==
  phase = "ready" /\ \E d \in Instances, c \in Client : RemoveClient(t, d, c)

\* Both then take the IO mutex, for the map of equalisers only.
LockIO(t) ==
  /\ Making(t, "add") \/ Making(t, "remove")
  /\ call[t].at = "lock" /\ ioLock[call[t].device] = "nobody"
  /\ ioLock' = [ioLock EXCEPT ![call[t].device] = "call"]
  /\ Continue(t, [call[t] EXCEPT !.at = "map"])
  /\ UNCHANGED <<objects, setup, queue, config, members, stateLock, equalisers,
                 host>>
With(m, c, x) == [y \in DOMAIN m \cup {c} |-> IF y = c THEN x ELSE m[y]]
Without(m, c) == [y \in DOMAIN m \ {c} |-> m[y]]
ChangeProcessors(t) ==
  LET d == call[t].device
      c == call[t].client
  IN  /\ Making(t, "add") \/ Making(t, "remove")
      /\ call[t].at = "map" /\ End(t)
      /\ processors' = [processors EXCEPT
           ![d] = IF call[t].op = "add" THEN With(@, c, Flat) ELSE Without(@, c)]
      /\ ioLock' = [ioLock EXCEPT ![d] = "nobody"]
      /\ stateLock' = [stateLock EXCEPT ![d] = FALSE]
      /\ UNCHANGED <<objects, setup, queue, config, members, io, host>>

-----------------------------------------------------------------------------
(* The IO thread of an instance, which the host runs while the device has  *)
(* clients that do IO.  An operation holds the IO mutex.                   *)

WillDoIOOperation(d) ==
  {"ReadInput", "ProcessOutput", "WriteMix"}
    \cup (IF d = "UI" THEN {"ProcessMix"} ELSE {})
Null_WillDoIOOperation == {"WriteMix"}
IODevices == Instances \cup {"Null"}
BGM_WillDoIOOperation(d) ==
  IF d \in Instances THEN WillDoIOOperation(d) ELSE Null_WillDoIOOperation

TakeNoIOLock(d) == ioLock[d] = "nobody" /\ UNCHANGED ioLock
TakeIOLock(d) ==
  ioLock[d] = "nobody" /\ ioLock' = [ioLock EXCEPT ![d] = "IO"]
\* The devices do nothing at either end of an operation.
BeginIOOperation(d) == io[d].at = "idle"
EndIOOperation(d) == io' = [io EXCEPT ![d] = Idle]
\* A client's own operation comes to its equaliser; it may have gone.
DoIOOperation(d, operation, c) ==
  /\ BeginIOOperation(d) /\ c \in added[d] /\ TakeIOLock(d)
  /\ io' = [io EXCEPT ![d] =
       IF operation = "ProcessOutput" THEN [at |-> "eq", client |-> c]
       ELSE [at |-> "busy", client |-> BGMApp]]
\* The audio is ignored.
Null_DoIOOperation == nullIO > 0 /\ UNCHANGED <<io, ioLock>>
BGM_DoIOOperation ==
  /\ phase = "ready"
  /\ \E d \in IODevices : \E o \in BGM_WillDoIOOperation(d) :
       \/ d \in Instances /\ \E c \in Client : DoIOOperation(d, o, c)
       \/ d = "Null" /\ Null_DoIOOperation
  /\ UNCHANGED <<objects, setup, queue, config, call, members, stateLock,
                 processors, host>>

GetSampleRateRT(d) == rate[d]
GetClientEQBandGainsRT(d, c) == IF c \in clients[d] THEN gains[d][c] ELSE "flat"
\* New gains set the filters up for them and for the rate there is then.
NeedsGainUpdate(p, g) == p.gains # g
SetAllBandGainsDB(g, r) == [gains |-> g, rate |-> r]
ApplyClientEQWaiting(d) ==
  ~stateLock[d] /\ UNCHANGED processors
ApplyClientEQ(d) ==
  LET c == io[d].client
      g == GetClientEQBandGainsRT(d, c)
  IN  processors' =
        IF /\ c \in DOMAIN processors[d] /\ g # "flat"
           /\ NeedsGainUpdate(processors[d][c], g)
        THEN [processors EXCEPT ![d][c] = SetAllBandGainsDB(g, GetSampleRateRT(d))]
        ELSE processors
FinishOperation(d) ==
  /\ \/ io[d].at = "eq" /\ ApplyClientEQ(d)
     \/ io[d].at = "busy" /\ UNCHANGED processors
  /\ ioLock' = [ioLock EXCEPT ![d] = "nobody"] /\ EndIOOperation(d)
  /\ UNCHANGED <<objects, setup, queue, config, call, members, stateLock, host>>

-----------------------------------------------------------------------------
(* The serial queue and the host                                           *)

RunBlock ==
  /\ queue # <<>> /\ queue' = Tail(queue)
  /\ LET block == Head(queue)
     IN  \/ /\ block.kind = "changed"
            /\ told' = told \cup (block.keys \cap Watched)
            /\ UNCHANGED requests
         \/ /\ block.kind = "request"
            /\ requests' = Append(requests,
                 [device |-> block.device, action |-> block.action])
            /\ UNCHANGED told
  /\ UNCHANGED <<objects, setup, pendingRate, pendingControls, aborted, asks,
                 announced, call, members, locks, equalisers, view, reading>>

\* The host reads one property after another: its size, then its data.
\* Getters take an instance's mutex for what can change.
Free(k) == k[1] \in Instances => ~stateLock[k[1]]
ReadSize ==
  /\ told # {} /\ reading = Nothing
  /\ LET k == CHOOSE x \in told : TRUE
     IN  Free(k) /\ told' = told \ {k} /\ reading' = <<k, Room(k)>>
  /\ UNCHANGED <<objects, setup, queue, config, call, members, locks, equalisers,
                 view>>
ReadData ==
  /\ reading # Nothing /\ Free(reading[1]) /\ reading' = Nothing
  /\ view' = [view EXCEPT ![reading[1]] = Read(reading[1], reading[2])]
  /\ UNCHANGED <<objects, setup, queue, config, call, members, locks, equalisers,
                 told>>

SetSampleRate(d, r) ==
  /\ rate' = [rate EXCEPT ![d] = r]
  /\ format' = [format EXCEPT ![InputStream[d]] = r, ![OutputStream[d]] = r]
  /\ UNCHANGED active
SetEnabledControls(d, v, m) ==
  /\ active' = (active \ {VolumeControl[d], MuteControl[d]})
       \cup {o \in {VolumeControl[d], MuteControl[d]} :
               IF o = VolumeControl[d] THEN v ELSE m}
  /\ UNCHANGED <<rate, format>>
\* What the host reads again when a device's configuration has changed.
Reconfigured(d) ==
  ({d} \X {"OwnedObjects", "ControlList", "NominalSampleRate",
           "EnabledOutputControls"})
    \cup ({InputStream[d], OutputStream[d]} \X {"VirtualFormat"})
\* The host stops the device's IO first.
PerformConfigChange ==
  /\ requests # <<>> /\ requests' = Tail(requests)
  /\ LET d == Head(requests).device
     IN  /\ io[d].at = "idle" /\ ~stateLock[d]
         /\ \/ /\ Head(requests).action = "SetSampleRate"
               /\ SetSampleRate(d, pendingRate[d])
            \/ /\ Head(requests).action = "SetEnabledControls"
               /\ SetEnabledControls(d, pendingControls[d][1], pendingControls[d][2])
         /\ told' = told \cup Reconfigured(d)
  /\ UNCHANGED <<level, muted, on, music, volumes, gains, clients, debug, nullIO,
                 setup, queue, pendingRate, pendingControls, aborted, asks,
                 announced, call, members, locks, equalisers, view, reading>>
\* The host may refuse; the device does nothing about it.
AbortConfigChange ==
  /\ requests # <<>> /\ requests' = Tail(requests)
  /\ aborted' = aborted \cup {Head(requests).device}
  /\ UNCHANGED <<objects, setup, queue, pendingRate, pendingControls, asks,
                 announced, call, members, locks, equalisers, host>>

-----------------------------------------------------------------------------
BGM_SetPropertyData ==
  \/ SetVolume \/ SetMute \/ SetStreamActive \/ SetRateOrFormat
  \/ SetEnabledOutputControls \/ SetMusicPlayerProperty \/ SetDebugLogging
  \/ \E t \in Thread :
       SetNullDeviceActive(t) \/ App_SetAppVolume(t) \/ App_SetAppEQBandGains(t)
CallSteps(t) ==
  \/ ChangeNullDevice(t) \/ AnnounceNullDevice(t) \/ SetAppVolumes(t)
  \/ SetAppEQ(t) \/ ChangeProcessors(t)
Host == ReadSize \/ ReadData \/ PerformConfigChange \/ AbortConfigChange
Next ==
  \/ BGM_Create \/ BGM_Initialize \/ BGM_SetPropertyData
  \/ Null_StartIO \/ Null_StopIO \/ BGM_DoIOOperation \/ RunBlock \/ Host
  \/ \E t \in Thread :
       \/ BGM_AddDeviceClient(t) \/ BGM_RemoveDeviceClient(t)
       \/ LockIO(t) \/ CallSteps(t)
  \/ \E d \in Instances : FinishOperation(d)

(* The queue and the host run on, and so does a call that does not wait for *)
(* a lock; an IO operation is a bounded piece of work.  The IO thread takes *)
(* the IO mutex again and again, and a call gets it in between; the host    *)
(* stops IO to change a configuration.                                      *)
Fairness ==
  /\ WF_vars(RunBlock) /\ WF_vars(ReadSize \/ ReadData)
  /\ SF_vars(PerformConfigChange \/ AbortConfigChange)
  /\ \A t \in Thread : SF_vars(LockIO(t)) /\ WF_vars(CallSteps(t))
  /\ \A d \in Instances : WF_vars(FinishOperation(d))
Spec == Init /\ [][Next]_vars /\ Fairness

-----------------------------------------------------------------------------
Quiet ==
  /\ phase = "ready" /\ queue = <<>> /\ requests = <<>> /\ told = {}
  /\ reading = Nothing /\ BusyCalls = {}

\* What the host knows, compared with the state and not with what the
\* driver would answer.
KnownObjects(d, p) ==
  {view[<<d, p>>][i] : i \in DOMAIN view[<<d, p>>]} \ {"Unknown"}
Known(o, p, v) == view[<<o, p>>] = <<v>>
KnownSettings(d, p) == view[<<d, p>>][1]
ControlsActive(d) == {VolumeControl[d], MuteControl[d]} \cap (active \ {"Unknown"})
InstanceKnown(d) ==
  /\ KnownObjects(d, "ControlList") = ControlsActive(d)
  /\ KnownObjects(d, "OwnedObjects") =
       ControlsActive(d) \cup {InputStream[d], OutputStream[d]}
  /\ Known(d, "EnabledOutputControls",
           <<IsActive(VolumeControl[d]), IsActive(MuteControl[d])>>)
  /\ Known(d, "NominalSampleRate", rate[d])
  /\ \A s \in {InputStream[d], OutputStream[d]} :
       Known(s, "VirtualFormat", rate[d])
  /\ Known(d, "MusicPlayerProcessID", music[d].pid)
  /\ Known(d, "MusicPlayerBundleID", music[d].bundle)
  \* Clients that have gone may still be listed: nobody announces that.
  /\ \A c \in clients[d] :
       (<<c, "boost">> \in KnownSettings(d, "AppEQ")) <=> gains[d][c] = "boost"
ViewsCurrent ==
  /\ KnownObjects("PlugIn", "DeviceList") =
       Instances \cup ({"Null"} \cap active)
  /\ Known("Null", "DeviceIsAlive", IsActive("Null"))
  /\ Known("Null", "DeviceIsRunning", nullIO > 0)
  /\ Known("Mute", "Value", muted)
  /\ \A s \in Streams : Known(s, "IsActive", on[s])
  /\ \A d \in Instances : InstanceKnown(d)
  \* What was read of the other instance's may be out of date.
  /\ Known(announced, "DebugLogging", debug)
\* The volumes as the driver gives them, and what that has to be at the ends.
VolumesListed(d) ==
  /\ Known(VolumeControl[d], "ScalarValue",
           ConvertRawToScalar(Curve[VolumeControl[d]], level[VolumeControl[d]]))
  /\ {e \in KnownSettings(d, "AppVolumes") : e[1] \in clients[d]} = AppVolumes(d)
VolumesKnown(d) ==
  /\ Known(VolumeControl[d], "ScalarValue",
           IF level[VolumeControl[d]] = 0 THEN 0 ELSE FullScalar(Curve[VolumeControl[d]]))
  /\ \A c \in clients[d] :
       (<<c, 100>> \in KnownSettings(d, "AppVolumes"))
         <=> volumes[d][c] = FullScalar(AppVolumeCurve)
\* A volume that is set beyond either end of its range is that end.
VolumesEnd ==
  \A o \in Volumes :
    /\ \A s \in BeyondScalars : ConvertScalarToRaw(Curve[o], s) \in Levels
    /\ \A db \in BeyondDecibels : ConvertDBToRaw(Curve[o], db) \in Levels
    /\ ConvertRawToScalar(Curve[o], 0) = 0
InForce(d, r, controls) ==
  /\ rate[d] = r
  /\ IsActive(VolumeControl[d]) = controls[1]
  /\ d = "Device" => IsActive("Mute") = controls[2]
AsAsked(d) ==
  d \notin aborted =>
    /\ InForce(d, pendingRate[d], pendingControls[d])
    /\ d \notin ignored => InForce(d, asked[d].rate, asked[d].controls)

\* Nothing that changed, and no request, has been lost on the way to the host.
HostUpToDate ==
  Quiet => ViewsCurrent /\ \A d \in Instances : VolumesListed(d) /\ AsAsked(d)

\* What BGMApp asks of the devices that the host lists.
AppServed ==
  \A i \in DOMAIN view[<<"PlugIn", "DeviceList">>] :
    LET d == view[<<"PlugIn", "DeviceList">>][i]
        controls == IF d \in Instances THEN KnownObjects(d, "ControlList") ELSE {}
    IN  AsksAnswered(d, controls) /\ (Quiet => CallsAnswered(d, controls))

\* The clients with mIsMusicPlayer set are those the device's IDs are of.
PlayersMarked ==
  \A d \in Instances :
    marked[d] = {c \in clients[d] :
                   IsPlayer(c, music[d].pid) \/ IsPlayer(c, music[d].bundle)}

(* Once every block, request and call is done, what the host last read of  *)
(* each property it watches is what it is, whatever was set, added or      *)
(* reconfigured between two of its reads.  Two cases are not so:           *)
(* DebugLogging, a flag of the process, is announced on the instance it    *)
(* was set through, and what was read of the other one may be out of date; *)
(* and the lists of apps' settings may still have clients that have gone.  *)
(* The sample rate and the controls are those last accepted as pending,    *)
(* and those last asked for, unless the host refused a change of that      *)
(* instance or the instance has ignored a request: one for what it has is, *)
(* though another change is pending.                                       *)
(*                                                                         *)
(* Every property that an object says it has is then answered, in the size *)
(* announced but in two cases: the output scope of an instance's           *)
(* OwnedObjects and the input scope of the Null Device's Streams give one  *)
(* item fewer than announced.  The lists name active objects of that owner *)
(* and, in the global scope, leave no control or stream out; the output    *)
(* scope of OwnedObjects does leave the last control out.  A volume set    *)
(* beyond either end of its range is that end.                             *)
(*                                                                         *)
(* At any time, in the middle of a change too, the calls that BGMApp makes *)
(* about the devices and controls the host knows are answered, and the     *)
(* clients marked as the music player's are those with its ID.             *)
HostServed ==
  /\ HostUpToDate
  /\ Quiet => PropertiesServed /\ \A d \in Instances : VolumesKnown(d)
  /\ VolumesEnd
  /\ phase = "ready" => AppServed
  /\ PlayersMarked

(* The map of equalisers has one reader or writer at a time: no client is  *)
(* inserted or erased while the IO thread looks one up.  Between calls it  *)
(* has exactly the clients of the device.                                  *)
EQMapHeldByOne ==
  /\ \A t \in BusyCalls :
       call[t].op \in {"add", "remove"} /\ call[t].at = "map"
         => io[call[t].device].at # "eq"
  /\ \A d \in Instances :
       ~stateLock[d] => DOMAIN processors[d] = clients[d]

(* No lock is ever waited for in vain: calls return, so that the IO        *)
(* operation they wait for has ended, and a configuration that was asked   *)
(* for is set, or the host has refused it.                                 *)
Progress ==
  /\ \A d \in Instances :
       []<>(rate[d] = pendingRate[d] \/ d \in aborted)
  /\ \A t \in Thread : []<>(call[t] = NoCall)
=============================================================================

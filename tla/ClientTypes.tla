----------------------------- MODULE ClientTypes -----------------------------
(* The data the driver keeps about a HAL client (WC_Client), and the calls   *)
(* WC_ClientMap accepts from non-real-time threads.                          *)

CONSTANTS
    ClientID,        \* UInt32 IDs the HAL gives its clients
    PID,             \* pid_t
    Bundle,          \* bundle IDs; a client may have none
    NoBundle,
    Volume,          \* mRelativeVolume and mPanPosition, set and copied alike
    DefaultVolume,
    Gains,           \* mEQBandGainsDB
    DefaultGains,
    NoClient,        \* the map has no entry
    NoOp, Pending, Ok, Failed

ASSUME DefaultsAssumption == DefaultVolume \in Volume /\ DefaultGains \in Gains

Client == [pid : PID, bundle : Bundle \cup {NoBundle},
           vol : Volume, eq : Gains, music : BOOLEAN]

(* The record WC_Device::AddClient builds from the HAL's client info: only   *)
(* the identity is the HAL's, the settings are WC_Client's initialisers.     *)
NewClient(p, b, m) ==
    [pid |-> p, bundle |-> b, vol |-> DefaultVolume, eq |-> DefaultGains, music |-> m]

NewClients == {NewClient(p, b, m) : p \in PID, b \in Bundle \cup {NoBundle}, m \in BOOLEAN}

(* The overloads of the setters: a caller names a process or a bundle. *)
Key == [by : {"pid"}, pid : PID] \cup [by : {"bundle"}, bundle : Bundle]

Matches(key, c) ==
    \/ key.by = "pid" /\ c.pid = key.pid
    \/ key.by = "bundle" /\ c.bundle = key.bundle

AddOp == [kind : {"Add"}, id : ClientID, client : NewClients]
IdOp == [kind : {"Remove", "Get"}, id : ClientID]
VolumeOp == [kind : {"SetVolume"}, key : Key, value : Volume]
GainsOp == [kind : {"SetGains"}, key : Key, value : Gains]
KeyOp == [kind : {"Music"}, key : Key] \cup [kind : {"GetByPID"}, key : [by : {"pid"}, pid : PID]]

Op == AddOp \cup IdOp \cup VolumeOp \cup GainsOp \cup KeyOp

ASSUME AbsentAssumption == NoClient \notin Client /\ NoBundle \notin Bundle /\ NoOp \notin Op

(* What a setter returns: whether any client was found for its key. *)
Found(S) == IF S = {} THEN Failed ELSE Ok

WithSetting(c, op) ==
    IF op.kind = "SetVolume" THEN [c EXCEPT !.vol = op.value]
                             ELSE [c EXCEPT !.eq = op.value]
=============================================================================

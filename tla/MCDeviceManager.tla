--------------------------- MODULE MCDeviceManager ---------------------------
(* Instances of DeviceManager for TLC. *)
EXTENDS DeviceManager

OnMain == [c \in Client |-> "main"]
=============================================================================

---------------------------- MODULE MCHALDevice ----------------------------
(* An app with a helper process, or BGMApp and one app, and two rates.     *)
EXTENDS HALDevice
MCClient == {"bgmapp", "app"}
MCHelpers == [c \in MCClient |-> IF c = "bgmapp" THEN <<"app">> ELSE <<>>]
MCRate == {44, 48}
=============================================================================

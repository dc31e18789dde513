----------------------------- MODULE MCControls -----------------------------
(* Two output devices: one with both controls, one without a volume.         *)
EXTENDS Controls, TLC

CONSTANTS volume, mute, d1, d2
Controls2 == {volume, mute}
Devices2 == {d1, d2}
HasMuteOnly == (d1 :> {volume, mute}) @@ (d2 :> {mute})
=============================================================================

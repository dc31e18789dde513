--------------------------- MODULE MCDoNotDisturb ---------------------------
(* Two apps and three volumes: minimum, default and one the user chose.      *)
EXTENDS DoNotDisturb, TLC

Symmetry == Permutations(App)
=============================================================================

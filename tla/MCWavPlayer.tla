---------------------------- MODULE MCWavPlayer ----------------------------
(* Instances of WavPlayer for TLC. *)
EXTENDS WavPlayer

CONSTANTS gui, shell, u1, u2

TwoCallers == {gui, shell}
TwoUris    == {u1, u2}
=============================================================================

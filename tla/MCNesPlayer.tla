---------------------------- MODULE MCNesPlayer ----------------------------
(* Instances of NesPlayer for TLC: one button of the joypad, and escape. *)
EXTENDS NesPlayer

CONSTANT up

OneButton == {up}
=============================================================================

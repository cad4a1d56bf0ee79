------------------------------ MODULE MCLcdDma ------------------------------
(* Instances of LcdDma for TLC: a screen takes two transfers. *)
EXTENDS LcdDma

SmallOrAll == {1, 3}
=============================================================================

---------------------------- MODULE MCDataQueue ----------------------------
(* Instances of DataQueue for TLC. *)
EXTENDS DataQueue, TLC

CONSTANTS p1, p2, c1, c2, isr, w

PusherAndIsr == {p1, isr}
TwoPushers == {p1, p2}
OnePopper  == {c1}
TwoPoppers == {c1, c2}
PopperAndIsr == {c1, isr}
OnlyIsr    == {isr}
Nobody     == {}
Resetter   == {w}

OneTick    == {0, 1}
Patient    == {-1, 0}
=============================================================================

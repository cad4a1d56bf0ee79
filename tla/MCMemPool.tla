----------------------------- MODULE MCMemPool -----------------------------
(* Instances of MemPool for TLC. *)
EXTENDS MemPool

CONSTANTS t1, t2, t3, b1, b2

ThreeThreads == {t1, t2, t3}
TwoBlocks    == <<b1, b2>>

AnyWait == {-1, 0, 2}
=============================================================================

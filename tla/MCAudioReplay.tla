--------------------------- MODULE MCAudioReplay ---------------------------
(* Instances of AudioReplay for TLC.  The real ratio of block to frame is    *)
(* 4096 : 1024; here a block is two frames of two samples.                   *)
EXTENDS AudioReplay, TLC

CONSTANTS wav, b1, b2

WavPlayer == {wav}

TwoBlocks == {b1, b2}

PlayableOnly == {[bits |-> TRUE, rate |-> TRUE]}

AnySize   == {1, 3, 8}
=============================================================================

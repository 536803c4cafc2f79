---------------------------- MODULE MCDemodPair ----------------------------
(* Both instances on a 1 x 2 buffer of 2-bit bytes, the rubicson limits  *)
(* shorter than the prologue's as in main (1744/3500/5000 against        *)
(* 3500/7000/15000), scaled down so that a block of 6 samples can end a  *)
(* frame of each.                                                         *)
EXTENDS DemodPair

MCLevel == 10
MCSamples == {MCLevel - 1, MCLevel + 1}
=============================================================================

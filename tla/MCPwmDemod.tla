----------------------------- MODULE MCPwmDemod -----------------------------
(* A small instance of PwmDemod: a 2 x 2 buffer of 2-bit bytes, so that  *)
(* both clamps are reached, and timing limits 2 < 4 < 6 so that every    *)
(* band of the gap classification has at least two lengths in it.       *)
EXTENDS PwmDemod

MCLevel == 10
(* One sample below, one equal to and one above level_limit. *)
MCSamples == {MCLevel - 1, MCLevel, MCLevel + 1}
=============================================================================

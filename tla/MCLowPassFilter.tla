--------------------------- MODULE MCLowPassFilter ---------------------------
(* Instance for TLC: envelope values 0, 1 and the largest one, 32768 (I = *)
(* Q = -128 after the bias XOR), blocks of 2 or 3 samples, 3 calls.       *)
EXTENDS LowPassFilter

MCEnvelopes == {0, 1, 32768}

=============================================================================

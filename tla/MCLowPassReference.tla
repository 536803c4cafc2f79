------------------------- MODULE MCLowPassReference -------------------------
EXTENDS LowPassReference

MCEnvelopes == {0, 1, 32768}

=============================================================================

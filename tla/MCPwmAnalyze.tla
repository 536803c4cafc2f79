---------------------------- MODULE MCPwmAnalyze ----------------------------
(* pwm_analyze with a 4-bit int, so that the counter wraps after 8 samples *)
(* and pulse_avg after a few pulses, within 20 samples.                    *)
EXTENDS PwmAnalyze

MCSamples == {LevelLimit - 1, LevelLimit, LevelLimit + 1}

=============================================================================

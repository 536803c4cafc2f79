---------------------------- MODULE PwmReference ----------------------------
(***************************************************************************)
(* The demodulator of PwmDemod observed next to a reference measurement   *)
(* of the input: the pulse/gap structure of the sample stream as spec.md  *)
(* section 4.3 describes it (a sample above the level is inside a pulse,  *)
(* below it is in a gap, equal holds the state) and the length of the     *)
(* current gap counted from its first low sample up to and including the  *)
(* rising sample, the convention of the code's sample_counter.            *)
(***************************************************************************)
EXTENDS PwmDemod

VARIABLES
  inPulse,  \* the input is inside a pulse (hysteresis on level_limit)
  gap,      \* samples since the last falling edge of the input (capped;
            \* SilenceCap before the first one)
  sample    \* the sample the last step consumed

refvars == <<vars, inPulse, gap, sample>>

RefInit ==
  /\ Init
  /\ inPulse = FALSE
  /\ gap = SilenceCap
  /\ sample = LevelLimit

RefSample(s) ==
  /\ Sample(s)
  /\ sample' = s
  /\ inPulse' = IF s > LevelLimit THEN TRUE
                ELSE IF s < LevelLimit THEN FALSE ELSE inPulse
  /\ gap' = IF s < LevelLimit /\ inPulse THEN 1
            ELSE ClampIdx(gap + 1, SilenceCap)

RefNext == \E s \in Samples : RefSample(s)

RefSpec == RefInit /\ [][RefNext]_refvars

(* The step on s takes the branch of pwm_demod that calls demod_add_bit, *)
(* and the bit it appends.                                               *)
AppendsBit(q, s) ==
  LET r == Count(FallingEdge(Rising(q, s), s))
  IN r.pulse_distance = 1 /\ s > LevelLimit /\ r.sample_counter < r.long_limit

AppendedBit(q, s) ==
  IF Count(FallingEdge(Rising(q, s), s)).sample_counter < ShortLimit THEN 0 ELSE 1

(* The bit spec.md assigns to a gap of g samples. *)
GapBit(g) == IF g < ShortLimit THEN 0 ELSE 1

(* Every bit pwm_demod appends ends a real gap of the input, shorter than *)
(* long_limit, and is the bit that gap's length stands for.  spec.md      *)
(* 4.3 says the silence reset clears all demod state; the code's reset    *)
(* (rtl_433.c 392-398) keeps pulse_count, which this property exercises   *)
(* when the silence limit is crossed inside a long pulse.                 *)
BitsMatchGaps ==
  [][AppendsBit(p, sample') =>
       /\ ~inPulse
       /\ gap' < LongLimit
       /\ AppendedBit(p, sample') = GapBit(gap')]_refvars

(* Every gap of the input that follows a pulse and ends, shorter than    *)
(* long_limit, in a rising edge makes pwm_demod append a bit: spec.md    *)
(* 4.3 has pulse_distance mean "in the gap after a pulse".  A row        *)
(* advance clears pulse_count on the rising sample (line 387), so when   *)
(* that pulse lasts one sample its falling edge is never seen and the    *)
(* gap after it, the first bit of the next row, is dropped.             *)
GapsMakeBits ==
  [][(~inPulse /\ sample' > LevelLimit /\ gap' < LongLimit)
       => AppendsBit(p, sample')]_refvars

=============================================================================

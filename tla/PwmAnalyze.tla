----------------------------- MODULE PwmAnalyze -----------------------------
(***************************************************************************)
(* pwm_analyze (rtl_433.c 325-363), the -a mode: a pulse reporter over    *)
(* the filtered samples.  Its state is seven process-wide ints that live  *)
(* across callbacks, so the samples of successive blocks form one stream *)
(* and a step is one iteration of its loop on one sample.                *)
(*                                                                         *)
(* int arithmetic is kept at the width IntBits (32 in the build), wrapping *)
(* in two's complement as the build does on signed overflow.  The ghost   *)
(* variables seen, trueStart and trueSum measure the stream without       *)
(* bounds, for comparison with what is printed.                          *)
(***************************************************************************)
EXTENDS Integers

CONSTANTS
  LevelLimit,  \* demod->level_limit
  Samples,     \* filtered sample values (around LevelLimit)
  IntBits,     \* width of int
  MaxSamples   \* bound on the number of samples consumed

ASSUME PwmAnalyzeAssumption ==
  /\ LevelLimit \in Int /\ Samples \subseteq Int
  /\ IntBits \in Nat \ {0, 1}
  /\ MaxSamples \in Nat

(* Half the number of int values: 2^IntBits = 2 * IntHalf. *)
IntHalf == 2^(IntBits - 1)
IntMin == -IntHalf
IntMax == IntHalf - 1

(* 2^(IntBits-1) is a positive integer: a fact of arithmetic, stated for *)
(* the proofs, whose provers do not reason about a symbolic exponent.    *)
ASSUME IntHalfAssumption == IntHalf \in Nat \ {0}

(* The value an int holds after an arithmetic result v. *)
IntWrap(v) == ((v + IntHalf) % (2 * IntHalf)) - IntHalf

(* C's / on int: truncation toward zero, for a positive divisor. *)
CQuot(a, b) == IF a >= 0 THEN a \div b ELSE -((-a) \div b)

NoReport == [kind |-> "none", n |-> 0, at |-> 0, dist |-> 0, len |-> 0,
             avg |-> 0]

VARIABLES
  counter, print, print2, pulses_found, pulse_start, pulse_end, pulse_avg,
  report,     \* the fields of the last line printed
  seen,       \* ghost: samples consumed
  trueStart,  \* ghost: index of the first sample of the current pulse
  trueEnd,    \* ghost: index just after the sample that ended the last one
  trueSum,    \* ghost: sum of the pulse lengths printed, without wrap
  trueEnds,   \* ghost: number of pulse ends, i.e. of lengths summed
  truth       \* ghost: the true length or distance of the last line printed

vars == <<counter, print, print2, pulses_found, pulse_start, pulse_end,
          pulse_avg, report, seen, trueStart, trueEnd, trueSum, trueEnds,
          truth>>

Init ==
  /\ counter = 0 /\ print = 1 /\ print2 = 0 /\ pulses_found = 0
  /\ pulse_start = 0 /\ pulse_end = 0 /\ pulse_avg = 0
  /\ report = NoReport
  /\ seen = 0 /\ trueStart = 0 /\ trueEnd = 0 /\ trueSum = 0 /\ trueEnds = 0
  /\ truth = 0

(* Mutant: the start recorded after counter++ (one sample late). *)
StartAtNextSample(s) ==
  /\ s > LevelLimit /\ print = 1
  /\ pulses_found' = IntWrap(pulses_found + 1)
  /\ pulse_start' = IntWrap(counter + 1)
  /\ report' = [NoReport EXCEPT !.kind = "start", !.n = pulses_found',
                                !.at = counter,
                                !.dist = IntWrap(counter - pulse_end)]
  /\ print' = 0 /\ print2' = 1
  /\ counter' = IntWrap(counter + 1)
  /\ trueStart' = seen /\ truth' = seen - trueEnd
  /\ UNCHANGED <<pulse_end, pulse_avg, trueEnd, trueSum, trueEnds>>

(* buf[i] > level_limit with print set: a pulse starts at sample        *)
(* `counter`; its distance from the last pulse end is printed; counter++ *)
(* follows, and the low branch cannot run on this sample.               *)
PulseStart(s) ==
  /\ s > LevelLimit /\ print = 1
  /\ pulses_found' = IntWrap(pulses_found + 1)
  /\ pulse_start' = counter
  /\ report' = [NoReport EXCEPT !.kind = "start", !.n = pulses_found',
                                !.at = counter,
                                !.dist = IntWrap(counter - pulse_end)]
  /\ print' = 0 /\ print2' = 1
  /\ counter' = IntWrap(counter + 1)
  /\ trueStart' = seen /\ truth' = seen - trueEnd
  /\ UNCHANGED <<pulse_end, pulse_avg, trueEnd, trueSum, trueEnds>>

(* Mutant: the average printed before the length is added to pulse_avg. *)
PulseEndAvgFirst(s) ==
  LET c == IntWrap(counter + 1)
      l == IntWrap(c - pulse_start)
  IN /\ s < LevelLimit /\ print2 = 1
     /\ counter' = c
     /\ pulse_avg' = IntWrap(pulse_avg + l)
     /\ report' = [NoReport EXCEPT !.kind = "end", !.n = pulses_found,
                                   !.at = c, !.len = l,
                                   !.avg = CQuot(pulse_avg, pulses_found)]
     /\ pulse_end' = c
     /\ print2' = 0 /\ print' = 1
     /\ trueEnd' = seen + 1
     /\ trueSum' = trueSum + (seen + 1 - trueStart)
     /\ truth' = seen + 1 - trueStart
     /\ trueEnds' = trueEnds + 1
     /\ UNCHANGED <<pulses_found, pulse_start, trueStart>>

(* counter++, then buf[i] < level_limit with print2 set: the pulse ends; *)
(* its length is added to pulse_avg and the running average printed.    *)
PulseEnd(s) ==
  LET c == IntWrap(counter + 1)
      l == IntWrap(c - pulse_start)
  IN /\ s < LevelLimit /\ print2 = 1
     /\ counter' = c
     /\ pulse_avg' = IntWrap(pulse_avg + l)
     /\ report' = [NoReport EXCEPT !.kind = "end", !.n = pulses_found,
                                   !.at = c, !.len = l,
                                   !.avg = CQuot(pulse_avg', pulses_found)]
     /\ pulse_end' = c
     /\ print2' = 0 /\ print' = 1
     /\ trueEnd' = seen + 1
     /\ trueSum' = trueSum + (seen + 1 - trueStart)
     /\ truth' = seen + 1 - trueStart
     /\ trueEnds' = trueEnds + 1
     /\ UNCHANGED <<pulses_found, pulse_start, trueStart>>

(* Any other sample: counter++, and a low sample re-arms print. *)
Quiet(s) ==
  /\ ~(s > LevelLimit /\ print = 1) /\ ~(s < LevelLimit /\ print2 = 1)
  /\ counter' = IntWrap(counter + 1)
  /\ print' = IF s < LevelLimit THEN 1 ELSE print
  /\ UNCHANGED <<print2, pulses_found, pulse_start, pulse_end, pulse_avg,
                 report, trueStart, trueEnd, trueSum, trueEnds, truth>>

(* One iteration of the loop of pwm_analyze. *)
Analyze(s) ==
  /\ seen < MaxSamples
  /\ seen' = seen + 1
  /\ \/ PulseStart(s)
     \/ PulseEnd(s)
     \/ Quiet(s)

Next == \E s \in Samples : Analyze(s)

Spec == Init /\ [][Next]_vars

-----------------------------------------------------------------------------
IntRange == IntMin .. IntMax

TypeOK ==
  /\ counter \in IntRange /\ pulses_found \in IntRange
  /\ pulse_start \in IntRange /\ pulse_end \in IntRange
  /\ pulse_avg \in IntRange
  /\ print \in {0, 1} /\ print2 \in {0, 1}
  /\ report.kind \in {"none", "start", "end"}
  /\ seen \in 0 .. MaxSamples

(* The lengths and distances pwm_analyze prints are those of the stream *)
(* (a pulse counted from its first high sample through the sample that  *)
(* ends it; a distance from there to the next start), also after the    *)
(* int counter has wrapped: only the printed sample indices are off.    *)
(* Lengths and distances of 2^(IntBits-1) samples or more are excluded. *)
ReportsMatchStream ==
  /\ (report.kind = "end" /\ truth <= IntMax) => report.len = truth
  /\ (report.kind = "start" /\ truth <= IntMax) => report.dist = truth

(* The printed "pulse avg lenght" is the mean of the lengths printed so *)
(* far (spec.md 4.4: the running average length): the sum of all pulse  *)
(* lengths, this one included, over the number of pulses that ended.    *)
(* The code divides by pulses_found, counted at the starts (line 340),  *)
(* and adds at the ends (line 352), so this holds only if the two counts *)
(* agree at every end and the add comes before the print.  Past          *)
(* 2^(IntBits-1) the sum wraps and the average is wrong; that is excluded. *)
AvgIsMean ==
  (report.kind = "end" /\ trueSum <= IntMax)
    => report.avg = trueSum \div trueEnds

=============================================================================

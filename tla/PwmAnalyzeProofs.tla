-------------------------- MODULE PwmAnalyzeProofs --------------------------
(***************************************************************************)
(* Proofs that what pwm_analyze prints is right for every int width: the  *)
(* lengths and distances (ReportsMatchStream) whatever the counter has    *)
(* wrapped to, and the running average (AvgIsMean) while the summed       *)
(* lengths fit in an int.                                                 *)
(*                                                                         *)
(* The argument: each int the code keeps is the wrap of its unbounded     *)
(* counterpart in the ghost state (counter of seen, pulse_start of        *)
(* trueStart, pulse_end of trueEnd, pulse_avg of trueSum), and wrapping  *)
(* commutes with + and -; the starts and ends alternate, so pulses_found *)
(* is the wrap of the number of pulse ends plus the one in progress, and *)
(* while the sum fits it is the number of lengths summed.               *)
(***************************************************************************)
EXTENDS PwmAnalyze, TLAPS

(* Types of the flags and of the ghost state (the printed average has no *)
(* type of its own: it divides by pulses_found, which may wrap to 0).    *)
Types ==
  /\ seen \in Nat /\ trueStart \in Nat /\ trueEnd \in Nat
  /\ trueSum \in Nat /\ trueEnds \in Nat /\ truth \in Int
  /\ print \in {0, 1} /\ print2 \in {0, 1} /\ pulses_found \in Int
  /\ report.kind \in {"none", "start", "end"}

(* Each int is its unbounded counterpart, wrapped. *)
Tracks ==
  /\ counter = IntWrap(seen)
  /\ pulse_start = IntWrap(trueStart)
  /\ pulse_end = IntWrap(trueEnd)
  /\ pulse_avg = IntWrap(trueSum)
  /\ trueStart <= seen /\ trueEnd <= seen

(* Inside a pulse print is 0, so a start always follows an end. *)
Alternates == print2 = 1 => print = 0

(* The last line printed, in terms of the ghost state. *)
Reported ==
  /\ report.kind = "end" =>
       /\ report.len = IntWrap(truth) /\ truth >= 1
       /\ print2 = 0
       /\ report.avg = CQuot(pulse_avg, pulses_found)
  /\ report.kind = "start" => report.dist = IntWrap(truth) /\ truth >= 0

(* pulses_found, counted at the starts, is the number of ends plus the  *)
(* pulse in progress, wrapped; every length is at least 1, so there are *)
(* no more ends than the lengths sum to.                               *)
Counted ==
  /\ pulses_found = IntWrap(trueEnds + print2)
  /\ trueEnds <= trueSum

IInv == Types /\ Tracks /\ Alternates /\ Reported /\ Counted

-----------------------------------------------------------------------------
(***************************************************************************)
(* Arithmetic of the wrap.                                                 *)
(***************************************************************************)

(* The remainder of a sum depends on the first term only modulo M. *)
LEMMA ModAddLeft ==
  ASSUME NEW x \in Int, NEW y \in Int, NEW M \in Int, M > 0
  PROVE  ((x % M) + y) % M = (x + y) % M
BY Z3

(* Likewise for a difference whose subtrahend is reduced modulo M. *)
LEMMA ModSubRight ==
  ASSUME NEW x \in Int, NEW y \in Int, NEW M \in Int, M > 0
  PROVE  (x - (y % M)) % M = (x - y) % M
<1>1. PICK u \in Int : u = M * (y \div M)
  OBVIOUS
<1>2. y = u + (y % M)
  BY <1>1, Z3
<1>3. u % M = 0
  BY <1>1, Z3
<1>4. PICK v \in Int : v = x - y
  OBVIOUS
<1>5. ((u % M) + v) % M = (u + v) % M
  BY ModAddLeft, Zenon
<1>6. x - (y % M) = u + v
  BY <1>2, <1>4
<1> QED
  BY <1>3, <1>4, <1>5, <1>6

LEMMA HalfPositive == IntHalf \in Int /\ IntHalf > 0 /\ 2 * IntHalf > 0
BY IntHalfAssumption

(* A wrapped value is an int. *)
LEMMA WrapRange ==
  ASSUME NEW a \in Int
  PROVE  IntWrap(a) \in IntMin .. IntMax
BY HalfPositive, Z3 DEF IntWrap, IntMin, IntMax

(* An int wraps to itself. *)
LEMMA WrapInt ==
  ASSUME NEW a \in Int
  PROVE  IntWrap(a) \in Int
BY HalfPositive, Z3 DEF IntWrap

LEMMA WrapId ==
  ASSUME NEW a \in IntMin .. IntMax
  PROVE  IntWrap(a) = a
BY HalfPositive, Z3 DEF IntWrap, IntMin, IntMax

(* Adding to a wrapped value and wrapping is wrapping the sum. *)
LEMMA WrapAdd ==
  ASSUME NEW a \in Int, NEW b \in Int
  PROVE  IntWrap(IntWrap(a) + b) = IntWrap(a + b)
<1> DEFINE H == IntHalf  M == 2 * IntHalf
<1>1. H \in Int /\ M \in Int /\ M > 0
  BY HalfPositive
<1>2. IntWrap(a) + b + H = ((a + H) % M) + b
  BY <1>1 DEF IntWrap
<1>3. (((a + H) % M) + b) % M = (a + H + b) % M
  BY <1>1, ModAddLeft
<1>4. (a + H + b) = (a + b) + H
  BY <1>1
<1> QED
  BY <1>2, <1>3, <1>4 DEF IntWrap

(* Subtracting a wrapped value and wrapping is wrapping the difference. *)
LEMMA WrapSub ==
  ASSUME NEW a \in Int, NEW b \in Int
  PROVE  IntWrap(a - IntWrap(b)) = IntWrap(a - b)
<1> DEFINE H == IntHalf  M == 2 * IntHalf
<1>1. H \in Int /\ M \in Int /\ M > 0
  BY HalfPositive
<1>2. a - IntWrap(b) + H = (a + M) - ((b + H) % M)
  BY <1>1 DEF IntWrap
<1>3. ((a + M) - ((b + H) % M)) % M = ((a + M) - (b + H)) % M
  <2>1. PICK p \in Int, q \in Int : p = a + M /\ q = b + H
    BY <1>1
  <2>2. (p - (q % M)) % M = (p - q) % M
    BY <1>1, ModSubRight, Zenon
  <2> QED
    BY <2>1, <2>2
<1>4. (a + M) - (b + H) = (a - b) + H
  BY <1>1
<1> QED
  BY <1>2, <1>3, <1>4 DEF IntWrap

(* The difference of two wrapped values, wrapped. *)
LEMMA WrapDiff ==
  ASSUME NEW a \in Int, NEW b \in Int
  PROVE  IntWrap(IntWrap(a) - IntWrap(b)) = IntWrap(a - b)
<1>1. IntWrap(b) \in Int
  BY WrapRange DEF IntMin, IntMax
<1>2. IntWrap(IntWrap(a) + (-IntWrap(b))) = IntWrap(a + (-IntWrap(b)))
  BY <1>1, WrapAdd
<1>3. IntWrap(a - IntWrap(b)) = IntWrap(a - b)
  BY WrapSub
<1> QED
  BY <1>1, <1>2, <1>3

(* The sum of two wrapped values, wrapped. *)
LEMMA WrapSum ==
  ASSUME NEW a \in Int, NEW b \in Int
  PROVE  IntWrap(IntWrap(a) + IntWrap(b)) = IntWrap(a + b)
<1>1. IntWrap(b) \in Int
  BY WrapRange DEF IntMin, IntMax
<1>2. IntWrap(IntWrap(a) + IntWrap(b)) = IntWrap(a + IntWrap(b))
  BY <1>1, WrapAdd
<1>3. IntWrap(IntWrap(b) + a) = IntWrap(b + a)
  BY WrapAdd
<1> QED
  BY <1>1, <1>2, <1>3

-----------------------------------------------------------------------------
(***************************************************************************)
(* The inductive invariant.                                                *)
(***************************************************************************)

LEMMA ZeroIsInt == 0 \in IntMin .. IntMax
BY HalfPositive DEF IntMin, IntMax

LEMMA InitIInv == Init => IInv
<1> SUFFICES ASSUME Init PROVE IInv
  OBVIOUS
<1>1. IntWrap(0) = 0
  BY ZeroIsInt, WrapId
<1>2. Types /\ Alternates /\ Reported
  BY DEF Init, NoReport, Types, Alternates, Reported
<1>3. Tracks
  BY <1>1 DEF Init, Tracks
<1>4. Counted
  BY <1>1 DEF Init, Counted
<1> QED
  BY <1>2, <1>3, <1>4 DEF IInv

(* counter++ keeps counter the wrap of seen. *)
LEMMA CounterStep ==
  ASSUME Tracks, seen \in Nat
  PROVE  IntWrap(counter + 1) = IntWrap(seen + 1)
BY WrapAdd DEF Tracks

LEMMA StartIInv ==
  ASSUME IInv, NEW s \in Samples, seen' = seen + 1, PulseStart(s)
  PROVE  IInv'
<1> USE DEF PulseStart
<1>1. seen \in Nat /\ trueEnd <= seen /\ trueEnd \in Nat /\ trueEnds \in Nat
  BY DEF IInv, Types, Tracks
<1>2. print2 = 0
  BY DEF IInv, Types, Alternates
<1>3. counter = IntWrap(seen) /\ counter \in Int
  <2>1. counter = IntWrap(seen)
    BY DEF IInv, Tracks
  <2> QED
    BY <1>1, <2>1, WrapInt
<1>4. pulses_found' = IntWrap(trueEnds + 1)
  <2>1. pulses_found = IntWrap(trueEnds)
    BY <1>1, <1>2 DEF IInv, Counted
  <2> QED
    BY <1>1, <2>1, WrapAdd
<1>5. Types'
  <2>1. pulses_found' \in Int
    BY <1>1, <1>4, WrapInt
  <2>2. report'.kind = "start"
    BY DEF NoReport
  <2> QED
    BY <1>1, <2>1, <2>2 DEF IInv, Types
<1>6. Tracks'
  <2>1. counter' = IntWrap(seen')
    BY <1>1, CounterStep DEF IInv
  <2> QED
    BY <1>1, <1>3, <2>1 DEF IInv, Tracks
<1>7. Reported'
  <2>1. report'.dist = IntWrap(counter - pulse_end)
    BY DEF NoReport
  <2>2. IntWrap(IntWrap(seen) - IntWrap(trueEnd)) = IntWrap(seen - trueEnd)
    BY <1>1, WrapDiff
  <2>3. report'.kind = "start"
    BY DEF NoReport
  <2> QED
    BY <1>1, <1>3, <2>1, <2>2, <2>3 DEF IInv, Tracks, Reported
<1>8. Counted'
  BY <1>4 DEF IInv, Counted
<1> QED
  BY <1>5, <1>6, <1>7, <1>8 DEF IInv, Alternates

LEMMA EndIInv ==
  ASSUME IInv, NEW s \in Samples, seen' = seen + 1, PulseEnd(s)
  PROVE  IInv'
<1> DEFINE c == IntWrap(counter + 1)
           l == IntWrap(c - pulse_start)
           t == seen + 1 - trueStart
<1>1. seen \in Nat /\ trueStart <= seen /\ trueStart \in Nat /\ trueSum \in Nat
  BY DEF IInv, Types, Tracks
<1>2. print2 = 1
  BY DEF PulseEnd
<1>3. c = IntWrap(seen + 1)
  BY <1>1, CounterStep DEF IInv
<1>4. l = IntWrap(t)
  <2>1. IntWrap(IntWrap(seen + 1) - IntWrap(trueStart)) = IntWrap(t)
    BY <1>1, WrapDiff
  <2> QED
    BY <1>3, <2>1 DEF IInv, Tracks
<1>5. pulse_avg' = IntWrap(trueSum + t)
  <2>1. pulse_avg' = IntWrap(IntWrap(trueSum) + IntWrap(t))
    BY <1>4 DEF PulseEnd, IInv, Tracks
  <2> QED
    BY <1>1, <2>1, WrapSum
<1>6. t >= 1 /\ t \in Int
  BY <1>1
<1>7. /\ counter' = c /\ pulse_end' = c /\ trueEnd' = seen + 1
      /\ trueSum' = trueSum + t /\ truth' = t /\ trueEnds' = trueEnds + 1
      /\ print2' = 0 /\ print' = 1
      /\ UNCHANGED <<pulses_found, pulse_start, trueStart>>
  BY DEF PulseEnd
<1>8. /\ report'.kind = "end" /\ report'.len = l
      /\ report'.avg = CQuot(pulse_avg', pulses_found)
  BY DEF PulseEnd, NoReport
<1>9. Types'
  BY <1>1, <1>6, <1>7, <1>8 DEF IInv, Types
<1>10. Tracks'
  BY <1>1, <1>3, <1>5, <1>7 DEF IInv, Tracks
<1>11. Reported'
  BY <1>4, <1>6, <1>7, <1>8 DEF Reported
<1>12. Counted'
  <2>1. pulses_found = IntWrap(trueEnds + 1) /\ trueEnds \in Nat
    BY <1>2 DEF IInv, Counted, Types
  <2>2. trueEnds + 1 <= trueSum + t
    BY <1>1, <1>6, <2>1 DEF IInv, Counted
  <2> QED
    BY <1>7, <2>1, <2>2 DEF Counted
<1> QED
  BY <1>7, <1>9, <1>10, <1>11, <1>12 DEF IInv, Alternates

LEMMA QuietIInv ==
  ASSUME IInv, NEW s \in Samples, seen' = seen + 1, Quiet(s)
  PROVE  IInv'
<1>1. seen \in Nat
  BY DEF IInv, Types
<1>2. counter' = IntWrap(seen')
  BY <1>1, CounterStep DEF Quiet, IInv
<1>3. Alternates'
  <2>1. CASE print2 = 1
    <3>1. ~(s < LevelLimit)
      BY <2>1 DEF Quiet
    <3> QED
      BY <2>1, <3>1 DEF Quiet, IInv, Alternates
  <2> QED
    BY <2>1 DEF Quiet, IInv, Types, Alternates
<1>4. print' \in {0, 1}
  BY DEF Quiet, IInv, Types
<1> QED
  BY <1>1, <1>2, <1>3, <1>4
  DEF Quiet, IInv, Types, Tracks, Reported, Counted

LEMMA StepIInv == IInv /\ [Next]_vars => IInv'
<1> SUFFICES ASSUME IInv, [Next]_vars PROVE IInv'
  OBVIOUS
<1>1. ASSUME NEW s \in Samples, Analyze(s) PROVE IInv'
  <2>1. seen' = seen + 1
    BY <1>1 DEF Analyze
  <2>2. CASE PulseStart(s)
    BY <2>1, <2>2, StartIInv
  <2>3. CASE PulseEnd(s)
    BY <2>1, <2>3, EndIInv
  <2>4. CASE Quiet(s)
    BY <2>1, <2>4, QuietIInv
  <2> QED
    BY <1>1, <2>2, <2>3, <2>4 DEF Analyze
<1>2. CASE UNCHANGED vars
  BY <1>2 DEF vars, IInv, Types, Tracks, Alternates, Reported, Counted
<1> QED
  BY <1>1, <1>2 DEF Next

-----------------------------------------------------------------------------
(***************************************************************************)
(* The properties.                                                         *)
(***************************************************************************)

LEMMA IInvReports == IInv => ReportsMatchStream
<1> SUFFICES ASSUME IInv PROVE ReportsMatchStream
  OBVIOUS
<1>1. ASSUME report.kind = "end", truth <= IntMax PROVE report.len = truth
  <2>1. truth \in IntMin .. IntMax
    BY <1>1, HalfPositive DEF IInv, Types, Reported, IntMin
  <2> QED
    BY <1>1, <2>1, WrapId DEF IInv, Reported
<1>2. ASSUME report.kind = "start", truth <= IntMax PROVE report.dist = truth
  <2>1. truth \in IntMin .. IntMax
    BY <1>2, HalfPositive DEF IInv, Types, Reported, IntMin
  <2> QED
    BY <1>2, <2>1, WrapId DEF IInv, Reported
<1> QED
  BY <1>1, <1>2 DEF ReportsMatchStream

LEMMA IInvAvg == IInv => AvgIsMean
<1> SUFFICES ASSUME IInv, report.kind = "end", trueSum <= IntMax
             PROVE  report.avg = trueSum \div trueEnds
  BY DEF AvgIsMean
<1>1. trueSum \in IntMin .. IntMax /\ trueSum >= 0
  BY HalfPositive DEF IInv, Types, IntMin
<1>2. pulse_avg = trueSum
  BY <1>1, WrapId DEF IInv, Tracks
<1>3. trueEnds \in IntMin .. IntMax
  <2>1. trueEnds \in Nat /\ trueEnds <= trueSum
    BY DEF IInv, Types, Counted
  <2> QED
    BY <1>1, <2>1, HalfPositive DEF IntMin, IntMax
<1>4. pulses_found = trueEnds
  <2>1. pulses_found = IntWrap(trueEnds)
    BY DEF IInv, Reported, Counted, Types
  <2> QED
    BY <1>3, <2>1, WrapId
<1>5. report.avg = CQuot(trueSum, trueEnds)
  BY <1>2, <1>4 DEF IInv, Reported
<1> QED
  BY <1>1, <1>5 DEF CQuot

(* What pwm_analyze prints as a pulse length or a distance is the true  *)
(* one (below 2^(IntBits-1) samples), for every int width, however far  *)
(* its counter has wrapped: lines 341 and 352-354.                       *)
THEOREM ReportsMatchStreamCorrect == Spec => []ReportsMatchStream
<1>1. IInv => ReportsMatchStream
  BY IInvReports
<1> QED
  BY <1>1, InitIInv, StepIInv, PTL DEF Spec

(* The printed running average (line 354) is the sum of all lengths     *)
(* over the number of pulses that ended, for every int width, while the *)
(* sum fits in an int: the count pulses_found kept at the starts agrees *)
(* with the ends at every print, and the add precedes the print.        *)
THEOREM AvgIsMeanCorrect == Spec => []AvgIsMean
<1>1. IInv => AvgIsMean
  BY IInvAvg
<1> QED
  BY <1>1, InitIInv, StepIInv, PTL DEF Spec

=============================================================================

------------------------- MODULE LowPassFilterProofs -------------------------
(***************************************************************************)
(* Proofs about low_pass_filter: the pre-shifted narrow accumulator is    *)
(* exact for the code's even coefficients, the outputs stay within       *)
(* 0 .. YMax for every envelope stream, and the code implements the      *)
(* wide-accumulator filter of LowPassWide.                               *)
(*                                                                         *)
(* Each arithmetic leaf cites at most one lemma, instantiated on ground   *)
(* terms, so that the SMT backend never has to search for instances.     *)
(***************************************************************************)
EXTENDS LowPassFilter, SequenceTheorems, TLAPS

(* The two shift amounts of line 426-428 and of the wide form. *)
LEMMA ShiftValues == 2^15 = 32768 /\ 2^(F_SCALE - 1) = 16384
BY DEF F_SCALE

(* The named bounds.  They are kept opaque where an interval uses them:  *)
(* an interval with literal bounds this large is expanded element by     *)
(* element by the backends, so each range is turned into two            *)
(* inequalities once, by EnvRange, OutRange and Int16Range below.       *)
LEMMA BoundsInt ==
  EnvMax \in Int /\ Int16Min \in Int /\ Int16Max \in Int /\ YMax \in Int
BY DEF EnvMax, Int16Min, Int16Max, YMax

(* Membership in an integer interval, in the form the SMT backend uses. *)
LEMMA InRange ==
  ASSUME NEW v, NEW a \in Int, NEW b \in Int
  PROVE  v \in a .. b <=> (v \in Int /\ a <= v /\ v <= b)
OBVIOUS

LEMMA EnvRange ==
  ASSUME NEW v
  PROVE  v \in 0 .. EnvMax <=> (v \in Int /\ 0 <= v /\ v <= 32768)
<1>1. v \in 0 .. EnvMax <=> (v \in Int /\ 0 <= v /\ v <= EnvMax)
  BY BoundsInt, InRange
<1>2. v \in Int => (v <= EnvMax <=> v <= 32768)
  BY DEF EnvMax
<1>. QED BY <1>1, <1>2

LEMMA OutRange ==
  ASSUME NEW v
  PROVE  v \in 0 .. YMax <=> (v \in Int /\ 0 <= v /\ v <= 32672)
<1>1. v \in 0 .. YMax <=> (v \in Int /\ 0 <= v /\ v <= YMax)
  BY BoundsInt, InRange
<1>2. v \in Int => (v <= YMax <=> v <= 32672)
  BY DEF YMax
<1>. QED BY <1>1, <1>2

LEMMA Int16Range ==
  ASSUME NEW v
  PROVE  v \in Int16Min .. Int16Max
           <=> (v \in Int /\ -32768 <= v /\ v <= 32767)
<1>1. v \in Int16Min .. Int16Max
        <=> (v \in Int /\ Int16Min <= v /\ v <= Int16Max)
  BY BoundsInt, InRange
<1>2. v \in Int => (Int16Min <= v <=> -32768 <= v)
  BY DEF Int16Min
<1>3. v \in Int => (v <= Int16Max <=> v <= 32767)
  BY DEF Int16Max
<1>. QED BY <1>1, <1>2, <1>3

(* Each product of line 426-428 is even, so its pre-shift is exact. *)
LEMMA AccForm ==
  ASSUME NEW y1 \in Int, NEW x \in Int, NEW x1 \in Int
  PROVE  Acc(y1, x, x1) = 15877 * y1 + 253 * x + 253 * x1
BY DEF Acc, A1, B0, B1

LEMMA WideForm ==
  ASSUME NEW y1 \in Int, NEW x \in Int, NEW x1 \in Int
  PROVE  A1 * y1 + B0 * x + B1 * x1 = 2 * (15877 * y1 + 253 * x + 253 * x1)
BY DEF A1, B0, B1

(* Halving the divisor of a halved dividend leaves the quotient. *)
LEMMA HalfQuotient ==
  ASSUME NEW s \in Int, NEW w \in Int, w = 2 * s
  PROVE  w \div 2^15 = s \div 2^(F_SCALE - 1)
BY ShiftValues, Z3

(* The narrow accumulator of the code computes the wide sum of spec.md  *)
(* 4.2 exactly: shifting each product right by 1 loses nothing.         *)
LEMMA PreShiftExact ==
  ASSUME NEW y1 \in Int, NEW x \in Int, NEW x1 \in Int
  PROVE  Raw(y1, x, x1) = (A1 * y1 + B0 * x + B1 * x1) \div 2^15
<1>1. Acc(y1, x, x1) = 15877 * y1 + 253 * x + 253 * x1
  BY AccForm
<1>2. A1 * y1 + B0 * x + B1 * x1 = 2 * (15877 * y1 + 253 * x + 253 * x1)
  BY WideForm
<1>3. A1 * y1 + B0 * x + B1 * x1 = 2 * Acc(y1, x, x1)
  BY <1>1, <1>2
<1>4. Acc(y1, x, x1) \in Int /\ A1 * y1 + B0 * x + B1 * x1 \in Int
  BY <1>1, <1>2
<1>. QED BY <1>3, <1>4, HalfQuotient DEF Raw

(* The quotient bound and the int16_t wrap, on plain integers. *)
LEMMA DivBound ==
  ASSUME NEW t \in Int, 0 <= t, t <= 535313952
  PROVE  0 <= t \div 16384 /\ t \div 16384 <= 32672
BY Z3

LEMMA ModSmall ==
  ASSUME NEW a \in Int, 0 <= a, a <= 65535
  PROVE  a % 65536 = a
BY Z3

(* One output from a history within bounds and two envelope values is    *)
(* within bounds, and the store into int16_t keeps it unchanged.         *)
LEMMA OutputBounded ==
  ASSUME NEW y1 \in Int, NEW x \in Int, NEW x1 \in Int,
         0 <= y1, y1 <= YMax, 0 <= x, x <= 32768, 0 <= x1, x1 <= 32768
  PROVE  /\ Raw(y1, x, x1) \in Int
         /\ 0 <= Raw(y1, x, x1) /\ Raw(y1, x, x1) <= YMax
         /\ FilterOut(y1, x, x1) = Raw(y1, x, x1)
<1>1. Acc(y1, x, x1) = 15877 * y1 + 253 * x + 253 * x1
  BY AccForm
<1>2. 0 <= 15877 * y1 + 253 * x + 253 * x1
      /\ 15877 * y1 + 253 * x + 253 * x1 <= 535313952
  BY DEF YMax
<1>3. 0 <= (15877 * y1 + 253 * x + 253 * x1) \div 16384
      /\ (15877 * y1 + 253 * x + 253 * x1) \div 16384 <= 32672
  BY <1>2, DivBound
<1>4. Raw(y1, x, x1) = (15877 * y1 + 253 * x + 253 * x1) \div 16384
  BY <1>1, ShiftValues DEF Raw
<1>5. 0 <= Raw(y1, x, x1) /\ Raw(y1, x, x1) <= YMax
  BY <1>3, <1>4 DEF YMax
<1>6. Raw(y1, x, x1) \in Int
  BY <1>4
<1>7. (Raw(y1, x, x1) + 32768) % 65536 = Raw(y1, x, x1) + 32768
  BY <1>5, <1>6, ModSmall DEF YMax
<1>8. Int16(Raw(y1, x, x1)) = Raw(y1, x, x1)
  BY <1>6, <1>7 DEF Int16
<1>. QED BY <1>5, <1>6, <1>8 DEF FilterOut

-----------------------------------------------------------------------------
(* FilterOutputBounded is inductive once the types are known and the     *)
(* block in hand is not a single sample: with len = 1 the saved history  *)
(* y_buf[len-2] would be y_buf[-1], outside what this module describes.  *)
IInv ==
  /\ TypeOK
  /\ FilterOutputBounded
  /\ Len(x_buf) # 1

(* A function on 1..n is a sequence of length n. *)
LEMMA FunIsSeq ==
  ASSUME NEW S, NEW n \in Nat, NEW f \in [1 .. n -> S]
  PROVE  f \in Seq(S) /\ Len(f) = n
<1>1. f \in UNION {[1 .. m -> S] : m \in Nat}
  OBVIOUS
<1>2. f \in Seq(S)
  BY <1>1, SeqDef, Zenon
<1>3. DOMAIN f = 1 .. Len(f) /\ Len(f) \in Nat /\ DOMAIN f = 1 .. n
  BY <1>2, LenProperties
<1>. QED BY <1>2, <1>3

LEMMA InitIInv == Init => IInv
<1> SUFFICES ASSUME Init PROVE IInv
  OBVIOUS
<1>1. <<>> \in Seq(Envelopes) /\ <<>> \in Seq(Int16Min .. Int16Max) /\ Len(<<>>) = 0
  BY EmptySeq
<1>2. MaxCalls \in Nat
  BY LowPassAssumption
<1>3. /\ 0 \in 0 .. EnvMax /\ 0 \in Int16Min .. Int16Max
      /\ 0 \in 0 .. MaxCalls /\ 0 \in 0 .. YMax
  BY <1>2, EnvRange, Int16Range, OutRange
<1>. QED BY <1>1, <1>3 DEF Init, IInv, TypeOK, FilterOutputBounded

(* A call hands over a block of at least two envelope values and clears *)
(* the outputs; the history is left alone.                              *)
LEMMA CallIInv == IInv /\ Call => IInv'
<1> SUFFICES ASSUME IInv, Call PROVE IInv'
  OBVIOUS
<1>1. PICK n \in BlockLens : \E xs \in [1 .. n -> Envelopes] :
                                x_buf' = xs /\ y_buf' = <<>>
  BY DEF Call
<1>2. PICK xs \in [1 .. n -> Envelopes] : x_buf' = xs /\ y_buf' = <<>>
  BY <1>1
<1>3. n \in Nat /\ n # 1
  <2>1. n \in Nat \ {0, 1}
    BY LowPassAssumption, Zenon
  <2>. QED BY <2>1, Zenon
<1>4. xs \in Seq(Envelopes) /\ Len(xs) = n
  BY <1>3, FunIsSeq
<1>5. <<>> \in Seq(Int16Min .. Int16Max) /\ Len(<<>>) = 0
  BY EmptySeq
<1>6. lp_xmem' = lp_xmem /\ y_mem' = y_mem /\ calls' = calls + 1
      /\ calls < MaxCalls
  BY DEF Call
<1>7. calls' \in 0 .. MaxCalls
  BY <1>6, LowPassAssumption DEF IInv, TypeOK
<1>8. TypeOK'
  <2>1. lp_xmem' \in 0 .. EnvMax /\ y_mem' \in Int16Min .. Int16Max
    BY <1>6, Zenon DEF IInv, TypeOK
  <2>2. x_buf' \in Seq(Envelopes) /\ y_buf' \in Seq(Int16Min .. Int16Max)
    BY <1>2, <1>4, <1>5, Zenon
  <2>3. Len(y_buf') <= Len(x_buf')
    BY <1>2, <1>3, <1>4, <1>5
  <2>. QED BY <2>1, <2>2, <2>3, <1>7, Zenon DEF TypeOK
<1>9. FilterOutputBounded'
  <2>1. y_mem' \in 0 .. YMax
    BY <1>6, Zenon DEF IInv, FilterOutputBounded
  <2>2. 1 .. Len(y_buf') = {}
    BY <1>2, <1>5
  <2>. QED BY <2>1, <2>2, Zenon DEF FilterOutputBounded
<1>. QED BY <1>2, <1>3, <1>4, <1>8, <1>9 DEF IInv

(* One iteration of the loop: the sample it writes is bounded by         *)
(* OutputBounded, and on the last iteration the saved history is one of  *)
(* the block's envelope values and one of the outputs just written.     *)
LEMMA SampleIInv == IInv /\ FilterSample => IInv'
<1> SUFFICES ASSUME IInv, FilterSample PROVE IInv'
  OBVIOUS
<1> DEFINE i == Len(y_buf) + 1
           n == Len(x_buf)
           y1 == IF i = 1 THEN y_mem ELSE y_buf[i - 1]
           x1 == IF i = 1 THEN lp_xmem ELSE x_buf[i - 1]
           v == FilterOut(y1, x_buf[i], x1)
           ys == Append(y_buf, v)
<1>1. /\ i <= n /\ y_buf' = ys
      /\ IF i = n THEN SaveHistory(ys) ELSE UNCHANGED <<lp_xmem, y_mem>>
      /\ UNCHANGED <<x_buf, calls>>
  BY DEF FilterSample
<1>2. /\ x_buf \in Seq(Envelopes) /\ y_buf \in Seq(Int16Min .. Int16Max)
      /\ n \in Nat /\ Len(y_buf) \in Nat /\ i \in 1 .. n
  BY <1>1, LenProperties DEF IInv, TypeOK
<1>3. y1 \in Int /\ 0 <= y1 /\ y1 <= YMax
  <2>1. CASE i = 1
    <3>1. y_mem \in 0 .. YMax
      BY DEF IInv, FilterOutputBounded
    <3>. QED BY <2>1, <3>1, OutRange
  <2>2. CASE i # 1
    <3>1. i - 1 \in 1 .. Len(y_buf)
      BY <1>2, <2>2
    <3>2. y_buf[i - 1] \in 0 .. YMax
      BY <3>1 DEF IInv, FilterOutputBounded
    <3>. QED BY <2>2, <3>2, OutRange
  <2>. QED BY <2>1, <2>2
<1>4. \A k \in 1 .. n : x_buf[k] \in Int /\ 0 <= x_buf[k] /\ x_buf[k] <= 32768
  <2> TAKE k \in 1 .. n
  <2>1. x_buf[k] \in Envelopes
    BY <1>2, ElementOfSeq
  <2>2. x_buf[k] \in 0 .. EnvMax
    BY <2>1, LowPassAssumption
  <2>. QED BY <2>2, EnvRange
<1>5. x1 \in Int /\ 0 <= x1 /\ x1 <= 32768
  <2>1. CASE i = 1
    <3>1. lp_xmem \in 0 .. EnvMax
      BY DEF IInv, TypeOK
    <3>. QED BY <2>1, <3>1, EnvRange
  <2>2. CASE i # 1
    BY <1>2, <1>4, <2>2
  <2>. QED BY <2>1, <2>2
<1>6. v \in Int /\ 0 <= v /\ v <= YMax
  <2>1. PICK yp, xc, xp : yp = y1 /\ xc = x_buf[i] /\ xp = x1
    OBVIOUS
  <2>2. /\ yp \in Int /\ 0 <= yp /\ yp <= YMax
        /\ xc \in Int /\ 0 <= xc /\ xc <= 32768
        /\ xp \in Int /\ 0 <= xp /\ xp <= 32768
    BY <1>2, <1>3, <1>4, <1>5, <2>1
  <2>3. /\ Raw(yp, xc, xp) \in Int
        /\ 0 <= Raw(yp, xc, xp) /\ Raw(yp, xc, xp) <= YMax
        /\ FilterOut(yp, xc, xp) = Raw(yp, xc, xp)
    BY <2>2, OutputBounded
  <2>4. v = FilterOut(yp, xc, xp)
    BY <2>1
  <2>. QED BY <2>3, <2>4
<1>7. v \in 0 .. YMax /\ v \in Int16Min .. Int16Max
  <2>1. v <= 32672
    BY <1>6 DEF YMax
  <2>. QED BY <1>6, <2>1, OutRange, Int16Range
<1>8. /\ ys \in Seq(Int16Min .. Int16Max) /\ Len(ys) = i
      /\ \A k \in 1 .. Len(y_buf) : ys[k] = y_buf[k]
      /\ ys[i] = v
  BY <1>2, <1>7, AppendProperties
<1>9. \A k \in 1 .. i : ys[k] \in 0 .. YMax
  <2> TAKE k \in 1 .. i
  <2>1. CASE k = i
    BY <1>7, <1>8, <2>1
  <2>2. CASE k # i
    <3>1. k \in 1 .. Len(y_buf)
      BY <1>2, <2>2
    <3>. QED BY <1>8, <3>1 DEF IInv, FilterOutputBounded
  <2>. QED BY <2>1, <2>2
<1>10. lp_xmem' \in 0 .. EnvMax /\ y_mem' \in 0 .. YMax
  <2>1. CASE i = n
    <3>1. n # 1 /\ n - 1 \in 1 .. n /\ n - 1 \in 1 .. i
      BY <1>2, <2>1 DEF IInv
    <3>2. lp_xmem' = x_buf[n - 1] /\ y_mem' = ys[n - 1]
      BY <1>1, <2>1 DEF SaveHistory
    <3>3. x_buf[n - 1] \in Envelopes
      BY <1>2, <3>1, ElementOfSeq
    <3>. QED BY <1>9, <3>1, <3>2, <3>3, LowPassAssumption
  <2>2. CASE i # n
    BY <1>1, <2>2 DEF IInv, TypeOK, FilterOutputBounded
  <2>. QED BY <2>1, <2>2
<1>11. y_mem' \in Int16Min .. Int16Max
  BY <1>10, OutRange, Int16Range
<1>12. TypeOK'
  BY <1>1, <1>2, <1>8, <1>10, <1>11 DEF IInv, TypeOK
<1>13. FilterOutputBounded'
  BY <1>1, <1>8, <1>9, <1>10 DEF FilterOutputBounded
<1>. QED BY <1>1, <1>12, <1>13 DEF IInv

LEMMA StepIInv == IInv /\ [Next]_vars => IInv'
<1> SUFFICES ASSUME IInv, [Next]_vars PROVE IInv'
  OBVIOUS
<1>1. CASE Call
  BY <1>1, CallIInv
<1>2. CASE FilterSample
  BY <1>2, SampleIInv
<1>3. CASE UNCHANGED vars
  BY <1>3 DEF vars, IInv, TypeOK, FilterOutputBounded
<1>. QED BY <1>1, <1>2, <1>3 DEF Next

(* For every envelope stream, over any number of calls, each output of   *)
(* low_pass_filter and the history it carries lie in 0 .. YMax: the sum  *)
(* of line 426-428 stays far below 2^31 and the int16_t store never      *)
(* wraps.                                                                 *)
THEOREM FilterOutputBoundedCorrect == Spec => []FilterOutputBounded
<1>1. IInv => FilterOutputBounded
  BY DEF IInv
<1>. QED BY <1>1, InitIInv, StepIInv, PTL DEF Spec

-----------------------------------------------------------------------------
(* Refinement of the wide-accumulator filter of spec.md 4.2.             *)

(* The code's output equals the wide-accumulator output on all integers. *)
LEMMA NarrowIsWide ==
  ASSUME NEW y1 \in Int, NEW x \in Int, NEW x1 \in Int
  PROVE  FilterOut(y1, x, x1) = Wide!WideOut(y1, x, x1)
<1>1. Raw(y1, x, x1) = (A1 * y1 + B0 * x + B1 * x1) \div 2^15
  BY PreShiftExact
<1>. QED BY <1>1 DEF FilterOut, Int16, Wide!WideOut

LEMMA InitRefines == Init => Wide!WInit
BY DEF Init, Wide!WInit

LEMMA CallRefines == Call => Wide!WCall
BY DEF Call, Wide!WCall

(* One iteration writes the wide output, and the history it saves on the *)
(* last iteration is the pair at k = len-1, one of those WSample allows. *)
LEMMA SampleRefines == IInv /\ FilterSample => Wide!WSample
<1> SUFFICES ASSUME IInv, FilterSample PROVE Wide!WSample
  OBVIOUS
<1> DEFINE i == Len(y_buf) + 1
           n == Len(x_buf)
           y1 == IF i = 1 THEN y_mem ELSE y_buf[i - 1]
           x1 == IF i = 1 THEN lp_xmem ELSE x_buf[i - 1]
           ys == Append(y_buf, FilterOut(y1, x_buf[i], x1))
           wys == Append(y_buf, Wide!WideOut(y1, x_buf[i], x1))
<1>1. /\ i <= n /\ y_buf' = ys
      /\ IF i = n THEN SaveHistory(ys) ELSE UNCHANGED <<lp_xmem, y_mem>>
      /\ UNCHANGED <<x_buf, calls>>
  BY DEF FilterSample
<1>2. /\ x_buf \in Seq(Envelopes) /\ y_buf \in Seq(Int16Min .. Int16Max)
      /\ n \in Nat /\ Len(y_buf) \in Nat /\ i \in 1 .. n
  BY <1>1, LenProperties DEF IInv, TypeOK
<1>3. y1 \in Int
  <2>1. CASE i = 1
    <3>1. y_mem \in Int16Min .. Int16Max
      BY DEF IInv, TypeOK
    <3>. QED BY <2>1, <3>1, Int16Range
  <2>2. CASE i # 1
    <3>1. i - 1 \in 1 .. Len(y_buf)
      BY <1>2, <2>2
    <3>2. y_buf[i - 1] \in Int16Min .. Int16Max
      BY <1>2, <3>1, ElementOfSeq
    <3>. QED BY <2>2, <3>2, Int16Range
  <2>. QED BY <2>1, <2>2
<1>4. \A k \in 1 .. n : x_buf[k] \in Int
  <2> TAKE k \in 1 .. n
  <2>1. x_buf[k] \in 0 .. EnvMax
    BY <1>2, ElementOfSeq, LowPassAssumption
  <2>. QED BY <2>1, EnvRange
<1>5. x1 \in Int
  <2>1. CASE i = 1
    <3>1. lp_xmem \in 0 .. EnvMax
      BY DEF IInv, TypeOK
    <3>. QED BY <2>1, <3>1, EnvRange
  <2>2. CASE i # 1
    BY <1>2, <1>4, <2>2
  <2>. QED BY <2>1, <2>2
<1>6. ys = wys
  <2>1. PICK yp, xc, xp : yp = y1 /\ xc = x_buf[i] /\ xp = x1
    OBVIOUS
  <2>2. yp \in Int /\ xc \in Int /\ xp \in Int
    BY <1>2, <1>3, <1>4, <1>5, <2>1
  <2>3. FilterOut(yp, xc, xp) = Wide!WideOut(yp, xc, xp)
    BY <2>2, NarrowIsWide
  <2>. QED BY <2>1, <2>3
<1>7. i = n => \E k \in 1 .. n : lp_xmem' = x_buf[k] /\ y_mem' = wys[k]
  <2> SUFFICES ASSUME i = n
               PROVE  \E k \in 1 .. n : lp_xmem' = x_buf[k] /\ y_mem' = wys[k]
    OBVIOUS
  <2>1. n - 1 \in 1 .. n
    BY <1>2 DEF IInv
  <2>2. lp_xmem' = x_buf[n - 1] /\ y_mem' = wys[n - 1]
    BY <1>1, <1>6 DEF SaveHistory
  <2>. QED BY <2>1, <2>2
<1>. QED BY <1>1, <1>6, <1>7 DEF Wide!WSample

LEMMA StepRefines ==
  IInv /\ [Next]_vars => [Wide!WCall \/ Wide!WSample]_(Wide!wvars)
<1> SUFFICES ASSUME IInv, [Next]_vars
             PROVE  [Wide!WCall \/ Wide!WSample]_(Wide!wvars)
  OBVIOUS
<1>1. CASE Call
  BY <1>1, CallRefines
<1>2. CASE FilterSample
  BY <1>2, SampleRefines
<1>3. CASE UNCHANGED vars
  BY <1>3 DEF vars, Wide!wvars
<1>. QED BY <1>1, <1>2, <1>3 DEF Next

(* low_pass_filter, with its pre-shifted narrow accumulator and its      *)
(* history saved from y_buf[len-2], implements the wide-accumulator      *)
(* filter of spec.md 4.2 for every envelope stream and block length: a  *)
(* reader may reason about the code as if it computed the spec's sum.   *)
THEOREM WideRefinement == Spec => WideRefined
<1>1. Spec => []IInv
  BY InitIInv, StepIInv, PTL DEF Spec
<1>. QED BY <1>1, InitRefines, StepRefines, PTL
         DEF Spec, WideRefined, Wide!WSpec

=============================================================================

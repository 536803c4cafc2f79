---------------------------- MODULE LowPassFilter ----------------------------
(***************************************************************************)
(* low_pass_filter of rtl_433.c: the first-order fixed-point IIR applied  *)
(* to the envelope block x_buf of len samples, writing y_buf[0..len-1].   *)
(* Each product is shifted right by 1 before the three are summed in an  *)
(* int, and the sum is shifted by F_SCALE-1 = 14 and stored in int16_t.  *)
(* Between calls the filter keeps lp_xmem[0] (the x history) and         *)
(* y_buf[-1], the word before f_buf in demod->filter_buffer (y_mem).     *)
(*                                                                         *)
(* One step is one iteration of the loop; the iteration that writes the *)
(* last sample also performs the two trailing memcpy's that save the     *)
(* history.  The caller's hand-over of a new envelope block is Call.     *)
(***************************************************************************)
EXTENDS Integers, Sequences

CONSTANTS
  Envelopes,  \* envelope values envelope_detect can produce
  BlockLens,  \* filtered block lengths len >> (d+1)
  MaxCalls    \* bound on the number of calls

(* The largest envelope_detect output, (-128)^2 + (-128)^2 from the raw *)
(* byte pair 0x00, 0x00, and the range of int16_t.                       *)
EnvMax == 32768
Int16Min == -32768
Int16Max == 32767

(* Lengths of 0 or 1 make the history index len-2 wrap (Pipeline's      *)
(* FilterHistoryInBounds); this module covers the blocks of 2 or more.  *)
ASSUME LowPassAssumption ==
  /\ Envelopes \subseteq 0 .. EnvMax
  /\ BlockLens \subseteq Nat \ {0, 1}
  /\ MaxCalls \in Nat

F_SCALE == 15

(* a[1] = FIX(0.96907) and b[0] = b[1] = FIX(0.015466): FIX truncates    *)
(* x * 2^15 to int.  a[0] is never read.                                 *)
A1 == 31754
B0 == 506
B1 == 506

(* Conversion of an int to int16_t (two's complement wrap). *)
Int16(v) == ((v + 32768) % 65536) - 32768

(* Mutant: the feedback product summed without its pre-shift. *)
AccUnshiftedFeedback(y1, x, x1) == A1 * y1 + (B0 * x) \div 2 + (B1 * x1) \div 2

(* (a[1]*y>>1) + (b[0]*x>>1) + (b[1]*x1>>1): `*` binds tighter than >>. *)
Acc(y1, x, x1) == (A1 * y1) \div 2 + (B0 * x) \div 2 + (B1 * x1) \div 2

(* Mutant: the accumulator shifted by F_SCALE, forgetting the pre-shift. *)
RawShiftedByScale(y1, x, x1) == Acc(y1, x, x1) \div 2^F_SCALE

(* `>> F_SCALE-1` parses as >> (F_SCALE - 1). *)
Raw(y1, x, x1) == Acc(y1, x, x1) \div 2^(F_SCALE - 1)

FilterOut(y1, x, x1) == Int16(Raw(y1, x, x1))

VARIABLES
  lp_xmem,  \* lp_xmem[0]
  y_mem,    \* y_buf[-1], i.e. demod->filter_buffer[0]
  x_buf,    \* the envelope block of the current call
  y_buf,    \* the outputs written so far in the current call
  calls     \* calls made so far

vars == <<lp_xmem, y_mem, x_buf, y_buf, calls>>

(* lp_xmem is a zeroed static; filter_buffer is zeroed by memset(demod). *)
Init ==
  /\ lp_xmem = 0 /\ y_mem = 0
  /\ x_buf = <<>> /\ y_buf = <<>>
  /\ calls = 0

(* rtlsdr_callback calls low_pass_filter on a fresh envelope block. *)
Call ==
  /\ Len(y_buf) = Len(x_buf) /\ calls < MaxCalls
  /\ \E n \in BlockLens : \E xs \in [1 .. n -> Envelopes] :
       /\ x_buf' = xs /\ y_buf' = <<>>
  /\ calls' = calls + 1
  /\ UNCHANGED <<lp_xmem, y_mem>>

(* The two memcpy's after the loop: x_buf[len-1-FILTER_ORDER] and        *)
(* y_buf[len-1-FILTER_ORDER] become the history (FILTER_ORDER = 1).      *)
SaveHistory(ys) ==
  lp_xmem' = x_buf[Len(x_buf) - 1] /\ y_mem' = ys[Len(x_buf) - 1]

(* Iteration i of the loop (i = 1 is the "first sample" statement, which *)
(* reads y_buf[-1] and lp_xmem[0]); the last one also saves the history. *)
FilterSample ==
  LET i == Len(y_buf) + 1
      n == Len(x_buf)
      y1 == IF i = 1 THEN y_mem ELSE y_buf[i - 1]
      x1 == IF i = 1 THEN lp_xmem ELSE x_buf[i - 1]
      ys == Append(y_buf, FilterOut(y1, x_buf[i], x1))
  IN /\ i <= n
     /\ y_buf' = ys
     /\ IF i = n
          THEN SaveHistory(ys)
          ELSE UNCHANGED <<lp_xmem, y_mem>>
     /\ UNCHANGED <<x_buf, calls>>

Next == Call \/ FilterSample

Spec == Init /\ [][Next]_vars

-----------------------------------------------------------------------------
TypeOK ==
  /\ lp_xmem \in 0 .. EnvMax
  /\ y_mem \in Int16Min .. Int16Max
  /\ x_buf \in Seq(Envelopes)
  /\ y_buf \in Seq(Int16Min .. Int16Max)
  /\ Len(y_buf) <= Len(x_buf)
  /\ calls \in 0 .. MaxCalls

(* The fixed point of the recurrence under the largest envelope 32768: *)
(* Raw(YMax, 32768, 32768) = YMax.                                       *)
YMax == 32672

(* Over any number of blocks of any envelope values, every output of     *)
(* low_pass_filter, and the history it carries, lies in 0 .. YMax: the    *)
(* int accumulator of line 426-428 never needs more than 2^30, and the   *)
(* store into int16_t never wraps.                                       *)
FilterOutputBounded ==
  /\ y_mem \in 0 .. YMax
  /\ \A k \in 1 .. Len(y_buf) : y_buf[k] \in 0 .. YMax

Wide == INSTANCE LowPassWide

(* The pre-shifted narrow accumulator of the code computes, sample for   *)
(* sample, what the wide accumulator of spec.md 4.2 computes (the spec   *)
(* allows either "provided rounding is identical at the LSB").           *)
WideRefined == Wide!WSpec

=============================================================================

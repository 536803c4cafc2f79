----------------------------- MODULE LowPassWide -----------------------------
(***************************************************************************)
(* What the low-pass filter promises (spec.md 4.2): the first-order IIR    *)
(*   y[n] = (a1 y[n-1] + b0 x[n] + b1 x[n-1]) >> 15                        *)
(* computed in a wide accumulator without pre-shifting the products, over *)
(* each block handed to it, with a history pair (x, y) carried from one   *)
(* call to the next.  Which sample of the block the history is taken     *)
(* from is left open here; LowPassReference is about that choice.        *)
(***************************************************************************)
EXTENDS Integers, Sequences

CONSTANTS
  A1, B0, B1,   \* the Q15 coefficients a[1], b[0], b[1]
  Envelopes,    \* envelope sample values the filter may be given
  BlockLens,    \* lengths of the blocks it is called on
  MaxCalls      \* bound on the number of calls

VARIABLES lp_xmem, y_mem, x_buf, y_buf, calls

wvars == <<lp_xmem, y_mem, x_buf, y_buf, calls>>

(* One output sample, wide accumulator, truncated to int16_t. *)
WideOut(y1, x, x1) ==
  (((A1 * y1 + B0 * x + B1 * x1) \div 2^15 + 32768) % 65536) - 32768

WInit ==
  /\ lp_xmem = 0 /\ y_mem = 0
  /\ x_buf = <<>> /\ y_buf = <<>>
  /\ calls = 0

WCall ==
  /\ Len(y_buf) = Len(x_buf) /\ calls < MaxCalls
  /\ \E n \in BlockLens : \E xs \in [1 .. n -> Envelopes] :
       /\ x_buf' = xs /\ y_buf' = <<>>
  /\ calls' = calls + 1
  /\ UNCHANGED <<lp_xmem, y_mem>>

WSample ==
  LET i == Len(y_buf) + 1
      n == Len(x_buf)
      y1 == IF i = 1 THEN y_mem ELSE y_buf[i - 1]
      x1 == IF i = 1 THEN lp_xmem ELSE x_buf[i - 1]
      ys == Append(y_buf, WideOut(y1, x_buf[i], x1))
  IN /\ i <= n
     /\ y_buf' = ys
     /\ IF i = n
          THEN \E k \in 1 .. n : lp_xmem' = x_buf[k] /\ y_mem' = ys[k]
          ELSE UNCHANGED <<lp_xmem, y_mem>>
     /\ UNCHANGED <<x_buf, calls>>

WSpec == WInit /\ [][WCall \/ WSample]_wvars

=============================================================================

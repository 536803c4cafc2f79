------------------------------ MODULE PwmDemod ------------------------------
(***************************************************************************)
(* One pulse-width demodulator instance (pwm_demod in rtl_433.c) fed with *)
(* filtered samples one at a time.  pwm_demod loops over a block and      *)
(* nothing else touches the protocol state during the loop, so a block is *)
(* a run of Sample steps; DemodStep is the body of that loop and is       *)
(* reused by the pipeline model to fold a whole block.                    *)
(*                                                                         *)
(* A sample only matters through its comparison with level_limit, so the *)
(* inputs are a small set Samples of int16 values around LevelLimit.      *)
(* pulse_length is written (always 0) and never read: it is left out.     *)
(***************************************************************************)
EXTENDS BitPacket, Integers

CONSTANTS ShortLimit, LongLimit, ResetLimit, LevelLimit, Samples

ASSUME PwmLimitsAssumption ==
  /\ ShortLimit \in Nat /\ LongLimit \in Nat /\ ResetLimit \in Nat
  /\ 0 < ShortLimit /\ ShortLimit < LongLimit /\ LongLimit < ResetLimit
  /\ LevelLimit \in Int
  /\ Samples \subseteq Int

VARIABLES
  p,        \* the struct protocol_state of this instance
  printed,  \* the bits_buffer handed to the last demod_print_bits_packet
  lowRun    \* history: consecutive input samples below the level (capped)

vars == <<p, printed, lowRun>>

(* The bound on the history counter lowRun: once above ResetLimit it no  *)
(* longer needs to grow.                                                  *)
SilenceCap == ResetLimit + 1

Bit == {0, 1}

ProtocolStates ==
  [bits_buffer : Buffers, bits_row_idx : Rows, bits_col_idx : Cols,
   bits_bit_col_idx : BitIdx,
   pulse_count : Bit, pulse_distance : Bit, sample_counter : Nat,
   start_c : Bit,
   short_limit : {ShortLimit}, long_limit : {LongLimit},
   reset_limit : {ResetLimit}]

(***************************************************************************)
(* The loop body of pwm_demod, one stage per `if` of the code, applied in *)
(* the code's order.                                                       *)
(***************************************************************************)
(* buf[i] > level_limit: inside a pulse, and counting from now on. *)
Rising(q, s) ==
  IF s > LevelLimit THEN [q EXCEPT !.pulse_count = 1, !.start_c = 1] ELSE q

(* A falling edge: the gap starts and its counter restarts. *)
FallingEdge(q, s) ==
  IF q.pulse_count = 1 /\ s < LevelLimit
    THEN [q EXCEPT !.pulse_distance = 1, !.sample_counter = 0,
                   !.pulse_count = 0]
    ELSE q

(* if (p->start_c) p->sample_counter++; *)
Count(q) == IF q.start_c = 1 THEN [q EXCEPT !.sample_counter = @ + 1] ELSE q

(* A rising edge that ends a gap: the gap's length selects bit 0, bit 1  *)
(* or the end of the row.                                                 *)
ClassifyGap(q, s) ==
  IF q.pulse_distance = 1 /\ s > LevelLimit
    THEN LET r == IF q.sample_counter < q.short_limit
                    THEN demod_add_bit(q, 0)
                  ELSE IF q.sample_counter < q.long_limit
                    THEN demod_add_bit(q, 1)
                  ELSE [demod_next_bits_packet(q) EXCEPT !.pulse_count = 0,
                                                         !.sample_counter = 0]
         IN [r EXCEPT !.pulse_distance = 0]
    ELSE q

(* The state just before the silence check. *)
PreReset(q, s) == ClassifyGap(Count(FallingEdge(Rising(q, s), s)), s)

(* sample_counter > reset_limit: the frame ended in silence. *)
Silence(q) == q.sample_counter > q.reset_limit

(* Mutant: the silence reset forgets demod_reset_bits_packet. *)
SilenceResetKeepsPacket(q) ==
  [q EXCEPT !.start_c = 0, !.sample_counter = 0, !.pulse_distance = 0]

(* Print (not modelled beyond handing over the buffer) and start over. *)
SilenceReset(q) ==
  demod_reset_bits_packet(
    [q EXCEPT !.start_c = 0, !.sample_counter = 0, !.pulse_distance = 0])

DemodStep(q, s) ==
  LET r == PreReset(q, s) IN IF Silence(r) THEN SilenceReset(r) ELSE r

-----------------------------------------------------------------------------
(* calloc'd state with the limits set, then demod_reset_bits_packet. *)
InitState ==
  demod_reset_bits_packet(
    [bits_buffer |-> ZeroBuffer, bits_row_idx |-> 0, bits_col_idx |-> 0,
     bits_bit_col_idx |-> 0,
     pulse_count |-> 0, pulse_distance |-> 0, sample_counter |-> 0,
     start_c |-> 0,
     short_limit |-> ShortLimit, long_limit |-> LongLimit,
     reset_limit |-> ResetLimit])

Init ==
  /\ p = InitState
  /\ printed = ZeroBuffer
  /\ lowRun = 0

(* One iteration of the loop of pwm_demod on the sample s. *)
Sample(s) ==
  LET r == PreReset(p, s) IN
  /\ p' = DemodStep(p, s)
  /\ printed' = IF Silence(r) THEN r.bits_buffer ELSE printed
  /\ lowRun' = IF s < LevelLimit THEN ClampIdx(lowRun + 1, SilenceCap) ELSE 0

Next == \E s \in Samples : Sample(s)

Spec == Init /\ [][Next]_vars

-----------------------------------------------------------------------------
(* The type invariant; it includes that the bit cursor, after any number *)
(* of appends and row advances, always addresses a byte inside           *)
(* bits_buffer (the clamps of demod_add_bit / demod_next_bits_packet).   *)
TypeOK ==
  /\ p \in ProtocolStates
  /\ printed \in Buffers
  /\ lowRun \in 0 .. SilenceCap

(* The decoder is idle: not counting, counter cleared, packet empty and *)
(* its cursor at the first bit.                                          *)
Idle(q) ==
  /\ q.start_c = 0
  /\ q.sample_counter = 0
  /\ q.bits_buffer = ZeroBuffer
  /\ q.bits_row_idx = 0 /\ q.bits_col_idx = 0
  /\ q.bits_bit_col_idx = ByteBits - 1

(* Silence flushes the packet: after more than reset_limit consecutive  *)
(* samples below level_limit, whatever came before (pulses, gaps, row   *)
(* advances, a saturated buffer), pwm_demod has printed the packet and  *)
(* is idle with an empty buffer.  This is what makes each sensor burst  *)
(* a packet of its own.                                                  *)
SilenceFlushes == lowRun > ResetLimit => Idle(p)

=============================================================================

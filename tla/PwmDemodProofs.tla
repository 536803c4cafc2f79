--------------------------- MODULE PwmDemodProofs ---------------------------
(***************************************************************************)
(* Proofs about the demodulator of PwmDemod, for every buffer size, byte  *)
(* width and set of timing limits the assumptions allow.                  *)
(***************************************************************************)
EXTENDS PwmDemod, TLAPS

USE BitPacketAssumption, PwmLimitsAssumption

(***************************************************************************)
(* The bit-packet primitives keep a protocol state well typed: in        *)
(* particular the clamps keep the cursor inside the buffer.               *)
(***************************************************************************)
LEMMA BufferFacts ==
  /\ ZeroBuffer \in Buffers
  /\ ByteBits - 1 \in BitIdx
  /\ 0 \in Rows
  /\ 0 \in Cols
BY DEF ZeroBuffer, Buffers, Byte, BitIdx, Rows, Cols

LEMMA ResetType ==
  ASSUME NEW q \in ProtocolStates
  PROVE  demod_reset_bits_packet(q) \in ProtocolStates
BY BufferFacts DEF demod_reset_bits_packet, ProtocolStates

LEMMA AddBitType ==
  ASSUME NEW q \in ProtocolStates, NEW bit \in Bit
  PROVE  demod_add_bit(q, bit) \in ProtocolStates
<1> DEFINE row == q.bits_row_idx
           col == q.bits_col_idx
           k == q.bits_bit_col_idx
<1>1. OrBit(q.bits_buffer[row][col], k, bit) \in Byte
  BY DEF OrBit, Byte, BitIdx, ProtocolStates, Buffers, Bit
<1>2. [q.bits_buffer EXCEPT ![row][col] = OrBit(@, k, bit)] \in Buffers
  BY <1>1 DEF ProtocolStates, Buffers
<1>3. (IF k - 1 < 0 THEN ByteBits - 1 ELSE k - 1) \in BitIdx
  BY BufferFacts DEF BitIdx, ProtocolStates
<1>4. ClampIdx(col + 1, BITBUF_COLS - 1) \in Cols
  BY DEF ClampIdx, Cols, ProtocolStates
<1>5. (IF k - 1 < 0 THEN ClampIdx(col + 1, BITBUF_COLS - 1) ELSE col) \in Cols
  BY <1>4 DEF ProtocolStates
<1>6. QED
  BY <1>2, <1>3, <1>5 DEF demod_add_bit, ProtocolStates

LEMMA NextPacketType ==
  ASSUME NEW q \in ProtocolStates
  PROVE  demod_next_bits_packet(q) \in ProtocolStates
<1>1. ClampIdx(q.bits_row_idx + 1, BITBUF_ROWS - 1) \in Rows
  BY DEF ClampIdx, Rows, ProtocolStates
<1>2. QED
  BY <1>1, BufferFacts DEF demod_next_bits_packet, ProtocolStates

(* Each stage of the loop body of pwm_demod preserves the type. *)
LEMMA DemodStepType ==
  ASSUME NEW q \in ProtocolStates, NEW s \in Samples
  PROVE  /\ PreReset(q, s) \in ProtocolStates
         /\ DemodStep(q, s) \in ProtocolStates
<1>1. Rising(q, s) \in ProtocolStates
  BY DEF Rising, ProtocolStates, Bit
<1>2. ASSUME NEW r \in ProtocolStates PROVE FallingEdge(r, s) \in ProtocolStates
  BY DEF FallingEdge, ProtocolStates, Bit
<1>3. ASSUME NEW r \in ProtocolStates PROVE Count(r) \in ProtocolStates
  BY DEF Count, ProtocolStates
<1>4. ASSUME NEW r \in ProtocolStates PROVE ClassifyGap(r, s) \in ProtocolStates
  <2>1. demod_add_bit(r, 0) \in ProtocolStates /\ demod_add_bit(r, 1) \in ProtocolStates
    BY AddBitType DEF Bit
  <2>2. [demod_next_bits_packet(r) EXCEPT !.pulse_count = 0,
                                          !.sample_counter = 0] \in ProtocolStates
    BY NextPacketType DEF ProtocolStates, Bit
  <2>3. QED
    BY <2>1, <2>2 DEF ClassifyGap, ProtocolStates, Bit
<1>5. PreReset(q, s) \in ProtocolStates
  BY <1>1, <1>2, <1>3, <1>4 DEF PreReset
<1>6. ASSUME NEW r \in ProtocolStates PROVE SilenceReset(r) \in ProtocolStates
  <2>1. [r EXCEPT !.start_c = 0, !.sample_counter = 0, !.pulse_distance = 0]
          \in ProtocolStates
    BY DEF ProtocolStates, Bit
  <2>2. QED
    BY <2>1, ResetType DEF SilenceReset
<1>7. QED
  BY <1>5, <1>6 DEF DemodStep

(***************************************************************************)
(* Type correctness of the demodulator.                                   *)
(***************************************************************************)
LEMMA TypeInit == Init => TypeOK
<1>1. InitState \in ProtocolStates
  <2>1. [bits_buffer |-> ZeroBuffer, bits_row_idx |-> 0, bits_col_idx |-> 0,
         bits_bit_col_idx |-> 0,
         pulse_count |-> 0, pulse_distance |-> 0, sample_counter |-> 0,
         start_c |-> 0,
         short_limit |-> ShortLimit, long_limit |-> LongLimit,
         reset_limit |-> ResetLimit] \in ProtocolStates
    BY BufferFacts DEF ProtocolStates, BitIdx, Bit
  <2>2. QED
    BY <2>1, ResetType DEF InitState
<1>2. QED
  BY <1>1, BufferFacts DEF Init, TypeOK, SilenceCap

LEMMA TypeStep == TypeOK /\ [Next]_vars => TypeOK'
<1> SUFFICES ASSUME TypeOK, [Next]_vars PROVE TypeOK'
  OBVIOUS
<1>1. ASSUME NEW s \in Samples, Sample(s) PROVE TypeOK'
  <2>1. p' \in ProtocolStates
    BY <1>1, DemodStepType DEF Sample, TypeOK
  <2>2. printed' \in Buffers
    BY <1>1, DemodStepType DEF Sample, TypeOK, ProtocolStates
  <2>3. lowRun' \in 0 .. SilenceCap
    BY <1>1 DEF Sample, TypeOK, ClampIdx, SilenceCap
  <2>4. QED
    BY <2>1, <2>2, <2>3 DEF TypeOK
<1>2. CASE UNCHANGED vars
  BY <1>2 DEF TypeOK, vars
<1>3. QED
  BY <1>1, <1>2 DEF Next

THEOREM TypeCorrect == Spec => []TypeOK
BY TypeInit, TypeStep, PTL DEF Spec

-----------------------------------------------------------------------------
(***************************************************************************)
(* SilenceFlushes.  It is not inductive by itself: a step from a state    *)
(* where lowRun is already large is only known to stay idle if the       *)
(* counter is known to be small and to grow with the silence.  The       *)
(* strengthening says                                                     *)
(*   - the counter never exceeds reset_limit between samples;             *)
(*   - a demodulator that is not counting is idle with an empty packet;   *)
(*   - after a sample below the level no pulse is open (the falling edge  *)
(*     has been taken), so a run of low samples restarts the counter at   *)
(*     most once, at its first sample;                                    *)
(*   - while counting, the counter is at least the length of the current  *)
(*     run of low samples.                                                *)
(* Together: more than reset_limit low samples cannot leave it counting.  *)
(***************************************************************************)
CounterBounded == p.sample_counter <= ResetLimit
NotCountingIsIdle == p.start_c = 0 => Idle(p)
LowClosesPulse == lowRun >= 1 => p.pulse_count = 0
CounterCoversSilence == p.start_c = 1 => p.sample_counter >= lowRun

IInv ==
  /\ TypeOK
  /\ CounterBounded
  /\ NotCountingIsIdle
  /\ LowClosesPulse
  /\ CounterCoversSilence

(* The silence check of pwm_demod: afterwards the counter is within the *)
(* limit, and if it fired the demodulator is idle.                        *)
LEMMA SilenceStage ==
  ASSUME NEW r \in ProtocolStates
  PROVE  LET f == IF Silence(r) THEN SilenceReset(r) ELSE r
         IN  /\ f.sample_counter <= ResetLimit
             /\ f.pulse_count = r.pulse_count
             /\ Silence(r) => Idle(f)
             /\ ~Silence(r) => f = r
<1>1. ASSUME Silence(r)
      PROVE  /\ SilenceReset(r).sample_counter = 0
             /\ SilenceReset(r).pulse_count = r.pulse_count
             /\ Idle(SilenceReset(r))
  BY DEF SilenceReset, demod_reset_bits_packet, Idle, ProtocolStates
<1>2. ~Silence(r) => r.sample_counter <= ResetLimit
  BY DEF Silence, ProtocolStates
<1>3. QED
  BY <1>1, <1>2

(* Classifying a gap never touches start_c. *)
LEMMA ClassifyKeepsStart ==
  ASSUME NEW r \in ProtocolStates, NEW s \in Samples
  PROVE  ClassifyGap(r, s).start_c = r.start_c
BY DEF ClassifyGap, demod_add_bit, demod_next_bits_packet, ProtocolStates

LEMMA InitIInv == Init => IInv
<1> SUFFICES ASSUME Init PROVE IInv
  OBVIOUS
<1>1. TypeOK
  BY TypeInit
<1>2. QED
  BY <1>1 DEF IInv, Init, InitState, demod_reset_bits_packet, Idle,
              CounterBounded, NotCountingIsIdle, LowClosesPulse,
              CounterCoversSilence

LEMMA StepIInv == IInv /\ [Next]_vars => IInv'
<1> SUFFICES ASSUME IInv, [Next]_vars PROVE IInv'
  OBVIOUS
<1> USE DEF IInv, CounterBounded, NotCountingIsIdle, LowClosesPulse,
            CounterCoversSilence
<1>1. CASE UNCHANGED vars
  BY <1>1 DEF vars, TypeOK, Idle
<1>2. ASSUME NEW s \in Samples, Sample(s) PROVE IInv'
  <2> DEFINE q1 == Rising(p, s)
             q2 == FallingEdge(q1, s)
             q3 == Count(q2)
             q4 == ClassifyGap(q3, s)
             f == IF Silence(q4) THEN SilenceReset(q4) ELSE q4
  <2>0. /\ p \in ProtocolStates /\ lowRun \in 0 .. SilenceCap /\ s \in Int
        /\ q1 \in ProtocolStates /\ q2 \in ProtocolStates
        /\ q3 \in ProtocolStates /\ q4 \in ProtocolStates
    <3>1. p \in ProtocolStates /\ lowRun \in 0 .. SilenceCap /\ s \in Int
      BY DEF TypeOK
    <3>2. q1 \in ProtocolStates
      BY <3>1 DEF Rising, ProtocolStates, Bit
    <3>3. q2 \in ProtocolStates
      BY <3>2 DEF FallingEdge, ProtocolStates, Bit
    <3>4. q3 \in ProtocolStates
      BY <3>3 DEF Count, ProtocolStates
    <3>5. q4 \in ProtocolStates
      BY <3>1, DemodStepType DEF PreReset
    <3>6. QED
      BY <3>1, <3>2, <3>3, <3>4, <3>5
  <2>1. TypeOK'
    BY TypeStep
  <2>2. p' = f
    BY <1>2 DEF Sample, DemodStep, PreReset
  <2>3. /\ f.sample_counter <= ResetLimit
        /\ f.pulse_count = q4.pulse_count
        /\ Silence(q4) => Idle(f)
        /\ ~Silence(q4) => f = q4
    BY <2>0, SilenceStage
  <2>4. CASE s > LevelLimit
    <3>1. lowRun' = 0
      BY <2>4, <1>2 DEF Sample
    <3>2. q4.start_c = 1
      <4>1. q3.start_c = 1
        BY <2>0, <2>4 DEF Rising, FallingEdge, Count, ProtocolStates
      <4>2. QED
        BY <2>0, <4>1, ClassifyKeepsStart
    <3>3. p'.start_c = 0 => Idle(p')
      BY <2>2, <2>3, <3>2
    <3>4. QED
      BY <2>1, <2>2, <2>3, <3>1, <3>3 DEF TypeOK, ProtocolStates
  <2>5. CASE s = LevelLimit
    <3>1. lowRun' = 0
      BY <2>5, <1>2 DEF Sample
    <3>2. q4 = q3 /\ q2 = p /\ q1 = p
      BY <2>0, <2>5 DEF Rising, FallingEdge, ClassifyGap
    <3>3. p.start_c = 0 => q4 = p
      BY <3>2 DEF Count
    <3>4. p'.start_c = 0 => Idle(p')
      BY <2>0, <2>2, <2>3, <3>2, <3>3 DEF Count, ProtocolStates
    <3>5. QED
      BY <2>1, <2>2, <2>3, <3>1, <3>4 DEF TypeOK, ProtocolStates
  <2>6. CASE s < LevelLimit
    <3>1. lowRun' = ClampIdx(lowRun + 1, SilenceCap)
      BY <2>6, <1>2 DEF Sample
    <3>2. q1 = p /\ q4 = q3
      BY <2>0, <2>6 DEF Rising, ClassifyGap
    <3>3. q3.pulse_count = 0 /\ q3.start_c = p.start_c
      BY <2>0, <2>6, <3>2 DEF FallingEdge, Count, ProtocolStates, Bit
    <3>4. p'.start_c = 0 => Idle(p')
      <4>1. CASE Silence(q4)
        BY <4>1, <2>2, <2>3
      <4>2. CASE ~Silence(q4) /\ p.start_c = 0
        <5>1. Idle(p)
          BY <4>2
        <5>2. q3.sample_counter = 0 /\ q3.bits_buffer = p.bits_buffer
              /\ q3.bits_row_idx = p.bits_row_idx
              /\ q3.bits_col_idx = p.bits_col_idx
              /\ q3.bits_bit_col_idx = p.bits_bit_col_idx
          BY <2>0, <4>2, <5>1, <3>2 DEF FallingEdge, Count, Idle, ProtocolStates
        <5>3. QED
          BY <2>2, <2>3, <3>2, <3>3, <4>2, <5>1, <5>2 DEF Idle
      <4>3. CASE ~Silence(q4) /\ p.start_c = 1
        BY <2>2, <2>3, <3>2, <3>3, <4>3
      <4>4. QED
        BY <4>1, <4>2, <4>3, <2>0 DEF ProtocolStates, Bit
    <3>5. p'.pulse_count = 0
      BY <2>2, <2>3, <3>2, <3>3
    <3>6. p'.start_c = 1 => p'.sample_counter >= lowRun'
      <4> SUFFICES ASSUME p'.start_c = 1 PROVE p'.sample_counter >= lowRun'
        OBVIOUS
      <4>1. ~Silence(q4) /\ p' = q3 /\ p.start_c = 1
        BY <2>2, <2>3, <3>2, <3>3 DEF Idle
      <4>2. CASE p.pulse_count = 1
        <5>1. lowRun = 0
          BY <4>2, <2>0
        <5>2. q3.sample_counter = 1
          BY <2>0, <2>6, <3>2, <4>1, <4>2 DEF FallingEdge, Count, ProtocolStates
        <5>3. QED
          BY <3>1, <4>1, <5>1, <5>2 DEF ClampIdx, SilenceCap
      <4>3. CASE p.pulse_count = 0
        <5>1. q3.sample_counter = p.sample_counter + 1
          BY <2>0, <3>2, <4>1, <4>3 DEF FallingEdge, Count, ProtocolStates
        <5>2. QED
          BY <2>0, <3>1, <4>1, <5>1 DEF ClampIdx, SilenceCap, ProtocolStates
      <4>4. QED
        BY <4>2, <4>3, <2>0 DEF ProtocolStates, Bit
    <3>7. QED
      BY <2>1, <2>3, <2>2, <3>4, <3>5, <3>6
  <2>7. QED
    BY <2>0, <2>4, <2>5, <2>6
<1>3. QED
  BY <1>1, <1>2 DEF Next

(***************************************************************************)
(* More than reset_limit samples below the level always leave pwm_demod   *)
(* idle with an empty packet, for every choice of limits and buffer size. *)
(***************************************************************************)
THEOREM SilenceFlushesCorrect == Spec => []SilenceFlushes
<1>1. IInv => SilenceFlushes
  <2> SUFFICES ASSUME IInv, lowRun > ResetLimit PROVE Idle(p)
    BY DEF SilenceFlushes
  <2>1. p.start_c # 1
    BY DEF IInv, CounterBounded, CounterCoversSilence, TypeOK, ProtocolStates
  <2>2. p.start_c = 0
    BY <2>1 DEF IInv, TypeOK, ProtocolStates, Bit
  <2>3. QED
    BY <2>2 DEF IInv, NotCountingIsIdle
<1>2. QED
  BY <1>1, InitIInv, StepIInv, PTL DEF Spec

=============================================================================

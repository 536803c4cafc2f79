------------------------------ MODULE DemodPair ------------------------------
(***************************************************************************)
(* The two protocol instances of rtlsdr_callback (lines 458-459) over one *)
(* filtered block: pwm_demod runs the prologue instance over the whole    *)
(* block, then the rubicson instance over the same block.  Each instance  *)
(* prints its packet (demod_print_bits_packet) when it sees the end of a  *)
(* frame, so stderr receives the packets in the order the loops reach    *)
(* them.                                                                  *)
(*                                                                         *)
(* One step is one iteration of one of the two loops.  Next to the code   *)
(* runs a reference that hands every sample to both instances before the *)
(* next one (what the code does for blocks of one sample); its output is *)
(* the order in which the frames end in the sample stream.               *)
(***************************************************************************)
EXTENDS Integers, Sequences

CONSTANTS
  BITBUF_ROWS, BITBUF_COLS, ByteBits,
  LevelLimit, Samples,
  PShort, PLong, PReset,   \* prologue's short, long and reset limits
  RShort, RLong, RReset,   \* rubicson's
  BlockLens,               \* samples per block, len/2
  MaxBlocks                \* bound on the number of blocks

VARIABLES
  pro, rub,          \* demod->prologue and demod->rubicson
  blk,               \* the filtered block of the current callback
  pos,               \* the loop index i + 1 of the running pwm_demod
  phase,             \* "idle", or which instance's loop is running
  log,               \* the packets printed so far, with their instance
  proRef, rubRef,    \* reference: both instances fed sample by sample
  refLog,            \* the packets the reference printed
  blocks             \* callbacks so far

vars == <<pro, rub, blk, pos, phase, log, proRef, rubRef, refLog, blocks>>

Pro == INSTANCE PwmDemod WITH ShortLimit <- PShort, LongLimit <- PLong,
         ResetLimit <- PReset, p <- pro, printed <- log, lowRun <- 0
Rub == INSTANCE PwmDemod WITH ShortLimit <- RShort, LongLimit <- RLong,
         ResetLimit <- RReset, p <- rub, printed <- log, lowRun <- 0

(* The log after the prologue (rubicson) instance's step on s from q:   *)
(* the packet is appended when the silence reset prints it.             *)
ProLogged(lg, q, s) ==
  IF Pro!Silence(Pro!PreReset(q, s))
    THEN Append(lg, <<"prologue", Pro!PreReset(q, s).bits_buffer>>)
    ELSE lg
RubLogged(lg, q, s) ==
  IF Rub!Silence(Rub!PreReset(q, s))
    THEN Append(lg, <<"rubicson", Rub!PreReset(q, s).bits_buffer>>)
    ELSE lg

Init ==
  /\ pro = Pro!InitState /\ rub = Rub!InitState
  /\ proRef = Pro!InitState /\ rubRef = Rub!InitState
  /\ blk = <<>> /\ pos = 1 /\ phase = "idle"
  /\ log = <<>> /\ refLog = <<>>
  /\ blocks = 0

(* rtlsdr_callback receives a block and, not in analyzer mode, starts   *)
(* pwm_demod on the prologue instance.                                  *)
Callback ==
  /\ phase = "idle" /\ blocks < MaxBlocks
  /\ \E n \in BlockLens : \E b \in [1 .. n -> Samples] : blk' = b
  /\ pos' = 1 /\ phase' = "pro"
  /\ blocks' = blocks + 1
  /\ UNCHANGED <<pro, rub, log, proRef, rubRef, refLog>>

(* One iteration of pwm_demod(demod, demod->prologue, ...); after the    *)
(* last one the callback calls pwm_demod on the rubicson instance.       *)
ProSample ==
  /\ phase = "pro"
  /\ pro' = Pro!DemodStep(pro, blk[pos])
  /\ log' = ProLogged(log, pro, blk[pos])
  /\ IF pos = Len(blk) THEN pos' = 1 /\ phase' = "rub"
                       ELSE pos' = pos + 1 /\ UNCHANGED phase
  /\ UNCHANGED <<rub, blk, proRef, rubRef, refLog, blocks>>

(* One iteration of pwm_demod(demod, demod->rubicson, ...); the last one *)
(* ends the callback.  The reference consumes the same sample here.     *)
RubSample ==
  LET s == blk[pos] IN
  /\ phase = "rub"
  /\ rub' = Rub!DemodStep(rub, s)
  /\ log' = RubLogged(log, rub, s)
  /\ proRef' = Pro!DemodStep(proRef, s)
  /\ rubRef' = Rub!DemodStep(rubRef, s)
  /\ refLog' = RubLogged(ProLogged(refLog, proRef, s), rubRef, s)
  /\ IF pos = Len(blk) THEN pos' = 1 /\ phase' = "idle"
                       ELSE pos' = pos + 1 /\ UNCHANGED phase
  /\ UNCHANGED <<pro, blk, blocks>>

Next == Callback \/ ProSample \/ RubSample

Spec == Init /\ [][Next]_vars

-----------------------------------------------------------------------------
(* Between callbacks, stderr holds the packets in the order their frames *)
(* ended in the sample stream, whatever the block size: spec.md 8 wants  *)
(* the replay (-r, 131072-byte chunks) of a recording to reproduce its   *)
(* live decode (blocks of -b bytes).  The two loops of lines 458-459     *)
(* print every prologue packet of a block before any rubicson packet of  *)
(* the same block.                                                       *)
PrintsInStreamOrder == phase = "idle" => log = refLog

=============================================================================

--------------------------- MODULE PipelineProofs ---------------------------
(***************************************************************************)
(* Proof that a signal stops the decoding within one block, for every     *)
(* source, block and chunk size, budget, decimation and bound.             *)
(*                                                                         *)
(* ExitDecodesAtMostOneBlock is not inductive as it stands: a state with  *)
(* one late block and a callback past its do_exit test would allow a      *)
(* second.  LateInv adds what rules that out: after a late block do_exit *)
(* is set (nothing clears it once set: the sync loop only writes it when *)
(* it was clear) and no callback is in progress, so every later block    *)
(* returns at the test of line 443.                                      *)
(***************************************************************************)
EXTENDS Pipeline, TLAPS

LateInv ==
  /\ lateBlocks \in {0, 1}
  /\ lateBlocks = 1 => do_exit /\ inCb = 0

LEMMA InitLateInv == Init => LateInv
BY DEF Init, LateInv

(* A call from a loop of main: either it returns at the test, or it     *)
(* enters with do_exit clear, which no late block leaves behind.        *)
LEMMA CallLateInv ==
  ASSUME LateInv, NEW len, rtlsdr_callback(len)
  PROVE  LateInv'
<1>1. CASE CallbackSkip
  BY <1>1 DEF CallbackSkip, cbVars, LateInv
<1>2. CASE CallbackEnter(len)
  <2>1. lateBlocks = 0
    BY <1>2 DEF CallbackEnter, LateInv
  <2> QED
    BY <1>2, <2>1 DEF CallbackEnter, LateInv
<1> QED
  BY <1>1, <1>2 DEF rtlsdr_callback

(* The body of a callback: only a callback that entered before any late *)
(* block can run, and if do_exit is set by then it is the late one.     *)
LEMMA BodyLateInv ==
  ASSUME LateInv, CallbackBody
  PROVE  LateInv'
<1>1. lateBlocks = 0
  BY DEF CallbackBody, LateInv
<1>2. inCb' = 0 /\ (do_exit => do_exit')
  BY DEF CallbackBody, ProcessBlock
<1> QED
  BY <1>1, <1>2 DEF CallbackBody, LateInv

LEMMA StepLateInv == LateInv /\ [Next]_vars => LateInv'
<1> SUFFICES ASSUME LateInv, [Next]_vars PROVE LateInv'
  OBVIOUS
<1>1. CASE AsyncDeliver
  BY <1>1, CallLateInv DEF AsyncDeliver
<1>2. CASE FileChunk
  BY <1>2, CallLateInv DEF FileChunk
<1>3. CASE CallbackBody
  BY <1>3, BodyLateInv
<1>4. CASE AsyncReturn \/ AsyncError \/ FileMissing \/ FileEnd \/ SyncExit
  BY <1>4 DEF AsyncReturn, AsyncError, FileMissing, FileEnd, SyncExit,
     cbVars, LateInv
<1>5. CASE SyncRead
  <2>1. lateBlocks = 0
    BY <1>5 DEF SyncRead, LateInv
  <2> QED
    BY <1>5, <2>1 DEF SyncRead, LateInv
<1>6. CASE sighandler
  BY <1>6 DEF sighandler, LateInv
<1>7. CASE UNCHANGED vars
  BY <1>7 DEF vars, LateInv
<1> QED
  BY <1>1, <1>2, <1>3, <1>4, <1>5, <1>6, <1>7 DEF Next

(* Whenever the signal handler runs, in whichever source mode and at    *)
(* whichever point of a callback, at most one block is decoded after it *)
(* sets do_exit: the one whose callback had passed line 443.            *)
THEOREM ExitDecodesAtMostOneBlockCorrect == Spec => []ExitDecodesAtMostOneBlock
<1>1. LateInv => ExitDecodesAtMostOneBlock
  BY DEF LateInv, ExitDecodesAtMostOneBlock
<1> QED
  BY <1>1, InitLateInv, StepLateInv, PTL DEF Spec

=============================================================================

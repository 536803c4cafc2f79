------------------------------ MODULE Pipeline ------------------------------
(***************************************************************************)
(* The pipeline coordinator rtlsdr_callback of rtl_433.c together with    *)
(* the three ways main feeds it or bypasses it: the asynchronous device   *)
(* reader (rtlsdr_read_async calling back per block), the replay loop     *)
(* over a file (-r) and the synchronous raw passthrough (-S), plus the    *)
(* signal handler.                                                        *)
(*                                                                         *)
(* Sample values are abstracted away: a block is its length in bytes, and *)
(* for each callback the model records how many samples each stage of the *)
(* block gets (envelope_detect, low_pass_filter, the decoders, the raw    *)
(* sink).  Integers that the code keeps in uint32_t are taken mod 2^32.   *)
(***************************************************************************)
EXTENDS Integers

CONSTANTS
  BlockLen,      \* out_block_size, the async and sync read size (bytes)
  FileChunkLen,  \* the replay loop's fread size (131072 in the code)
  MaxFileChunks, \* bound on the number of whole chunks in a replay file
  Budgets,       \* values of the -n argument (complex samples)
  Decimations,   \* values of the -c argument
  SyncReadLens,  \* byte counts rtlsdr_read_sync may return
  MaxBlocks,     \* bound on the number of blocks a live source delivers
  UInt32         \* 2^32, the modulus of uint32_t arithmetic

FILTER_ORDER == 1

ASSUME PipelineAssumption ==
  /\ BlockLen \in Nat \ {0} /\ FileChunkLen \in Nat \ {0}
  /\ MaxFileChunks \in Nat /\ MaxBlocks \in Nat
  /\ Budgets \subseteq 0 .. UInt32 - 1 /\ Decimations \subseteq Nat
  /\ SyncReadLens \subseteq 0 .. BlockLen
  /\ UInt32 \in Nat /\ UInt32 > FileChunkLen /\ UInt32 > BlockLen

Modes == {"async", "file", "sync"}
NoBlock == [len |-> 0, env |-> 0, filt |-> 0, demod |-> 0, sink |-> 0]

VARIABLES
  mode,          \* which source main uses (-r, -S or the default)
  save_data,     \* a raw output file was named (demod->save_data)
  decimation,    \* demod->decimation_level
  bytes_to_read, \* the remaining byte budget, 0 meaning unlimited
  do_exit,       \* the process-wide exit flag
  inCb,          \* length of the block whose callback passed its do_exit
                 \* test and has not returned yet; 0 outside a callback
  cancelled,     \* rtlsdr_cancel_async has been called
  blocks,        \* blocks delivered by a live source so far
  chunksLeft,    \* whole chunks left in the replay file
  replayOpen,    \* fopen of the replay file succeeded
  pc,            \* "running", "done" (main returned) or "crashed"
  budget,        \* history: the -n argument N, in complex samples
  taken,         \* history: bytes taken from the source and passed on
  decoded,       \* history: bytes handed to the decoders
  sinkFailed,    \* history: a write to the raw sink came up short
  last,          \* history: the stage lengths of the last block
  lateBlocks     \* history: blocks decoded with do_exit already set

vars == <<mode, save_data, decimation, bytes_to_read, do_exit, inCb,
          cancelled, blocks, chunksLeft, replayOpen, pc, budget, taken,
          decoded, sinkFailed, last, lateBlocks>>

(* The variables the main thread's loops leave to the callback. *)
cbVars == <<bytes_to_read, do_exit, inCb, cancelled, taken, decoded,
            sinkFailed, last, lateBlocks>>

(* x >> k on a non-negative integer. *)
Shr(x, k) == x \div 2^k

(* The number of complex samples envelope_detect writes for len bytes:  *)
(* i runs over 0, stride, 2 stride, ... below len/2.                     *)
EnvelopeLen(len, d) == ((len \div 2) + 2^d - 1) \div 2^d

(* `(uint32_t)atof(optarg) * 2` for -n. *)
BudgetBytes(n) == (n * 2) % UInt32

-----------------------------------------------------------------------------
Init ==
  /\ mode \in Modes
  /\ save_data \in BOOLEAN
  /\ decimation \in Decimations
  /\ \E n \in Budgets : budget = n /\ bytes_to_read = BudgetBytes(n)
  /\ do_exit = FALSE
  /\ inCb = 0
  /\ cancelled = FALSE
  /\ blocks = 0
  /\ chunksLeft \in 0 .. MaxFileChunks
  /\ replayOpen \in BOOLEAN
  /\ pc = "running"
  /\ taken = 0
  /\ decoded = 0
  /\ sinkFailed = FALSE
  /\ last = NoBlock
  /\ lateBlocks = 0

(***************************************************************************)
(* rtlsdr_callback on a block of len bytes, in two steps, because the     *)
(* signal handler may run between them.  The first is the test of line   *)
(* 443: with do_exit set the callback returns at once, otherwise it goes *)
(* on with the block.  The second is the rest of the body: a budget      *)
(* smaller than the block truncates it and asks the source to stop; the  *)
(* block then goes through envelope_detect, low_pass_filter over         *)
(* len >> (d+1) samples, the decoders over len/2 samples, and fwrite of  *)
(* len >> d bytes to the sink when one is open, which may come up short  *)
(* (then the source is asked to stop); finally the budget is charged.    *)
(* The body does not read do_exit again.  The branches for               *)
(* demod->file == NULL with save_data set cannot be reached (main stops  *)
(* when fopen fails).                                                    *)
(***************************************************************************)
CallbackSkip ==
  /\ do_exit
  /\ UNCHANGED cbVars

CallbackEnter(len) ==
  /\ ~do_exit
  /\ inCb' = len
  /\ UNCHANGED <<bytes_to_read, do_exit, cancelled, taken, decoded,
                 sinkFailed, last, lateBlocks>>

(* Mutant: the callback without `if (do_exit) return;`. *)
CallbackIgnoringExit(len) ==
  /\ inCb' = len
  /\ UNCHANGED <<bytes_to_read, do_exit, cancelled, taken, decoded,
                 sinkFailed, last, lateBlocks>>

rtlsdr_callback(len) == CallbackSkip \/ CallbackEnter(len)

ProcessBlock(len) ==
  LET trunc == bytes_to_read > 0 /\ bytes_to_read < len
      l == IF trunc THEN bytes_to_read ELSE len
      d == decimation
  IN \E short \in IF save_data THEN BOOLEAN ELSE {FALSE} :
       /\ do_exit' = (do_exit \/ trunc)
       /\ cancelled' = (cancelled \/ trunc \/ short)
       /\ last' = [len |-> l, env |-> EnvelopeLen(l, d),
                   filt |-> Shr(l, d + 1), demod |-> l \div 2,
                   sink |-> IF save_data THEN Shr(l, d) ELSE 0]
       /\ taken' = taken + l
       /\ decoded' = decoded + l
       /\ sinkFailed' = (sinkFailed \/ short)
       /\ bytes_to_read' = IF bytes_to_read > 0
                             THEN (bytes_to_read - l) % UInt32
                             ELSE bytes_to_read

(* The body of the callback on the block that passed the test, and its  *)
(* return to the caller.                                                *)
CallbackBody ==
  /\ inCb # 0
  /\ ProcessBlock(inCb)
  /\ inCb' = 0
  /\ lateBlocks' = IF do_exit THEN lateBlocks + 1 ELSE lateBlocks
  /\ UNCHANGED <<mode, save_data, decimation, blocks, chunksLeft,
                 replayOpen, pc, budget>>

(* The library delivers the next block to the callback; blocks already  *)
(* in flight may still arrive after rtlsdr_cancel_async.                 *)
AsyncDeliver ==
  /\ mode = "async" /\ pc = "running" /\ inCb = 0
  /\ blocks < MaxBlocks
  /\ rtlsdr_callback(BlockLen)
  /\ blocks' = blocks + 1
  /\ UNCHANGED <<mode, save_data, decimation, chunksLeft, replayOpen, pc, budget>>

(* rtlsdr_read_async returns once cancelled; main then exits. *)
AsyncReturn ==
  /\ mode = "async" /\ pc = "running" /\ inCb = 0
  /\ cancelled
  /\ pc' = "done"
  /\ UNCHANGED <<mode, save_data, decimation, blocks, chunksLeft, replayOpen,
                 budget>>
  /\ UNCHANGED cbVars

(* rtlsdr_read_async fails on its own (a library or USB error). *)
AsyncError ==
  /\ mode = "async" /\ pc = "running" /\ inCb = 0
  /\ ~cancelled
  /\ pc' = "done"
  /\ UNCHANGED <<mode, save_data, decimation, blocks, chunksLeft, replayOpen,
                 budget>>
  /\ UNCHANGED cbVars

(* fopen of the replay file failed: its NULL result goes to fread. *)
FileMissing ==
  /\ mode = "file" /\ pc = "running"
  /\ ~replayOpen
  /\ pc' = "crashed"
  /\ UNCHANGED <<mode, save_data, decimation, blocks, chunksLeft, replayOpen,
                 budget>>
  /\ UNCHANGED cbVars

(* One iteration of the replay loop: fread got a whole chunk. *)
FileChunk ==
  /\ mode = "file" /\ pc = "running" /\ inCb = 0
  /\ replayOpen
  /\ chunksLeft > 0
  /\ rtlsdr_callback(FileChunkLen)
  /\ chunksLeft' = chunksLeft - 1
  /\ UNCHANGED <<mode, save_data, decimation, blocks, replayOpen, pc,
                 budget>>

(* fread returned 0: the replay loop ends and main calls exit(0). *)
FileEnd ==
  /\ mode = "file" /\ pc = "running" /\ inCb = 0
  /\ replayOpen
  /\ chunksLeft = 0
  /\ pc' = "done"
  /\ UNCHANGED <<mode, save_data, decimation, blocks, chunksLeft, replayOpen,
                 budget>>
  /\ UNCHANGED cbVars

(***************************************************************************)
(* One iteration of the sync loop: rtlsdr_read_sync either fails (break) *)
(* or returns n bytes; the budget may truncate them (and set do_exit);   *)
(* they are written to demod->file, which is NULL when no output file    *)
(* was named (glibc's fwrite returns before touching the stream only    *)
(* when asked for 0 bytes); a short write or a short read breaks it.     *)
(***************************************************************************)
SyncRead ==
  /\ mode = "sync" /\ pc = "running"
  /\ ~do_exit
  /\ blocks < MaxBlocks
  /\ blocks' = blocks + 1
  /\ \/ /\ pc' = "done"
        /\ UNCHANGED <<bytes_to_read, do_exit, taken, sinkFailed>>
     \/ \E n \in SyncReadLens :
          LET trunc == bytes_to_read > 0 /\ bytes_to_read < n
              nr == IF trunc THEN bytes_to_read ELSE n
          IN /\ do_exit' = trunc
             /\ taken' = taken + nr
             /\ IF ~save_data
                  THEN /\ pc' = IF nr > 0 THEN "crashed" ELSE "done"
                       /\ UNCHANGED <<bytes_to_read, sinkFailed>>
                  ELSE \E short \in BOOLEAN :
                         /\ sinkFailed' = short
                         /\ pc' = IF short \/ nr < BlockLen THEN "done"
                                  ELSE "running"
                         /\ bytes_to_read' =
                              IF ~short /\ nr >= BlockLen /\ bytes_to_read > 0
                                THEN (bytes_to_read - nr) % UInt32
                                ELSE bytes_to_read
  /\ UNCHANGED <<mode, save_data, decimation, inCb, cancelled, chunksLeft,
                 replayOpen, budget, decoded, last, lateBlocks>>

(* while (!do_exit) fails: the sync loop ends. *)
SyncExit ==
  /\ mode = "sync" /\ pc = "running"
  /\ do_exit
  /\ pc' = "done"
  /\ UNCHANGED <<mode, save_data, decimation, blocks, chunksLeft, replayOpen,
                 budget>>
  /\ UNCHANGED cbVars

(* Mutant: the handler sets do_exit but does not cancel the reader. *)
SighandlerNoCancel ==
  /\ pc = "running"
  /\ ~do_exit
  /\ do_exit' = TRUE
  /\ UNCHANGED <<mode, save_data, decimation, bytes_to_read, inCb, blocks,
                 chunksLeft, replayOpen, pc, budget, taken, decoded, sinkFailed,
                 last, lateBlocks, cancelled>>

(* sighandler (SIGINT, SIGTERM, SIGQUIT, SIGPIPE): set do_exit and      *)
(* cancel the async reader.  It may run at any point of main's thread,  *)
(* between the callback's test of do_exit and the rest of its body too. *)
sighandler ==
  /\ pc = "running"
  /\ ~(do_exit /\ cancelled)
  /\ do_exit' = TRUE
  /\ cancelled' = TRUE
  /\ UNCHANGED <<mode, save_data, decimation, bytes_to_read, inCb, blocks,
                 chunksLeft, replayOpen, pc, budget, taken, decoded, sinkFailed,
                 last, lateBlocks>>

Next ==
  \/ AsyncDeliver \/ CallbackBody \/ AsyncReturn \/ AsyncError
  \/ FileMissing \/ FileChunk \/ FileEnd
  \/ SyncRead \/ SyncExit
  \/ sighandler

(* The library returns once cancelled, a callback runs to its end, and  *)
(* the replay loop and the sync loop run without waiting on anything.   *)
Fairness ==
  /\ WF_vars(AsyncReturn) /\ WF_vars(CallbackBody)
  /\ WF_vars(FileMissing) /\ WF_vars(FileChunk) /\ WF_vars(FileEnd)
  /\ WF_vars(SyncRead) /\ WF_vars(SyncExit)

Spec == Init /\ [][Next]_vars /\ Fairness

-----------------------------------------------------------------------------
(* A signal stops the decoding within one block: once do_exit is set,   *)
(* only the block whose callback had already passed the test of line    *)
(* 443 still reaches the decoders; the blocks the library has in flight *)
(* after rtlsdr_cancel_async, and the rest of a replay file, return at  *)
(* that test.                                                           *)
ExitDecodesAtMostOneBlock == lateBlocks <= 1

(* A signal (or the budget) that sets do_exit always ends the program,  *)
(* whichever source is running: the async reader because the handler    *)
(* also cancels it, the sync loop because it tests do_exit, the replay  *)
(* loop because the file is finite.                                     *)
ExitTerminates == do_exit ~> (pc # "running")

(* The -n budget bounds what is taken from the source: the program never *)
(* passes on more bytes than -n asked for (spec.md 4.6, 6).             *)
BudgetRespected == budget > 0 => taken <= 2 * budget

(* The decoders only read samples low_pass_filter produced for this     *)
(* block (spec.md 4.6: the filtered block has len >> (d+1) samples).    *)
DemodReadsFilteredBlock == last.demod <= last.filt

(* low_pass_filter saves its history from index len-1-FILTER_ORDER of   *)
(* the block, computed in uint32_t: that index must lie in the block.   *)
FilterHistoryInBounds ==
  last.len > 0 => (last.filt - 1 - FILTER_ORDER) % UInt32 < last.filt

(* After a short write to the raw sink the stream is terminated         *)
(* (spec.md 7): nothing more is decoded.                                 *)
NoDecodeAfterSinkFailure == [][sinkFailed => decoded' = decoded]_vars

=============================================================================

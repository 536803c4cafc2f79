# TLA+ models of rtl_433 (`src/src/rtl_433.c`)

This directory holds a verification development for the single C file
`src/src/rtl_433.c`. That file receives raw 8-bit I/Q samples and passes them
through these stages:

- an envelope detector;
- a first-order fixed-point IIR low-pass filter;
- two PWM demodulators, one per protocol (Prologue and Rubicson);
- a bit-packet buffer that the decoders print when a packet ends.

The samples come from one of three sources:

- the RTL-SDR asynchronous reader;
- a replay file (`-r`);
- a synchronous passthrough loop (`-S`).

A signal handler and a byte budget (`-n`) stop the program.

## Parts of the system and how they interact

| Part | Code | Module | Status |
|---|---|---|---|
| Bit-packet buffer: `demod_reset_bits_packet`, `demod_add_bit`, `demod_next_bits_packet` | 97-102, 190-218 | `BitPacket` | modelled |
| PWM demodulator `pwm_demod` (one sample per step) and the packet hand-over to the printer | 365-400, 495-510 | `PwmDemod`, `PwmReference` | modelled |
| Pipeline coordinator `rtlsdr_callback` | 438-472 | `Pipeline`, `DemodPair` | modelled (`Pipeline` abstracts samples to lengths; `DemodPair` keeps the samples of the two `pwm_demod` calls) |
| Sources in `main` (async reader, replay loop, sync loop) and `sighandler` | 161-166, 641-714 | `Pipeline` | partly (device setup is warnings only) |
| `low_pass_filter` | 412-435 | `LowPassFilter` (refines `LowPassWide`; compared with `LowPassReference`), `Pipeline` (lengths) | modelled |
| `envelope_detect` | 176-188 | `Pipeline` (output length), `LowPassFilter` (output range `EnvMax`) | partly |
| `demod_print_bits_packet` (Rubicson and Prologue decoding) | 220-270 | `DemodPair` (which instance prints, in which order) | not modelled |
| `pwm_analyze` (`-a`) | 325-363 | `PwmAnalyze` | modelled |
| CLI parsing, usage, device enumeration and tuning | 474-640 | values chosen in `Pipeline`'s `Init` | not modelled |
| `level_detect` | 272-322 | none | not modelled: its only call (line 457) is commented out |

The parts interact as follows:

- `main` sets up two `protocol_state` records (lines 497-507). The model's `InitState` is one of them.
- `main` then drives `rtlsdr_callback` from one of the three sources.
- For every block, the callback does these steps in order:
  1. It returns at once if `do_exit` is set.
  2. It truncates the block to the remaining budget.
  3. It calls the envelope detector and the filter.
  4. It runs `pwm_demod` on the filtered buffer, once per protocol instance.
  5. If an output file was named, it writes the filtered buffer with `fwrite`.
  6. It charges the budget.
- `pwm_demod` writes bits into the instance's `bits_buffer` through the three bit-packet primitives.
- After more than `reset_limit` samples without a pulse, it prints the packet and resets it.

## Modules

- **`BitPacket`**: `bits_buffer` and its cursor `(bits_row_idx, bits_col_idx, bits_bit_col_idx)`.
  - A byte is the set of bit positions that are 1, so `|= bit << k` is a union.
  - The buffer size (`BITBUF_ROWS` and `BITBUF_COLS`) and the byte width are constants. The code uses 12, 5 and 8.
  - Both clamps (lines 203-206 and 214-217) are kept. `ClampIdx` models them.
- **`PwmDemod`**: one step is one iteration of `pwm_demod`'s loop on one sample. `DemodStep` is the composition of the code's five `if` blocks in their order:
  - `Rising`, `FallingEdge`, `Count`, `ClassifyGap`, then the silence test `Silence`/`SilenceReset`.
  - `ClassifyGap` calls `demod_add_bit` or `demod_next_bits_packet`. `SilenceReset` calls `demod_reset_bits_packet`. The model makes these calls part of the same step, as the code does.
  - The print at line 396 is modelled by the variable `printed`, which receives the buffer when it is handed over.
  - `pulse_length` is written but never read, so the model leaves it out.
  - A sample is a value of the constant set `Samples`. The MC uses `{L-1, L, L+1}` around `level_limit` L. This keeps all three outcomes of the strict `>` and `<` comparisons: a sample equal to the level is neither high nor low.
  - `lowRun` is a history variable. It counts the consecutive samples below the level and is capped at `reset_limit + 1`.
- **`PwmReference`**: `PwmDemod` plus a reference measurement of the input.
  - The ghost variables are `inPulse`, `gap` (the length of the current gap) and `sample`.
  - The property `BitsMatchGaps` states the spec's reading of PWM: a bit appended on a rising edge is 0 for a gap shorter than `short_limit` and 1 for a gap shorter than `long_limit`.
- **`Pipeline`**: a block is its length in bytes.
  - `ProcessBlock` records in `last` the lengths each stage gets: `len`, the envelope's output count, the filter's `len >> (d+1)`, the decoders' `len/2` and the sink's `len >> d`. It also charges `bytes_to_read`.
  - `uint32_t` arithmetic is taken modulo the constant `UInt32`. TLC cannot hold 2^32, so the MC uses 2^30, with lengths far below it. The wrap is what matters, not the width.
  - The callback is two steps. `rtlsdr_callback` is the caller's step: the test of `do_exit` (line 443), which either returns (`CallbackSkip`) or enters (`CallbackEnter`, recording the block in `inCb`). `CallbackBody` is the rest of the body, lines 446-470, and the return. The signal handler runs in main's thread and may interrupt the callback, so `sighandler` can fire between the two. The body does not read `do_exit` again, so one step for it loses no interleaving that matters. The loops of main wait while `inCb # 0`.
  - The history variable `lateBlocks` counts the blocks whose body ran with `do_exit` already set.
  - The sources are actions: `AsyncDeliver`, `AsyncReturn`, `AsyncError`, `FileMissing`, `FileChunk`, `FileEnd`, `SyncRead` and `SyncExit`. `sighandler` is an action too.
  - A short `fwrite` is a nondeterministic outcome of the write.
  - A failed `fopen` of the replay file is an initial choice, `replayOpen`.
  - `budget` is the `-n` argument N itself; `Init` sets `bytes_to_read` to its doubling in `uint32_t` (`BudgetBytes`, line 534).
- **`LowPassFilter`**: one step is one iteration of `low_pass_filter`'s loop; `Call` hands it a new envelope block.
  - The state is the history `lp_xmem[0]` and `y_buf[-1]` (`y_mem`, the word before `f_buf` in `filter_buffer`), the current block `x_buf` and the outputs `y_buf` written so far.
  - `Acc` is the code's sum of three products, each shifted right by 1; `Raw` shifts it by `F_SCALE-1` (`>> F_SCALE-1` parses as `>> 14`), and `Int16` is the store into `int16_t`.
  - The coefficients are the code's: `FIX` truncates, so `a[1]` = 31754 and `b[0]` = `b[1]` = 506. spec.md 4.2 gives 31755 and 507.
  - The iteration that writes the last sample also does the two `memcpy`s (`SaveHistory`), from index `len-2` as the code does.
  - The envelope values range over `0..EnvMax`, `EnvMax` = 32768, reached for I = Q = -128 (raw bytes 0x00). spec.md gives 32258 as the maximum.
  - Blocks of 0 or 1 samples are excluded by the assumption `LowPassAssumption`. They are `Pipeline`'s `FilterHistoryInBounds` violation.
- **`LowPassWide`**: what spec.md 4.2 promises, the same recurrence with a wide accumulator `(a1*y + b0*x + b1*x1) >> 15`. The sample the history is saved from is left open. `LowPassFilter` instantiates it with the identity mapping (`WideRefined`).
- **`LowPassReference`**: `LowPassFilter` next to one unbroken filter over the concatenation of all blocks (`contX`, `contY`).
- **`DemodPair`**: the two calls of lines 458-459 over one block. Each protocol instance is `PwmDemod` instantiated with its limits and sharing the log of printed packets.
  - One step is one loop iteration of the running call: `ProSample` over the whole block, then `RubSample`.
  - A reference pair of instances, fed every sample in turn, records the order in which the frames end in the sample stream (`refLog`).
- **`PwmAnalyze`**: the seven process-wide `int`s of lines 325-331, one loop iteration per step, in three actions: `PulseStart`, `PulseEnd` and `Quiet`.
  - `int` arithmetic wraps at the width `IntBits`: 32 in the build, 4 in the MC, so that the wraps happen within 20 samples.
  - Signed overflow is undefined in C; the model takes the two's complement wrap the build produces.
  - `report` holds the fields of the last line printed. The ghost variables `seen`, `trueStart`, `trueEnd`, `trueSum`, `trueEnds` (the number of pulse ends) and `truth` measure the stream without bounds.

## Runs

| Run | cfg | Expect | Shows |
|---|---|---|---|
| demod_safety | `MCPwmDemod.cfg` | pass | `TypeOK`, which includes that both clamps keep the cursor in the buffer, and `SilenceFlushes`: more than `reset_limit` low samples always leave the instance idle with an empty packet. |
| demod_gap_reference | `MCPwmReference.cfg` | violation | `BitsMatchGaps` fails. A silence reset inside a long pulse leaves `pulse_count = 1`, and the next packet starts with a spurious 0 bit. |
| pipeline_exit | `MCPipeline.cfg` | pass | `ExitDecodesAtMostOneBlock`: after a signal, at most one block reaches the decoders, the one whose callback had passed the `do_exit` test; the blocks in flight after the cancel return at the test. TLC reaches the late block (signal between the test and the body). `ExitTerminates`: every source stops once `do_exit` is set. |
| pipeline_budget | `MCPipeline_BudgetRespected.cfg` | violation | A budget equal to a block length becomes 0 (unlimited): `<` where `<=` is needed (line 446, and 687 in sync mode). |
| pipeline_decimation | `MCPipeline_DemodReadsFilteredBlock.cfg` | violation | With `-c 1`, the decoders read `len/2` samples, but only `len>>2` were filtered (line 458). |
| pipeline_short_block | `MCPipeline_FilterHistoryInBounds.cfg` | violation | A truncated block with fewer than 2 filtered samples wraps the `uint32_t` history index (line 432). |
| pipeline_sink_failure | `MCPipeline_NoDecodeAfterSinkFailure.cfg` | violation | A short write only cancels the reader. The replay loop, and blocks in flight, keep being decoded (line 465). |
| demod_sync_pulse | `MCPwmReference_GapsMakeBits.cfg` | violation | `GapsMakeBits`: every gap shorter than `long_limit` after a pulse gives a bit. After a row advance, a one-sample pulse has no falling edge, and the next row loses its first bit (line 387). |
| demod_print_order | `MCDemodPair.cfg` | violation | `PrintsInStreamOrder`: between callbacks, the printed packets are in the order their frames ended. Within a block the prologue loop prints first, so live blocks and replay chunks can print in different orders (lines 458-459). |
| lowpass_bounds | `MCLowPassFilter.cfg` | pass | `FilterOutputBounded`: outputs and the carried history stay in `0..32672`, the fixed point under the maximum envelope. No overflow of the `int` accumulator or the `int16_t` store. `WideRefined`: the pre-shifted narrow accumulator computes the wide filter's outputs bit for bit. |
| lowpass_continuity | `MCLowPassReference.cfg` | violation | `FilterContinuous`: filtering two blocks in turn gives the output of filtering them as one. It fails because the history is taken from `len-2` (line 432). |
| analyze_lengths | `MCPwmAnalyze.cfg` | pass | `ReportsMatchStream`: the printed pulse lengths and distances are the stream's, also after `counter` wraps. A length counts from the first high sample through the low sample that ends the pulse. `AvgIsMean`: while the summed lengths fit in `int`, the printed average is their sum over the number of pulses that ended (the ghost `trueEnds`). So `pulses_found`, counted at the starts, is that number at each print. With the sum above the `int` range (line 352), TLC finds a negative average after four pulses. |

### Bounds and why they are enough

**MCPwmDemod** uses a 2x2 buffer with 2-bit bytes and limits short=2, long=4, reset=6:

- Four bits fill a row, so the column clamp is reached after 4 bits.
- Three packets reach the row clamp.
- A gap can be shorter than `short_limit`, between the two limits, or longer than `long_limit`.
- The counter can exceed `reset_limit` both inside and outside a pulse.

The search is complete: 175 080 states, diameter 69.

**MCPipeline** uses a block of 512 bytes and a replay chunk of 131072 bytes:

- The `-n` values are 0, 1, 3, 256, 300, 65536 and 2^29+1:
  - unlimited (0);
  - odd and tiny budgets (1 and 3), below one filtered sample;
  - exactly a block (256 samples are 512 bytes);
  - mid-block (300);
  - exactly a replay chunk (65536);
  - two whose doubling wraps, to 0 (2^29, no limit) and to 2 bytes (2^29+1). They stand for -n 2^31 and 2^31+1 in the build. The wrap is not the subject of a run: the budget is wrong from the initial state on.
- Decimation is 0 or 1.
- The sync reads return 256 or 512 bytes, so both a short read and a full read happen.
- There are at most 3 live blocks and 2 replay chunks.

**MCLowPassFilter** uses envelopes 0, 1 and 32768, blocks of 2 or 3 samples, and 3 calls:

- 32768 is the largest envelope. With at most 9 samples the outputs only climb to about 8700, far below the bound 32672: the run exercises the arithmetic at the largest inputs, but the bound itself rests on the proof `FilterOutputBoundedCorrect`, which holds over any number of samples.
- 0 and 1 let the output fall and round.
- Blocks of 2 save the history from the first sample; blocks of 3 from a middle one.
- Three calls carry the history across two block boundaries.

The theorems below cover every envelope set and every block length of 2 or more.

**MCDemodPair** uses a 1x2 buffer of 2-bit bytes, prologue limits 2/3/4 and rubicson limits 1/2/3. There are 2 blocks of 6 samples, each 9 or 11 around level 10: two instances with different reset limits are enough to end frames in different orders within one block.

**MCPwmAnalyze** uses a 4-bit `int`, range -8..7, and 20 samples of values 9, 10 and 11 around level 10. `counter` wraps after 8 samples, and `pulse_avg` after four pulses of length 2, so both properties are checked on both sides of the wraps.

### Fairness

`Pipeline` assumes weak fairness of these actions, each justified by the code:

- **`AsyncReturn`**: `rtlsdr_cancel_async` makes `rtlsdr_read_async` return.
- **`CallbackBody`**: a callback that has started runs to its end; nothing in it blocks.
- **The replay loop (`FileChunk`, `FileEnd`, `FileMissing`)**: it is a plain loop over a finite file.
- **The sync loop (`SyncRead`, `SyncExit`)**: it is a loop that blocks only inside `rtlsdr_read_sync`, and that call returns or fails.

There is no fairness on `AsyncDeliver`, because the device may stop delivering. There is none on `AsyncError` or `sighandler` either, because they are environment events.

`ExitTerminates` holds because the handler also cancels the async reader. Mutant `SighandlerNoCancel` removes that call, and TLC then finds a run that never ends.

## What is proved (TLAPS)

### `PwmDemodProofs`

These theorems hold for every buffer size, byte width, level and limit with `0 < short_limit < long_limit < reset_limit`:

- **`TypeCorrect`: `Spec => []TypeOK`.**
  - It rests on lemmas that type each primitive: `ResetType`, `AddBitType`, `NextPacketType` and `DemodStepType`.
  - The two clamps are what keep the cursor inside `bits_buffer`.
- **`SilenceFlushesCorrect`: `Spec => []SilenceFlushes`.**
  - `SilenceFlushes` is not inductive as it stands. It says nothing about the state before the low run passes `reset_limit`.
  - The inductive invariant `IInv` adds four facts:
    - `CounterBounded`: `sample_counter <= reset_limit` between steps.
    - `NotCountingIsIdle`: with `start_c = 0`, the counter is 0, the buffer is empty and the cursor is at the origin.
    - `LowClosesPulse`: after a low sample, `pulse_count = 0`.
    - `CounterCoversSilence`: while counting, `sample_counter >= lowRun`.
  - The argument: during a low run the counter grows at least as fast as `lowRun`, so it passes `reset_limit` no later than `lowRun` does. `SilenceReset` then yields the idle state. Further low samples keep it idle: they set nothing, because `pulse_count` is 0.

### `LowPassFilterProofs`

These theorems hold for every set of envelope values in `0..32768`, block lengths of 2 or more, and any number of calls. They rest only on `LowPassAssumption`.

- **`FilterOutputBoundedCorrect`: `Spec => []FilterOutputBounded`.**
  - The arithmetic core is the lemma `OutputBounded`. For `y1` in `0..32672` and `x`, `x1` in `0..32768`, the accumulator is `15877*y1 + 253*x + 253*x1`, because the coefficients are even and the pre-shift is exact. Its quotient by 2^14 is again in `0..32672`, so `Int16` is the identity.
  - The inductive invariant is `IInv == TypeOK /\ FilterOutputBounded /\ Len(x_buf) # 1`. The last conjunct is needed because the history is read from index `len-1`, in TLA+ terms. A one-sample block would read `y_buf[0]`, outside the sequence. `Call` preserves it because `BlockLens` excludes 1.
  - `IInv` was checked with TLC on MCLowPassFilter before it was proved.
- **`WideRefinement`: `Spec => WideRefined`.**
  - The refinement mapping is the identity.
  - `PreShiftExact` shows that the code's accumulator is exactly half the wide one. `HalfQuotient` then shows `w \div 2^15 = (w/2) \div 2^14`.
  - Every `FilterSample` step is a `WSample` step whose history is taken at `k = len-1`. `Call` is `WCall`.
- The bounds `EnvMax`, `Int16Min`, `Int16Max` and `YMax` are named constants. The proofs use them through range lemmas (`EnvRange`, `OutRange`, `Int16Range`), which turn interval membership into inequalities. The provers would otherwise expand intervals of 65536 elements.

### `PwmAnalyzeProofs`

These theorems hold for every `int` width `IntBits >= 2`, level, sample set and stream length. The build's width is 32; the run uses 4.

- **`ReportsMatchStreamCorrect`: `Spec => []ReportsMatchStream`.**
- **`AvgIsMeanCorrect`: `Spec => []AvgIsMean`.** The average printed is the true sum of lengths over the true number of pulse ends (`trueEnds`). It is not over `pulses_found`, which is what the code divides by. So the theorem also says that the count kept at the starts agrees with the ends at every print.

Both rest on one inductive invariant, `IInv`. TLC checked it on MCPwmAnalyze, and at `IntBits = 3`, before it was proved. Its conjuncts:

- **`Tracks`**: each wrapping `int` (`counter`, `pulse_start`, `pulse_end`, `pulse_avg`) is the two's complement wrap, `IntWrap`, of its unbounded ghost (`seen`, `trueStart`, `trueEnd`, `trueSum`). The properties compare the printed values with the ghosts, so this link is what they need.
- **`Reported`**: the fields of the last line printed are the wraps of the true length or distance, and the average field is `CQuot(pulse_avg, pulses_found)` of the step that printed it.
- **`Alternates`**: `print2 = 1` implies `print = 0`. This is what lets a pulse start find `print2 = 0`.
- **`Counted`**: `pulses_found = IntWrap(trueEnds + print2)`, the wrap of the ends so far plus the open pulse; and `trueEnds <= trueSum`, since every length is at least 1. While the sum fits, `trueEnds` does too, and `pulses_found` is the number of lengths summed at each end. The same conjunct shows when line 354 divides by zero: at an end where `trueEnds` is a multiple of 2^IntBits, long after the sum has overflowed.

The arithmetic rests on four lemmas about wrapping, proved from `%` facts Z3 accepts:

- `WrapAdd`: `IntWrap(IntWrap(a) + b) = IntWrap(a + b)`.
- `WrapSub`, `WrapDiff` and `WrapSum` do the same for subtraction and for two wrapped operands.

So `counter - pulse_start` is the wrap of the true difference, however often `counter` has wrapped. `WrapId` then removes the wrap from any value in the `int` range.

The provers cannot reason about `2^(IntBits-1)` for a symbolic exponent. That fact of arithmetic is stated as `IntHalfAssumption` in `PwmAnalyze`, and TLC evaluates it on every run of that module.

### `PipelineProofs`

This theorem holds for every source mode, block and chunk size, word size, `-n` and `-c` value and bound:

- **`ExitDecodesAtMostOneBlockCorrect`: `Spec => []ExitDecodesAtMostOneBlock`.**
  - The property is not inductive as it stands. A state with one late block and a callback past its test would allow a second one.
  - The inductive invariant `LateInv` adds: after a late block, `do_exit` is set and no callback is in progress. TLC checked it on MCPipeline before it was proved.
  - `do_exit` stays set because only the sync loop writes it besides the handler and the callback, and only when it is clear.
  - `CallLateInv` covers a call from either loop (async or replay): the call either returns at the test or enters with `do_exit` clear. `BodyLateInv` covers the body, which can only be late once.

### Only model-checked

- The liveness property `ExitTerminates` of `Pipeline`. TLAPS does not handle liveness under fairness, or `ENABLED`.
- The violations, which are counterexamples by nature.
- What the code does past the proved regimes: for example the average once the length sum has overflowed, or the division by zero after 2^32 pulse starts (a hazard in PROJECT.json).

## Hazards recorded without a run

Three code bugs reachable in `Pipeline` are recorded as hazards in PROJECT.json, without a run of their own:

- `fwrite` of `len >> d` bytes is not twice the `len >> (d+1)` filtered samples for a truncated block under decimation (line 463).
- `-S` without an output file passes NULL to `fwrite` (line 692), and the replay file's `fopen` is unchecked (line 661). `Pipeline` reaches `pc = "crashed"` in both cases.
- `-n` N with N >= 2^31 wraps when doubled (line 534).

## Not modelled, and why

- **The envelope's squared magnitude.** `envelope_detect` is a stateless per-sample function. Only its output range (`EnvMax`) and its output count are modelled.
- **Packet decoding and formatting** (`demod_print_bits_packet`, lines 220-270). It is pure formatting of a finished buffer, with no state. `DemodPair` models which instance prints which packet, and when. The Rubicson and Prologue field extraction would be pure operators over a 12x5 buffer; spec.md's scenarios disagree with the formulas at lines 246-251, and that is not checked.
- **Device enumeration, tuning and gain.** Failures there only print warnings, or exit before any sample is read.
- **Windows console handler.** It is the same as `sighandler` except that it returns TRUE.
- **`level_detect`.** It is dead code: its only call is commented out (line 457).

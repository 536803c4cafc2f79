-------------------------- MODULE LowPassReference --------------------------
(***************************************************************************)
(* low_pass_filter next to a reference filter run over the concatenation *)
(* of all blocks: contX and contY are the last input and the last output *)
(* of one uninterrupted pass over every sample handed to the filter.     *)
(***************************************************************************)
EXTENDS LowPassFilter

VARIABLES contX, contY

refvars == <<vars, contX, contY>>

RefInit == Init /\ contX = 0 /\ contY = 0

RefNext ==
  \/ Call /\ UNCHANGED <<contX, contY>>
  \/ /\ FilterSample
     /\ contX' = x_buf[Len(y_buf) + 1]
     /\ contY' = FilterOut(contY, x_buf[Len(y_buf) + 1], contX)

RefSpec == RefInit /\ [][RefNext]_refvars

(* Filter continuity (spec.md 4.2 "State retention" and 8): each output  *)
(* equals the output of filtering all blocks as one, i.e. the history    *)
(* saved after a block is its last input and output sample.             *)
FilterContinuous == Len(y_buf) > 0 => y_buf[Len(y_buf)] = contY

=============================================================================

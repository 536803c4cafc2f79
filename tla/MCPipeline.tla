----------------------------- MODULE MCPipeline -----------------------------
(* The pipeline with the code's sizes: the smallest accepted block (512   *)
(* bytes), the replay chunk of 131072 bytes, and -n values that leave no  *)
(* budget, cut a block to 2 or 6 bytes, end exactly on a block or chunk  *)
(* boundary, or cut the second block.  536870912 and 536870913 play -n   *)
(* 2^31 and 2^31 + 1 at the instance's word size 2^30: doubled, they    *)
(* wrap round to 0 (no limit) and to 2 bytes.                           *)
EXTENDS Pipeline

MCBudgets == {0, 1, 3, 256, 300, 65536, 536870912, 536870913}
=============================================================================

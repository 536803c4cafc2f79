--------------------------- MODULE MCPwmReference ---------------------------
(* The instance of MCPwmDemod, with the reference measurement alongside. *)
EXTENDS PwmReference

MCLevel == 10
MCSamples == {MCLevel - 1, MCLevel, MCLevel + 1}
=============================================================================

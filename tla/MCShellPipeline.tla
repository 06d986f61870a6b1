--------------------------- MODULE MCShellPipeline ---------------------------
(* The writer writes one character at a time, as putChar does. *)
EXTENDS ShellPipeline

CONSTANT a

MCPipeIds == {70}
MCStrings == {<<a>>}
=============================================================================

------------------------------ MODULE MCPipes ------------------------------
(* The pipe ids and the strings of a small instance: id 0 is a slot of the *)
(* table, 70, the first id the shell uses, is not.                         *)
EXTENDS Pipes

CONSTANTS a, b  \* two characters

MCPipeIds == {0, 70}
MCStrings == {<<a, b, b>>}
=============================================================================

-------------------------- MODULE MCProcessManager --------------------------
(* Bounds for model-checking ProcessManager.                               *)
EXTENDS JobControl

(* Arguments of setPriority on both sides of the clamp. *)
MCPriorityArgs == {-1, MAX_PRIORITY + 1}
=============================================================================

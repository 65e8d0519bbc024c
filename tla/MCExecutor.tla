------------------------------ MODULE MCExecutor ------------------------------
(* An operation on a session for TLC. *)
EXTENDS Executor, TLC

ToolCallSymmetry == Permutations(ToolCallId)
=============================================================================

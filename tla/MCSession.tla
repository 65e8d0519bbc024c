------------------------------ MODULE MCSession ------------------------------
(* The session for TLC: the operations of Session in any order its guards allow. *)
EXTENDS Session, TLC

ToolCallSymmetry == Permutations(ToolCallId)
=============================================================================

---------------------------- MODULE LogicalAnswer ----------------------------
(***************************************************************************)
(* What one logical model call promises whoever watches it, however many   *)
(* attempts, resumed streams and continued segments it takes: the answer   *)
(* shows piece by piece, without a hole or a repetition; what is settled   *)
(* of it is never taken back; and what the call returns is what it showed. *)
(* ModelCall.tla is shown to implement it.                                 *)
(***************************************************************************)
EXTENDS Naturals, Sequences

CONSTANT Length   \* the most pieces an answer has, a natural number

VARIABLES
  shown,     \* the pieces in sight, in order
  settled,   \* how many of them can no longer be taken back
  outcome    \* "running", then how the call ended

answer_vars == <<shown, settled, outcome>>

Outcome == {"complete", "interrupted", "failed"}

Pieces(n) == [k \in 1 .. n |-> k]

AnswerInit == shown = <<>> /\ settled = 0 /\ outcome = "running"

Extend ==
  /\ outcome = "running"
  /\ \E n \in Len(shown) .. Length : shown' = Pieces(n)
  /\ UNCHANGED <<settled, outcome>>

SettleMore ==
  /\ outcome = "running"
  /\ settled' \in settled .. Len(shown)
  /\ UNCHANGED <<shown, outcome>>

(* A stream that breaks goes back to the last point it can resume from. *)
TakeBack ==
  /\ outcome = "running"
  /\ shown' = Pieces(settled)
  /\ UNCHANGED <<settled, outcome>>

(* A failed call may drop what it showed; any other keeps all of it, and a  *)
(* complete one may bring the rest of the answer along.                     *)
Conclude(end) ==
  /\ outcome = "running"
  /\ outcome' = end
  /\ \/ end = "failed" /\ shown' = <<>> /\ settled' = 0
     \/ /\ \E n \in Len(shown) .. Length : shown' = Pieces(n)
        /\ settled' \in settled .. Len(shown')

AnswerNext ==
  \/ Extend \/ SettleMore \/ TakeBack
  \/ \E end \in Outcome : Conclude(end)

AnswerSpec == AnswerInit /\ [][AnswerNext]_answer_vars

(* The answer in sight is the beginning of the answer and covers what is    *)
(* settled.                                                                 *)
AnswerInOrder ==
  /\ shown \in Seq(Nat)
  /\ shown = Pieces(Len(shown)) /\ Len(shown) <= Length
  /\ settled \in 0 .. Len(shown)

(* While the call runs, settled pieces stay in sight. *)
SettledStays == [][outcome' # "failed" => settled <= Len(shown') /\ settled <= settled']_answer_vars
=============================================================================

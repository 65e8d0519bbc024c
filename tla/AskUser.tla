------------------------------- MODULE AskUser --------------------------------
(***************************************************************************)
(* The tool ask_user (src/tool/ask_user.rs): forms put to the user, the    *)
(* calls that wait for them, and the answers, which race the calls'        *)
(* timeouts and cancellations.  A form's questions and what an answer says *)
(* are left out; a form or an answer that is refused for what it says      *)
(* changes nothing and is left out with them.                              *)
(***************************************************************************)
EXTENDS Naturals, Sequences

CONSTANTS
  Question,    \* the identifiers of the calls
  MaxForms,    \* how many forms may be open (128)
  MaxLost      \* how many enqueued messages fail

ASSUME FormAssumption == MaxForms \in Nat \ {0} /\ MaxLost \in Nat

VARIABLES
  form,      \* AskUserTool.forms: of each call's form, who holds its reply channel
  asked,     \* the open forms, in the order of asked_at
  wait,      \* the call, its receiver, and what it returned
  given,     \* what the user was told of the answers to each form
  lost       \* the failures so far

ask_vars == <<form, asked, wait, given, lost>>

\* A form is open (its reply channel is there), answered (the channel was taken and used) or
\* timed out.  replied is what the channel holds.
FormState == {"none", "open", "answered", "timed_out"}

Waiting ==
  [pc : {"none", "waiting", "leaving", "done"},
   timeout : BOOLEAN, cancelled : BOOLEAN,
   replied : {"nothing", "answers", "skip"},
   outcome : {"none", "answers", "skip", "timed_out", "cancelled", "failed"}]

AskInit ==
  /\ form = [q \in Question |-> "none"]
  /\ asked = <<>>
  /\ wait = [q \in Question |-> [pc |-> "none", timeout |-> FALSE, cancelled |-> FALSE,
                                 replied |-> "nothing", outcome |-> "none"]]
  /\ given = [q \in Question |-> {}]
  /\ lost = 0

-----------------------------------------------------------------------------
(* ask *)

Returns(q, outcome) == wait' = [wait EXCEPT ![q].pc = "done", ![q].outcome = outcome]

\* Forms that timed out give way to new ones, the oldest first.
TimedOut == {i \in DOMAIN asked : form[asked[i]] = "timed_out"}

Without(q) == SelectSeq(asked, LAMBDA p : p # q)

Oldest == asked[CHOOSE i \in TimedOut : \A j \in TimedOut : i <= j]

\* The tool is off, the form is not well formed, or there is no room for it.
RefuseForm(q) ==
  /\ wait[q].pc = "none"
  /\ Returns(q, "failed")
  /\ UNCHANGED <<form, asked, given, lost>>

\* One more form, and the room for it.
Ask(q) ==
  /\ wait[q].pc = "none"
  /\ LET full == Len(asked) >= MaxForms
     IN /\ full => TimedOut # {}
        /\ form' = [p \in Question |->
                      IF p = q THEN "open" ELSE IF full /\ p = Oldest THEN "none" ELSE form[p]]
        /\ asked' = Append(IF full THEN Without(Oldest) ELSE asked, q)
  /\ \E timeout \in BOOLEAN :
       wait' = [wait EXCEPT ![q].pc = "waiting", ![q].timeout = timeout]
  /\ UNCHANGED <<given, lost>>

CancelQuestion(q) ==
  /\ wait[q].pc = "waiting"
  /\ ~ wait[q].cancelled
  /\ wait' = [wait EXCEPT ![q].cancelled = TRUE]
  /\ UNCHANGED <<form, asked, given, lost>>

Leaves(q, outcome) == wait' = [wait EXCEPT ![q].pc = "leaving", ![q].outcome = outcome]

\* The selection is biased: an answer that is there comes first.
SeeReply(q) ==
  /\ wait[q].pc = "waiting"
  /\ wait[q].replied # "nothing"
  /\ Leaves(q, wait[q].replied)
  /\ UNCHANGED <<form, asked, given, lost>>

\* Mutant: the form keeps its reply channel when it times out.
ExpireKeepingChannel(q) ==
  /\ wait[q].pc = "waiting"
  /\ wait[q].timeout
  /\ Returns(q, "timed_out")
  /\ UNCHANGED <<form, asked, given, lost>>

\* Under the lock of the forms, which an answer holds too: if the reply channel is still there
\* the form has timed out and stays; otherwise the answer was sent, and wins.
Expire(q) ==
  /\ wait[q].pc = "waiting"
  /\ wait[q].timeout
  /\ IF form[q] = "open"
     THEN form' = [form EXCEPT ![q] = "timed_out"] /\ Returns(q, "timed_out")
     ELSE UNCHANGED form /\ Leaves(q, wait[q].replied)
  /\ UNCHANGED <<asked, given, lost>>

\* Cancellation was seen while no answer was.
SeeCancelled(q) ==
  /\ wait[q].pc = "waiting"
  /\ wait[q].cancelled
  /\ wait[q].replied = "nothing"
  /\ Leaves(q, "cancelled")
  /\ UNCHANGED <<form, asked, given, lost>>

Close(q) ==
  /\ form' = [form EXCEPT ![q] = "none"]
  /\ asked' = Without(q)

\* CloseOnDrop: whatever ends the wait closes the form, a timeout excepted.
Leave(q) ==
  /\ wait[q].pc = "leaving"
  /\ Close(q)
  /\ Returns(q, wait[q].outcome)
  /\ UNCHANGED <<given, lost>>

\* The future of the call is dropped.
DropQuestion(q) ==
  /\ wait[q].pc \in {"waiting", "leaving"}
  /\ Close(q)
  /\ Returns(q, "cancelled")
  /\ UNCHANGED <<given, lost>>

-----------------------------------------------------------------------------
(* answer, and what session_commands::answer makes of it. *)

Says(q, delivery) == given' = [given EXCEPT ![q] = @ \cup {delivery}]

\* The form's channel is taken and used: the waiting call has it.
AnswerNow(q) ==
  /\ form[q] = "open"
  /\ \E reply \in {"answers", "skip"} :
       /\ wait' = [wait EXCEPT ![q].replied = reply]
       /\ Says(q, "now")
  /\ form' = [form EXCEPT ![q] = "answered"]
  /\ UNCHANGED <<asked, lost>>

\* A form that timed out is closed; its answers follow as a message, which may not get stored.
AnswerLate(q) ==
  /\ form[q] = "timed_out"
  /\ Close(q)
  /\ \/ Says(q, "later") /\ UNCHANGED lost
     \/ Says(q, "dropped") /\ UNCHANGED lost
     \/ lost < MaxLost /\ lost' = lost + 1 /\ Says(q, "error")
  /\ UNCHANGED wait

\* The open forms are those of one process.
FormsLost ==
  /\ form' = [q \in Question |-> "none"]
  /\ asked' = <<>>
  /\ wait' = [q \in Question |->
                IF wait[q].pc \in {"waiting", "leaving"}
                THEN [wait[q] EXCEPT !.pc = "done", !.outcome = "cancelled"] ELSE wait[q]]
  /\ UNCHANGED <<given, lost>>

QuestionStep(q) == SeeReply(q) \/ SeeCancelled(q) \/ Leave(q)

=============================================================================

------------------------------- MODULE Session -------------------------------
(***************************************************************************)
(* The durable session: its state machine (session/machine.rs), the queue  *)
(* of input (session/queue.rs), the tool batch of the turn under way       *)
(* (session/machine/tool_batch.rs) and the records of the model calls      *)
(* (session/statistics/calls.rs).                                          *)
(*                                                                         *)
(* Every operation of the source is one storage transaction, which commits *)
(* whole or not at all, so every operation is one action here.  The owner  *)
(* (one executor) performs all of them but the three of the queue, which   *)
(* any number of senders perform beside it.  What is abstracted: the       *)
(* content of messages, turn numbers, time stamps, usage, and the events   *)
(* of the history; of the history this module keeps the messages, in order.*)
(***************************************************************************)
EXTENDS Naturals, Sequences, FiniteSets, Functions

CONSTANTS
  ToolCallId,       \* the call ids a model writes in a response
  MaxBatch,         \* the most calls of one response (64 in the code)
  MaxInputs,        \* bound: how many inputs are ever queued
  MaxModelCalls,    \* bound: how many model calls are ever started
  MaxGenerations    \* bound: how often the active generation is replaced

ASSUME SessionAssumption ==
  /\ MaxBatch \in Nat
  /\ MaxInputs \in Nat
  /\ MaxModelCalls \in Nat
  /\ MaxGenerations \in Nat

VARIABLES
  state,              \* SessionState
  queue,              \* the queue's list of input ids, consumed ones included
  queue_head,         \* how many of the queue's inputs have been consumed
  inputs,             \* how many inputs were ever stored; their ids are 1..inputs
  cancelled_inputs,   \* the ids the InputCancelled events of the history name
  model_calls,        \* the model call records
  active_model_call,  \* the call entries and events belong to, or NoCall
  batch,              \* the tool batch, empty when there is none
  history,            \* the messages of the history
  active              \* the id of the active generation

queue_vars == <<queue, inputs, cancelled_inputs>>
call_vars == <<model_calls, active_model_call>>
session_vars == <<state, queue, queue_head, inputs, cancelled_inputs,
                  model_calls, active_model_call, batch, history, active>>

-----------------------------------------------------------------------------
(* The values of the state. *)

\* How a run ends.  ContextRejected stands for the outcomes for which
\* is_context_length_exceeded holds, whichever variant carries them.
RunOutcome == {"Completed", "Interrupted", "ModelStopped", "Failed",
               "ContextRejected", "ToolOutcomeUnknown"}

\* How a tool call ends.  Reported is a result of its execution, good or bad;
\* Yielded the report of a call whose work goes on in the background; Refused the
\* answer to a call that was not executed: an unknown tool, or one deferred after
\* another yielded.
ToolOutcome == {"Reported", "SuccessWithInput", "Yielded", "Refused", "Cancelled", "Unknown"}

Idle == [phase |-> "Idle"]
Ready(needs_model) == [phase |-> "Ready", needs_model |-> needs_model]
Suspended(outcome) == [phase |-> "Suspended", outcome |-> outcome]
CallingModel == [phase |-> "CallingModel"]
ExecutingTools == [phase |-> "ExecutingTools"]
Compacting(resume) == [phase |-> "Compacting", resume |-> resume]

StableState == [phase : {"Idle"}] \cup [phase : {"Ready"}, needs_model : BOOLEAN]
                 \cup [phase : {"Suspended"}, outcome : RunOutcome \ {"Completed"}]
SessionState == StableState \cup [phase : {"CallingModel", "ExecutingTools"}]
                            \cup [phase : {"Compacting"}, resume : StableState]

IsStable(s) == s.phase \in {"Idle", "Ready", "Suspended"}

Purpose == {"Conversation", "CompactionSummary", "UpstreamCompaction",
            "CompactionTranslation"}
CallStatus == {"Running", "Completed", "Interrupted", "Failed"}
ModelCallRecord == [purpose : Purpose, status : CallStatus, generation : Nat]
NoCall == 0

NotSettled == "None"
ToolExecution == [call : ToolCallId, started : BOOLEAN,
                  outcome : ToolOutcome \cup {NotSettled}]

\* A message of the history.  An assistant message stands for the text and
\* reasoning of a response, a fragment for what an interrupted one kept, with
\* its calls already paired, and a tool_input for the inputs a batch's results carry.
InputMessage(id) == [kind |-> "input", id |-> id]
ToolUseMessage(c) == [kind |-> "tool_use", call |-> c]
ToolResultMessage(c, o) == [kind |-> "tool_result", call |-> c, outcome |-> o]
AssistantMessage == [kind |-> "assistant"]
FragmentMessage == [kind |-> "fragment"]
ToolInputMessage == [kind |-> "tool_input"]

Message == [kind : {"input"}, id : Nat] \cup [kind : {"assistant", "fragment", "tool_input"}]
             \cup [kind : {"tool_use"}, call : ToolCallId]
             \cup [kind : {"tool_result"}, call : ToolCallId, outcome : ToolOutcome]

-----------------------------------------------------------------------------
(* The queue: operations of a sender, beside whatever the owner does. *)

HasQueuedInput == queue_head < Len(queue)

\* append_input: the entry, its queue reference and its event, together.
EnqueueMessage ==
  /\ inputs < MaxInputs
  /\ inputs' = inputs + 1
  /\ queue' = Append(queue, inputs + 1)
  /\ UNCHANGED <<state, queue_head, cancelled_inputs, call_vars, batch, history, active>>

\* The list with the item at position from taken out and put in at position to
\* of what is left; MovedFrom is the position a position's item comes from.
MovedFrom(from, to, i) ==
  IF i = to THEN from
  ELSE IF from <= i /\ i < to THEN i + 1
  ELSE IF to < i /\ i <= from THEN i - 1
  ELSE i
Moved(q, from, to) == [i \in 1 .. Len(q) |-> q[MovedFrom(from, to, i)]]

\* Both positions are pending ones; before = 0 moves the input to the end.
MoveQueuedInput(from, before) ==
  /\ from \in queue_head + 1 .. Len(queue)
  /\ before \in {0} \cup (queue_head + 1 .. Len(queue))
  /\ before # from
  /\ queue' = Moved(queue, from, IF before = 0 THEN Len(queue)
                                 ELSE IF before > from THEN before - 1
                                 ELSE before)
  /\ UNCHANGED <<state, queue_head, inputs, cancelled_inputs, call_vars, batch, history, active>>

\* Mutant: the shift starts one position late.
RemovedLate(q, k) == [i \in 1 .. Len(q) - 1 |-> IF i <= k THEN q[i] ELSE q[i + 1]]

\* remove_item of the storage: the positions after the one removed shift left.
Removed(q, k) == [i \in 1 .. Len(q) - 1 |-> IF i < k THEN q[i] ELSE q[i + 1]]

CancelQueuedInput(k) ==
  /\ k \in queue_head + 1 .. Len(queue)
  /\ queue' = Removed(queue, k)
  /\ cancelled_inputs' = cancelled_inputs \cup {queue[k]}
  /\ UNCHANGED <<state, queue_head, inputs, call_vars, batch, history, active>>

SenderNext ==
  \/ EnqueueMessage
  \/ \E from \in 1 .. Len(queue) : \E before \in 0 .. Len(queue) :
       MoveQueuedInput(from, before)
  \/ \E k \in 1 .. Len(queue) : CancelQueuedInput(k)

-----------------------------------------------------------------------------
(* Steps shared by the owner's operations. *)

\* abandon_running_call, on the records as the transaction has them.
Abandoned(calls, outcome) ==
  IF active_model_call # NoCall /\ calls[active_model_call].status = "Running"
  THEN [calls EXCEPT ![active_model_call].status =
          IF outcome = "Interrupted" THEN "Interrupted" ELSE "Failed"]
  ELSE calls

\* finish_run: idle when the run completed, suspended on its outcome otherwise.
FinishWith(calls, outcome) ==
  /\ model_calls' = Abandoned(calls, outcome)
  /\ active_model_call' = NoCall
  /\ state' = IF outcome = "Completed" THEN Idle ELSE Suspended(outcome)

\* complete_model_call: the record of the active call ended with a status.
Ended(status) == [model_calls EXCEPT ![active_model_call].status = status]

\* new_model_call: the next record, in the active generation.
NewModelCall(purpose, status) ==
  [purpose |-> purpose, status |-> status, generation |-> active]

StartCall(purpose) ==
  /\ Len(model_calls) < MaxModelCalls
  /\ model_calls' = Append(model_calls, NewModelCall(purpose, "Running"))
  /\ active_model_call' = Len(model_calls) + 1

-----------------------------------------------------------------------------
(* Starting a turn. *)

CollectInputs ==
  /\ state = Idle
  /\ HasQueuedInput
  /\ state' = Ready(TRUE)
  /\ UNCHANGED <<queue_vars, queue_head, call_vars, batch, history, active>>

\* consume_inputs: every queued input joins the context and the history.
ConsumeInputs ==
  /\ history' = history \o [i \in 1 .. Len(queue) - queue_head |->
                              InputMessage(queue[queue_head + i])]
  /\ queue_head' = Len(queue)

\* advance from Ready with a model call due, or input to give to the model.
StartTurn ==
  /\ state.phase = "Ready"
  /\ state.needs_model \/ HasQueuedInput
  /\ ConsumeInputs
  /\ StartCall("Conversation")
  /\ state' = CallingModel
  /\ UNCHANGED <<queue_vars, batch, active>>

\* advance from Ready with neither: the run is complete.
CompleteRun ==
  /\ state = Ready(FALSE)
  /\ ~ HasQueuedInput
  /\ FinishWith(model_calls, "Completed")
  /\ UNCHANGED <<queue_vars, queue_head, batch, history, active>>

-----------------------------------------------------------------------------
(* Ending the model call of a turn. *)

\* A response as far as is_acceptable tells responses apart: why the model
\* stopped, its calls, and whether the rest of it is well formed.
Response ==
  [stop : {"Stop", "ToolUse", "ContextLengthExceeded", "Other"},
   calls : UNION {[1 .. n -> ToolCallId] : n \in 0 .. MaxBatch + 1},
   well_formed : BOOLEAN]

IsAcceptable(response) ==
  /\ Len(response.calls) <= MaxBatch
  /\ (response.stop = "ToolUse") # (response.calls = <<>>)
  /\ response.well_formed
  /\ IsInjective(response.calls)

StoppedFor(response) ==
  IF response.stop = "ContextLengthExceeded" THEN "ContextRejected" ELSE "ModelStopped"

ToolUses(calls) == [i \in 1 .. Len(calls) |-> ToolUseMessage(calls[i])]
NewBatch(calls) ==
  [i \in 1 .. Len(calls) |-> [call |-> calls[i], started |-> FALSE, outcome |-> NotSettled]]

\* accept_response: a response that is neither finished nor acceptable ends the
\* run and adds nothing to the context; an accepted one ends the turn or starts
\* its tool batch.
AcceptResponse(response) ==
  /\ state = CallingModel
  /\ active_model_call # NoCall
  /\ \/ /\ response.stop \notin {"Stop", "ToolUse"}
        /\ FinishWith(Ended("Completed"), StoppedFor(response))
        /\ UNCHANGED <<batch, history>>
     \/ /\ response.stop \in {"Stop", "ToolUse"}
        /\ ~ IsAcceptable(response)
        /\ FinishWith(Ended("Completed"), "Failed")
        /\ UNCHANGED <<batch, history>>
     \/ /\ response.stop \in {"Stop", "ToolUse"}
        /\ IsAcceptable(response)
        /\ model_calls' = Ended("Completed")
        /\ active_model_call' = NoCall
        /\ history' = history \o <<AssistantMessage>> \o ToolUses(response.calls)
        /\ batch' = NewBatch(response.calls)
        /\ state' = IF response.calls = <<>> THEN Ready(FALSE) ELSE ExecutingTools
  /\ UNCHANGED <<queue_vars, queue_head, active>>

\* accept_interruption: what the stream had is kept as a paired fragment.
AcceptInterruption ==
  /\ state = CallingModel
  /\ active_model_call # NoCall
  /\ history' = Append(history, FragmentMessage)
  /\ FinishWith(Ended("Interrupted"), "Interrupted")
  /\ UNCHANGED <<queue_vars, queue_head, batch, active>>

FailModelCall(outcome) ==
  /\ state = CallingModel
  /\ active_model_call # NoCall
  /\ outcome \in {"Failed", "ContextRejected"}
  /\ FinishWith(Ended("Failed"), outcome)
  /\ UNCHANGED <<queue_vars, queue_head, batch, history, active>>

-----------------------------------------------------------------------------
(* The tool batch. *)

StartTool(k) ==
  /\ state = ExecutingTools
  /\ k \in DOMAIN batch
  /\ batch' = [batch EXCEPT ![k].started = TRUE]
  /\ UNCHANGED <<state, queue_vars, queue_head, call_vars, history, active>>

AcceptToolOutcome(k, outcome) ==
  /\ state = ExecutingTools
  /\ k \in DOMAIN batch
  /\ batch' = [batch EXCEPT ![k].outcome = outcome]
  /\ UNCHANGED <<state, queue_vars, queue_head, call_vars, history, active>>

\* Mutant: cancelled calls get no result.
DrainedWithoutCancelled(b) ==
  LET answered == SelectSeq(b, LAMBDA e : e.outcome # "Cancelled")
  IN  [i \in 1 .. Len(answered) |-> ToolResultMessage(answered[i].call, answered[i].outcome)]

\* drain_batch: every result in call order, then the input some results carry.
Drained(b) ==
  [i \in 1 .. Len(b) |-> ToolResultMessage(b[i].call, b[i].outcome)]
    \o (IF \E i \in DOMAIN b : b[i].outcome = "SuccessWithInput"
        THEN <<ToolInputMessage>> ELSE <<>>)
SomeUnknown(b) == \E i \in DOMAIN b : b[i].outcome = "Unknown"

CompleteTools ==
  /\ state = ExecutingTools
  /\ \A i \in DOMAIN batch : batch[i].outcome # NotSettled
  /\ history' = history \o Drained(batch)
  /\ batch' = <<>>
  /\ IF SomeUnknown(batch)
     THEN FinishWith(model_calls, "ToolOutcomeUnknown")
     ELSE state' = Ready(TRUE) /\ UNCHANGED call_vars
  /\ UNCHANGED <<queue_vars, queue_head, active>>

-----------------------------------------------------------------------------
(* Ending, settling and resuming a run. *)

\* finish_run, as its callers use it: at a stable point, for an interruption or a
\* compaction that failed.
FinishRun(outcome) ==
  /\ IsStable(state)
  /\ outcome \in {"Interrupted", "Failed", "ModelStopped", "ContextRejected"}
  /\ FinishWith(model_calls, outcome)
  /\ UNCHANGED <<queue_vars, queue_head, batch, history, active>>

\* cancel_unfinished: a call that started may have had its effects.
Settled(b) ==
  [i \in 1 .. Len(b) |->
     IF b[i].outcome # NotSettled THEN b[i]
     ELSE [b[i] EXCEPT !.outcome = IF b[i].started THEN "Unknown" ELSE "Cancelled"]]

SettleCallingModel ==
  /\ state = CallingModel
  /\ FinishWith(model_calls, "Interrupted")
  /\ UNCHANGED <<batch, history>>

SettleExecutingTools ==
  /\ state = ExecutingTools
  /\ history' = history \o Drained(Settled(batch))
  /\ batch' = <<>>
  /\ FinishWith(model_calls, IF SomeUnknown(Settled(batch)) THEN "ToolOutcomeUnknown"
                             ELSE "Interrupted")

\* Compacting goes back to the state it started from, which is a stable one, and
\* finishes the run there unless that state is already suspended.
SettleCompacting ==
  /\ state.phase = "Compacting"
  /\ IF state.resume.phase = "Suspended"
     THEN state' = state.resume /\ UNCHANGED call_vars
     ELSE FinishWith(model_calls, "Interrupted")
  /\ UNCHANGED <<batch, history>>

SettleInterrupted ==
  /\ SettleCallingModel \/ SettleExecutingTools \/ SettleCompacting
  /\ UNCHANGED <<queue_vars, queue_head, active>>

Resume ==
  /\ IsStable(state)
  /\ state' = Ready(TRUE)
  /\ UNCHANGED <<queue_vars, queue_head, call_vars, batch, history, active>>

-----------------------------------------------------------------------------
(* Compaction, as far as the state machine and the call records see it. *)

BeginCompaction ==
  /\ IsStable(state)
  /\ state' = Compacting(state)
  /\ UNCHANGED <<queue_vars, queue_head, call_vars, batch, history, active>>

EndCompaction ==
  /\ state.phase = "Compacting"
  /\ active_model_call' = NoCall
  /\ state' = state.resume
  /\ UNCHANGED <<queue_vars, queue_head, model_calls, batch, history, active>>

\* A side call: an upstream compaction inside Compacting, or the handoff of a
\* provider switch at a stable boundary.
StartModelCall(purpose) ==
  /\ \/ purpose = "UpstreamCompaction" /\ state.phase = "Compacting"
     \/ purpose = "CompactionTranslation" /\ IsStable(state)
  /\ StartCall(purpose)
  /\ UNCHANGED <<state, queue_vars, queue_head, batch, history, active>>

\* The record ends; the session keeps naming the call until the compaction ends.
CompleteCompactionCall(status) ==
  /\ state.phase = "Compacting" \/ IsStable(state)
  /\ active_model_call # NoCall
  /\ model_calls' = Ended(status)
  /\ UNCHANGED <<state, queue_vars, queue_head, active_model_call, batch, history, active>>

\* A standby summary's call is recorded when it has finished, beside whatever
\* call is active.
RecordCompletedCompactionCall ==
  /\ Len(model_calls) < MaxModelCalls
  /\ model_calls' = Append(model_calls, NewModelCall("CompactionSummary", "Completed"))
  /\ UNCHANGED <<state, queue_vars, queue_head, active_model_call, batch, history, active>>

\* A commit that makes another generation the active one.
SwitchActive ==
  /\ state.phase = "Compacting" \/ IsStable(state)
  /\ active < MaxGenerations
  /\ active' = active + 1
  /\ UNCHANGED <<state, queue_vars, queue_head, call_vars, batch, history>>

-----------------------------------------------------------------------------

SessionInit ==
  /\ state = Idle
  /\ queue = <<>>
  /\ queue_head = 0
  /\ inputs = 0
  /\ cancelled_inputs = {}
  /\ model_calls = <<>>
  /\ active_model_call = NoCall
  /\ batch = <<>>
  /\ history = <<>>
  /\ active = 0

OwnerNext ==
  \/ CollectInputs \/ StartTurn \/ CompleteRun
  \/ \E response \in Response : AcceptResponse(response)
  \/ AcceptInterruption
  \/ \E outcome \in RunOutcome : FailModelCall(outcome)
  \/ \E k \in DOMAIN batch : StartTool(k)
  \/ \E k \in DOMAIN batch : \E outcome \in ToolOutcome : AcceptToolOutcome(k, outcome)
  \/ CompleteTools
  \/ \E outcome \in RunOutcome : FinishRun(outcome)
  \/ SettleInterrupted \/ Resume
  \/ BeginCompaction \/ EndCompaction
  \/ \E purpose \in Purpose : StartModelCall(purpose)
  \/ \E status \in CallStatus \ {"Running"} : CompleteCompactionCall(status)
  \/ RecordCompletedCompactionCall \/ SwitchActive

SessionNext == SenderNext \/ OwnerNext

SessionSpec == SessionInit /\ [][SessionNext]_session_vars

-----------------------------------------------------------------------------
(* What the session promises, whatever its owner and its senders do. *)

\* Every variable holds a value of its kind, and names only positions that exist.
TypeOK ==
  /\ state \in SessionState
  /\ queue \in Seq(Nat)
  /\ queue_head \in 0 .. Len(queue)
  /\ inputs \in Nat
  /\ cancelled_inputs \in SUBSET Nat
  /\ model_calls \in Seq(ModelCallRecord)
  /\ active_model_call \in 0 .. Len(model_calls)
  /\ batch \in Seq(ToolExecution)
  /\ history \in Seq(Message)
  /\ active \in Nat

\* No input is lost or doubled, however enqueueing, moving, cancelling and
\* consuming interleave: each input ever stored is either in the queue's list,
\* at one position, or cancelled, and never both.
InputsConserved ==
  /\ IsInjective(queue)
  /\ Range(queue) \cup cancelled_inputs = 1 .. inputs
  /\ Range(queue) \cap cancelled_inputs = {}

\* The history holds exactly the consumed inputs, each once and in the order
\* the queue had when they were consumed: the queue head and the history agree.
HistoryInputs ==
  /\ \A j \in 1 .. queue_head : \E i \in DOMAIN history : history[i] = InputMessage(queue[j])
  /\ \A i \in DOMAIN history : history[i].kind = "input" =>
       \E j \in 1 .. queue_head : history[i].id = queue[j]
  /\ \A i, k \in DOMAIN history : \A j, l \in 1 .. queue_head :
       i < k /\ history[i] = InputMessage(queue[j]) /\ history[k] = InputMessage(queue[l]) => j < l

\* A session in CallingModel names a conversation call whose record is running,
\* so the end of the call always finds the record it has to close, and a turn's
\* call is never closed by something that happens beside it.
CallInFlight ==
  state = CallingModel =>
    /\ active_model_call # NoCall
    /\ model_calls[active_model_call].purpose = "Conversation"
    /\ model_calls[active_model_call].status = "Running"

\* There is a batch exactly while its tools run: a session that is stable, or
\* calls the model, has no result still to give.
BatchWhileExecuting == (state = ExecutingTools) <=> (batch # <<>>)

\* The calls of one response: the tool uses at i .. j and no tool use next to them.
UseBlock(i, j) ==
  /\ \A m \in i .. j : history[m].kind = "tool_use"
  /\ i = 1 \/ history[i - 1].kind # "tool_use"
  /\ j = Len(history) \/ history[j + 1].kind # "tool_use"

\* Every tool call in the history is answered: the calls of a response are
\* followed at once by one result each, in call order, before any other message;
\* only those of the batch under way are at the end, unanswered.
ToolUsesAnswered ==
  \A i \in DOMAIN history : \A j \in i .. Len(history) :
    UseBlock(i, j) =>
      LET n == j - i + 1
      IN  IF state = ExecutingTools /\ j = Len(history)
          THEN n = Len(batch) /\ \A m \in i .. j : batch[m - i + 1].call = history[m].call
          ELSE /\ j + n <= Len(history)
               /\ \A m \in i .. j : /\ history[m + n].kind = "tool_result"
                                    /\ history[m + n].call = history[m].call

\* The history tells what happened: the inputs in the order they were consumed,
\* and every tool call with its result.
HistoryTrue == HistoryInputs /\ ToolUsesAnswered

\* What has been consumed stays as it was: a move or a cancellation that races
\* the start of a turn touches only inputs the turn did not take.
ConsumedStays ==
  [][/\ queue_head <= queue_head'
     /\ \A i \in 1 .. queue_head : i \in DOMAIN queue' /\ queue'[i] = queue[i]]_session_vars

=============================================================================

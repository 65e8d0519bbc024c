------------------------------- MODULE Executor -------------------------------
(***************************************************************************)
(* An operation on a session: the run loop (executor/run.rs), the          *)
(* execution of a tool batch (executor/tool.rs), cutovers                  *)
(* (executor/compaction.rs and its upstream, standby and trim modules),    *)
(* the standby summary prepared beside the run's work, the handoff written *)
(* at a run boundary (application/session/selection.rs), and how an        *)
(* operation starts, ends, fails and is recovered after a crash            *)
(* (application/session/run.rs).                                           *)
(*                                                                         *)
(* pc names the await or the transaction the operation is at.  A step does *)
(* at most one storage transaction, so senders, cancellation, a crash of   *)
(* the process or a failure of the storage come between any two of them.   *)
(* A crash keeps every committed transaction (WAL); losing commits to a    *)
(* power failure is not modelled.                                          *)
(***************************************************************************)
EXTENDS Session

CONSTANTS
  ToolModes,     \* of "Serial" and "Parallel"
  MaxParallel,   \* the most tools of a parallel batch in flight (8 in the code)
  Compactions,   \* of "None", "Local", and "Upstream" when the caller compacts upstream
  ToolReturns,   \* the outcomes a tool's execution ends with when not cancelled
  MaxFaults      \* bound: crashes and storage failures

ASSUME ExecutorAssumption ==
  /\ ToolModes \subseteq {"Serial", "Parallel"}
  /\ MaxParallel \in Nat \ {0}
  /\ Compactions \subseteq {"None", "Local", "Upstream"}
  /\ ToolReturns \subseteq ToolOutcome
  /\ MaxFaults \in Nat

VARIABLES
  config,             \* how the operation was configured: its tools, its compaction
  op,                 \* the operation that holds the session: "None", "Run", "Compact"
  pc,                 \* where it is; "rest" without one, "down" after a crash
  cancelled,          \* its ExecutionControl has been cancelled
  recovered_context,  \* the run already recovered from a rejected context
  reason,             \* why the cutover under way is made, or "None"
  previous,           \* the active generation before a recovery
  failure,            \* why the cutover under way failed, or "None"
  summary,            \* the standby summary in flight
  task,               \* per call of the batch: what became of its execution
  faults              \* crashes and storage failures so far

cut_vars == <<reason, previous, failure>>
exec_vars == <<config, op, pc, cancelled, recovered_context, cut_vars, summary, task, faults>>
vars == <<session_vars, exec_vars>>

ToolMode == config.tool_mode
Compaction == config.compaction

NoSummary == [status |-> "None", generation |-> 0]
InFlight == [status |-> "InFlight", generation |-> active]

-----------------------------------------------------------------------------
(* Steps the operation's parts share. *)

At(label) == pc = label

Goto(label) == pc' = label /\ UNCHANGED <<op, cancelled, faults>>

\* The operation returns and drops what it had: the control, the summary.
LeaveTo(label) ==
  /\ op' = "None"
  /\ pc' = label
  /\ cancelled' = FALSE
  /\ recovered_context' = FALSE
  /\ reason' = "None"
  /\ previous' = 0
  /\ failure' = "None"
  /\ summary' = NoSummary

\* finish_operation, with the session stable.
EndOperation == LeaveTo("rest") /\ UNCHANGED <<task, faults>>

\* finish_interrupted.
FinishInterrupted == FinishRun("Interrupted") /\ EndOperation

\* The top of the loop: the boundary is applied while the session is stable, and
\* collect_inputs and the cutover pass over a session that executes tools.
Top == IF IsStable(state') THEN "boundary" ELSE "advance"

\* read_usage finds a completed conversation call of the active generation.
HasUsage ==
  \E i \in DOMAIN model_calls : /\ model_calls[i].purpose = "Conversation"
                                /\ model_calls[i].status = "Completed"
                                /\ model_calls[i].generation = active

\* settle_standby_summary: a summary of the active generation is committed with
\* its call; one that failed, or is stale, leaves only an event.
RecordSummary ==
  \/ summary.generation = active /\ RecordCompletedCompactionCall
  \/ UNCHANGED session_vars

-----------------------------------------------------------------------------
(* The boundary: apply_selection, with the handoff a provider switch needs. *)

AfterBoundary == IF op = "Run" THEN "collect" ELSE "force"

BoundaryInterrupted ==
  /\ At("boundary")
  /\ cancelled
  /\ FinishInterrupted

\* Nothing is pending, or a selection that needs no handoff applies and drops
\* the summary prepared for the settings it replaces.
BoundaryPassed(changed) ==
  /\ At("boundary")
  /\ ~ cancelled
  /\ summary' = IF changed THEN NoSummary ELSE summary
  /\ reason' = IF op = "Run" THEN "None" ELSE "Manual"
  /\ Goto(AfterBoundary)
  /\ UNCHANGED <<session_vars, recovered_context, previous, failure, task>>

BoundaryHandoff ==
  /\ At("boundary")
  /\ ~ cancelled
  /\ StartModelCall("CompactionTranslation")
  /\ Goto("handoff")
  /\ UNCHANGED <<recovered_context, cut_vars, summary, task>>

\* Several items, or none the previous provider reads now: a placeholder at once.
HandoffUnwritten ==
  /\ At("boundary")
  /\ ~ cancelled
  /\ Goto("handoff_over")
  /\ UNCHANGED <<session_vars, recovered_context, cut_vars, summary, task>>

\* Mutant: a failed call's record is left as it is.
HandoffReturnsOpen ==
  /\ At("handoff")
  /\ \/ \E status \in IF cancelled THEN {"Interrupted"} ELSE {"Completed"} :
          CompleteCompactionCall(status)
     \/ ~ cancelled /\ UNCHANGED session_vars
  /\ Goto("handoff_over")
  /\ UNCHANGED <<recovered_context, cut_vars, summary, task>>

\* write_handoff's call ends; a failed one leaves a placeholder and goes on.
HandoffReturns ==
  /\ At("handoff")
  /\ \E status \in IF cancelled THEN {"Interrupted"} ELSE {"Completed", "Failed"} :
       CompleteCompactionCall(status)
  /\ Goto("handoff_over")
  /\ UNCHANGED <<recovered_context, cut_vars, summary, task>>

HandoffInterrupted ==
  /\ At("handoff_over")
  /\ cancelled
  /\ FinishInterrupted

\* Mutant: the switch keeps the summary prepared on the replaced generation.
HandoffCommittedKeepingSummary ==
  /\ At("handoff_over")
  /\ ~ cancelled
  /\ SwitchActive
  /\ reason' = IF op = "Run" THEN "None" ELSE "Manual"
  /\ Goto(AfterBoundary)
  /\ UNCHANGED <<recovered_context, previous, failure, summary, task>>

\* commit_switch, or a descriptor edited meanwhile: read the selection again.
HandoffCommitted ==
  /\ At("handoff_over")
  /\ ~ cancelled
  /\ SwitchActive
  /\ summary' = NoSummary
  /\ reason' = IF op = "Run" THEN "None" ELSE "Manual"
  /\ Goto(AfterBoundary)
  /\ UNCHANGED <<recovered_context, previous, failure, task>>

HandoffStale ==
  /\ At("handoff_over")
  /\ Goto("boundary")
  /\ UNCHANGED <<session_vars, recovered_context, cut_vars, summary, task>>

\* The translated context is invalid for the provider: the operation fails.
HandoffInvalid ==
  /\ At("handoff_over")
  /\ ~ cancelled
  /\ EndOperation
  /\ UNCHANGED session_vars

BoundaryStep ==
  \/ BoundaryInterrupted \/ (\E changed \in BOOLEAN : BoundaryPassed(changed))
  \/ BoundaryHandoff \/ HandoffUnwritten \/ HandoffReturns \/ HandoffInterrupted
  \/ HandoffCommitted \/ HandoffStale \/ HandoffInvalid

-----------------------------------------------------------------------------
(* Cutovers. *)

\* collect_inputs, then find_cutover.
Collect ==
  /\ At("collect")
  /\ \/ CollectInputs
     \/ ~ (state = Idle /\ HasQueuedInput) /\ UNCHANGED session_vars
  /\ \E due \in IF Compaction # "None" /\ state'.phase = "Ready" /\ HasUsage
                THEN BOOLEAN ELSE {FALSE} :
       /\ reason' = IF due THEN "Usage" ELSE "None"
       /\ Goto(IF due THEN "settle" ELSE "check")
  /\ UNCHANGED <<recovered_context, previous, failure, summary, task>>

\* standby.settle before a cutover.
SettleStandby ==
  /\ At("settle")
  /\ IF summary = NoSummary THEN UNCHANGED session_vars ELSE RecordSummary
  /\ summary' = NoSummary
  /\ recovered_context' = (recovered_context \/ reason = "ContextRejected")
  /\ Goto("force")
  /\ UNCHANGED <<cut_vars, task>>

SettleStandbyCancelled ==
  /\ At("settle")
  /\ cancelled
  /\ summary # NoSummary
  /\ FinishInterrupted

\* force_cutover asks for cancellation first; a cutover due on usage does not.
BeginCutover ==
  /\ At("force")
  /\ reason = "Usage" \/ ~ cancelled
  /\ BeginCompaction
  /\ previous' = active
  /\ Goto("compacting")
  /\ UNCHANGED <<recovered_context, reason, failure, summary, task>>

ForceCancelled ==
  /\ At("force")
  /\ reason # "Usage"
  /\ cancelled
  /\ UNCHANGED session_vars
  /\ \/ reason = "Manual" /\ EndOperation
     \/ /\ reason = "ContextRejected"
        /\ reason' = "None"
        /\ Goto("boundary")
        /\ UNCHANGED <<recovered_context, previous, failure, summary, task>>

\* A step inside Compacting that ends the attempt, with or without a failure.
CutoverEnds(why) ==
  /\ failure' = why
  /\ Goto("end")
  /\ UNCHANGED <<recovered_context, reason, previous, summary, task>>

\* The outcomes a failed step has: those of a side call, or the interruption.
CutoverFailures ==
  {"Failed", "ModelStopped", "ContextRejected"} \cup IF cancelled THEN {"Interrupted"} ELSE {}

\* catch_up commits the summaries still missing.
CatchUp ==
  /\ At("compacting")
  /\ Compaction = "Local"
  /\ ~ cancelled
  /\ RecordCompletedCompactionCall
  /\ UNCHANGED exec_vars

\* trim_context: a smaller context, none needed, or none that fits.
TrimCommits ==
  /\ At("compacting")
  /\ Compaction = "Local"
  /\ ~ cancelled
  /\ SwitchActive
  /\ CutoverEnds("None")

TrimFits ==
  /\ At("compacting")
  /\ Compaction = "Local"
  /\ reason # "ContextRejected"
  /\ CutoverEnds("None")
  /\ UNCHANGED session_vars

LocalFails ==
  /\ At("compacting")
  /\ Compaction = "Local"
  /\ \E why \in CutoverFailures : CutoverEnds(why)
  /\ UNCHANGED session_vars

\* replace_with_upstream.
UpstreamStarts ==
  /\ At("compacting")
  /\ Compaction = "Upstream"
  /\ IF cancelled
     THEN CutoverEnds("Interrupted") /\ UNCHANGED session_vars
     ELSE /\ StartModelCall("UpstreamCompaction")
          /\ Goto("upstream")
          /\ UNCHANGED <<recovered_context, cut_vars, summary, task>>

UpstreamReturns ==
  /\ At("upstream")
  /\ \E status \in {"Completed", "Failed"} \cup IF cancelled THEN {"Interrupted"} ELSE {} :
       /\ CompleteCompactionCall(status)
       /\ \/ /\ status = "Completed"
             /\ Goto("upstream_over")
             /\ UNCHANGED <<recovered_context, cut_vars, summary, task>>
          \/ status = "Interrupted" /\ CutoverEnds("Interrupted")
          \/ /\ status = "Failed"
             /\ \E why \in {"Failed", "ContextRejected"} : CutoverEnds(why)

UpstreamCommits ==
  /\ At("upstream_over")
  /\ ~ cancelled
  /\ SwitchActive
  /\ CutoverEnds("None")

UpstreamFails ==
  /\ At("upstream_over")
  /\ \E why \in CutoverFailures \ {"ModelStopped", "ContextRejected"} : CutoverEnds(why)
  /\ UNCHANGED session_vars

\* What a cutover that is over leads to, for each reason.
AfterCutover(failed) ==
  \/ /\ reason = "Manual" \/ (reason = "Usage" /\ failed)
     /\ EndOperation
  \/ /\ reason = "Usage" /\ ~ failed
     /\ reason' = "None"
     /\ Goto("check")
     /\ UNCHANGED <<recovered_context, previous, failure, summary, task>>
  \/ /\ reason = "ContextRejected"
     /\ Goto("recovered")
     /\ UNCHANGED <<recovered_context, cut_vars, summary, task>>

EndCutover ==
  /\ At("end")
  /\ EndCompaction
  /\ IF failure = "None"
     THEN AfterCutover(FALSE)
     ELSE Goto("failed") /\ UNCHANGED <<recovered_context, cut_vars, summary, task>>

\* Failure::settle.
SettleFailure ==
  /\ At("failed")
  /\ FinishRun(failure)
  /\ AfterCutover(TRUE)

\* recover_context_rejection's end: a new generation resumes the run.
Recovered ==
  /\ At("recovered")
  /\ IF active # previous THEN Resume ELSE UNCHANGED session_vars
  /\ reason' = "None"
  /\ previous' = 0
  /\ failure' = "None"
  /\ Goto("boundary")
  /\ UNCHANGED <<recovered_context, summary, task>>

CutoverStep ==
  \/ Collect \/ SettleStandby \/ SettleStandbyCancelled \/ BeginCutover \/ ForceCancelled
  \/ CatchUp \/ TrimCommits \/ TrimFits \/ LocalFails
  \/ UpstreamStarts \/ UpstreamReturns \/ UpstreamCommits \/ UpstreamFails
  \/ EndCutover \/ SettleFailure \/ Recovered

-----------------------------------------------------------------------------
(* The action the session asks for. *)

CheckCancelled ==
  /\ At("check")
  /\ IF cancelled /\ state.phase = "Ready"
     THEN FinishRun("Interrupted") /\ summary' = NoSummary
     ELSE UNCHANGED <<session_vars, summary>>
  /\ Goto("advance")
  /\ UNCHANGED <<recovered_context, cut_vars, task>>

\* The future of a call is waiting (not admitted yet), admitted (and marked started),
\* unregistered (admitted, with no such tool), running, or over.

Advance ==
  /\ At("advance")
  /\ StartTurn \/ CompleteRun \/ (state.phase # "Ready" /\ UNCHANGED session_vars)
  /\ task' = [k \in DOMAIN batch |-> "waiting"]
  /\ Goto("start_next")
  /\ UNCHANGED <<recovered_context, cut_vars, summary>>

\* plan_standby_summaries: there may be a span to summarize after an answered call.
SpanDue == Compaction = "Local" /\ ~ cancelled /\ HasUsage

\* standby.start_next: a summary starts unless one is in flight or none is due.
StartNext ==
  /\ At("start_next")
  /\ summary' \in IF summary = NoSummary /\ SpanDue THEN {NoSummary, InFlight} ELSE {summary}
  /\ Goto(IF state = CallingModel THEN "model"
          ELSE IF state = ExecutingTools THEN "tools" ELSE "finished")
  /\ UNCHANGED <<session_vars, recovered_context, cut_vars, task>>

\* beside: the summary may finish before the model call or the tools do; it is
\* settled once they no longer hold the session.
SummaryFinishes ==
  /\ pc \in {"model", "tools"}
  /\ summary.status = "InFlight"
  /\ summary' = [summary EXCEPT !.status = "Finished"]
  /\ UNCHANGED <<session_vars, op, pc, cancelled, recovered_context, cut_vars, task, faults>>

SettleFinished ==
  /\ pc \in {"answer", "tools_over"}
  /\ summary.status = "Finished"
  /\ RecordSummary
  /\ summary' = NoSummary
  /\ UNCHANGED <<op, pc, cancelled, recovered_context, cut_vars, task, faults>>

\* wait_after_finish.
Return ==
  /\ At("finished")
  /\ IF summary = NoSummary THEN UNCHANGED session_vars ELSE RecordSummary
  /\ EndOperation

ReturnCancelled ==
  /\ At("finished")
  /\ summary # NoSummary
  /\ cancelled
  /\ FinishInterrupted

ContinueWithInput ==
  /\ At("finished")
  /\ summary # NoSummary
  /\ state = Idle
  /\ HasQueuedInput
  /\ Goto("boundary")
  /\ UNCHANGED <<session_vars, recovered_context, cut_vars, summary, task>>

-----------------------------------------------------------------------------
(* The model call. *)

ModelReturns ==
  /\ At("model")
  /\ Goto("answer")
  /\ UNCHANGED <<session_vars, recovered_context, cut_vars, summary, task>>

\* What follows an answer: the recovery of a rejected context, once, or the loop.
AfterAnswer(context_rejected) ==
  /\ summary.status # "Finished"
  /\ recovered_context' = (recovered_context /\ context_rejected)
  /\ Goto(IF context_rejected /\ ~ recovered_context /\ Compaction # "None"
          THEN "rejected" ELSE Top)
  /\ UNCHANGED <<cut_vars, summary, task>>

AnswerComplete(response) ==
  /\ At("answer")
  /\ AcceptResponse(response)
  /\ AfterAnswer(response.stop = "ContextLengthExceeded")

\* Mutant: an interrupted call is made again.
AnswerInterruptedRetries ==
  /\ At("answer")
  /\ cancelled
  /\ Goto("model")
  /\ UNCHANGED <<session_vars, recovered_context, cut_vars, summary, task>>

AnswerInterrupted ==
  /\ At("answer")
  /\ cancelled
  /\ AcceptInterruption
  /\ AfterAnswer(FALSE)

AnswerFailed(outcome) ==
  /\ At("answer")
  /\ FailModelCall(outcome)
  /\ AfterAnswer(outcome = "ContextRejected")

Rejected ==
  /\ At("rejected")
  /\ reason' = IF cancelled THEN "None" ELSE "ContextRejected"
  /\ Goto(IF cancelled THEN "boundary" ELSE "settle")
  /\ UNCHANGED <<session_vars, recovered_context, previous, failure, summary, task>>

-----------------------------------------------------------------------------
(* The tool batch: execute_tools. *)

InFlightTasks == {k \in DOMAIN task : task[k] \in {"admitted", "unregistered", "running"}}
Waiting == {k \in DOMAIN task : task[k] = "waiting"}
NextCall(k) == k \in Waiting /\ \A j \in Waiting : k <= j
Settles(outcome) == \E i \in DOMAIN batch : batch[i].outcome = outcome

TasksBecome(k, what) ==
  /\ task' = [task EXCEPT ![k] = what]
  /\ UNCHANGED <<op, pc, cancelled, recovered_context, cut_vars, summary, faults>>

\* A serial call: not executed after cancellation or an unknown outcome, deferred
\* after a yield, refused when its tool is unknown, and otherwise marked started.
SerialNext(k, registered) ==
  /\ At("tools")
  /\ ToolMode = "Serial"
  /\ NextCall(k)
  /\ InFlightTasks = {}
  /\ IF Settles("Unknown") \/ cancelled
     THEN AcceptToolOutcome(k, "Cancelled") /\ TasksBecome(k, "over")
     ELSE IF Settles("Yielded") \/ ~ registered
     THEN AcceptToolOutcome(k, "Refused") /\ TasksBecome(k, "over")
     ELSE StartTool(k) /\ TasksBecome(k, "admitted")

\* Mutant: admitted calls are not marked started.
ParallelAdmitUnmarked(k, registered) ==
  /\ At("tools")
  /\ ToolMode = "Parallel"
  /\ NextCall(k)
  /\ Cardinality(InFlightTasks) < MaxParallel
  /\ UNCHANGED session_vars
  /\ TasksBecome(k, IF registered THEN "admitted" ELSE "unregistered")

\* A parallel call: admitted while fewer than MaxParallel are in flight.
ParallelAdmit(k, registered) ==
  /\ At("tools")
  /\ ToolMode = "Parallel"
  /\ NextCall(k)
  /\ Cardinality(InFlightTasks) < MaxParallel
  /\ IF registered /\ ~ cancelled THEN StartTool(k) ELSE UNCHANGED session_vars
  /\ TasksBecome(k, IF registered THEN "admitted" ELSE "unregistered")

\* Futures are polled once nothing more is admitted.
AdmissionOver ==
  ToolMode = "Parallel" => Waiting = {} \/ Cardinality(InFlightTasks) = MaxParallel

\* The first poll of a call's future: cancellation comes before its effect.
ToolPoll(k) ==
  /\ At("tools")
  /\ AdmissionOver
  /\ k \in InFlightTasks
  /\ task[k] # "running"
  /\ IF cancelled THEN AcceptToolOutcome(k, "Cancelled") /\ TasksBecome(k, "over")
     ELSE IF task[k] = "unregistered"
     THEN AcceptToolOutcome(k, "Refused") /\ TasksBecome(k, "over")
     ELSE UNCHANGED session_vars /\ TasksBecome(k, "running")

ToolReturnsOutcome(k) ==
  /\ At("tools")
  /\ AdmissionOver
  /\ k \in DOMAIN task
  /\ task[k] = "running"
  /\ \E outcome \in ToolReturns \cup IF cancelled THEN {"Cancelled"} ELSE {} :
       AcceptToolOutcome(k, outcome)
  /\ TasksBecome(k, "over")

ToolsReturn ==
  /\ At("tools")
  /\ \A k \in DOMAIN task : task[k] = "over"
  /\ Goto("tools_over")
  /\ UNCHANGED <<session_vars, recovered_context, cut_vars, summary, task>>

CompleteBatch ==
  /\ At("tools_over")
  /\ summary.status # "Finished"
  /\ CompleteTools
  /\ task' = <<>>
  /\ Goto("boundary")
  /\ UNCHANGED <<recovered_context, cut_vars, summary>>

ActionStep ==
  \/ CheckCancelled \/ Advance \/ StartNext \/ SummaryFinishes \/ SettleFinished
  \/ Return \/ ReturnCancelled \/ ContinueWithInput
  \/ ModelReturns \/ (\E response \in Response : AnswerComplete(response))
  \/ AnswerInterrupted \/ (\E outcome \in RunOutcome : AnswerFailed(outcome)) \/ Rejected
  \/ (\E k \in DOMAIN task : \E registered \in BOOLEAN : SerialNext(k, registered))
  \/ (\E k \in DOMAIN task : \E registered \in BOOLEAN : ParallelAdmit(k, registered))
  \/ (\E k \in DOMAIN task : ToolPoll(k)) \/ (\E k \in DOMAIN task : ToolReturnsOutcome(k))
  \/ ToolsReturn \/ CompleteBatch

-----------------------------------------------------------------------------
(* Starting, cancelling, losing and recovering an operation. *)

\* begin_operation, on a session settle_abandoned found or made stable.
StartOperation(operation) ==
  /\ At("rest")
  /\ IsStable(state)
  /\ operation = "Compact" => Compaction # "None"
  /\ IF operation = "Run" THEN Resume ELSE UNCHANGED session_vars
  /\ op' = operation
  /\ pc' = "boundary"
  /\ UNCHANGED <<cancelled, recovered_context, cut_vars, summary, task, faults>>

SettleAbandoned ==
  /\ At("rest")
  /\ ~ IsStable(state)
  /\ SettleInterrupted
  /\ task' = <<>>
  /\ UNCHANGED <<op, pc, cancelled, recovered_context, cut_vars, summary, faults>>

Cancel ==
  /\ op # "None"
  /\ ~ cancelled
  /\ cancelled' = TRUE
  /\ UNCHANGED <<session_vars, op, pc, recovered_context, cut_vars, summary, task, faults>>

\* A transaction of the operation fails.  A cutover still ends its compaction, and
\* finish_operation settles what is left mid-step, unless those fail as well.
OperationFails ==
  /\ op # "None"
  /\ faults < MaxFaults
  /\ faults' = faults + 1
  /\ \/ UNCHANGED session_vars
     \/ SettleInterrupted
     \/ EndCompaction
  /\ LeaveTo("rest")
  /\ task' = IF batch' = <<>> THEN <<>> ELSE task

\* The process dies, a tool's effect possibly under way.
Crash ==
  /\ ~ At("down")
  /\ faults < MaxFaults
  /\ faults' = faults + 1
  /\ LeaveTo("down")
  /\ UNCHANGED <<session_vars, task>>

\* SessionSlot::open settles what it finds mid-step.
Reopen ==
  /\ At("down")
  /\ IF IsStable(state) THEN UNCHANGED session_vars ELSE SettleInterrupted
  /\ task' = <<>>
  /\ pc' = "rest"
  /\ UNCHANGED <<op, cancelled, recovered_context, cut_vars, summary, faults>>

-----------------------------------------------------------------------------

ExecutorInit ==
  /\ SessionInit
  /\ config \in [tool_mode : ToolModes, compaction : Compactions]
  /\ op = "None"
  /\ pc = "rest"
  /\ cancelled = FALSE
  /\ recovered_context = FALSE
  /\ reason = "None"
  /\ previous = 0
  /\ failure = "None"
  /\ summary = NoSummary
  /\ task = <<>>
  /\ faults = 0

\* The operation's own steps; what it awaits returns once it is cancelled.
OperationStep == (BoundaryStep \/ CutoverStep \/ ActionStep) /\ UNCHANGED config

ExecutorNext ==
  \/ OperationStep
  \/ SenderNext /\ UNCHANGED exec_vars
  \/ /\ \/ \E operation \in {"Run", "Compact"} : StartOperation(operation)
        \/ SettleAbandoned \/ Cancel \/ OperationFails \/ Crash \/ Reopen
     /\ UNCHANGED config

ExecutorSpec == ExecutorInit /\ [][ExecutorNext]_vars

\* The runtime keeps polling an operation, and its tools and calls return once
\* cancelled (run_until_cancelled, and the contract of ToolExecutor).
FairExecutorSpec == ExecutorSpec /\ WF_vars(OperationStep)

-----------------------------------------------------------------------------
(* What an operation promises. *)

\* What a crash leaves of a batch tells the truth about effects: when a batch is
\* drained, however that comes about, a call whose tool was executing is reported
\* Unknown, never as cancelled or done, and a call still waiting to be admitted is
\* never Unknown (tool.rs: "Queued calls have not started and must remain
\* distinguishable from work whose external effects may be unknown").
EffectsReported ==
  [][batch # <<>> /\ batch' = <<>> =>
       \A k \in DOMAIN batch :
         LET reported == history'[Len(history) + k].outcome
         IN  /\ k \in DOMAIN task /\ task[k] = "running" => reported = "Unknown"
             /\ k \notin DOMAIN task \/ task[k] = "waiting" => reported = "Cancelled"]_vars

\* A summary in flight was planned on the active generation: whatever replaces the
\* generation settles or drops the summary first, so none is ever paid for in vain
\* or appended to another context.
SummaryFresh == summary # NoSummary => summary.generation = active

\* Unless something failed, an operation that returned left no call record running,
\* whichever way its model calls, side calls and cutovers ended, and a session in a
\* state that another operation may start from.
OperationClosesCalls ==
  At("rest") /\ faults = 0 =>
    /\ \A i \in DOMAIN model_calls : model_calls[i].status # "Running"
    /\ IsStable(state)

\* A cancelled operation ends: every await of the run loop, of a batch, of a cutover
\* and of the summary beside them gives way to the cancellation, and no path of the
\* loop starts over for ever.  (A run at the bound on model calls is left out.)
CancelledRunEnds == cancelled ~> (op = "None" \/ Len(model_calls) = MaxModelCalls)

=============================================================================

------------------------------ MODULE Scheduler ------------------------------
(***************************************************************************)
(* Who may run a session: SessionSlot's schedule, start, interrupt and     *)
(* finish_operation (application/session/run.rs), the commands that use    *)
(* them (application/session_commands.rs), and the shutdown that refuses   *)
(* new operations and cancels the running ones (application/app.rs).       *)
(*                                                                         *)
(* Tasks are the spawned futures and requests that want the session.  They *)
(* queue on its mutex, which is fair (tokio::sync::Mutex), and register    *)
(* their operation inside Lifecycle::while_open.  Interrupts and the       *)
(* shutdown take neither: an interrupt advances the epoch and then looks   *)
(* at the control, in two steps.  Of the session this module keeps the     *)
(* number of inputs waiting and whether it is mid-step; Session and        *)
(* Executor model the rest.                                                *)
(***************************************************************************)
EXTENDS Naturals, Sequences, FiniteSets

CONSTANTS
  Task,         \* the futures and requests that may want the session
  NoTask,       \* nobody
  Interrupter,  \* the interrupt commands that may be made, each once
  MaxInputs,    \* bound: how many inputs are ever submitted
  MaxFailures   \* bound: how many operations fail to start, to turn or to settle

ASSUME SchedulerAssumption ==
  /\ NoTask \notin Task
  /\ MaxInputs \in Nat
  /\ MaxFailures \in Nat

VARIABLES
  pending,      \* inputs queued and not consumed
  submitted,    \* inputs ever submitted
  owed,         \* submitted inputs whose command has yet to schedule a run
  midstep,      \* the session's state is not stable
  epoch,        \* schedule_epoch
  control,      \* the running operation's: "none", "live" or "cancelled"
  line,         \* the tasks waiting for the session's mutex, first first
  holder,       \* the task that holds the mutex, or NoTask
  gate,         \* the task inside while_open, which holds the closing flag, or NoTask
  task,         \* what each task is doing, for what, and the epoch a scheduled one carries
  interrupter,  \* where each interrupt command is
  closing,      \* "open", "closing" once the flag is set, "stopped" once all is interrupted
  failures      \* failures so far

session_view == <<pending, submitted, owed, midstep>>
stop_vars == <<interrupter, closing>>
vars == <<pending, submitted, owed, midstep, epoch, control, line, holder, gate, task,
          interrupter, closing, failures>>

Kind == {"Scheduled", "Run", "Compact"}
Stage == {"idle", "waiting", "held", "checked", "settled", "registered", "executing", "turned",
          "returned", "finishing"}

Idle == [stage |-> "idle", kind |-> "Run", epoch |-> 0]

\* The task moves on, keeping what it is for.
Becomes(t, stage) == task' = [task EXCEPT ![t].stage = stage]

\* A task that ends or gives up releases the mutex, and the gate if it had it.
Leave(t) ==
  /\ holder' = NoTask
  /\ gate' = IF gate = t THEN NoTask ELSE gate
  /\ task' = [task EXCEPT ![t] = Idle]

-----------------------------------------------------------------------------
(* Wanting the session. *)

\* submit_input: the message is queued, and only then a run scheduled.
Enqueue ==
  /\ closing = "open"
  /\ submitted < MaxInputs
  /\ submitted' = submitted + 1
  /\ pending' = pending + 1
  /\ owed' = owed + 1
  /\ UNCHANGED <<midstep, epoch, control, line, holder, gate, task, stop_vars, failures>>

\* schedule: the epoch is read now, the mutex waited for in a task of its own.
Spawn(t) ==
  /\ task[t].stage = "idle"
  /\ task' = [task EXCEPT ![t] = [stage |-> "waiting", kind |-> "Scheduled", epoch |-> epoch]]
  /\ line' = Append(line, t)

\* Mutant: a run is scheduled only while no operation runs.
SubmitSchedulesWhenIdle(t) ==
  /\ owed > 0
  /\ owed' = owed - 1
  /\ IF control = "none" THEN Spawn(t) ELSE UNCHANGED <<task, line>>
  /\ UNCHANGED <<pending, submitted, midstep, epoch, control, holder, gate, stop_vars, failures>>

SubmitSchedules(t) ==
  /\ owed > 0
  /\ owed' = owed - 1
  /\ Spawn(t)
  /\ UNCHANGED <<pending, submitted, midstep, epoch, control, holder, gate, stop_vars, failures>>

\* start, lock_idle: at once when the mutex is free, refused while an operation runs, and
\* otherwise a wait that may time out.
Start(t, kind) ==
  /\ task[t].stage = "idle"
  /\ \/ /\ holder = NoTask /\ line = <<>>
        /\ holder' = t
        /\ task' = [task EXCEPT ![t] = [stage |-> "held", kind |-> kind, epoch |-> 0]]
        /\ UNCHANGED line
     \/ /\ holder # NoTask \/ line # <<>>
        /\ control = "none"
        /\ line' = Append(line, t)
        /\ task' = [task EXCEPT ![t] = [stage |-> "waiting", kind |-> kind, epoch |-> 0]]
        /\ UNCHANGED holder
  /\ UNCHANGED <<session_view, epoch, control, gate, stop_vars, failures>>

StartTimesOut(t) ==
  /\ task[t].stage = "waiting"
  /\ task[t].kind # "Scheduled"
  /\ \E k \in 1..Len(line) :
       line[k] = t /\ line' = SubSeq(line, 1, k - 1) \o SubSeq(line, k + 1, Len(line))
  /\ task' = [task EXCEPT ![t] = Idle]
  /\ UNCHANGED <<session_view, epoch, control, holder, gate, stop_vars, failures>>

\* The mutex is handed to the first of the line.
Acquire(t) ==
  /\ holder = NoTask
  /\ line # <<>>
  /\ t = Head(line)
  /\ holder' = t
  /\ line' = Tail(line)
  /\ Becomes(t, "held")
  /\ UNCHANGED <<session_view, epoch, control, gate, stop_vars, failures>>

-----------------------------------------------------------------------------
(* Registering an operation. *)

\* A scheduled task goes through while_open first, then looks at its epoch and the queue.
CheckScheduled(t) ==
  /\ task[t].stage = "held"
  /\ task[t].kind = "Scheduled"
  /\ gate = NoTask
  /\ IF closing = "open" /\ task[t].epoch = epoch /\ pending > 0
     THEN gate' = t /\ Becomes(t, "checked") /\ UNCHANGED holder
     ELSE Leave(t)
  /\ UNCHANGED <<session_view, epoch, control, line, stop_vars, failures>>

\* settle_abandoned: a session left mid-step is settled, unless an operation has it.
Settle(t) ==
  /\ \/ task[t].stage = "checked"
     \/ task[t].stage = "held" /\ task[t].kind # "Scheduled"
  /\ IF midstep /\ control # "none"
     THEN Leave(t) /\ UNCHANGED midstep
     ELSE midstep' = FALSE /\ Becomes(t, "settled") /\ UNCHANGED <<holder, gate>>
  /\ UNCHANGED <<pending, submitted, owed, epoch, control, line, stop_vars, failures>>

\* Mutant: the flag is looked at, and not held.
RegisterUngated(t) ==
  /\ task[t].stage = "settled"
  /\ gate' = IF gate = t THEN NoTask ELSE gate
  /\ control' = "live"
  /\ Becomes(t, "registered")
  /\ UNCHANGED <<session_view, epoch, line, holder, stop_vars, failures>>

\* begin_operation registers the control.  A started operation enters while_open for it; a
\* scheduled one is inside already.
Register(t) ==
  /\ task[t].stage = "settled"
  /\ \/ gate = t
     \/ gate = NoTask /\ closing = "open"
  /\ gate' = t
  /\ control' = "live"
  /\ Becomes(t, "registered")
  /\ UNCHANGED <<session_view, epoch, line, holder, stop_vars, failures>>

\* while_open refuses the operation: shutdown has begun.
Refused(t) ==
  /\ task[t].stage = "settled"
  /\ gate = NoTask
  /\ closing # "open"
  /\ Leave(t)
  /\ UNCHANGED <<session_view, epoch, control, line, stop_vars, failures>>

\* The index is saved and the operation runs, outside while_open.
Execute(t) ==
  /\ task[t].stage = "registered"
  /\ gate' = NoTask
  /\ Becomes(t, "executing")
  /\ UNCHANGED <<session_view, epoch, control, line, holder, stop_vars, failures>>

\* persist_index fails: the control is taken back and nothing runs.
BeginFails(t) ==
  /\ task[t].stage = "registered"
  /\ failures < MaxFailures
  /\ failures' = failures + 1
  /\ control' = "none"
  /\ Leave(t)
  /\ UNCHANGED <<session_view, epoch, line, stop_vars>>

-----------------------------------------------------------------------------
(* The operation, as far as its owner sees it. *)

\* A run's turn takes every queued input; a compaction, which is one step, takes none.
Turn(t) ==
  /\ ~ midstep
  /\ control = "live"
  /\ \/ task[t].stage = "executing"
     \/ task[t].stage = "turned" /\ task[t].kind # "Compact" /\ pending > 0
  /\ midstep' = TRUE
  /\ pending' = IF task[t].kind = "Compact" THEN pending ELSE 0
  /\ Becomes(t, "turned")
  /\ UNCHANGED <<submitted, owed, epoch, control, line, holder, gate, stop_vars, failures>>

TurnEnds(t) ==
  /\ task[t].stage = "turned"
  /\ midstep
  /\ midstep' = FALSE
  /\ UNCHANGED <<pending, submitted, owed, epoch, control, line, holder, gate, task, stop_vars,
                 failures>>

\* The operation returns cancelled, or after a turn: complete, or stopped by the model or a
\* tool with input queued meanwhile still waiting.
Returns(t) ==
  /\ ~ midstep
  /\ \/ task[t].stage = "turned"
     \/ task[t].stage = "executing" /\ control = "cancelled"
  /\ Becomes(t, "returned")
  /\ UNCHANGED <<session_view, epoch, control, line, holder, gate, stop_vars, failures>>

\* It fails before its first turn, or the store fails in the middle of one.
OperationFails(t) ==
  /\ task[t].stage \in {"executing", "turned"}
  /\ failures < MaxFailures
  /\ failures' = failures + 1
  /\ Becomes(t, "returned")
  /\ UNCHANGED <<session_view, epoch, control, line, holder, gate, stop_vars>>

\* finish_operation: the control goes first, then a session left mid-step is settled, which
\* fails only if the store fails again; the mutex goes last.
FinishOperation(t) ==
  /\ task[t].stage = "returned"
  /\ control' = "none"
  /\ \/ midstep' = FALSE /\ UNCHANGED failures
     \/ midstep /\ failures < MaxFailures /\ failures' = failures + 1 /\ UNCHANGED midstep
  /\ Becomes(t, "finishing")
  /\ UNCHANGED <<pending, submitted, owed, epoch, line, holder, gate, stop_vars>>

Release(t) ==
  /\ task[t].stage = "finishing"
  /\ Leave(t)
  /\ UNCHANGED <<session_view, epoch, control, line, stop_vars, failures>>

-----------------------------------------------------------------------------
(* The interrupt command and the shutdown. *)

\* interrupt: the epoch first.
AdvanceEpoch(i) ==
  /\ interrupter[i] = "none"
  /\ epoch' = epoch + 1
  /\ interrupter' = [interrupter EXCEPT ![i] = "advanced"]
  /\ UNCHANGED <<session_view, control, line, holder, gate, task, closing, failures>>

Cancelled == IF control = "none" THEN "none" ELSE "cancelled"

\* Mutant: a session left mid-step is settled without its mutex.
CancelControlUnlocked(i) ==
  /\ interrupter[i] = "advanced"
  /\ interrupter' = [interrupter EXCEPT ![i] = "cancelled"]
  /\ control' = Cancelled
  /\ midstep' = FALSE
  /\ UNCHANGED <<pending, submitted, owed, epoch, line, holder, gate, task, closing, failures>>

\* Then the control or, when there is none, a session left mid-step whose mutex is free.
CancelControl(i) ==
  /\ interrupter[i] = "advanced"
  /\ interrupter' = [interrupter EXCEPT ![i] = "cancelled"]
  /\ control' = Cancelled
  /\ midstep' = (midstep /\ ~ (control = "none" /\ holder = NoTask /\ line = <<>>))
  /\ UNCHANGED <<pending, submitted, owed, epoch, line, holder, gate, task, closing, failures>>

\* The command ends by scheduling a run of what is queued.
InterruptSchedules(i, t) ==
  /\ interrupter[i] = "cancelled"
  /\ interrupter' = [interrupter EXCEPT ![i] = "done"]
  /\ Spawn(t)
  /\ UNCHANGED <<session_view, epoch, control, holder, gate, closing, failures>>

\* begin_shutdown: the flag, once no task is inside while_open, then every slot.
Close ==
  /\ closing = "open"
  /\ gate = NoTask
  /\ closing' = "closing"
  /\ UNCHANGED <<session_view, epoch, control, line, holder, gate, task, interrupter, failures>>

InterruptAll ==
  /\ closing = "closing"
  /\ closing' = "stopped"
  /\ epoch' = epoch + 1
  /\ control' = Cancelled
  /\ UNCHANGED <<session_view, line, holder, gate, task, interrupter, failures>>

-----------------------------------------------------------------------------
(* The specification. *)

SchedulerInit ==
  /\ pending = 0 /\ submitted = 0 /\ owed = 0
  /\ midstep = FALSE
  /\ epoch = 0
  /\ control = "none"
  /\ line = <<>>
  /\ holder = NoTask
  /\ gate = NoTask
  /\ task = [t \in Task |-> Idle]
  /\ interrupter = [i \in Interrupter |-> "none"]
  /\ closing = "open"
  /\ failures = 0

\* What a task does by itself once it wants the session.
TaskStep(t) ==
  \/ Acquire(t) \/ CheckScheduled(t) \/ Settle(t) \/ Register(t) \/ Refused(t) \/ Execute(t)
  \/ Turn(t) \/ TurnEnds(t) \/ Returns(t) \/ FinishOperation(t) \/ Release(t)

\* What a command or the shutdown does by itself once it has begun.
CommandStep ==
  \/ \E t \in Task : SubmitSchedules(t)
  \/ \E i \in Interrupter : CancelControl(i) \/ \E t \in Task : InterruptSchedules(i, t)
  \/ InterruptAll

SchedulerNext ==
  \/ Enqueue
  \/ \E t \in Task :
       \/ Start(t, "Run") \/ Start(t, "Compact") \/ StartTimesOut(t)
       \/ TaskStep(t) \/ BeginFails(t) \/ OperationFails(t)
  \/ \E i \in Interrupter : AdvanceEpoch(i)
  \/ CommandStep
  \/ Close

SchedulerSpec == SchedulerInit /\ [][SchedulerNext]_vars

\* Tasks and commands are futures the runtime keeps polling; that a turn ends is the
\* timeouts' and the cancellation's doing.  Nobody has to submit, start, interrupt or shut
\* down.  Scheduling is strongly fair because a task to spawn is always there: only the
\* model's Task is finite.
FairSchedulerSpec ==
  /\ SchedulerSpec
  /\ \A t \in Task : WF_vars(TaskStep(t))
  /\ SF_vars(\E t \in Task : SubmitSchedules(t))
  /\ \A i \in Interrupter : SF_vars(CancelControl(i) \/ \E t \in Task : InterruptSchedules(i, t))
  /\ WF_vars(InterruptAll)

-----------------------------------------------------------------------------
(* What must hold. *)

\* The types of the slot's state.
SchedulerTypeOK ==
  /\ submitted \in 0..MaxInputs /\ pending \in 0..submitted /\ owed \in 0..submitted
  /\ midstep \in BOOLEAN
  /\ epoch \in Nat
  /\ control \in {"none", "live", "cancelled"}
  /\ line \in Seq(Task)
  /\ holder \in Task \cup {NoTask}
  /\ gate \in Task \cup {NoTask}
  /\ task \in [Task -> [stage : Stage, kind : Kind, epoch : Nat]]
  /\ interrupter \in [Interrupter -> {"none", "advanced", "cancelled", "done"}]
  /\ closing \in {"open", "closing", "stopped"}
  /\ failures \in 0..MaxFailures

\* Registered says that an operation's control belongs to the task that holds the session,
\* between begin_operation and finish_operation, whatever failed: a control left behind
\* would have every later request refused as "session is running".
Registered ==
  \A t \in Task :
    (holder = t /\ control # "none")
      <=> task[t].stage \in {"registered", "executing", "turned", "returned"}

\* ShutdownCancelsAll says that once begin_shutdown has interrupted the slot, no operation is
\* running uncancelled and none can begin: while_open closes the window between an
\* operation's registration and the flag.
ShutdownCancelsAll ==
  closing = "stopped" => control # "live"

\* OneOwnerSteps says that while an operation is registered only the task that holds the
\* session ends a step of it: no settlement by another request, a scheduled run or an
\* interrupt, each of which decides on what it read before, cuts into a running operation.
OneOwnerSteps ==
  [][midstep /\ ~ midstep' /\ control # "none" =>
       /\ UNCHANGED interrupter
       /\ \A t \in Task : holder # t => task'[t] = task[t]]_vars

\* InputEventuallyRuns says that input waiting in the queue is consumed unless shutdown
\* begins or the storage fails a run, although any interrupt voids every run scheduled before it: each command
\* schedules after it queued or interrupted, and a run looks at the queue under the mutex.
InputEventuallyRuns ==
  (pending > 0) ~> (pending = 0 \/ closing # "open" \/ failures > 0)

\* Tracked(t): t is on the tracker finish_shutdown waits for, as scheduled runs are from the
\* beginning and started operations once registered.
Tracked(t) ==
  \/ task[t].kind = "Scheduled"
  \/ task[t].stage \notin {"idle", "waiting", "held", "settled"}

\* ShutdownDrains says that the tasks finish_shutdown waits for do all end once shutdown has
\* begun, and stay ended, whatever requests and interrupts still come in.
ShutdownDrains ==
  (closing # "open") ~> [](control = "none" /\ \A t \in Task : ~ Tracked(t))

\* SlotProgress says that nothing the slot was asked for waits for ever: neither queued input
\* nor the shutdown.
SlotProgress == InputEventuallyRuns /\ ShutdownDrains

=============================================================================

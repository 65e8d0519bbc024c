--------------------------- MODULE SchedulerProofs ---------------------------
(***************************************************************************)
(* Proofs about the scheduler, for any number of tasks, interrupts, inputs *)
(* and failures.                                                           *)
(***************************************************************************)
EXTENDS Scheduler, TLAPS

\* What the scheduler keeps of a task.
TaskRecord == [stage : Stage, kind : Kind, epoch : Nat]

\* A task that moves on keeps what it is for, and the other tasks are left alone.
LEMMA BecomesType ==
  ASSUME task \in [Task -> TaskRecord], NEW t \in Task, NEW stage \in Stage, Becomes(t, stage)
  PROVE  /\ task' \in [Task -> TaskRecord]
         /\ task'[t].stage = stage
         /\ \A u \in Task \ {t} : task'[u] = task[u]
<1>1. task[t] \in TaskRecord
  OBVIOUS
<1>2. [task[t] EXCEPT !.stage = stage] \in TaskRecord
  BY <1>1 DEF TaskRecord
<1> QED
  BY <1>1, <1>2 DEF Becomes, TaskRecord

\* So does a task that is given a new record.
LEMMA ReplacedType ==
  ASSUME task \in [Task -> TaskRecord], NEW t \in Task, NEW r \in TaskRecord,
         task' = [task EXCEPT ![t] = r]
  PROVE  /\ task' \in [Task -> TaskRecord]
         /\ task'[t] = r
         /\ \A u \in Task \ {t} : task'[u] = task[u]
OBVIOUS

\* A task that leaves is idle and holds nothing.
LEMMA LeaveType ==
  ASSUME task \in [Task -> TaskRecord], gate \in Task \cup {NoTask}, NEW t \in Task, Leave(t)
  PROVE  /\ task' \in [Task -> TaskRecord]
         /\ task'[t].stage = "idle"
         /\ \A u \in Task \ {t} : task'[u] = task[u]
         /\ holder' = NoTask
         /\ gate' = IF gate = t THEN NoTask ELSE gate
         /\ gate' \in Task \cup {NoTask}
<1>1. Idle \in TaskRecord /\ Idle.stage = "idle"
  BY DEF Idle, TaskRecord, Stage, Kind
<1> QED
  BY <1>1, ReplacedType DEF Leave

\* A task that starts to wait is put at the end of the line.
LEMMA SpawnType ==
  ASSUME task \in [Task -> TaskRecord], line \in Seq(Task), epoch \in Nat, NEW t \in Task, Spawn(t)
  PROVE  /\ task' \in [Task -> TaskRecord]
         /\ line' \in Seq(Task)
         /\ task[t].stage = "idle"
         /\ task'[t].stage = "waiting"
         /\ \A u \in Task \ {t} : task'[u] = task[u]
<1> DEFINE r == [stage |-> "waiting", kind |-> "Scheduled", epoch |-> epoch]
<1>1. r \in TaskRecord /\ r.stage = "waiting"
  BY DEF TaskRecord, Stage, Kind
<1>2. task' = [task EXCEPT ![t] = r] /\ line' = Append(line, t) /\ task[t].stage = "idle"
  BY DEF Spawn
<1> QED
  BY <1>1, <1>2, ReplacedType

-----------------------------------------------------------------------------
(* The inductive invariant. *)

\* The stages in which a task holds the session's mutex, and those in which its control is
\* registered.
Holding == {"held", "checked", "settled", "registered", "executing", "turned", "returned",
            "finishing"}
\* The stages in which a run has a control.
WithControl == {"registered", "executing", "turned", "returned"}

\* A task holds the mutex exactly in the stages it acquires it for, a control needs a
\* holder, and whoever is inside while_open found it open.
LockInv ==
  /\ \A t \in Task : task[t].stage \in Holding <=> holder = t
  /\ holder = NoTask => control = "none"
  /\ gate # NoTask => closing = "open"

\* The inductive invariant.
SchedulerInv == SchedulerTypeOK /\ LockInv /\ Registered /\ ShutdownCancelsAll

\* The invariant holds at first.
LEMMA InitInv == SchedulerInit => SchedulerInv
<1> SUFFICES ASSUME SchedulerInit PROVE SchedulerInv
  OBVIOUS
<1>1. Idle \in TaskRecord /\ Idle.stage = "idle"
  BY DEF Idle, TaskRecord, Stage, Kind
<1>2. SchedulerTypeOK
  <2>1. task \in [Task -> TaskRecord]
    BY <1>1 DEF SchedulerInit
  <2>2. interrupter \in [Interrupter -> {"none", "advanced", "cancelled", "done"}]
    BY DEF SchedulerInit
  <2>3. /\ submitted \in 0..MaxInputs /\ pending \in 0..submitted /\ owed \in 0..submitted
        /\ failures \in 0..MaxFailures
    BY SchedulerAssumption DEF SchedulerInit
  <2>4. /\ line \in Seq(Task) /\ holder \in Task \cup {NoTask} /\ gate \in Task \cup {NoTask}
        /\ epoch \in Nat /\ control \in {"none", "live", "cancelled"}
        /\ closing \in {"open", "closing", "stopped"}
    BY DEF SchedulerInit
  <2>5. midstep \in BOOLEAN
    BY Zenon DEF SchedulerInit
  <2> QED
    BY <2>1, <2>2, <2>3, <2>4, <2>5, Zenon DEF SchedulerTypeOK, TaskRecord
<1>3. \A t \in Task : task[t].stage = "idle"
  BY <1>1 DEF SchedulerInit
<1>4. LockInv /\ Registered /\ ShutdownCancelsAll
  BY <1>3, SchedulerAssumption
  DEF SchedulerInit, LockInv, Registered, ShutdownCancelsAll, Holding
<1> QED
  BY <1>2, <1>4 DEF SchedulerInv

\* The locks, for one task's step: the others are left alone, and what the step leaves of
\* the task, the mutex, the control and the gate agrees.
LEMMA OneTaskMoves ==
  ASSUME SchedulerInv, NEW t \in Task,
         \A u \in Task \ {t} : task'[u] = task[u],
         holder' \in {holder, t, NoTask}, holder \in {t, NoTask} \/ holder' = holder,
         task'[t].stage \in Holding <=> holder' = t,
         task'[t].stage \in WithControl <=> holder' = t /\ control' # "none",
         control' = control \/ holder = t,
         holder' = NoTask => control' = "none",
         gate' # NoTask => closing' = "open",
         closing' = "stopped" => control' # "live"
  PROVE  LockInv' /\ Registered' /\ ShutdownCancelsAll'
<1> USE SchedulerAssumption DEF SchedulerInv
<1>1. LockInv'
  BY DEF LockInv
<1>2. ASSUME NEW u \in Task
      PROVE  (holder' = u /\ control' # "none") <=> task'[u].stage \in WithControl
  <2>1. CASE u = t
    BY <2>1
  <2>2. CASE u # t
    <3>1. (holder = u /\ control # "none") <=> task[u].stage \in WithControl
      BY DEF Registered, WithControl
    <3> QED
      BY <2>2, <3>1
  <2> QED
    BY <2>1, <2>2
<1>3. Registered'
  BY <1>2 DEF Registered, WithControl
<1> QED
  BY <1>1, <1>3 DEF ShutdownCancelsAll

\* A task that starts to wait holds nothing, before and after.
LEMMA WaitingMoves ==
  ASSUME SchedulerInv, NEW t \in Task,
         task[t].stage \in {"idle", "waiting"}, task'[t].stage \in {"idle", "waiting"},
         \A u \in Task \ {t} : task'[u] = task[u],
         UNCHANGED <<holder, control, gate, closing>>
  PROVE  LockInv' /\ Registered' /\ ShutdownCancelsAll'
<1>1. holder # t
  BY DEF SchedulerInv, LockInv, Holding
<1>2. task'[t].stage \notin Holding /\ task'[t].stage \notin WithControl
  BY DEF Holding, WithControl
<1>3. (holder = NoTask => control = "none") /\ (gate # NoTask => closing = "open")
  BY DEF SchedulerInv, LockInv
<1>4. closing = "stopped" => control # "live"
  BY DEF SchedulerInv, ShutdownCancelsAll
<1> QED
  BY <1>1, <1>2, <1>3, <1>4, OneTaskMoves

\* A task that holds the mutex and keeps it.
LEMMA HoldingMoves ==
  ASSUME SchedulerInv, NEW t \in Task,
         task[t].stage \in Holding, task'[t].stage \in Holding,
         \A u \in Task \ {t} : task'[u] = task[u],
         task'[t].stage \in WithControl <=> control' # "none",
         gate' # NoTask => closing = "open",
         closing = "stopped" => control' # "live",
         UNCHANGED <<holder, closing>>
  PROVE  LockInv' /\ Registered' /\ ShutdownCancelsAll'
<1>1. holder = t /\ holder # NoTask
  BY SchedulerAssumption DEF SchedulerInv, LockInv
<1> QED
  BY <1>1, OneTaskMoves

\* A task that leaves without a control.
LEMMA LeavingMoves ==
  ASSUME SchedulerInv, NEW t \in Task, task[t].stage \in Holding, Leave(t), control' = "none",
         UNCHANGED closing
  PROVE  /\ LockInv' /\ Registered' /\ ShutdownCancelsAll'
         /\ task' \in [Task -> TaskRecord]
         /\ holder' = NoTask
         /\ gate' \in Task \cup {NoTask}
<1>1. task \in [Task -> TaskRecord] /\ gate \in Task \cup {NoTask}
  BY DEF SchedulerInv, SchedulerTypeOK, TaskRecord
<1>2. /\ task' \in [Task -> TaskRecord]
      /\ task'[t].stage = "idle"
      /\ \A u \in Task \ {t} : task'[u] = task[u]
      /\ holder' = NoTask
      /\ gate' = IF gate = t THEN NoTask ELSE gate
      /\ gate' \in Task \cup {NoTask}
  BY <1>1, LeaveType
<1>3. holder = t /\ holder' # t
  BY <1>2, SchedulerAssumption DEF SchedulerInv, LockInv
<1>4. task'[t].stage \notin Holding /\ task'[t].stage \notin WithControl
  BY <1>2 DEF Holding, WithControl
<1>5. gate' # NoTask => closing' = "open"
  BY <1>2 DEF SchedulerInv, LockInv
<1> QED
  BY <1>2, <1>3, <1>4, <1>5, OneTaskMoves

-----------------------------------------------------------------------------
(* Every step keeps it. *)

\* What the commands and the shutdown do.
LEMMA CommandKeepsInv ==
  ASSUME SchedulerInv,
         Enqueue \/ CommandStep \/ Close \/ \E i \in Interrupter : AdvanceEpoch(i)
  PROVE  SchedulerInv'
<1>0. SchedulerTypeOK /\ LockInv /\ Registered /\ ShutdownCancelsAll /\ task \in [Task -> TaskRecord]
  BY DEF SchedulerInv, SchedulerTypeOK, TaskRecord
<1> USE SchedulerAssumption DEF session_view, stop_vars
<1>1. CASE Enqueue
  <2>1. SchedulerTypeOK'
    BY <1>0, <1>1 DEF Enqueue, SchedulerTypeOK
  <2> QED
    BY <1>0, <1>1, <2>1
    DEF Enqueue, SchedulerInv, LockInv, Registered, ShutdownCancelsAll
<1>2. CASE \E t \in Task : SubmitSchedules(t)
  <2>1. PICK t \in Task : SubmitSchedules(t)
    BY <1>2
  <2>2. /\ task' \in [Task -> TaskRecord] /\ line' \in Seq(Task)
        /\ task[t].stage = "idle" /\ task'[t].stage = "waiting"
        /\ \A u \in Task \ {t} : task'[u] = task[u]
    BY <1>0, <2>1, SpawnType DEF SubmitSchedules, SchedulerTypeOK
  <2>3. SchedulerTypeOK'
    BY <1>0, <2>1, <2>2 DEF SubmitSchedules, SchedulerTypeOK, TaskRecord
  <2>4. UNCHANGED <<holder, control, gate, closing>>
    BY <2>1 DEF SubmitSchedules
  <2> QED
    BY <2>2, <2>3, <2>4, WaitingMoves DEF SchedulerInv
<1>3. CASE \E i \in Interrupter : CancelControl(i)
  <2>1. PICK i \in Interrupter : CancelControl(i)
    BY <1>3
  <2>2. midstep' \in BOOLEAN
    BY <2>1, Zenon DEF CancelControl
  <2>3. SchedulerTypeOK'
    BY <1>0, <2>1, <2>2 DEF CancelControl, Cancelled, SchedulerTypeOK
  <2> QED
    BY <1>0, <2>1, <2>3
    DEF CancelControl, Cancelled, SchedulerInv, LockInv, Registered, ShutdownCancelsAll
<1>4. CASE \E i \in Interrupter : \E t \in Task : InterruptSchedules(i, t)
  <2>1. PICK i \in Interrupter, t \in Task : InterruptSchedules(i, t)
    BY <1>4
  <2>2. /\ task' \in [Task -> TaskRecord] /\ line' \in Seq(Task)
        /\ task[t].stage = "idle" /\ task'[t].stage = "waiting"
        /\ \A u \in Task \ {t} : task'[u] = task[u]
    BY <1>0, <2>1, SpawnType DEF InterruptSchedules, SchedulerTypeOK
  <2>3. SchedulerTypeOK'
    BY <1>0, <2>1, <2>2 DEF InterruptSchedules, SchedulerTypeOK, TaskRecord
  <2>4. UNCHANGED <<holder, control, gate, closing>>
    BY <2>1 DEF InterruptSchedules
  <2> QED
    BY <2>2, <2>3, <2>4, WaitingMoves DEF SchedulerInv
<1>5. CASE InterruptAll
  <2>1. SchedulerTypeOK'
    BY <1>0, <1>5 DEF InterruptAll, Cancelled, SchedulerTypeOK
  <2> QED
    BY <1>0, <1>5, <2>1
    DEF InterruptAll, Cancelled, SchedulerInv, SchedulerTypeOK, LockInv, Registered,
        ShutdownCancelsAll
<1>6. CASE Close
  <2>1. SchedulerTypeOK'
    BY <1>0, <1>6 DEF Close, SchedulerTypeOK
  <2> QED
    BY <1>0, <1>6, <2>1 DEF Close, SchedulerInv, LockInv, Registered, ShutdownCancelsAll
<1>7. CASE \E i \in Interrupter : AdvanceEpoch(i)
  <2>1. SchedulerTypeOK'
    BY <1>0, <1>7 DEF AdvanceEpoch, SchedulerTypeOK
  <2> QED
    BY <1>0, <1>7, <2>1 DEF AdvanceEpoch, SchedulerInv, LockInv, Registered, ShutdownCancelsAll
<1> QED
  BY <1>1, <1>2, <1>3, <1>4, <1>5, <1>6, <1>7 DEF CommandStep

\* A request that comes, one that gives up waiting, and the mutex handed over.
LEMMA RequestKeepsInv ==
  ASSUME SchedulerInv, NEW t \in Task,
         Start(t, "Run") \/ Start(t, "Compact") \/ StartTimesOut(t) \/ Acquire(t)
  PROVE  SchedulerInv'
<1>0. SchedulerTypeOK /\ LockInv /\ ShutdownCancelsAll /\ task \in [Task -> TaskRecord]
  BY DEF SchedulerInv, SchedulerTypeOK, TaskRecord
<1> USE SchedulerAssumption DEF session_view, stop_vars
<1>a. ASSUME holder = NoTask, holder' = t, task'[t].stage = "held",
             \A u \in Task \ {t} : task'[u] = task[u], UNCHANGED <<control, gate, closing>>
      PROVE  LockInv' /\ Registered' /\ ShutdownCancelsAll'
  <2>1. control = "none" /\ t # NoTask
    BY <1>0, <1>a DEF LockInv
  <2>2. task'[t].stage \in Holding /\ task'[t].stage \notin WithControl
    BY <1>a DEF Holding, WithControl
  <2>3. gate' # NoTask => closing' = "open"
    BY <1>0, <1>a DEF LockInv
  <2> QED
    BY <1>a, <2>1, <2>2, <2>3, OneTaskMoves
<1>1. ASSUME NEW kind \in {"Run", "Compact"}, Start(t, kind)
      PROVE  SchedulerInv'
  <2> DEFINE r(stage) == [stage |-> stage, kind |-> kind, epoch |-> 0]
  <2>1. \A stage \in {"held", "waiting"} : r(stage) \in TaskRecord /\ r(stage).stage = stage
    BY DEF TaskRecord, Stage, Kind
  <2> HIDE DEF r
  <2>2. CASE holder = NoTask /\ line = <<>> /\ holder' = t /\ task' = [task EXCEPT ![t] = r("held")]
              /\ UNCHANGED line
    <3>1. /\ task' \in [Task -> TaskRecord]
          /\ task'[t].stage = "held"
          /\ \A u \in Task \ {t} : task'[u] = task[u]
      BY <1>0, <2>1, <2>2, ReplacedType
    <3>2. SchedulerTypeOK'
      BY <1>0, <1>1, <2>2, <3>1 DEF Start, SchedulerTypeOK, TaskRecord
    <3>3. UNCHANGED <<control, gate, closing>>
      BY <1>1 DEF Start
    <3> QED
      BY <1>a, <2>2, <3>1, <3>2, <3>3 DEF SchedulerInv
  <2>3. CASE line' = Append(line, t) /\ task' = [task EXCEPT ![t] = r("waiting")] /\ UNCHANGED holder
    <3>1. /\ task' \in [Task -> TaskRecord]
          /\ task'[t].stage = "waiting"
          /\ \A u \in Task \ {t} : task'[u] = task[u]
      BY <1>0, <2>1, <2>3, ReplacedType
    <3>2. SchedulerTypeOK'
      BY <1>0, <1>1, <2>3, <3>1 DEF Start, SchedulerTypeOK, TaskRecord
    <3>3. task[t].stage = "idle" /\ UNCHANGED <<holder, control, gate, closing>>
      BY <1>1, <2>3 DEF Start
    <3> QED
      BY <3>1, <3>2, <3>3, WaitingMoves DEF SchedulerInv
  <2> QED
    BY <1>1, <2>2, <2>3 DEF Start, r
<1>2. CASE StartTimesOut(t)
  <2>1. Idle \in TaskRecord /\ Idle.stage = "idle"
    BY DEF Idle, TaskRecord, Stage, Kind
  <2>2. /\ task' \in [Task -> TaskRecord]
        /\ task'[t].stage = "idle"
        /\ \A u \in Task \ {t} : task'[u] = task[u]
    BY <1>0, <1>2, <2>1, ReplacedType DEF StartTimesOut
  <2>3. line' \in Seq(Task)
    <3>1. PICK k \in 1..Len(line) :
                 line' = SubSeq(line, 1, k - 1) \o SubSeq(line, k + 1, Len(line))
      BY <1>2 DEF StartTimesOut
    <3> QED
      BY <1>0, <3>1 DEF SchedulerTypeOK
  <2>4. SchedulerTypeOK'
    BY <1>0, <1>2, <2>2, <2>3 DEF StartTimesOut, SchedulerTypeOK, TaskRecord
  <2>5. task[t].stage = "waiting" /\ UNCHANGED <<holder, control, gate, closing>>
    BY <1>2 DEF StartTimesOut
  <2> QED
    BY <2>2, <2>4, <2>5, WaitingMoves DEF SchedulerInv
<1>3. CASE Acquire(t)
  <2>1. /\ task' \in [Task -> TaskRecord]
        /\ task'[t].stage = "held"
        /\ \A u \in Task \ {t} : task'[u] = task[u]
    BY <1>0, <1>3, BecomesType DEF Acquire, Stage
  <2>2. line' \in Seq(Task)
    BY <1>0, <1>3 DEF Acquire, SchedulerTypeOK
  <2>3. SchedulerTypeOK'
    BY <1>0, <1>3, <2>1, <2>2 DEF Acquire, SchedulerTypeOK, TaskRecord
  <2>4. holder = NoTask /\ holder' = t /\ UNCHANGED <<control, gate, closing>>
    BY <1>3 DEF Acquire
  <2> QED
    BY <1>a, <2>1, <2>3, <2>4 DEF SchedulerInv
<1> QED
  BY <1>1, <1>2, <1>3

\* What a task does with the mutex in hand and keeps it.
LEMMA HolderKeepsInv ==
  ASSUME SchedulerInv, NEW t \in Task,
         \/ CheckScheduled(t) /\ ~ Leave(t)
         \/ Settle(t) /\ ~ Leave(t)
         \/ Register(t) \/ Execute(t) \/ Turn(t) \/ TurnEnds(t) \/ Returns(t)
         \/ OperationFails(t) \/ FinishOperation(t)
  PROVE  SchedulerInv'
<1> DEFINE Moves(stage) == /\ task' \in [Task -> TaskRecord]
                           /\ task'[t].stage = stage
                           /\ \A u \in Task \ {t} : task'[u] = task[u]
<1>0. /\ SchedulerTypeOK /\ task \in [Task -> TaskRecord]
      /\ task[t].stage \in WithControl <=> holder = t /\ control # "none"
      /\ task[t].stage \in Holding <=> holder = t
      /\ gate # NoTask => closing = "open"
      /\ closing = "stopped" => control # "live"
  BY DEF SchedulerInv, SchedulerTypeOK, TaskRecord, LockInv, Registered, ShutdownCancelsAll,
         WithControl
<1>a. ASSUME NEW stage \in Stage, Becomes(t, stage)
      PROVE  Moves(stage)
  BY <1>0, <1>a, BecomesType
<1> HIDE DEF Moves
<1> USE SchedulerAssumption DEF session_view, stop_vars
<1>1. CASE CheckScheduled(t) /\ ~ Leave(t)
  <2>1. /\ task[t].stage = "held" /\ closing = "open" /\ gate' = t /\ Becomes(t, "checked")
        /\ UNCHANGED <<session_view, epoch, control, line, holder, stop_vars, failures>>
    BY <1>1 DEF CheckScheduled
  <2>2. Moves("checked")
    BY <1>a, <2>1 DEF Stage
  <2>3. SchedulerTypeOK'
    BY <1>0, <2>1, <2>2 DEF SchedulerTypeOK, TaskRecord, Moves
  <2> QED
    BY <1>0, <2>1, <2>2, <2>3, HoldingMoves DEF SchedulerInv, Moves, Holding, WithControl
<1>2. CASE Settle(t) /\ ~ Leave(t)
  <2>1. /\ task[t].stage \in {"checked", "held"} /\ midstep' = FALSE /\ Becomes(t, "settled")
        /\ UNCHANGED <<pending, submitted, owed, epoch, control, line, holder, gate, stop_vars,
                       failures>>
    BY <1>2 DEF Settle
  <2>2. Moves("settled")
    BY <1>a, <2>1 DEF Stage
  <2>3. midstep' \in BOOLEAN
    BY <2>1, Zenon
  <2>4. SchedulerTypeOK'
    BY <1>0, <2>1, <2>2, <2>3 DEF SchedulerTypeOK, TaskRecord, Moves
  <2> QED
    BY <1>0, <2>1, <2>2, <2>4, HoldingMoves DEF SchedulerInv, Moves, Holding, WithControl
<1>3. CASE Register(t)
  <2>1. Moves("registered") /\ task[t].stage = "settled"
    BY <1>3, <1>a DEF Register, Stage
  <2>2. SchedulerTypeOK'
    BY <1>0, <1>3, <2>1 DEF Register, SchedulerTypeOK, TaskRecord, Moves
  <2>3. closing = "open" /\ control' = "live" /\ UNCHANGED <<holder, closing>>
    BY <1>0, <1>3 DEF Register
  <2> QED
    BY <2>1, <2>2, <2>3, HoldingMoves DEF SchedulerInv, Moves, Holding, WithControl
<1>4. CASE Execute(t)
  <2>1. Moves("executing") /\ task[t].stage = "registered"
    BY <1>4, <1>a DEF Execute, Stage
  <2>2. SchedulerTypeOK'
    BY <1>0, <1>4, <2>1 DEF Execute, SchedulerTypeOK, TaskRecord, Moves
  <2>3. gate' = NoTask /\ UNCHANGED <<control, holder, closing>>
    BY <1>4 DEF Execute
  <2> QED
    BY <1>0, <2>1, <2>2, <2>3, HoldingMoves DEF SchedulerInv, Moves, Holding, WithControl
<1>5. CASE Turn(t)
  <2>1. Moves("turned") /\ task[t].stage \in {"executing", "turned"}
    BY <1>5, <1>a DEF Turn, Stage
  <2>2. midstep' \in BOOLEAN
    BY <1>5, Zenon DEF Turn
  <2>3. SchedulerTypeOK'
    BY <1>0, <1>5, <2>1, <2>2 DEF Turn, SchedulerTypeOK, TaskRecord, Moves
  <2>4. UNCHANGED <<control, gate, holder, closing>>
    BY <1>5 DEF Turn
  <2> QED
    BY <1>0, <2>1, <2>3, <2>4, HoldingMoves DEF SchedulerInv, Moves, Holding, WithControl
<1>6. CASE TurnEnds(t)
  <2>1. midstep' \in BOOLEAN
    BY <1>6, Zenon DEF TurnEnds
  <2>2. SchedulerTypeOK'
    BY <1>0, <1>6, <2>1 DEF TurnEnds, SchedulerTypeOK
  <2>3. task[t].stage = "turned" /\ UNCHANGED <<task, control, gate, holder, closing>>
    BY <1>6 DEF TurnEnds
  <2> QED
    BY <1>0, <2>2, <2>3, HoldingMoves DEF SchedulerInv, Holding, WithControl
<1>7. CASE Returns(t) \/ OperationFails(t)
  <2>1. Moves("returned") /\ task[t].stage \in {"executing", "turned"}
    BY <1>7, <1>a DEF Returns, OperationFails, Stage
  <2>2. SchedulerTypeOK'
    <3>1. CASE Returns(t)
      BY <1>0, <3>1, <2>1 DEF Returns, SchedulerTypeOK, TaskRecord, Moves
    <3>2. CASE OperationFails(t)
      BY <1>0, <3>2, <2>1 DEF OperationFails, SchedulerTypeOK, TaskRecord, Moves
    <3> QED
      BY <1>7, <3>1, <3>2
  <2>3. UNCHANGED <<control, gate, holder, closing>>
    BY <1>7 DEF Returns, OperationFails
  <2> QED
    BY <1>0, <2>1, <2>2, <2>3, HoldingMoves DEF SchedulerInv, Moves, Holding, WithControl
<1>8. CASE FinishOperation(t)
  <2>1. Moves("finishing") /\ task[t].stage = "returned"
    BY <1>8, <1>a DEF FinishOperation, Stage
  <2>2. midstep' \in BOOLEAN
    <3>1. midstep \in BOOLEAN
      BY <1>0 DEF SchedulerTypeOK
    <3> QED
      BY <1>8, <3>1, Zenon DEF FinishOperation
  <2>3. SchedulerTypeOK'
    <3>1. failures' \in 0..MaxFailures
      BY <1>0, <1>8 DEF FinishOperation, SchedulerTypeOK
    <3> QED
      BY <1>0, <1>8, <2>1, <2>2, <3>1 DEF FinishOperation, SchedulerTypeOK, TaskRecord, Moves
  <2>4. control' = "none" /\ UNCHANGED <<gate, holder, closing>>
    BY <1>8 DEF FinishOperation
  <2> QED
    BY <1>0, <2>1, <2>3, <2>4, HoldingMoves DEF SchedulerInv, Moves, Holding, WithControl
<1> QED
  BY <1>1, <1>2, <1>3, <1>4, <1>5, <1>6, <1>7, <1>8

\* A task that leaves, for every reason it has to.
LEMMA LeavingKeepsInv ==
  ASSUME SchedulerInv, NEW t \in Task,
         \/ CheckScheduled(t) /\ Leave(t)
         \/ Settle(t) /\ Leave(t)
         \/ Refused(t) \/ BeginFails(t) \/ Release(t)
  PROVE  SchedulerInv'
<1>0. /\ SchedulerTypeOK
      /\ task[t].stage \in WithControl <=> holder = t /\ control # "none"
      /\ task[t].stage \in Holding <=> holder = t
  BY DEF SchedulerInv, LockInv, Registered, WithControl
<1>1. /\ task[t].stage \in Holding /\ Leave(t) /\ control' = "none" /\ UNCHANGED closing
      /\ failures' \in 0..MaxFailures
      /\ midstep' \in BOOLEAN
      /\ UNCHANGED <<pending, submitted, owed, epoch, line, interrupter>>
  <2> USE DEF Holding, WithControl, SchedulerTypeOK, session_view, stop_vars
  <2>1. CASE CheckScheduled(t) /\ Leave(t)
    BY <1>0, <2>1 DEF CheckScheduled
  <2>2. CASE Settle(t) /\ Leave(t)
    <3>1. midstep' \in BOOLEAN
      <4>1. midstep \in BOOLEAN
        BY <1>0
      <4> QED
        BY <2>2, <4>1, Zenon DEF Settle
    <3> QED
      BY <1>0, <2>2, <3>1 DEF Settle
  <2>3. CASE Refused(t) \/ Release(t)
    BY <1>0, <2>3 DEF Refused, Release
  <2>4. CASE BeginFails(t)
    BY <1>0, <2>4, SchedulerAssumption DEF BeginFails
  <2> QED
    BY <2>1, <2>2, <2>3, <2>4
<1>2. /\ LockInv' /\ Registered' /\ ShutdownCancelsAll'
      /\ task' \in [Task -> TaskRecord] /\ holder' = NoTask /\ gate' \in Task \cup {NoTask}
  BY <1>1, LeavingMoves
<1>3. SchedulerTypeOK'
  BY <1>0, <1>1, <1>2 DEF SchedulerTypeOK, TaskRecord
<1> QED
  BY <1>2, <1>3 DEF SchedulerInv

-----------------------------------------------------------------------------
(* The theorems. *)

\* The slot's invariant: of all the tasks and requests that want the session one holds it,
\* and its control is registered exactly while its operation runs.
THEOREM SchedulerSafe == SchedulerSpec => []SchedulerInv
<1>1. SchedulerInit => SchedulerInv
  BY InitInv
<1>2. SchedulerInv /\ [SchedulerNext]_vars => SchedulerInv'
  <2> SUFFICES ASSUME SchedulerInv, [SchedulerNext]_vars
               PROVE  SchedulerInv'
    OBVIOUS
  <2>1. CASE Enqueue \/ CommandStep \/ Close \/ \E i \in Interrupter : AdvanceEpoch(i)
    BY <2>1, CommandKeepsInv
  <2>2. ASSUME NEW t \in Task,
               \/ Start(t, "Run") \/ Start(t, "Compact") \/ StartTimesOut(t)
               \/ TaskStep(t) \/ BeginFails(t) \/ OperationFails(t)
        PROVE  SchedulerInv'
    BY <2>2, RequestKeepsInv, HolderKeepsInv, LeavingKeepsInv DEF TaskStep
  <2>3. CASE UNCHANGED vars
    BY <2>3
    DEF vars, SchedulerInv, SchedulerTypeOK, LockInv, Registered, ShutdownCancelsAll, session_view,
        stop_vars
  <2> QED
    BY <2>1, <2>2, <2>3 DEF SchedulerNext
<1> QED
  BY <1>1, <1>2, PTL DEF SchedulerSpec

\* A control is never left behind, and never without the session's mutex.
THEOREM ControlIsTheHolders == SchedulerSpec => []Registered
<1>1. SchedulerInv => Registered
  BY DEF SchedulerInv
<1> QED
  BY <1>1, SchedulerSafe, PTL

\* After the shutdown's sweep nothing runs uncancelled, however many tasks were registering.
THEOREM ShutdownSweepsAll == SchedulerSpec => []ShutdownCancelsAll
<1>1. SchedulerInv => ShutdownCancelsAll
  BY DEF SchedulerInv
<1> QED
  BY <1>1, SchedulerSafe, PTL

\* Only the holder ends a step of a registered operation, whoever else is waiting, settling or
\* interrupting.
THEOREM OnlyTheOwnerSteps == SchedulerSpec => OneOwnerSteps
<1> DEFINE Owned == midstep /\ ~ midstep' /\ control # "none" =>
                      /\ UNCHANGED interrupter
                      /\ \A t \in Task : holder # t => task'[t] = task[t]
<1>1. SchedulerInv /\ [SchedulerNext]_vars => [Owned]_vars
  <2> SUFFICES ASSUME SchedulerInv, SchedulerNext, midstep, ~ midstep', control # "none"
               PROVE  /\ UNCHANGED interrupter
                      /\ \A t \in Task : holder # t => task'[t] = task[t]
    OBVIOUS
  <2>1. CASE Enqueue \/ CommandStep \/ Close \/ \E i \in Interrupter : AdvanceEpoch(i)
    BY <2>1, Zenon
    DEF Enqueue, CommandStep, Close, AdvanceEpoch, SubmitSchedules, CancelControl,
        InterruptSchedules, InterruptAll, session_view
  <2>2. ASSUME NEW t \in Task,
               \/ Start(t, "Run") \/ Start(t, "Compact") \/ StartTimesOut(t)
               \/ TaskStep(t) \/ BeginFails(t) \/ OperationFails(t)
        PROVE  /\ UNCHANGED interrupter
               /\ \A u \in Task : holder # u => task'[u] = task[u]
    <3>1. TurnEnds(t) \/ FinishOperation(t)
      BY <2>2, Zenon
      DEF Start, StartTimesOut, TaskStep, BeginFails, OperationFails, Acquire, CheckScheduled,
          Settle, Register, Refused, Execute, Turn, Returns, Release, session_view
    <3>2. CASE TurnEnds(t)
      BY <3>2 DEF TurnEnds, stop_vars
    <3>3. CASE FinishOperation(t)
      <4>1. task[t].stage = "returned" /\ Becomes(t, "finishing") /\ UNCHANGED interrupter
        BY <3>3 DEF FinishOperation, stop_vars
      <4>2. holder = t
        BY <4>1 DEF SchedulerInv, LockInv, Holding
      <4>3. \A u \in Task \ {t} : task'[u] = task[u]
        <5>1. task \in [Task -> TaskRecord]
          BY DEF SchedulerInv, SchedulerTypeOK, TaskRecord
        <5> QED
          BY <4>1, <5>1, BecomesType DEF Stage
      <4> QED
        BY <4>1, <4>2, <4>3
    <3> QED
      BY <3>1, <3>2, <3>3
  <2> QED
    BY <2>1, <2>2 DEF SchedulerNext
<1> QED
  BY <1>1, SchedulerSafe, PTL DEF SchedulerSpec, OneOwnerSteps

=============================================================================

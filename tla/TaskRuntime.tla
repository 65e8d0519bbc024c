------------------------------ MODULE TaskRuntime ------------------------------
(***************************************************************************)
(* The shell commands of a session (src/task): the registry that starts    *)
(* them, the supervisor that waits for each process and kills its group,   *)
(* and the record of a task on disk.  A command's output, its edits and    *)
(* its stdin are left out: they change nothing of what is modelled.        *)
(*                                                                         *)
(* The record of a task is written by several futures (its supervisor, the *)
(* call that started it, a request of the user), each under the task's     *)
(* record lock.  A write that holds the lock to its end is one step here;  *)
(* the supervisor's last one is two, since it publishes the status it has  *)
(* saved before it lets go of the lock.                                    *)
(***************************************************************************)
EXTENDS Naturals, FiniteSets

CONSTANTS
  Task,         \* the identifiers of the tasks
  MaxRunning,   \* how many may run at once (16)
  MaxFaults     \* how many writes, reads and signals fail, of those that may

ASSUME TaskAssumption == MaxRunning \in Nat \ {0} /\ MaxFaults \in Nat

VARIABLES
  closed,       \* Registry.closed
  registered,   \* the keys of Registry.executions
  task,         \* the Execution, its supervisor, its process and its record
  faults        \* the failures so far

task_vars == <<closed, registered, task, faults>>

Ended == {"exited", "killed", "interrupted", "unknown"}

\* status, background and kills are fields of Execution; killed, grace and broken are local to
\* supervise.  The process is up until its shell exits, and then lingers while descendants live.
Execution ==
  [status : Ended \cup {"none", "running"},
   background : BOOLEAN,
   kills : SUBSET {"graceful", "force"},
   process : {"none", "up", "lingering", "dead"},
   supervisor : {"none", "opening", "waiting", "draining", "publishing", "done"},
   killed : BOOLEAN, grace : BOOLEAN, broken : BOOLEAN,
   record : Ended \cup {"absent", "running", "removed"}]

Unborn ==
  [status |-> "none", background |-> FALSE, kills |-> {}, process |-> "none",
   supervisor |-> "none", killed |-> FALSE, grace |-> FALSE, broken |-> FALSE,
   record |-> "absent"]

TaskInit ==
  /\ closed = FALSE
  /\ registered = {}
  /\ task = [t \in Task |-> Unborn]
  /\ faults = 0

-----------------------------------------------------------------------------
(* What the operations are made of. *)

\* get_snapshot().status
Running(t) == task[t].status = "running"

Alive(t) == task[t].process \in {"up", "lingering"}

\* Something that may fail does.
Fault == faults < MaxFaults /\ faults' = faults + 1

NoFault == UNCHANGED faults

\* Execution.kills.send: nobody reads the mailbox once the supervisor has left its loop.
Sent(r, mode) ==
  IF r.supervisor \in {"opening", "waiting"} THEN [r EXCEPT !.kills = @ \cup {mode}] ELSE r

\* Execution::terminate, up to its wait for the exit.
Terminated(r, mode) == IF r.status = "running" THEN Sent(r, mode) ELSE r

\* Mutant: a call that goes away leaves its command running.
AbandonedRunning(r, returned) == r

\* Foreground::drop
Abandoned(r, returned) == IF returned \/ r.background THEN r ELSE Sent(r, "force")

\* Mutant: a writer does not wait for the record lock.
UnlockedAlways(t) == TRUE

\* record_lock is free.
Unlocked(t) == task[t].supervisor # "publishing"

\* Execution::persist: under the record lock, the record becomes what the task is now.  A task
\* whose directory was removed has nowhere to write to.
Persisted(r) == IF r.record = "removed" THEN r ELSE [r EXCEPT !.record = r.status]

CanPersist(t) == Unlocked(t) /\ task[t].record # "removed"

\* What uses a task's directory fails once it is gone, and may fail before.
DirectoryFails(t) == IF task[t].record = "removed" THEN NoFault ELSE Fault

-----------------------------------------------------------------------------
(* The registry. *)

\* spawn: under the registry lock, so that a shutdown finds every process it has to stop.
MaySpawn == ~ closed /\ Cardinality({t \in registered : Running(t)}) < MaxRunning

Spawned(t) ==
  /\ registered' = registered \cup {t}
  /\ task' = [task EXCEPT ![t].status = "running", ![t].process = "up",
                          ![t].supervisor = "opening"]

\* TaskManager::remove: the record and the capture go; a removal that fails part of the way puts
\* the task back.
RemoveTask(t) ==
  /\ t \in registered
  /\ ~ Running(t)
  /\ \/ /\ registered' = registered \ {t}
        /\ task' = [task EXCEPT ![t].record = "removed"]
        /\ NoFault
     \/ /\ Fault
        /\ task' \in {task, [task EXCEPT ![t].record = "removed"]}
        /\ UNCHANGED registered
  /\ UNCHANGED closed

\* TaskManager::shutdown, up to its wait for every exit.
CloseRegistry ==
  /\ closed' = TRUE
  /\ task' = [t \in Task |-> IF t \in registered THEN Terminated(task[t], "force") ELSE task[t]]
  /\ UNCHANGED <<registered, faults>>

AllEnded == \A t \in registered : ~ Running(t)

-----------------------------------------------------------------------------
(* process::supervise *)

\* The shell exits by itself, or after a signal it may as well have ignored; its descendants may
\* outlive it.
ShellExits(t) ==
  /\ task[t].process = "up"
  /\ \E left \in {"lingering", "dead"} : task' = [task EXCEPT ![t].process = left]
  /\ UNCHANGED <<closed, registered, faults>>

\* The first record; a failure is only logged.
OpenRecord(t) ==
  /\ task[t].supervisor = "opening"
  /\ \/ task' = [task EXCEPT ![t] = [Persisted(@) EXCEPT !.supervisor = "waiting"]] /\ NoFault
     \/ task' = [task EXCEPT ![t].supervisor = "waiting"] /\ Fault
  /\ UNCHANGED <<closed, registered>>

\* ProcessTree::signal cannot reach the group: the loop ends with an error, the shell itself is
\* killed, and what it started is left.
SignalFails(t) ==
  /\ Fault
  /\ \E left \in {"lingering", "dead"} :
       task' = [task EXCEPT ![t].supervisor = "draining", ![t].broken = TRUE, ![t].killed = TRUE,
                            ![t].process = IF @ = "up" THEN left ELSE @]

\* A kill request: a forced one kills the group at once, the other gives it time.
ReceiveKill(t) ==
  /\ task[t].supervisor = "waiting"
  /\ \E mode \in task[t].kills :
       \/ /\ task' = [task EXCEPT ![t].kills = @ \ {mode},
                                  ![t].killed = TRUE,
                                  ![t].process = IF mode = "force" THEN "dead" ELSE @,
                                  ![t].grace = (mode # "force")]
          /\ NoFault
       \/ SignalFails(t)
  /\ UNCHANGED <<closed, registered>>

GraceEnds(t) ==
  /\ task[t].supervisor = "waiting"
  /\ task[t].grace
  /\ \/ task' = [task EXCEPT ![t].process = "dead", ![t].grace = FALSE] /\ NoFault
     \/ SignalFails(t)
  /\ UNCHANGED <<closed, registered>>

\* capture_output gives up (the disk, the 256 MiB): the group is to be killed.
CaptureFails(t) ==
  /\ task[t].supervisor \in {"opening", "waiting"}
  /\ Fault
  /\ task' = [task EXCEPT ![t] = Sent(@, "force")]
  /\ UNCHANGED <<closed, registered>>

\* child.wait returns, and the rest of its group is killed.
ChildExits(t) ==
  /\ task[t].supervisor = "waiting"
  /\ task[t].process \in {"lingering", "dead"}
  /\ \/ task' = [task EXCEPT ![t].supervisor = "draining", ![t].process = "dead"] /\ NoFault
     \/ task' = [task EXCEPT ![t].supervisor = "draining", ![t].broken = TRUE] /\ Fault
  /\ UNCHANGED <<closed, registered>>

Verdict(r) == IF r.broken THEN "unknown" ELSE IF r.killed THEN "killed" ELSE "exited"

\* The output is drained and the edits compared; under the record lock the verdict is saved (a
\* failure is only logged) ...
FinalSave(t) ==
  /\ task[t].supervisor = "draining"
  /\ \/ /\ task' = [task EXCEPT ![t].supervisor = "publishing", ![t].record = Verdict(task[t])]
        /\ NoFault
     \/ task' = [task EXCEPT ![t].supervisor = "publishing"] /\ Fault
  /\ UNCHANGED <<closed, registered>>

\* ... and then published.
Publish(t) ==
  /\ task[t].supervisor = "publishing"
  /\ task' = [task EXCEPT ![t].supervisor = "done", ![t].status = Verdict(task[t]),
                          ![t].kills = {}, ![t].grace = FALSE,
                          ![t].killed = FALSE, ![t].broken = FALSE]
  /\ UNCHANGED <<closed, registered, faults>>

\* The selection picks any branch that is ready, so that no flood of kill requests keeps it from
\* the exit, nor from the end of the grace.
SupervisorStep(t) ==
  OpenRecord(t) \/ ChildExits(t) \/ FinalSave(t) \/ Publish(t)

-----------------------------------------------------------------------------
(* The server dies, and TaskManager::new reads what it left. *)

\* A process that was up stays so, without anyone to watch it.
Lost(r) ==
  [Unborn EXCEPT !.process = r.process, !.record = r.record]

TasksLost ==
  /\ closed' = FALSE
  /\ registered' = {}
  /\ task' = [t \in Task |-> Lost(task[t])]

Recorded == {t \in Task : task[t].record \notin {"absent", "removed"}}

\* A task recorded as running is settled as interrupted, never run again.
Restored(r) ==
  LET settled == IF r.record = "running" THEN "interrupted" ELSE r.record
  IN [r EXCEPT !.status = settled, !.record = settled, !.background = TRUE]

TasksRestored ==
  /\ registered' = Recorded
  /\ task' = [t \in Task |-> IF t \in Recorded THEN Restored(task[t]) ELSE task[t]]
  /\ UNCHANGED <<closed, faults>>

=============================================================================

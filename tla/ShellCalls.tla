------------------------------ MODULE ShellCalls -------------------------------
(***************************************************************************)
(* The calls that start shell commands and wait for them, and the reports  *)
(* of the ones left running.  A call is of the tool `shell`                *)
(* (foreground_responsive, through SessionTools) or a `task start`         *)
(* (TaskManager::start, through task_access): the first waits for the      *)
(* exit, the second for a soft timeout at most.  Either lets go of its     *)
(* command when it is put in the background, and whoever is told that a    *)
(* command still runs has it reported when it ends (notify_background).    *)
(***************************************************************************)
EXTENDS TaskRuntime

VARIABLES
  call,       \* the call that started each task, and its hard deadline
  report,     \* the report of each task's end
  request,    \* a user's request to put the task in the background
  stop        \* Lifecycle.stop

call_vars == <<call, report, request, stop>>

shell_vars == <<task_vars, call_vars>>

\* told: what the call's result says of the task.  returned is Foreground.returned.
ShellCall ==
  [pc : {"none", "refused", "waiting", "stopping", "yielding", "reading", "settling", "persisting",
         "reporting", "claiming", "done", "failed", "dropped"},
   tool : {"shell", "start"},
   cancelled : BOOLEAN,
   returned : BOOLEAN,
   hard : {"none", "armed", "fired"},
   told : {"nothing", "running", "ended"}]

\* claimed is Execution.notification_claimed, marker the journalled transfer, worker the future
\* that waits for the end, finished the count of completions the session was given.
Reporting ==
  [claimed : BOOLEAN, marker : BOOLEAN, finished : 0 .. 2,
   worker : {"none", "waiting", "done", "stopped"}]

ShellInit ==
  /\ TaskInit
  /\ call = [t \in Task |-> [pc |-> "none", tool |-> "shell", cancelled |-> FALSE,
                             returned |-> FALSE, hard |-> "none", told |-> "nothing"]]
  /\ report = [t \in Task |-> [claimed |-> FALSE, marker |-> FALSE, finished |-> 0,
                               worker |-> "none"]]
  /\ request = [t \in Task |-> "none"]
  /\ stop = FALSE

Pending(t) == call[t].pc \notin {"none", "refused", "done", "failed", "dropped"}

\* The call goes on at pc; one that ends forgets its control and its guard.
Going(c, pc) ==
  IF pc \in {"done", "failed", "dropped"}
  THEN [c EXCEPT !.pc = pc, !.cancelled = FALSE, !.returned = FALSE]
  ELSE [c EXCEPT !.pc = pc]

To(t, pc) == call' = [call EXCEPT ![t] = Going(@, pc)]

CallOnly == UNCHANGED <<closed, registered, report, request, stop>>

\* An error ends the call, and its guard the process it still owns.
Fails(t, r) ==
  /\ To(t, "failed")
  /\ task' = [task EXCEPT ![t] = Abandoned(r, call[t].returned)]

-----------------------------------------------------------------------------
(* Starting. *)

\* The tool is off, or spawn refuses: the registry is closed, the call is cancelled, too many
\* run, or the program does not start.
Refuse(t) ==
  /\ call[t].pc = "none"
  /\ To(t, "refused")
  /\ NoFault
  /\ UNCHANGED <<closed, registered, task, report, request, stop>>

\* A hard deadline is the shell tool's; the soft one of `start` never ends the command.
Start(t) ==
  /\ call[t].pc = "none"
  /\ MaySpawn
  /\ Spawned(t)
  /\ \E tool \in {"shell", "start"}, hard \in {"none", "armed"} :
       /\ tool = "start" => hard = "none"
       /\ call' = [call EXCEPT ![t].pc = "waiting", ![t].tool = tool, ![t].hard = hard]
  /\ NoFault
  /\ UNCHANGED <<closed, report, request, stop>>

\* The call looks at its control while it waits, and `start` once more before it settles.
Heeds(t) ==
  \/ call[t].pc = "waiting"
  \/ call[t].pc = "reading" /\ call[t].tool = "start"

\* The run is interrupted, or the request of the command that started it goes away.
CancelCall(t) ==
  /\ Heeds(t)
  /\ ~ call[t].cancelled
  /\ call' = [call EXCEPT ![t].cancelled = TRUE]
  /\ UNCHANGED <<task, faults>> /\ CallOnly

\* The future of the call is dropped at any await.
DropCall(t) ==
  /\ Pending(t)
  /\ To(t, "dropped")
  /\ task' = [task EXCEPT ![t] = Abandoned(@, call[t].returned)]
  /\ NoFault /\ CallOnly

-----------------------------------------------------------------------------
(* Waiting.  The selection is biased: cancellation, exit, background, input. *)

SeeCancellation(t) ==
  /\ call[t].pc = "waiting"
  /\ call[t].cancelled
  /\ task' = [task EXCEPT ![t] = Terminated(@, "graceful")]
  /\ To(t, "stopping")
  /\ NoFault /\ CallOnly

SeeExit(t) ==
  /\ \/ call[t].pc = "waiting" /\ ~ call[t].cancelled
     \/ call[t].pc = "stopping"
  /\ ~ Running(t)
  /\ \/ task[t].status = "unknown" /\ Fails(t, task[t])
     \/ task[t].status # "unknown" /\ To(t, "reading") /\ UNCHANGED task
  /\ NoFault /\ CallOnly

SeeBackground(t) ==
  /\ call[t].pc = "waiting"
  /\ ~ call[t].cancelled
  /\ task[t].background
  /\ To(t, "reading")
  /\ UNCHANGED <<task, faults>> /\ CallOnly

\* Input for the session arrives: the command is put in the background for it.  One that has
\* just ended is refused, and so the call fails.
SeeInput(t) ==
  /\ call[t].pc = "waiting" /\ call[t].tool = "shell"
  /\ ~ call[t].cancelled
  /\ \/ /\ Running(t)
        /\ task' = [task EXCEPT ![t].background = TRUE]
        /\ To(t, "yielding")
     \/ ~ Running(t) /\ Fails(t, task[t])
  /\ NoFault /\ CallOnly

Yield(t) ==
  /\ call[t].pc = "yielding"
  /\ \/ /\ CanPersist(t)
        /\ task' = [task EXCEPT ![t] = Persisted(@)]
        /\ To(t, "reading")
        /\ NoFault
     \/ Unlocked(t) /\ DirectoryFails(t) /\ Fails(t, task[t])
  /\ CallOnly

\* `start` returns at its soft timeout, or when its output has outgrown an inline result.
SoftTimeout(t) ==
  /\ call[t].pc = "waiting" /\ call[t].tool = "start"
  /\ ~ call[t].cancelled
  /\ Running(t) /\ ~ task[t].background
  /\ To(t, "reading")
  /\ UNCHANGED <<task, faults>> /\ CallOnly

\* The capture cannot be read: `start` kills the command and waits for its end.
CaptureUnreadable(t) ==
  /\ call[t].pc = "waiting" /\ call[t].tool = "start"
  /\ DirectoryFails(t)
  /\ Fails(t, Terminated(task[t], "force"))
  /\ CallOnly

\* The deadline belongs to the process, and not to its waiter.
HardDeadline(t) ==
  /\ call[t].hard = "armed"
  /\ Running(t)
  /\ call' = [call EXCEPT ![t].hard = "fired"]
  /\ task' = [task EXCEPT ![t] = Terminated(@, "graceful")]
  /\ NoFault /\ CallOnly

-----------------------------------------------------------------------------
(* Returning. *)

Told(t) == IF Running(t) THEN "running" ELSE "ended"

\* read_output.  The shell call has let go of its command by now; `start` has not, and ends one
\* whose call was cancelled meanwhile.
Read(t) ==
  /\ call[t].pc = "reading"
  /\ \/ /\ call[t].tool = "shell" /\ task[t].record # "removed"
        /\ call' = [call EXCEPT ![t].pc = "reporting", ![t].returned = TRUE, ![t].told = Told(t)]
        /\ UNCHANGED task
        /\ NoFault
     \/ /\ call[t].tool = "start" /\ call[t].cancelled /\ Running(t)
        /\ task' = [task EXCEPT ![t] = Terminated(@, "graceful")]
        /\ To(t, "stopping")
        /\ NoFault
     \/ /\ call[t].tool = "start" /\ ~ (call[t].cancelled /\ Running(t))
        /\ task[t].record # "removed"
        /\ call' = [call EXCEPT ![t].pc = "settling", ![t].told = Told(t)]
        /\ UNCHANGED task
        /\ NoFault
     \/ /\ DirectoryFails(t)
        /\ To(t, "failed")
        /\ task' = [task EXCEPT ![t] = Abandoned(@, call[t].tool = "shell")]
  /\ CallOnly

\* `start` leaves a command that still runs in the background ...
Settle(t) ==
  /\ call[t].pc = "settling"
  /\ task' = [task EXCEPT ![t].background = @ \/ Running(t)]
  /\ To(t, "persisting")
  /\ NoFault /\ CallOnly

\* ... and records it.
Persist(t) ==
  /\ call[t].pc = "persisting"
  /\ \/ /\ CanPersist(t)
        /\ task' = [task EXCEPT ![t] = Persisted(@)]
        /\ call' = [call EXCEPT ![t].pc = "reporting", ![t].returned = TRUE]
        /\ NoFault
     \/ Unlocked(t) /\ DirectoryFails(t) /\ Fails(t, task[t])
  /\ CallOnly

\* claim_notification: a swap, so that one of those who notify goes on.
Claimed(r) == [r EXCEPT !.claimed = TRUE]

\* A result that says the command runs has its end reported; task_access looks at the task once
\* more, and reports only one in the background.
Notify(t) ==
  /\ call[t].pc = "reporting"
  /\ IF /\ call[t].told = "running"
        /\ call[t].tool = "start" => task[t].background
        /\ ~ report[t].claimed
     THEN To(t, "claiming") /\ report' = [report EXCEPT ![t] = Claimed(@)]
     ELSE To(t, "done") /\ UNCHANGED report
  /\ UNCHANGED <<task_vars, request, stop>>

\* The transfer is journalled (a failure is only logged), and a worker waits for the end.
Watched(t) ==
  \/ /\ report' = [report EXCEPT ![t].marker = TRUE, ![t].worker = "waiting"]
     /\ NoFault
  \/ report' = [report EXCEPT ![t].worker = "waiting"] /\ Fault

Watch(t) ==
  /\ call[t].pc = "claiming"
  /\ To(t, "done")
  /\ Watched(t)
  /\ UNCHANGED <<closed, registered, task, request, stop>>

-----------------------------------------------------------------------------
(* The user's requests. *)

\* TaskManager::background, for a task that runs; then its record, and its report.
AskBackground(t) ==
  /\ request[t] = "none"
  /\ t \in registered /\ Running(t)
  /\ task' = [task EXCEPT ![t].background = TRUE]
  /\ request' = [request EXCEPT ![t] = "persisting"]
  /\ UNCHANGED <<closed, registered, faults, call, report, stop>>

RequestPersists(t) ==
  /\ request[t] = "persisting"
  /\ \/ /\ CanPersist(t)
        /\ task' = [task EXCEPT ![t] = Persisted(@)]
        /\ IF Running(t) /\ ~ report[t].claimed
           THEN /\ request' = [request EXCEPT ![t] = "claiming"]
                /\ report' = [report EXCEPT ![t] = Claimed(@)]
           ELSE request' = [request EXCEPT ![t] = "done"] /\ UNCHANGED report
        /\ NoFault
     \/ /\ Unlocked(t)
        /\ DirectoryFails(t)
        /\ request' = [request EXCEPT ![t] = "done"]
        /\ UNCHANGED <<task, report>>
  /\ UNCHANGED <<closed, registered, call, stop>>

RequestWatches(t) ==
  /\ request[t] = "claiming"
  /\ request' = [request EXCEPT ![t] = "done"]
  /\ Watched(t)
  /\ UNCHANGED <<closed, registered, task, call, stop>>

KillTask(t) ==
  /\ t \in registered /\ Running(t)
  /\ \E mode \in {"graceful", "force"} : task' = [task EXCEPT ![t] = Terminated(@, mode)]
  /\ UNCHANGED <<closed, registered, faults, call_vars>>

-----------------------------------------------------------------------------
(* The report. *)

\* finish_shell: the event and the message in one transaction.  The worker of a server that
\* stops gives up, as does one whose write fails.
WorkerReports(t) ==
  /\ report[t].worker = "waiting"
  /\ \/ /\ ~ Running(t)
        /\ report' = [report EXCEPT ![t].worker = "done", ![t].finished = @ + 1]
        /\ NoFault
     \/ ~ Running(t) /\ report' = [report EXCEPT ![t].worker = "stopped"] /\ Fault
     \/ stop /\ report' = [report EXCEPT ![t].worker = "stopped"] /\ NoFault
  /\ UNCHANGED <<closed, registered, task, call, request, stop>>

\* Mutant: a transfer is not looked for when the session is opened again.
RecoveredNothing(r) == r

\* recover: every transfer without a completion gets one, from the task as it was restored.
Recovered(r) == IF r.marker /\ r.finished = 0 THEN [r EXCEPT !.finished = 1] ELSE r

CallStep(t) ==
  \/ SeeCancellation(t) \/ SeeExit(t) \/ SeeBackground(t) \/ Yield(t) \/ Read(t) \/ Settle(t)
  \/ Persist(t) \/ Notify(t) \/ Watch(t)

RequestStep(t) == RequestPersists(t) \/ RequestWatches(t)

=============================================================================

----------------------------- MODULE SessionTools ------------------------------
(***************************************************************************)
(* The tools of an open session that wait (application/session/tools.rs):  *)
(* its shell commands and its questions, under the switches that allow     *)
(* them, through the shutdown of the server, its death, and the unloading  *)
(* of a session nobody uses.                                               *)
(***************************************************************************)
EXTENDS ShellCalls, AskUser

CONSTANT
  MaxCrashes   \* how often the server dies

ASSUME LifeAssumption == MaxCrashes \in Nat

VARIABLES
  life,       \* the server: open, stopping (its tasks drain), closing (its commands end), down
  tool,       \* the tool this session's calls are of: the two meet in a shutdown only
  crashes

life_vars == <<life, tool, crashes>>

tool_vars == <<shell_vars, ask_vars, life_vars>>

\* Every variable has its type.
ToolsTypeOK ==
  /\ closed \in BOOLEAN /\ registered \subseteq Task /\ faults \in 0 .. MaxFaults
  /\ task \in [Task -> Execution]
  /\ call \in [Task -> ShellCall]
  /\ report \in [Task -> Reporting]
  /\ request \in [Task -> {"none", "persisting", "claiming", "done"}]
  /\ form \in [Question -> FormState] /\ wait \in [Question -> Waiting]
  /\ life \in {"open", "stopping", "closing", "down"}
  /\ tool \in {"shell", "ask_user"}

ToolsInit ==
  /\ ShellInit
  /\ AskInit
  /\ life = "open"
  /\ tool \in {"shell", "ask_user"}
  /\ crashes = 0

ShellOnly == UNCHANGED <<ask_vars, life_vars>>
AskOnly == UNCHANGED <<shell_vars, life_vars>>

-----------------------------------------------------------------------------
(* Dispatch. *)

\* SessionTools::execute looks at the switches when a call begins; one whose tool is off is
\* refused, and one that has begun goes on whatever they become.
ShellCallBegins(t) ==
  /\ life = "open" /\ tool = "shell"
  /\ Start(t) \/ Refuse(t)
  /\ ShellOnly

QuestionBegins(q) ==
  /\ life = "open" /\ tool = "ask_user"
  /\ Ask(q) \/ RefuseForm(q)
  /\ AskOnly

\* The user's requests need an open server, and no switch.
UserStep(t) ==
  /\ life = "open"
  /\ \/ AskBackground(t) \/ KillTask(t)
     \/ RemoveTask(t) /\ UNCHANGED call_vars
  /\ ShellOnly

Answer(q) ==
  /\ life = "open"
  /\ AnswerNow(q) \/ AnswerLate(q)
  /\ AskOnly

-----------------------------------------------------------------------------
(* The server stops, dies and starts; the session is unloaded. *)

\* begin_shutdown: no more work, and every run is interrupted.
BeginShutdown ==
  /\ life = "open"
  /\ life' = "stopping"
  /\ stop' = TRUE
  /\ call' = [t \in Task |-> [call[t] EXCEPT !.cancelled = @ \/ Heeds(t)]]
  /\ wait' = [q \in Question |-> [wait[q] EXCEPT !.cancelled = @ \/ wait[q].pc = "waiting"]]
  /\ UNCHANGED <<task_vars, report, request, form, asked, given, lost, tool, crashes>>

\* finish_shutdown waits for the tracked futures before it stops the commands left.
Drained ==
  /\ \A t \in Task : ~ Pending(t) /\ report[t].worker # "waiting"
                     /\ request[t] \in {"none", "done"}
  /\ \A q \in Question : wait[q].pc \in {"none", "done"}

StopCommands ==
  /\ life = "stopping"
  /\ Drained
  /\ CloseRegistry
  /\ life' = "closing"
  /\ UNCHANGED <<call_vars, ask_vars, tool, crashes>>

\* Nothing in memory is left: calls that waited are gone, and with them what they would have
\* reported.
MemoryLost ==
  /\ TasksLost
  /\ FormsLost
  /\ call' = [t \in Task |->
                [IF Pending(t) THEN Going(call[t], "dropped") ELSE call[t] EXCEPT !.hard = "none"]]
  /\ report' = [t \in Task |-> [report[t] EXCEPT !.claimed = FALSE, !.worker = "none"]]
  /\ request' = [t \in Task |-> IF request[t] = "none" THEN "none" ELSE "done"]
  /\ stop' = FALSE
  /\ UNCHANGED faults

Exit ==
  /\ life = "closing"
  /\ AllEnded
  /\ life' = "down"
  /\ MemoryLost
  /\ UNCHANGED <<tool, crashes>>

Crash ==
  /\ life # "down"
  /\ crashes < MaxCrashes
  /\ crashes' = crashes + 1
  /\ life' = "down"
  /\ MemoryLost
  /\ UNCHANGED tool

\* reap_sessions: a session nobody uses, without a run, a worker or a running command, is
\* unloaded.  Its open forms do not keep it.
Unload ==
  /\ life = "open"
  /\ Drained
  /\ AllEnded
  /\ registered # {} \/ asked # <<>>
  /\ life' = "down"
  /\ MemoryLost
  /\ UNCHANGED <<tool, crashes>>

\* The session is opened again: the task manager first, then the reports still owed.
Reopen ==
  /\ life = "down"
  /\ life' = "open"
  /\ TasksRestored
  /\ report' = [t \in Task |-> Recovered(report[t])]
  /\ UNCHANGED <<call, request, stop, ask_vars, tool, crashes>>

-----------------------------------------------------------------------------
(* The specification. *)

\* What goes on by itself in a running server.
Supervised(t) == life # "down" /\ SupervisorStep(t) /\ UNCHANGED call_vars /\ ShellOnly

KillSeen(t) == life # "down" /\ ReceiveKill(t) /\ UNCHANGED call_vars /\ ShellOnly

GraceOver(t) == life # "down" /\ GraceEnds(t) /\ UNCHANGED call_vars /\ ShellOnly

CallRuns(t) ==
  /\ life # "down"
  /\ CallStep(t) \/ RequestStep(t) \/ WorkerReports(t)
  /\ ShellOnly

ShellHappens(t) ==
  /\ \/ life # "down" /\ (\/ CancelCall(t) \/ DropCall(t) \/ SeeInput(t) \/ SoftTimeout(t)
                          \/ CaptureUnreadable(t))
     \/ life # "down" /\ CaptureFails(t) /\ UNCHANGED call_vars
     \/ ShellExits(t) /\ UNCHANGED call_vars
  /\ ShellOnly

DeadlineFires(t) == life # "down" /\ HardDeadline(t) /\ ShellOnly

QuestionRuns(q) == life # "down" /\ QuestionStep(q) /\ AskOnly

QuestionHappens(q) ==
  /\ life # "down"
  /\ CancelQuestion(q) \/ Expire(q) \/ DropQuestion(q)
  /\ AskOnly

LifeStep == StopCommands \/ Exit \/ Reopen

ToolsNext ==
  \/ \E t \in Task :
       \/ ShellCallBegins(t) \/ UserStep(t) \/ Supervised(t) \/ KillSeen(t) \/ GraceOver(t)
       \/ CallRuns(t) \/ ShellHappens(t) \/ DeadlineFires(t)
  \/ \E q \in Question :
       QuestionBegins(q) \/ Answer(q) \/ QuestionRuns(q) \/ QuestionHappens(q)
  \/ BeginShutdown \/ Crash \/ Unload \/ LifeStep

ToolsSpec == ToolsInit /\ [][ToolsNext]_tool_vars

\* The runtime polls every future and every timer, and someone comes back to a session that is
\* closed.  No command has to end by itself, and no user has to do anything.
FairToolsSpec ==
  /\ ToolsSpec
  /\ \A t \in Task : /\ WF_tool_vars(Supervised(t)) /\ WF_tool_vars(KillSeen(t))
                     /\ WF_tool_vars(GraceOver(t)) /\ WF_tool_vars(CallRuns(t))
                     /\ WF_tool_vars(DeadlineFires(t))
  /\ \A q \in Question : WF_tool_vars(QuestionRuns(q))
  /\ WF_tool_vars(LifeStep)

-----------------------------------------------------------------------------
(* Properties. *)

\* The call of the task still holds its command.
Held(t) == Pending(t) /\ ~ call[t].returned

\* No command runs unobserved (Foreground::drop, supervise): one whose supervisor still waits
\* is held by its call, in the background, or about to be killed; and one that is said to have
\* exited or to have been killed, in memory or on disk, has left no process behind.
NoStrayProcess ==
  \A t \in Task :
    /\ Alive(t) /\ task[t].supervisor \in {"opening", "waiting"}
         => Held(t) \/ task[t].background \/ task[t].kills # {} \/ task[t].grace
    /\ {task[t].status, task[t].record} \cap {"exited", "killed"} # {} => ~ Alive(t)

\* The record of a task that has ended never says again that it runs, whoever writes it last
\* (Execution::persist against the last save of supervise); it only goes when it is removed.
EndedForGood ==
  [][\A t \in Task :
       task[t].record \in Ended => task'[t].record \in {task[t].record, "removed"}]_tool_vars

\* A command the model was told is still running is reported once it has ended
\* (notify_background, finish_shell, recover): through a restart too, unless a write
\* failed or the server died before the transfer was journalled; and no end is reported twice,
\* though the call and a request of the user both notify.
DetachedReported ==
  \A t \in Task :
    /\ [](report[t].finished < 2)
    /\ (call[t].tool = "shell" /\ call[t].pc = "done" /\ call[t].told = "running" /\ ~ Alive(t))
         ~> (report[t].finished = 1 \/ faults > 0 \/ (crashes > 0 /\ ~ report[t].marker))

\* An answer arrives exactly once: what the user is told went to the waiting call is what the
\* call returns, unless it was cancelled; what follows as a message is the answer to a form whose
\* call returned without it (answer against expire and CloseOnDrop).
AnswersArrive ==
  \A q \in Question :
    /\ "now" \in given[q] =>
         /\ given[q] = {"now"}
         /\ wait[q].pc = "done" => wait[q].outcome \in {wait[q].replied, "cancelled"}
    /\ given[q] \cap {"later", "dropped", "error"} # {} => wait[q].outcome = "timed_out"

\* "The questions stay open to the user; if they answer later, the answers arrive as a separate
\* message": a form that timed out waits for its answer until room is needed for another one or
\* the server ends.
TimedOutStaysOpen ==
  [][\A q \in Question :
       form[q] = "timed_out" /\ form'[q] = "none" =>
         given'[q] # given[q] \/ Len(asked') = MaxForms \/ life # "open" \/ crashes' # crashes
    ]_tool_vars

=============================================================================

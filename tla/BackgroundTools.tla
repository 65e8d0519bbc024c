--------------------------- MODULE BackgroundTools ---------------------------
(***************************************************************************)
(* Direct tools whose execution moves to the background when input arrives *)
(* (application/background_tools.rs), and the three owners a call can      *)
(* have: the foreground that awaits it inside a run, the worker that keeps *)
(* running after the run has gone on, and the recovery of a reopened       *)
(* session.                                                                *)
(*                                                                         *)
(* Foreground and worker share a phase behind an asynchronous mutex: the   *)
(* transfer writes its marker, and the worker its report, holding it.  Of  *)
(* the session this module keeps who has it (mode), whether the run is     *)
(* cancelled and whether input waits; Session, Executor and Scheduler      *)
(* model the rest.  Every write to the store may fail, and the process may *)
(* die between any two steps.                                              *)
(***************************************************************************)
EXTENDS Naturals, FiniteSets

CONSTANTS
  Job,          \* the tool calls, each executed at most once
  MaxJobs,      \* MAX_JOBS, the permits
  MaxFailures,  \* bound: store failures and panics
  MaxCrashes    \* bound: deaths of the process

ASSUME BackgroundAssumption ==
  /\ IsFiniteSet(Job)
  /\ MaxJobs \in Nat /\ MaxFailures \in Nat /\ MaxCrashes \in Nat

VARIABLES
  mode,           \* who has the session: nobody ("idle"), a run, a deletion, the recovery
  run_cancelled,  \* the run's control
  interrupting,   \* an interrupt has advanced the epoch and not yet cancelled the run
  input,          \* input other than completions has arrived since the run's last turn
  stop,           \* lifecycle.stop
  closed,         \* the registry's
  foreground,     \* where the future that answers the call is
  reply,          \* what it answered, or the settlement did
  worker,         \* where the spawned work is
  phase,          \* what the two share
  cancelled,      \* the workers whose control is cancelled
  stale,          \* the jobs whose epoch an interrupt has advanced while they ran
  woken,          \* the jobs whose completion scheduled a run
  marker,         \* stored: "background_tool_started" of these jobs
  completions,    \* stored: "background_tool_finished" events, each with its queued message
  orphaned,       \* marker writes whose foreground was dropped while they were under way
  unfinished,     \* what the recovery has still to finish
  failures,       \* so far
  crashes         \* so far

owner_vars == <<mode, run_cancelled, interrupting, input, stop, closed>>
call_vars == <<foreground, reply>>
work_vars == <<worker, phase, cancelled, stale, woken>>
stored_vars == <<marker, completions, orphaned>>
fault_vars == <<failures, crashes>>
vars == <<owner_vars, call_vars, work_vars, stored_vars, unfinished, fault_vars>>

\* Frames: the step changes the session's state, the call's or the worker's at most.
SessionOnly == UNCHANGED <<call_vars, work_vars, stored_vars, unfinished, fault_vars>>
CallOnly == UNCHANGED <<owner_vars, work_vars, stored_vars, unfinished, fault_vars>>
WorkOnly == UNCHANGED <<owner_vars, call_vars, stored_vars, unfinished, fault_vars>>

Mode == {"idle", "running", "deleting", "deleted", "down", "recovering"}
Foreground == {"none", "watching", "locking", "marking", "marked", "waiting", "cancelling",
               "returned"}
Reply == {"none", "Result", "Yielded", "Cancelled", "Failed", "Unknown"}
Worker == {"none", "working", "outcome", "finishing", "reported", "done", "unreported", "dead",
           "gone"}

\* A worker holds its permit, its registration and its token until it ends.
Alive(j) == worker[j] \in {"working", "outcome", "finishing", "reported"}

PermitLeft == Cardinality({j \in Job : Alive(j)}) < MaxJobs

\* Nobody has the phase's mutex.
GateFree(j) ==
  /\ foreground[j] \notin {"marking", "marked"}
  /\ worker[j] \notin {"finishing", "reported"}

\* The store refuses, or a future panics.
Fails == failures < MaxFailures /\ failures' = failures + 1 /\ UNCHANGED crashes

Answer(j, outcome) ==
  /\ foreground' = [foreground EXCEPT ![j] = "returned"]
  /\ reply' = [reply EXCEPT ![j] = outcome]

\* The controls of these jobs; a worker that has ended is past cancelling.
Cancel(jobs) == cancelled' = cancelled \cup {j \in jobs : Alive(j)}

\* The worker ends, and gives back its permit and its registration.
Ends(j, how) ==
  /\ worker' = [worker EXCEPT ![j] = how]
  /\ phase' = [phase EXCEPT ![j] = "Completed"]
  /\ cancelled' = cancelled \ {j}

Foregrounds(j, stage) == foreground' = [foreground EXCEPT ![j] = stage] /\ UNCHANGED reply

-----------------------------------------------------------------------------
(* The session around the calls. *)

\* A run has a control of its own.  Its first turn takes what is queued.
StartRun ==
  /\ mode = "idle"
  /\ ~ stop
  /\ mode' = "running"
  /\ UNCHANGED <<run_cancelled, interrupting, input, stop, closed>> /\ SessionOnly

InputArrives ==
  /\ mode = "running"
  /\ ~ input
  /\ input' = TRUE
  /\ UNCHANGED <<mode, run_cancelled, interrupting, stop, closed>> /\ SessionOnly

\* The next turn takes the queue once every call of the last one is answered.
TakeInput ==
  /\ mode = "running"
  /\ input
  /\ \A j \in Job : foreground[j] = "none"
  /\ input' = FALSE
  /\ UNCHANGED <<mode, run_cancelled, interrupting, stop, closed>> /\ SessionOnly

RunEnds == mode' = "idle" /\ run_cancelled' = FALSE /\ input' = FALSE

EndRun ==
  /\ mode = "running"
  /\ \A j \in Job : foreground[j] = "none"
  /\ RunEnds
  /\ UNCHANGED <<interrupting, stop, closed>> /\ SessionOnly

\* interrupt, for the command or for a shutdown: the epoch first, then the run's control.
AdvanceEpoch ==
  /\ mode \in {"idle", "running", "deleting"}
  /\ ~ interrupting
  /\ interrupting' = TRUE
  /\ stop' \in {stop, TRUE}
  /\ stale' = stale \cup {j \in Job : Alive(j)}
  /\ UNCHANGED <<mode, run_cancelled, input, closed, call_vars, worker, phase, cancelled, woken,
                 stored_vars, unfinished, fault_vars>>

CancelRun ==
  /\ interrupting
  /\ interrupting' = FALSE
  /\ run_cancelled' = (run_cancelled \/ mode = "running")
  /\ UNCHANGED <<mode, input, stop, closed>> /\ SessionOnly

-----------------------------------------------------------------------------
(* execute, the foreground of a call. *)

\* A call that ends before a worker is spawned for it: the run is cancelled, the permits are
\* out, or a deletion that failed has left the registry closed.
Refuse(j) ==
  /\ mode = "running"
  /\ foreground[j] = "none" /\ reply[j] = "none"
  /\ \/ run_cancelled /\ Answer(j, "Cancelled")
     \/ ~ run_cancelled /\ ~ PermitLeft /\ Answer(j, "Failed")
     \/ ~ run_cancelled /\ PermitLeft /\ closed /\ Answer(j, "Cancelled")
  /\ CallOnly

Begin(j) ==
  /\ mode = "running"
  /\ foreground[j] = "none" /\ reply[j] = "none"
  /\ ~ run_cancelled
  /\ PermitLeft
  /\ ~ closed
  /\ Foregrounds(j, "watching")
  /\ worker' = [worker EXCEPT ![j] = "working"]
  /\ UNCHANGED <<owner_vars, phase, cancelled, stale, woken, stored_vars, unfinished, fault_vars>>

\* Mutant: the worker is awaited, and not told.
CancelSeenUntold(j) ==
  /\ foreground[j] \in {"watching", "waiting"}
  /\ run_cancelled
  /\ Foregrounds(j, "cancelling")
  /\ CallOnly

\* Either select, cancellation first: the worker is told, and then awaited.
CancelSeen(j) ==
  /\ foreground[j] \in {"watching", "waiting"}
  /\ run_cancelled
  /\ Foregrounds(j, "cancelling")
  /\ Cancel({j})
  /\ UNCHANGED <<owner_vars, worker, phase, stale, woken, stored_vars, unfinished, fault_vars>>

\* Then the result, or the news that there will be none.
ResultSeen(j) ==
  /\ foreground[j] \in {"watching", "waiting", "cancelling"}
  /\ worker[j] \in {"done", "unreported", "dead"}
  /\ Answer(j, IF worker[j] = "dead" THEN "Unknown" ELSE "Result")
  /\ CallOnly

\* Last the input.
InputSeen(j) ==
  /\ foreground[j] = "watching"
  /\ ~ run_cancelled /\ worker[j] \notin {"done", "dead"}
  /\ \/ input /\ Foregrounds(j, "locking") /\ UNCHANGED fault_vars
     \/ Fails /\ Foregrounds(j, "waiting")
  /\ UNCHANGED <<owner_vars, work_vars, stored_vars, unfinished>>

\* Mutant: the phase is not looked at again under the mutex.
LockPhaseUnchecked(j) ==
  /\ foreground[j] = "locking"
  /\ GateFree(j)
  /\ Foregrounds(j, "marking")
  /\ CallOnly

LockPhase(j) ==
  /\ foreground[j] = "locking"
  /\ GateFree(j)
  /\ Foregrounds(j, IF phase[j] = "Foreground" /\ ~ run_cancelled THEN "marking" ELSE "waiting")
  /\ CallOnly

RecordMarker(j) ==
  /\ foreground[j] = "marking"
  /\ \/ /\ marker' = marker \cup {j}
        /\ Foregrounds(j, "marked")
        /\ UNCHANGED fault_vars
     \/ /\ Fails
        /\ Foregrounds(j, "waiting")
        /\ UNCHANGED marker
  /\ UNCHANGED <<owner_vars, work_vars, completions, orphaned, unfinished>>

Detach(j) ==
  /\ foreground[j] = "marked"
  /\ phase' = [phase EXCEPT ![j] = "Detached"]
  /\ Answer(j, "Yielded")
  /\ UNCHANGED <<owner_vars, worker, cancelled, stale, woken, stored_vars, unfinished, fault_vars>>

\* accept_tool_outcome, in the executor.
Accept(j) ==
  /\ foreground[j] = "returned"
  /\ Foregrounds(j, "none")
  /\ CallOnly

\* It fails: the run ends, every future of the batch is dropped, and the settlement answers
\* Unknown for them.  A dropped foreground cancels the worker it still owns; the marker it may
\* be writing is written all the same.
Unanswered == {j \in Job : foreground[j] # "none"}
Drop ==
  /\ foreground' = [j \in Job |-> "none"]
  /\ reply' = [j \in Job |-> IF j \in Unanswered THEN "Unknown" ELSE reply[j]]

AcceptFails(j) ==
  /\ foreground[j] = "returned"
  /\ Fails
  /\ Drop
  /\ Cancel({k \in Unanswered : reply[k] # "Yielded"})
  /\ orphaned' = orphaned \cup {k \in Job : foreground[k] = "marking"}
  /\ RunEnds
  /\ UNCHANGED <<interrupting, stop, closed, worker, phase, stale, woken, marker, completions,
                 unfinished>>

OrphanWrites(j) ==
  /\ j \in orphaned
  /\ orphaned' = orphaned \ {j}
  /\ \/ marker' = marker \cup {j} /\ UNCHANGED fault_vars
     \/ Fails /\ UNCHANGED marker
  /\ UNCHANGED <<owner_vars, call_vars, work_vars, completions, unfinished>>

-----------------------------------------------------------------------------
(* The worker. *)

\* A shutdown reaches the work directly.
StopSeen(j) ==
  /\ worker[j] = "working"
  /\ stop
  /\ j \notin cancelled
  /\ Cancel({j})
  /\ WorkOnly /\ UNCHANGED <<worker, phase, stale, woken>>

WorkEnds(j) ==
  /\ worker[j] = "working"
  /\ worker' = [worker EXCEPT ![j] = "outcome"]
  /\ WorkOnly /\ UNCHANGED <<phase, cancelled, stale, woken>>

\* The work panics: its permit, its registration and its end of the channel are dropped.
WorkDies(j) ==
  /\ worker[j] = "working"
  /\ Fails
  /\ worker' = [worker EXCEPT ![j] = "dead"]
  /\ cancelled' = cancelled \ {j}
  /\ UNCHANGED <<owner_vars, call_vars, phase, stale, woken, stored_vars, unfinished>>

\* Mutant: the outcome is reported whoever owns the call.
HandOverReportingAll(j) ==
  /\ worker[j] = "outcome"
  /\ GateFree(j)
  /\ worker' = [worker EXCEPT ![j] = "finishing"]
  /\ WorkOnly /\ UNCHANGED <<phase, cancelled, stale, woken>>

\* Under the mutex: a detached call is reported; the foreground of any other is sent its result.
HandOver(j) ==
  /\ worker[j] = "outcome"
  /\ GateFree(j)
  /\ \/ /\ phase[j] = "Detached"
        /\ worker' = [worker EXCEPT ![j] = "finishing"]
        /\ UNCHANGED <<phase, cancelled>>
     \/ phase[j] # "Detached" /\ Ends(j, "done")
  /\ WorkOnly /\ UNCHANGED <<stale, woken>>

\* finish: one transaction for the event and the message.
Finish(j) ==
  /\ worker[j] = "finishing"
  /\ \/ /\ completions' = [completions EXCEPT ![j] = @ + 1]
        /\ worker' = [worker EXCEPT ![j] = "reported"]
        /\ UNCHANGED <<phase, cancelled, fault_vars>>
     \/ Fails /\ Ends(j, "unreported") /\ UNCHANGED completions
  /\ UNCHANGED <<owner_vars, call_vars, stale, woken, marker, orphaned, unfinished>>

\* Then a run is scheduled, unless the session was interrupted since the call began.
Wake(j) ==
  /\ worker[j] = "reported"
  /\ woken' = IF j \notin stale /\ ~ stop THEN woken \cup {j} ELSE woken
  /\ Ends(j, "done")
  /\ WorkOnly /\ UNCHANGED stale

-----------------------------------------------------------------------------
(* Deletion, death and recovery. *)

\* delete takes the session, so there is no foreground; shutdown closes the registry and cancels
\* the jobs in it.
BeginDelete ==
  /\ mode = "idle"
  /\ mode' = "deleting"
  /\ closed' = TRUE
  /\ Cancel(Job)
  /\ UNCHANGED <<run_cancelled, interrupting, input, stop, call_vars, worker, phase, stale, woken,
                 stored_vars, unfinished, fault_vars>>

\* It waits for them, and only then removes the session; a removal that fails leaves the
\* session there, and its registry closed.
EndDelete ==
  /\ mode = "deleting"
  /\ \A j \in Job : ~ Alive(j)
  /\ \/ mode' = "deleted" /\ UNCHANGED fault_vars
     \/ mode' = "idle" /\ Fails
  /\ UNCHANGED <<run_cancelled, interrupting, input, stop, closed, call_vars, work_vars,
                 stored_vars, unfinished>>

\* What a process keeps of the session in memory.
Forget ==
  /\ mode' = "down"
  /\ run_cancelled' = FALSE /\ interrupting' = FALSE /\ input' = FALSE
  /\ stop' = FALSE /\ closed' = FALSE
  /\ worker' = [j \in Job |-> IF worker[j] = "none" THEN "none" ELSE "gone"]
  /\ phase' = [j \in Job |-> "Foreground"]
  /\ cancelled' = {} /\ stale' = {} /\ woken' = {}

\* The process dies.
Crash ==
  /\ mode \notin {"down", "deleted"}
  /\ crashes < MaxCrashes
  /\ crashes' = crashes + 1
  /\ Forget
  /\ Drop
  /\ orphaned' = {}
  /\ unfinished' = {}
  /\ UNCHANGED <<marker, completions, failures>>

\* can_unload: a session nobody uses, without a job, is closed.  So is every session when the
\* shutdown has waited for its tasks.
Unload ==
  /\ mode = "idle"
  /\ \A j \in Job : ~ Alive(j)
  /\ ~ interrupting
  /\ Forget
  /\ UNCHANGED <<call_vars, stored_vars, unfinished, fault_vars>>

\* recover reads the stored events, before anything can run.
Reopen ==
  /\ mode = "down"
  /\ mode' = "recovering"
  /\ unfinished' = {j \in marker : completions[j] = 0}
  /\ UNCHANGED <<run_cancelled, interrupting, input, stop, closed, call_vars, work_vars,
                 stored_vars, fault_vars>>

\* Each is finished as Unknown, in a transaction of its own; if one fails the session stays
\* closed.
RecoverOne(j) ==
  /\ mode = "recovering"
  /\ j \in unfinished
  /\ \/ /\ completions' = [completions EXCEPT ![j] = @ + 1]
        /\ unfinished' = unfinished \ {j}
        /\ UNCHANGED <<mode, fault_vars>>
     \/ /\ Fails
        /\ mode' = "down"
        /\ unfinished' = {}
        /\ UNCHANGED completions
  /\ UNCHANGED <<run_cancelled, interrupting, input, stop, closed, call_vars, work_vars, marker,
                 orphaned>>

Recovered ==
  /\ mode = "recovering"
  /\ unfinished = {}
  /\ mode' = "idle"
  /\ UNCHANGED <<run_cancelled, interrupting, input, stop, closed>> /\ SessionOnly

-----------------------------------------------------------------------------
(* The specification. *)

BackgroundInit ==
  /\ mode = "idle"
  /\ run_cancelled = FALSE /\ interrupting = FALSE
  /\ input = FALSE
  /\ stop = FALSE /\ closed = FALSE
  /\ foreground = [j \in Job |-> "none"]
  /\ reply = [j \in Job |-> "none"]
  /\ worker = [j \in Job |-> "none"]
  /\ phase = [j \in Job |-> "Foreground"]
  /\ cancelled = {} /\ stale = {} /\ woken = {}
  /\ marker = {} /\ orphaned = {} /\ unfinished = {}
  /\ completions = [j \in Job |-> 0]
  /\ failures = 0 /\ crashes = 0

ForegroundStep(j) ==
  \/ CancelSeen(j) \/ ResultSeen(j) \/ InputSeen(j) \/ LockPhase(j) \/ RecordMarker(j) \/ Detach(j)
  \/ Accept(j) \/ AcceptFails(j)

WorkerStep(j) == StopSeen(j) \/ HandOver(j) \/ Finish(j) \/ Wake(j)

RecoveryStep == Reopen \/ Recovered \/ \E j \in Job : RecoverOne(j)

BackgroundNext ==
  \/ StartRun \/ InputArrives \/ TakeInput \/ EndRun \/ AdvanceEpoch \/ CancelRun
  \/ \E j \in Job :
       \/ Refuse(j) \/ Begin(j) \/ ForegroundStep(j) \/ OrphanWrites(j)
       \/ WorkEnds(j) \/ WorkDies(j) \/ WorkerStep(j)
  \/ BeginDelete \/ EndDelete \/ Crash \/ Unload
  \/ RecoveryStep

BackgroundSpec == BackgroundInit /\ [][BackgroundNext]_vars

\* ToolExecutor's contract: "Executors must observe cancellation and return".  Work nobody
\* cancels may go on forever.
CancelledWorkEnds(j) == j \in cancelled /\ WorkEnds(j)

\* The runtime polls the futures, and someone comes back to a session that is closed.  No work
\* has to end by itself, and nobody has to begin, interrupt, delete or stop.
FairBackgroundSpec ==
  /\ BackgroundSpec
  /\ \A j \in Job :
       /\ WF_vars(ForegroundStep(j))
       /\ WF_vars(WorkerStep(j))
       /\ WF_vars(CancelledWorkEnds(j))
  /\ WF_vars(CancelRun) /\ WF_vars(EndDelete) /\ WF_vars(RecoveryStep)

-----------------------------------------------------------------------------
(* What must hold. *)

\* The types of the state.
BackgroundTypeOK ==
  /\ mode \in Mode
  /\ {run_cancelled, interrupting, input, stop, closed} \subseteq BOOLEAN
  /\ foreground \in [Job -> Foreground]
  /\ reply \in [Job -> Reply]
  /\ worker \in [Job -> Worker]
  /\ phase \in [Job -> {"Foreground", "Detached", "Completed"}]
  /\ cancelled \subseteq Job /\ stale \subseteq Job /\ woken \subseteq Job
  /\ marker \subseteq Job /\ orphaned \subseteq Job /\ unfinished \subseteq Job
  /\ completions \in [Job -> 0..1]
  /\ failures \in 0..MaxFailures
  /\ crashes \in 0..MaxCrashes

\* DeliveredOnce says that a call's result reaches the model in one way: answered with the
\* tool's own result it has no marker and no report, now or after any recovery, and no job is
\* reported twice, by its worker, by a recovery or by one of each.
DeliveredOnce ==
  \A j \in Job :
    /\ completions[j] <= 1
    /\ reply[j] = "Result" => j \notin marker \cup orphaned /\ completions[j] = 0

\* YieldedIsReported says that "its result will be delivered when it finishes", as the yielded
\* call tells the model: once the work has ended or its process has died the report is stored,
\* once, and a run is scheduled to read it unless an interrupt, a shutdown or a crash came
\* between.  A report the store refused, or whose worker panicked, waits for the session to
\* be closed and reopened.
YieldedIsReported ==
  \A j \in Job :
    (reply[j] = "Yielded" /\ worker[j] # "working")
      ~> \/ completions[j] = 1 /\ (j \in woken \cup stale \/ stop \/ worker[j] = "gone")
         \/ worker[j] \in {"unreported", "dead"}

\* WaitsEnd says that every call still in the foreground of a cancelled run is answered,
\* whatever it was doing with the phase when the cancellation came; and that a deletion, which
\* has the session while it waits for the workers, is not waiting for one that waits for it.
WaitsEnd ==
  /\ \A j \in Job : (run_cancelled /\ foreground[j] # "none") ~> foreground[j] = "none"
  /\ (mode = "deleting") ~> (mode # "deleting")

=============================================================================

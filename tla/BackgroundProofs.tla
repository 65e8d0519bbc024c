--------------------------- MODULE BackgroundProofs ---------------------------
(***************************************************************************)
(* Proofs about the background tools, for any number of calls, permits,    *)
(* failures and crashes.  A call has one owner at a time: its foreground,  *)
(* its worker or the recovery of a reopened session.  The invariant says   *)
(* of each what it may have stored and answered while the call is its own; *)
(* that no two of them deliver the same result follows.                    *)
(***************************************************************************)
EXTENDS BackgroundTools, TLAPS

\* The types of what is not a flag.
DataType ==
  /\ mode \in Mode
  /\ foreground \in [Job -> Foreground]
  /\ reply \in [Job -> Reply]
  /\ worker \in [Job -> Worker]
  /\ phase \in [Job -> {"Foreground", "Detached", "Completed"}]
  /\ cancelled \subseteq Job /\ stale \subseteq Job /\ woken \subseteq Job
  /\ marker \subseteq Job /\ orphaned \subseteq Job /\ unfinished \subseteq Job
  /\ completions \in [Job -> 0..1]
  /\ failures \in 0..MaxFailures
  /\ crashes \in 0..MaxCrashes

\* The stages of a foreground that has not handed its call over.
Untransferred == {"watching", "locking", "marking", "waiting", "cancelling"}

\* A call that can still begin has left nothing anywhere.
Unbegun(j) ==
  foreground[j] = "none" /\ reply[j] = "none" =>
    worker[j] = "none" /\ completions[j] = 0 /\ j \notin marker \cup orphaned

\* The foreground lives inside a run; until it has handed the call over nothing of the call is
\* stored or on its way to the store.
HeldByCall(j) ==
  /\ foreground[j] # "none" => mode = "running"
  /\ foreground[j] \in Untransferred =>
       reply[j] = "none" /\ completions[j] = 0 /\ j \notin marker \cup orphaned
  /\ foreground[j] = "marked" => reply[j] = "none"
  /\ foreground[j] = "returned" => reply[j] # "none"

\* A worker that may still report has not, and it reports only what its foreground has let go.
HeldByWorker(j) ==
  /\ worker[j] \in {"working", "outcome", "finishing"} => completions[j] = 0
  /\ phase[j] = "Detached" \/ worker[j] \in {"finishing", "reported"} =>
       foreground[j] \in {"none", "returned"} /\ reply[j] \in {"Yielded", "Unknown"}

\* The recovery meets no worker, and what it is to finish is marked and unreported.
HeldByRecovery(j) ==
  /\ mode \in {"down", "recovering"} => worker[j] \in {"none", "gone"}
  /\ j \in unfinished => mode = "recovering" /\ completions[j] = 0 /\ j \in marker

\* A call that was answered with its result is not marked, not about to be, and not reported.
Delivered(j) ==
  reply[j] = "Result" => j \notin marker \cup orphaned /\ completions[j] = 0

\* At most one of those who may report a job owns its report.
OneOwner(j) ==
  Unbegun(j) /\ HeldByCall(j) /\ HeldByWorker(j) /\ HeldByRecovery(j) /\ Delivered(j)

\* The inductive invariant of the background jobs.
BackgroundInv == DataType /\ \A j \in Job : OneOwner(j)

\* The invariant holds at first ...
LEMMA InitSafe == BackgroundInit => BackgroundInv
BY BackgroundAssumption
DEF BackgroundInit, BackgroundInv, DataType, Mode, Foreground, Reply, Worker, OneOwner, Unbegun,
    HeldByCall, HeldByWorker, HeldByRecovery, Delivered, Untransferred

-----------------------------------------------------------------------------
(* One step of each action: its types, and the owners of every call. *)

\* ... and is kept by every step.
LEMMA StepSafe == BackgroundInv /\ [BackgroundNext]_vars => BackgroundInv'
<1> SUFFICES ASSUME BackgroundInv, [BackgroundNext]_vars PROVE BackgroundInv'
  OBVIOUS
<1> USE BackgroundAssumption
    DEF BackgroundInv, owner_vars, call_vars, work_vars, stored_vars, fault_vars
<1>1. ASSUME NEW j \in Job, Refuse(j) PROVE BackgroundInv'
  <2>1. DataType'
    BY <1>1 DEF Refuse, Answer, CallOnly, DataType, Mode, Foreground, Reply, Worker
  <2>2. ASSUME NEW k \in Job PROVE OneOwner(k)'
    <3>1. OneOwner(k)
      OBVIOUS
    <3> QED
      BY <1>1, <3>1 DEF Refuse, Answer, CallOnly, DataType, OneOwner, Unbegun, HeldByCall,
          HeldByWorker, HeldByRecovery, Delivered, Untransferred
  <2> QED
    BY <2>1, <2>2
<1>2. ASSUME NEW j \in Job, Begin(j) PROVE BackgroundInv'
  <2>1. DataType'
    BY <1>2 DEF Begin, Foregrounds, DataType, Mode, Foreground, Reply, Worker
  <2>2. ASSUME NEW k \in Job PROVE OneOwner(k)'
    <3>1. OneOwner(k)
      OBVIOUS
    <3> QED
      BY <1>2, <3>1 DEF Begin, Foregrounds, DataType, OneOwner, Unbegun, HeldByCall, HeldByWorker,
          HeldByRecovery, Delivered, Untransferred
  <2> QED
    BY <2>1, <2>2
<1>3. ASSUME NEW j \in Job, CancelSeen(j) PROVE BackgroundInv'
  <2>1. DataType'
    BY <1>3 DEF CancelSeen, Foregrounds, Cancel, Alive, DataType, Mode, Foreground, Reply, Worker
  <2>2. ASSUME NEW k \in Job PROVE OneOwner(k)'
    <3>1. OneOwner(k)
      OBVIOUS
    <3> QED
      BY <1>3, <3>1 DEF CancelSeen, Foregrounds, Cancel, Alive, DataType, OneOwner, Unbegun,
          HeldByCall, HeldByWorker, HeldByRecovery, Delivered, Untransferred
  <2> QED
    BY <2>1, <2>2
<1>4. ASSUME NEW j \in Job, ResultSeen(j) PROVE BackgroundInv'
  <2>1. DataType'
    BY <1>4 DEF ResultSeen, Answer, CallOnly, DataType, Mode, Foreground, Reply, Worker
  <2>2. ASSUME NEW k \in Job PROVE OneOwner(k)'
    <3>1. OneOwner(k)
      OBVIOUS
    <3> QED
      BY <1>4, <3>1 DEF ResultSeen, Answer, CallOnly, DataType, OneOwner, Unbegun, HeldByCall,
          HeldByWorker, HeldByRecovery, Delivered, Untransferred
  <2> QED
    BY <2>1, <2>2
<1>5. ASSUME NEW j \in Job, InputSeen(j) PROVE BackgroundInv'
  <2>1. DataType'
    BY <1>5 DEF InputSeen, Foregrounds, Fails, DataType, Mode, Foreground, Reply, Worker
  <2>2. ASSUME NEW k \in Job PROVE OneOwner(k)'
    <3>1. OneOwner(k)
      OBVIOUS
    <3> QED
      BY <1>5, <3>1 DEF InputSeen, Foregrounds, Fails, DataType, OneOwner, Unbegun, HeldByCall,
          HeldByWorker, HeldByRecovery, Delivered, Untransferred
  <2> QED
    BY <2>1, <2>2
<1>6. ASSUME NEW j \in Job, LockPhase(j) PROVE BackgroundInv'
  <2>1. DataType'
    BY <1>6 DEF LockPhase, GateFree, Foregrounds, CallOnly, DataType, Mode, Foreground, Reply,
        Worker
  <2>2. ASSUME NEW k \in Job PROVE OneOwner(k)'
    <3>1. OneOwner(k)
      OBVIOUS
    <3> QED
      BY <1>6, <3>1 DEF LockPhase, GateFree, Foregrounds, CallOnly, DataType, OneOwner, Unbegun,
          HeldByCall, HeldByWorker, HeldByRecovery, Delivered, Untransferred
  <2> QED
    BY <2>1, <2>2
<1>7. ASSUME NEW j \in Job, RecordMarker(j) PROVE BackgroundInv'
  <2>1. DataType'
    BY <1>7 DEF RecordMarker, Foregrounds, Fails, DataType, Mode, Foreground, Reply, Worker
  <2>2. ASSUME NEW k \in Job PROVE OneOwner(k)'
    <3>1. OneOwner(k)
      OBVIOUS
    <3> QED
      BY <1>7, <3>1 DEF RecordMarker, Foregrounds, Fails, DataType, OneOwner, Unbegun, HeldByCall,
          HeldByWorker, HeldByRecovery, Delivered, Untransferred
  <2> QED
    BY <2>1, <2>2
<1>8. ASSUME NEW j \in Job, Detach(j) PROVE BackgroundInv'
  <2>1. DataType'
    BY <1>8 DEF Detach, Answer, DataType, Mode, Foreground, Reply, Worker
  <2>2. ASSUME NEW k \in Job PROVE OneOwner(k)'
    <3>1. OneOwner(k)
      OBVIOUS
    <3> QED
      BY <1>8, <3>1 DEF Detach, Answer, DataType, OneOwner, Unbegun, HeldByCall, HeldByWorker,
          HeldByRecovery, Delivered, Untransferred
  <2> QED
    BY <2>1, <2>2
<1>9. ASSUME NEW j \in Job, Accept(j) PROVE BackgroundInv'
  <2>1. DataType'
    BY <1>9 DEF Accept, Foregrounds, CallOnly, DataType, Mode, Foreground, Reply, Worker
  <2>2. ASSUME NEW k \in Job PROVE OneOwner(k)'
    <3>1. OneOwner(k)
      OBVIOUS
    <3> QED
      BY <1>9, <3>1 DEF Accept, Foregrounds, CallOnly, DataType, OneOwner, Unbegun, HeldByCall,
          HeldByWorker, HeldByRecovery, Delivered, Untransferred
  <2> QED
    BY <2>1, <2>2
<1>10. ASSUME NEW j \in Job, AcceptFails(j) PROVE BackgroundInv'
  <2>1. DataType'
    BY <1>10 DEF AcceptFails, Drop, Unanswered, Cancel, Alive, Fails, RunEnds, DataType, Mode,
        Foreground, Reply, Worker
  <2>2. ASSUME NEW k \in Job PROVE OneOwner(k)'
    <3>1. OneOwner(k)
      OBVIOUS
    <3> QED
      BY <1>10, <3>1 DEF AcceptFails, Drop, Unanswered, Cancel, Alive, Fails, RunEnds, DataType,
          OneOwner, Unbegun, HeldByCall, HeldByWorker, HeldByRecovery, Delivered, Untransferred
  <2> QED
    BY <2>1, <2>2
<1>11. ASSUME NEW j \in Job, OrphanWrites(j) PROVE BackgroundInv'
  <2>1. DataType'
    BY <1>11 DEF OrphanWrites, Fails, DataType, Mode, Foreground, Reply, Worker
  <2>2. ASSUME NEW k \in Job PROVE OneOwner(k)'
    <3>1. OneOwner(k)
      OBVIOUS
    <3> QED
      BY <1>11, <3>1 DEF OrphanWrites, Fails, DataType, OneOwner, Unbegun, HeldByCall,
          HeldByWorker, HeldByRecovery, Delivered, Untransferred
  <2> QED
    BY <2>1, <2>2
<1>12. ASSUME NEW j \in Job, WorkEnds(j) PROVE BackgroundInv'
  <2>1. DataType'
    BY <1>12 DEF WorkEnds, WorkOnly, DataType, Mode, Foreground, Reply, Worker
  <2>2. ASSUME NEW k \in Job PROVE OneOwner(k)'
    <3>1. OneOwner(k)
      OBVIOUS
    <3> QED
      BY <1>12, <3>1 DEF WorkEnds, WorkOnly, DataType, OneOwner, Unbegun, HeldByCall,
          HeldByWorker, HeldByRecovery, Delivered, Untransferred
  <2> QED
    BY <2>1, <2>2
<1>13. ASSUME NEW j \in Job, WorkDies(j) PROVE BackgroundInv'
  <2>1. DataType'
    BY <1>13 DEF WorkDies, Fails, DataType, Mode, Foreground, Reply, Worker
  <2>2. ASSUME NEW k \in Job PROVE OneOwner(k)'
    <3>1. OneOwner(k)
      OBVIOUS
    <3> QED
      BY <1>13, <3>1 DEF WorkDies, Fails, DataType, OneOwner, Unbegun, HeldByCall, HeldByWorker,
          HeldByRecovery, Delivered, Untransferred
  <2> QED
    BY <2>1, <2>2
<1>14. ASSUME NEW j \in Job, StopSeen(j) PROVE BackgroundInv'
  <2>1. DataType'
    BY <1>14 DEF StopSeen, Cancel, Alive, WorkOnly, DataType, Mode, Foreground, Reply, Worker
  <2>2. ASSUME NEW k \in Job PROVE OneOwner(k)'
    <3>1. OneOwner(k)
      OBVIOUS
    <3> QED
      BY <1>14, <3>1 DEF StopSeen, Cancel, Alive, WorkOnly, DataType, OneOwner, Unbegun,
          HeldByCall, HeldByWorker, HeldByRecovery, Delivered, Untransferred
  <2> QED
    BY <2>1, <2>2
<1>15. ASSUME NEW j \in Job, HandOver(j) PROVE BackgroundInv'
  <2>1. DataType'
    BY <1>15 DEF HandOver, GateFree, Ends, WorkOnly, DataType, Mode, Foreground, Reply, Worker
  <2>2. ASSUME NEW k \in Job PROVE OneOwner(k)'
    <3>1. OneOwner(k)
      OBVIOUS
    <3> QED
      BY <1>15, <3>1 DEF HandOver, GateFree, Ends, WorkOnly, DataType, OneOwner, Unbegun,
          HeldByCall, HeldByWorker, HeldByRecovery, Delivered, Untransferred
  <2> QED
    BY <2>1, <2>2
<1>16. ASSUME NEW j \in Job, Finish(j) PROVE BackgroundInv'
  <2>1. DataType'
    <3>1. OneOwner(j)
      OBVIOUS
    <3> QED
      BY <1>16, <3>1 DEF Finish, Ends, Fails, DataType, Mode, Worker, OneOwner, HeldByWorker,
          HeldByRecovery
  <2>2. ASSUME NEW k \in Job PROVE OneOwner(k)'
    <3>1. OneOwner(k)
      OBVIOUS
    <3> QED
      BY <1>16, <3>1 DEF Finish, Ends, Fails, DataType, OneOwner, Unbegun, HeldByCall,
          HeldByWorker, HeldByRecovery, Delivered, Untransferred
  <2> QED
    BY <2>1, <2>2
<1>17. ASSUME NEW j \in Job, Wake(j) PROVE BackgroundInv'
  <2>1. DataType'
    BY <1>17 DEF Wake, Ends, WorkOnly, DataType, Mode, Foreground, Reply, Worker
  <2>2. ASSUME NEW k \in Job PROVE OneOwner(k)'
    <3>1. OneOwner(k)
      OBVIOUS
    <3> QED
      BY <1>17, <3>1 DEF Wake, Ends, WorkOnly, DataType, OneOwner, Unbegun, HeldByCall,
          HeldByWorker, HeldByRecovery, Delivered, Untransferred
  <2> QED
    BY <2>1, <2>2
<1>18. ASSUME NEW j \in Job, RecoverOne(j) PROVE BackgroundInv'
  <2>1. DataType'
    <3>1. OneOwner(j)
      OBVIOUS
    <3> QED
      BY <1>18, <3>1 DEF RecoverOne, Fails, DataType, Mode, Worker, OneOwner, HeldByWorker,
          HeldByRecovery
  <2>2. ASSUME NEW k \in Job PROVE OneOwner(k)'
    <3>1. OneOwner(k)
      OBVIOUS
    <3> QED
      BY <1>18, <3>1 DEF RecoverOne, Fails, DataType, OneOwner, Unbegun, HeldByCall, HeldByWorker,
          HeldByRecovery, Delivered, Untransferred
  <2> QED
    BY <2>1, <2>2
<1>19. ASSUME StartRun PROVE BackgroundInv'
  <2>1. DataType'
    BY <1>19 DEF StartRun, SessionOnly, DataType, Mode, Foreground, Reply, Worker
  <2>2. ASSUME NEW k \in Job PROVE OneOwner(k)'
    <3>1. OneOwner(k)
      OBVIOUS
    <3> QED
      BY <1>19, <3>1 DEF StartRun, SessionOnly, DataType, OneOwner, Unbegun, HeldByCall,
          HeldByWorker, HeldByRecovery, Delivered, Untransferred
  <2> QED
    BY <2>1, <2>2
<1>20. ASSUME InputArrives PROVE BackgroundInv'
  <2>1. DataType'
    BY <1>20 DEF InputArrives, SessionOnly, DataType, Mode, Foreground, Reply, Worker
  <2>2. ASSUME NEW k \in Job PROVE OneOwner(k)'
    <3>1. OneOwner(k)
      OBVIOUS
    <3> QED
      BY <1>20, <3>1 DEF InputArrives, SessionOnly, DataType, OneOwner, Unbegun, HeldByCall,
          HeldByWorker, HeldByRecovery, Delivered, Untransferred
  <2> QED
    BY <2>1, <2>2
<1>21. ASSUME TakeInput PROVE BackgroundInv'
  <2>1. DataType'
    BY <1>21 DEF TakeInput, SessionOnly, DataType, Mode, Foreground, Reply, Worker
  <2>2. ASSUME NEW k \in Job PROVE OneOwner(k)'
    <3>1. OneOwner(k)
      OBVIOUS
    <3> QED
      BY <1>21, <3>1 DEF TakeInput, SessionOnly, DataType, OneOwner, Unbegun, HeldByCall,
          HeldByWorker, HeldByRecovery, Delivered, Untransferred
  <2> QED
    BY <2>1, <2>2
<1>22. ASSUME EndRun PROVE BackgroundInv'
  <2>1. DataType'
    BY <1>22 DEF EndRun, RunEnds, SessionOnly, DataType, Mode, Foreground, Reply, Worker
  <2>2. ASSUME NEW k \in Job PROVE OneOwner(k)'
    <3>1. OneOwner(k)
      OBVIOUS
    <3> QED
      BY <1>22, <3>1 DEF EndRun, RunEnds, SessionOnly, DataType, OneOwner, Unbegun, HeldByCall,
          HeldByWorker, HeldByRecovery, Delivered, Untransferred
  <2> QED
    BY <2>1, <2>2
<1>23. ASSUME AdvanceEpoch PROVE BackgroundInv'
  <2>1. DataType'
    BY <1>23 DEF AdvanceEpoch, Alive, DataType, Mode, Foreground, Reply, Worker
  <2>2. ASSUME NEW k \in Job PROVE OneOwner(k)'
    <3>1. OneOwner(k)
      OBVIOUS
    <3> QED
      BY <1>23, <3>1 DEF AdvanceEpoch, Alive, DataType, OneOwner, Unbegun, HeldByCall,
          HeldByWorker, HeldByRecovery, Delivered, Untransferred
  <2> QED
    BY <2>1, <2>2
<1>24. ASSUME CancelRun PROVE BackgroundInv'
  <2>1. DataType'
    BY <1>24 DEF CancelRun, SessionOnly, DataType, Mode, Foreground, Reply, Worker
  <2>2. ASSUME NEW k \in Job PROVE OneOwner(k)'
    <3>1. OneOwner(k)
      OBVIOUS
    <3> QED
      BY <1>24, <3>1 DEF CancelRun, SessionOnly, DataType, OneOwner, Unbegun, HeldByCall,
          HeldByWorker, HeldByRecovery, Delivered, Untransferred
  <2> QED
    BY <2>1, <2>2
<1>25. ASSUME BeginDelete PROVE BackgroundInv'
  <2>1. DataType'
    BY <1>25 DEF BeginDelete, Cancel, Alive, DataType, Mode, Foreground, Reply, Worker
  <2>2. ASSUME NEW k \in Job PROVE OneOwner(k)'
    <3>1. OneOwner(k)
      OBVIOUS
    <3> QED
      BY <1>25, <3>1 DEF BeginDelete, Cancel, Alive, DataType, OneOwner, Unbegun, HeldByCall,
          HeldByWorker, HeldByRecovery, Delivered, Untransferred
  <2> QED
    BY <2>1, <2>2
<1>26. ASSUME EndDelete PROVE BackgroundInv'
  <2>1. DataType'
    BY <1>26 DEF EndDelete, Alive, Fails, DataType, Mode, Foreground, Reply, Worker
  <2>2. ASSUME NEW k \in Job PROVE OneOwner(k)'
    <3>1. OneOwner(k)
      OBVIOUS
    <3> QED
      BY <1>26, <3>1 DEF EndDelete, Alive, Fails, DataType, OneOwner, Unbegun, HeldByCall,
          HeldByWorker, HeldByRecovery, Delivered, Untransferred
  <2> QED
    BY <2>1, <2>2
<1>27. ASSUME Crash PROVE BackgroundInv'
  <2>1. DataType'
    BY <1>27 DEF Crash, Forget, Drop, Unanswered, DataType, Mode, Foreground, Reply, Worker
  <2>2. ASSUME NEW k \in Job PROVE OneOwner(k)'
    <3>1. OneOwner(k)
      OBVIOUS
    <3> QED
      BY <1>27, <3>1 DEF Crash, Forget, Drop, Unanswered, DataType, OneOwner, Unbegun, HeldByCall,
          HeldByWorker, HeldByRecovery, Delivered, Untransferred
  <2> QED
    BY <2>1, <2>2
<1>28. ASSUME Unload PROVE BackgroundInv'
  <2>1. DataType'
    BY <1>28 DEF Unload, Forget, Alive, DataType, Mode, Foreground, Reply, Worker
  <2>2. ASSUME NEW k \in Job PROVE OneOwner(k)'
    <3>1. OneOwner(k)
      OBVIOUS
    <3> QED
      BY <1>28, <3>1 DEF Unload, Forget, Alive, DataType, OneOwner, Unbegun, HeldByCall,
          HeldByWorker, HeldByRecovery, Delivered, Untransferred
  <2> QED
    BY <2>1, <2>2
<1>29. ASSUME Reopen PROVE BackgroundInv'
  <2>1. DataType'
    BY <1>29 DEF Reopen, DataType, Mode, Foreground, Reply, Worker
  <2>2. ASSUME NEW k \in Job PROVE OneOwner(k)'
    <3>1. OneOwner(k)
      OBVIOUS
    <3> QED
      BY <1>29, <3>1 DEF Reopen, DataType, OneOwner, Unbegun, HeldByCall, HeldByWorker,
          HeldByRecovery, Delivered, Untransferred
  <2> QED
    BY <2>1, <2>2
<1>30. ASSUME Recovered PROVE BackgroundInv'
  <2>1. DataType'
    BY <1>30 DEF Recovered, SessionOnly, DataType, Mode, Foreground, Reply, Worker
  <2>2. ASSUME NEW k \in Job PROVE OneOwner(k)'
    <3>1. OneOwner(k)
      OBVIOUS
    <3> QED
      BY <1>30, <3>1 DEF Recovered, SessionOnly, DataType, OneOwner, Unbegun, HeldByCall,
          HeldByWorker, HeldByRecovery, Delivered, Untransferred
  <2> QED
    BY <2>1, <2>2
<1>31. CASE UNCHANGED vars
  BY <1>31
  DEF vars, DataType, OneOwner, Unbegun, HeldByCall, HeldByWorker, HeldByRecovery, Delivered
<1> QED
  BY <1>1, <1>2, <1>3, <1>4, <1>5, <1>6, <1>7, <1>8, <1>9, <1>10, <1>11, <1>12, <1>13, <1>14,
      <1>15, <1>16, <1>17, <1>18, <1>19, <1>20, <1>21, <1>22, <1>23, <1>24, <1>25, <1>26, <1>27,
      <1>28, <1>29, <1>30, <1>31
  DEF BackgroundNext, ForegroundStep, WorkerStep, RecoveryStep


\* BackgroundSafe says that every call has one owner, whatever is cancelled, fails, dies or is
\* recovered.
THEOREM BackgroundSafe == BackgroundSpec => []BackgroundInv
<1> QED
  BY InitSafe, StepSafe, PTL DEF BackgroundSpec

\* ReportedOnce says that a result reaches the model in one way, once (Finish, RecoverOne and
\* ResultSeen against each other).
THEOREM ReportedOnce == BackgroundSpec => []DeliveredOnce
<1>1. BackgroundInv => DeliveredOnce
  BY DEF BackgroundInv, DataType, OneOwner, Delivered, DeliveredOnce
<1> QED
  BY <1>1, BackgroundSafe, PTL
=============================================================================

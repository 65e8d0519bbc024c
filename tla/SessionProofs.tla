---------------------------- MODULE SessionProofs ----------------------------
(***************************************************************************)
(* Proofs about the session and its executor, for every set of call ids    *)
(* and every bound.  Whatever the executor, the application and a crash do *)
(* to a session is a step of the session's own specification, so what is   *)
(* proved of the session holds of every run, cutover, handoff and recovery.*)
(***************************************************************************)
EXTENDS Executor, TLAPS

-----------------------------------------------------------------------------
(* What the list operations of the queue do. *)

\* Moving an item within a list leaves a list of the same length.
LEMMA MovedType ==
  ASSUME NEW q \in Seq(Nat), NEW from \in 1 .. Len(q), NEW to \in 1 .. Len(q)
  PROVE  /\ Moved(q, from, to) \in Seq(Nat)
         /\ Len(Moved(q, from, to)) = Len(q)
BY DEF Moved, MovedFrom

\* Removing an item leaves a list one shorter.
LEMMA RemovedType ==
  ASSUME NEW q \in Seq(Nat), NEW k \in 1 .. Len(q)
  PROVE  /\ Removed(q, k) \in Seq(Nat)
         /\ Len(Removed(q, k)) = Len(q) - 1
BY DEF Removed

\* The values of the state machine are session states.
LEMMA StateTypes ==
  /\ Idle \in StableState
  /\ \A n \in BOOLEAN : Ready(n) \in StableState
  /\ \A o \in RunOutcome \ {"Completed"} : Suspended(o) \in StableState
  /\ CallingModel \in SessionState
  /\ ExecutingTools \in SessionState
  /\ \A r \in StableState : Compacting(r) \in SessionState
  /\ StableState \subseteq SessionState
BY DEF Idle, Ready, Suspended, CallingModel, ExecutingTools, Compacting, StableState, SessionState

\* A stable state is one of its three kinds, and a compacting session goes back
\* to a stable state.
LEMMA StateCases ==
  ASSUME NEW s \in SessionState
  PROVE  /\ IsStable(s) => s \in StableState
         /\ s.phase = "Compacting" => s.resume \in StableState
BY DEF IsStable, StableState, SessionState

\* Ending a call in a list of records leaves a list of records as long.
LEMMA StatusType ==
  ASSUME NEW calls \in Seq(ModelCallRecord), NEW k \in 1 .. Len(calls), NEW status \in CallStatus
  PROVE  /\ [calls EXCEPT ![k].status = status] \in Seq(ModelCallRecord)
         /\ Len([calls EXCEPT ![k].status = status]) = Len(calls)
         /\ \A i \in 1 .. Len(calls) \ {k} : [calls EXCEPT ![k].status = status][i] = calls[i]
<1>1. calls[k] \in ModelCallRecord
  OBVIOUS
<1>2. [calls[k] EXCEPT !.status = status] \in ModelCallRecord
  BY <1>1 DEF ModelCallRecord
<1> QED
  BY <1>2

\* Finishing a run leaves well-formed call records and a stable state.
LEMMA FinishWithType ==
  ASSUME NEW calls \in Seq(ModelCallRecord), NEW outcome \in RunOutcome,
         active_model_call \in 0 .. Len(calls),
         FinishWith(calls, outcome)
  PROVE  /\ model_calls' \in Seq(ModelCallRecord)
         /\ Len(model_calls') = Len(calls)
         /\ active_model_call' = NoCall
         /\ active_model_call' \in 0 .. Len(model_calls')
         /\ state' \in StableState
<1>1. state' \in StableState
  BY StateTypes DEF FinishWith
<1>2. /\ Abandoned(calls, outcome) \in Seq(ModelCallRecord)
      /\ Len(Abandoned(calls, outcome)) = Len(calls)
  <2> DEFINE status == IF outcome = "Interrupted" THEN "Interrupted" ELSE "Failed"
  <2>1. status \in CallStatus
    BY DEF CallStatus
  <2> HIDE DEF status
  <2>2. CASE active_model_call # NoCall
    BY <2>1, <2>2, StatusType DEF Abandoned, NoCall, status
  <2>3. CASE active_model_call = NoCall
    BY <2>3 DEF Abandoned
  <2> QED
    BY <2>2, <2>3
<1> QED
  BY <1>1, <1>2 DEF FinishWith, NoCall

\* Ending the active call leaves well-formed call records.
LEMMA EndedType ==
  ASSUME NEW status \in CallStatus, model_calls \in Seq(ModelCallRecord),
         active_model_call \in 0 .. Len(model_calls), active_model_call # NoCall
  PROVE  /\ Ended(status) \in Seq(ModelCallRecord)
         /\ Len(Ended(status)) = Len(model_calls)
BY StatusType DEF Ended, NoCall

\* Starting a call appends a record and makes it the active one.
LEMMA StartCallType ==
  ASSUME NEW purpose \in Purpose, model_calls \in Seq(ModelCallRecord), active \in Nat,
         StartCall(purpose)
  PROVE  /\ model_calls' \in Seq(ModelCallRecord)
         /\ Len(model_calls') = Len(model_calls) + 1
         /\ active_model_call' = Len(model_calls')
<1>1. NewModelCall(purpose, "Running") \in ModelCallRecord
  BY DEF NewModelCall, ModelCallRecord, CallStatus
<1> QED
  BY <1>1 DEF StartCall

\* Draining a settled batch gives messages.
LEMMA DrainedType ==
  ASSUME NEW b \in Seq(ToolExecution), \A i \in DOMAIN b : b[i].outcome # NotSettled
  PROVE  Drained(b) \in Seq(Message)
<1>1. \A i \in 1 .. Len(b) : ToolResultMessage(b[i].call, b[i].outcome) \in Message
  <2> TAKE i \in 1 .. Len(b)
  <2>1. b[i] \in ToolExecution /\ b[i].outcome # NotSettled
    OBVIOUS
  <2>2. b[i].call \in ToolCallId /\ b[i].outcome \in ToolOutcome
    BY <2>1 DEF ToolExecution
  <2> QED
    BY <2>2 DEF Message, ToolResultMessage
<1>2. ToolInputMessage \in Message
  BY DEF Message, ToolInputMessage
<1> QED
  BY <1>1, <1>2 DEF Drained

\* Settling a batch gives every call of it an outcome.
LEMMA SettledType ==
  ASSUME NEW b \in Seq(ToolExecution)
  PROVE  /\ Settled(b) \in Seq(ToolExecution)
         /\ Len(Settled(b)) = Len(b)
         /\ \A i \in DOMAIN Settled(b) : Settled(b)[i].outcome # NotSettled
<1>1. \A i \in 1 .. Len(b) : b[i] \in ToolExecution
  OBVIOUS
<1>2. \A i \in 1 .. Len(b) : \A o \in ToolOutcome :
        [b[i] EXCEPT !.outcome = o] \in ToolExecution
  BY <1>1 DEF ToolExecution
<1>3. \A i \in 1 .. Len(b) : \A o \in ToolOutcome :
        [b[i] EXCEPT !.outcome = o].outcome = o
  BY <1>1 DEF ToolExecution
<1>4. "Unknown" \in ToolOutcome /\ "Cancelled" \in ToolOutcome /\ NotSettled \notin ToolOutcome
  BY DEF ToolOutcome, NotSettled
<1> QED
  BY <1>1, <1>2, <1>3, <1>4 DEF Settled

-----------------------------------------------------------------------------
(* Type correctness. *)

\* Every sender step keeps the types.
LEMMA SenderTypeStep ==
  ASSUME TypeOK, SenderNext
  PROVE  TypeOK'
<1> USE SessionAssumption DEF TypeOK, queue_vars, call_vars
<1>1. CASE EnqueueMessage
  BY <1>1 DEF EnqueueMessage
<1>2. ASSUME NEW from \in 1 .. Len(queue), NEW before \in 0 .. Len(queue),
             MoveQueuedInput(from, before)
      PROVE  TypeOK'
  <2> DEFINE to == IF before = 0 THEN Len(queue) ELSE IF before > from THEN before - 1 ELSE before
  <2>1. to \in 1 .. Len(queue) /\ from \in 1 .. Len(queue) /\ queue' = Moved(queue, from, to)
    BY <1>2 DEF MoveQueuedInput
  <2>2. queue' \in Seq(Nat) /\ Len(queue') = Len(queue)
    BY <2>1, MovedType
  <2> QED
    BY <1>2, <2>2 DEF MoveQueuedInput
<1>3. ASSUME NEW k \in 1 .. Len(queue), CancelQueuedInput(k)
      PROVE  TypeOK'
  <2>1. queue' \in Seq(Nat) /\ Len(queue') = Len(queue) - 1
    BY <1>3, RemovedType DEF CancelQueuedInput
  <2>2. cancelled_inputs' \in SUBSET Nat
    <3>1. queue[k] \in Nat
      OBVIOUS
    <3>2. cancelled_inputs' = cancelled_inputs \cup {queue[k]}
      BY <1>3 DEF CancelQueuedInput
    <3> QED
      BY <3>1, <3>2
  <2>3. queue_head' \in 0 .. Len(queue')
    BY <1>3, <2>1 DEF CancelQueuedInput
  <2> QED
    BY <1>3, <2>1, <2>2, <2>3 DEF CancelQueuedInput
<1> QED
  BY <1>1, <1>2, <1>3 DEF SenderNext

\* Every owner step keeps the types.
LEMMA OwnerTypeStep ==
  ASSUME TypeOK, OwnerNext
  PROVE  TypeOK'
<1> USE SessionAssumption DEF TypeOK, queue_vars, call_vars
<1>1. CASE CollectInputs
  BY <1>1, StateTypes DEF CollectInputs
<1>2. CASE StartTurn
  <2>1. history' \in Seq(Message)
    <3> DEFINE consumed == [i \in 1 .. Len(queue) - queue_head |->
                              InputMessage(queue[queue_head + i])]
    <3>1. \A i \in 1 .. Len(queue) - queue_head : InputMessage(queue[queue_head + i]) \in Message
      BY DEF InputMessage, Message
    <3>2. consumed \in Seq(Message)
      BY <3>1
    <3>3. history' = history \o consumed
      BY <1>2 DEF StartTurn, ConsumeInputs
    <3> HIDE DEF consumed
    <3> QED
      BY <3>2, <3>3
  <2>2. "Conversation" \in Purpose
    BY DEF Purpose
  <2>3. /\ model_calls' \in Seq(ModelCallRecord)
        /\ active_model_call' \in 0 .. Len(model_calls')
    BY <1>2, <2>2, StartCallType DEF StartTurn
  <2> QED
    BY <1>2, <2>1, <2>3, StateTypes DEF StartTurn, ConsumeInputs
<1>3. CASE CompleteRun
  BY <1>3, FinishWithType, StateTypes DEF CompleteRun, RunOutcome
<1>4. ASSUME NEW response \in Response, AcceptResponse(response)
      PROVE  TypeOK'
  <2>1. "Completed" \in CallStatus
    BY DEF CallStatus
  <2>2. Ended("Completed") \in Seq(ModelCallRecord) /\ Len(Ended("Completed")) = Len(model_calls)
    BY <1>4, <2>1, EndedType DEF AcceptResponse
  <2>3. CASE response.stop \notin {"Stop", "ToolUse"}
    <3>1. StoppedFor(response) \in RunOutcome
      BY DEF StoppedFor, RunOutcome
    <3> QED
      BY <1>4, <2>2, <2>3, <3>1, FinishWithType, StateTypes DEF AcceptResponse
  <2>4. CASE response.stop \in {"Stop", "ToolUse"} /\ ~ IsAcceptable(response)
    <3>1. "Failed" \in RunOutcome
      BY DEF RunOutcome
    <3> QED
      BY <1>4, <2>2, <2>4, <3>1, FinishWithType, StateTypes DEF AcceptResponse
  <2>5. CASE response.stop \in {"Stop", "ToolUse"} /\ IsAcceptable(response)
    <3>1. response.calls \in Seq(ToolCallId)
      BY DEF Response
    <3>2. ToolUses(response.calls) \in Seq(Message) /\ AssistantMessage \in Message
      BY <3>1 DEF ToolUses, ToolUseMessage, AssistantMessage, Message
    <3>3. NewBatch(response.calls) \in Seq(ToolExecution)
      BY <3>1 DEF NewBatch, ToolExecution
    <3>4. state' \in SessionState
      BY <1>4, <2>5, StateTypes DEF AcceptResponse
    <3>5. history' \in Seq(Message)
      <4>1. history' = (history \o <<AssistantMessage>>) \o ToolUses(response.calls)
        BY <1>4, <2>5 DEF AcceptResponse
      <4>2. history \o <<AssistantMessage>> \in Seq(Message)
        BY <3>2
      <4> QED
        BY <3>2, <4>1, <4>2
    <3>6. batch' = NewBatch(response.calls) /\ model_calls' = Ended("Completed")
          /\ active_model_call' = NoCall
      BY <1>4, <2>5 DEF AcceptResponse
    <3> QED
      BY <1>4, <2>2, <3>3, <3>4, <3>5, <3>6 DEF AcceptResponse, NoCall
  <2> QED
    BY <2>3, <2>4, <2>5
<1>5. CASE AcceptInterruption
  <2>1. "Interrupted" \in CallStatus /\ "Interrupted" \in RunOutcome /\ FragmentMessage \in Message
    BY DEF CallStatus, RunOutcome, FragmentMessage, Message
  <2> QED
    BY <1>5, <2>1, EndedType, FinishWithType, StateTypes DEF AcceptInterruption
<1>6. ASSUME NEW outcome \in RunOutcome, FailModelCall(outcome)
      PROVE  TypeOK'
  <2>1. "Failed" \in CallStatus
    BY DEF CallStatus
  <2> QED
    BY <1>6, <2>1, EndedType, FinishWithType, StateTypes DEF FailModelCall
<1>7. ASSUME NEW k \in DOMAIN batch, StartTool(k)
      PROVE  TypeOK'
  <2>1. batch[k] \in ToolExecution
    OBVIOUS
  <2>2. [batch[k] EXCEPT !.started = TRUE] \in ToolExecution
    BY <2>1 DEF ToolExecution
  <2> QED
    BY <1>7, <2>2 DEF StartTool
<1>8. ASSUME NEW k \in DOMAIN batch, NEW outcome \in ToolOutcome, AcceptToolOutcome(k, outcome)
      PROVE  TypeOK'
  <2>1. batch[k] \in ToolExecution
    OBVIOUS
  <2>2. [batch[k] EXCEPT !.outcome = outcome] \in ToolExecution
    BY <2>1 DEF ToolExecution
  <2> QED
    BY <1>8, <2>2 DEF AcceptToolOutcome
<1>9. CASE CompleteTools
  <2>1. Drained(batch) \in Seq(Message)
    BY <1>9, DrainedType DEF CompleteTools
  <2>2. /\ state' \in SessionState
        /\ model_calls' \in Seq(ModelCallRecord)
        /\ active_model_call' \in 0 .. Len(model_calls')
    <3>1. "ToolOutcomeUnknown" \in RunOutcome
      BY DEF RunOutcome
    <3> QED
      BY <1>9, <3>1, FinishWithType, StateTypes DEF CompleteTools
  <2> QED
    BY <1>9, <2>1, <2>2 DEF CompleteTools
<1>10. ASSUME NEW outcome \in RunOutcome, FinishRun(outcome)
       PROVE  TypeOK'
  BY <1>10, FinishWithType, StateTypes DEF FinishRun
<1>11. CASE SettleInterrupted
  <2>1. "Interrupted" \in RunOutcome /\ "ToolOutcomeUnknown" \in RunOutcome
    BY DEF RunOutcome
  <2>2. CASE SettleCallingModel
    BY <1>11, <2>1, <2>2, FinishWithType, StateTypes DEF SettleInterrupted, SettleCallingModel
  <2>3. CASE SettleExecutingTools
    <3>1. Drained(Settled(batch)) \in Seq(Message)
      BY DrainedType, SettledType
    <3> QED
      BY <1>11, <2>1, <2>3, <3>1, FinishWithType, StateTypes
      DEF SettleInterrupted, SettleExecutingTools
  <2>4. CASE SettleCompacting
    BY <1>11, <2>1, <2>4, FinishWithType, StateTypes, StateCases
    DEF SettleInterrupted, SettleCompacting
  <2> QED
    BY <1>11, <2>2, <2>3, <2>4 DEF SettleInterrupted
<1>12. CASE Resume
  BY <1>12, StateTypes DEF Resume
<1>13. CASE BeginCompaction
  BY <1>13, StateTypes, StateCases DEF BeginCompaction
<1>14. CASE EndCompaction
  BY <1>14, StateTypes, StateCases DEF EndCompaction, NoCall
<1>15. ASSUME NEW purpose \in Purpose, StartModelCall(purpose)
       PROVE  TypeOK'
  BY <1>15, StartCallType DEF StartModelCall
<1>16. ASSUME NEW status \in CallStatus \ {"Running"}, CompleteCompactionCall(status)
       PROVE  TypeOK'
  BY <1>16, EndedType DEF CompleteCompactionCall
<1>17. CASE RecordCompletedCompactionCall
  <2>1. NewModelCall("CompactionSummary", "Completed") \in ModelCallRecord
    BY DEF NewModelCall, ModelCallRecord, Purpose, CallStatus
  <2> QED
    BY <1>17, <2>1 DEF RecordCompletedCompactionCall
<1>18. CASE SwitchActive
  BY <1>18 DEF SwitchActive
<1> QED
  BY <1>1, <1>2, <1>3, <1>4, <1>5, <1>6, <1>7, <1>8, <1>9, <1>10, <1>11, <1>12, <1>13, <1>14,
     <1>15, <1>16, <1>17, <1>18
  DEF OwnerNext

\* Every step of the session keeps its variables well typed: whichever
\* operations of the owner and its senders follow one another, the queue head
\* stays within the queue and the active call within the records.
THEOREM SessionTypeCorrect == SessionSpec => []TypeOK
<1>1. SessionInit => TypeOK
  BY SessionAssumption, StateTypes DEF SessionInit, TypeOK, NoCall
<1>2. TypeOK /\ [SessionNext]_session_vars => TypeOK'
  <2> SUFFICES ASSUME TypeOK, [SessionNext]_session_vars
               PROVE  TypeOK'
    OBVIOUS
  <2>1. CASE UNCHANGED session_vars
    BY <2>1 DEF TypeOK, session_vars
  <2> QED
    BY <2>1, SenderTypeStep, OwnerTypeStep DEF SessionNext
<1> QED
  BY <1>1, <1>2, PTL DEF SessionSpec

-----------------------------------------------------------------------------
(* The queue. *)

\* Moving an item permutes the list: nothing is lost and nothing doubled.
LEMMA MovedPermutes ==
  ASSUME NEW q \in Seq(Nat), NEW from \in 1 .. Len(q), NEW to \in 1 .. Len(q)
  PROVE  /\ IsInjective(q) => IsInjective(Moved(q, from, to))
         /\ Range(Moved(q, from, to)) = Range(q)
<1> DEFINE m == Moved(q, from, to)
<1>1. \A i \in 1 .. Len(q) : MovedFrom(from, to, i) \in 1 .. Len(q)
  BY DEF MovedFrom
<1>2. DOMAIN m = 1 .. Len(q) /\ \A i \in 1 .. Len(q) : m[i] = q[MovedFrom(from, to, i)]
  BY DEF Moved
<1>3. \A i, j \in 1 .. Len(q) : MovedFrom(from, to, i) = MovedFrom(from, to, j) => i = j
  BY DEF MovedFrom
<1>4. \A i \in 1 .. Len(q) : /\ MovedFrom(to, from, i) \in 1 .. Len(q)
                             /\ MovedFrom(from, to, MovedFrom(to, from, i)) = i
  BY DEF MovedFrom
<1> HIDE DEF m
<1>5. DOMAIN q = 1 .. Len(q)
  OBVIOUS
<1>6. IsInjective(q) => IsInjective(m)
  BY <1>1, <1>2, <1>3, <1>5 DEF IsInjective
<1>7. Range(m) \subseteq Range(q)
  BY <1>1, <1>2, <1>5 DEF Range
<1>8. Range(q) \subseteq Range(m)
  <2> SUFFICES ASSUME NEW i \in 1 .. Len(q)
               PROVE  \E j \in DOMAIN m : m[j] = q[i]
    BY <1>5 DEF Range
  <2>1. MovedFrom(to, from, i) \in DOMAIN m /\ m[MovedFrom(to, from, i)] = q[i]
    BY <1>2, <1>4
  <2> QED
    BY <2>1
<1> QED
  BY <1>6, <1>7, <1>8 DEF m

\* Removing an item of a list without doubles removes that item and no other.
LEMMA RemovedDrops ==
  ASSUME NEW q \in Seq(Nat), NEW k \in 1 .. Len(q), IsInjective(q)
  PROVE  /\ IsInjective(Removed(q, k))
         /\ Range(Removed(q, k)) = Range(q) \ {q[k]}
<1> DEFINE r == Removed(q, k)
           from(i) == IF i < k THEN i ELSE i + 1
<1>1. DOMAIN q = 1 .. Len(q)
  OBVIOUS
<1>2. DOMAIN r = 1 .. Len(q) - 1 /\ \A i \in 1 .. Len(q) - 1 : r[i] = q[from(i)]
  BY DEF Removed
<1>3. \A i \in 1 .. Len(q) - 1 : from(i) \in 1 .. Len(q) /\ from(i) # k
  OBVIOUS
<1>4. \A i, j \in 1 .. Len(q) - 1 : from(i) = from(j) => i = j
  OBVIOUS
<1>5. \A i \in 1 .. Len(q) \ {k} : \E j \in 1 .. Len(q) - 1 : from(j) = i
  <2> TAKE i \in 1 .. Len(q) \ {k}
  <2>1. CASE i < k
    <3> WITNESS i \in 1 .. Len(q) - 1
    <3> QED BY <2>1
  <2>2. CASE i > k
    <3> i - 1 \in 1 .. Len(q) - 1
      BY <2>2
    <3> WITNESS i - 1 \in 1 .. Len(q) - 1
    <3> QED BY <2>2
  <2> QED
    BY <2>1, <2>2
<1> HIDE DEF r, from
<1>6. IsInjective(r)
  <2> SUFFICES ASSUME NEW i \in 1 .. Len(q) - 1, NEW j \in 1 .. Len(q) - 1, r[i] = r[j]
               PROVE  i = j
    BY <1>2 DEF IsInjective
  <2>1. q[from(i)] = q[from(j)] /\ from(i) \in DOMAIN q /\ from(j) \in DOMAIN q
    BY <1>1, <1>2, <1>3
  <2>2. from(i) = from(j)
    BY <2>1 DEF IsInjective
  <2> QED
    BY <1>4, <2>2
<1>7. Range(r) \subseteq Range(q) \ {q[k]}
  BY <1>1, <1>2, <1>3 DEF Range, IsInjective
<1>8. Range(q) \ {q[k]} \subseteq Range(r)
  <2> SUFFICES ASSUME NEW i \in 1 .. Len(q), i # k
               PROVE  q[i] \in Range(r)
    BY <1>1 DEF Range
  <2>1. PICK j \in 1 .. Len(q) - 1 : from(j) = i
    BY <1>5
  <2> QED
    BY <1>2, <2>1 DEF Range
<1> QED
  BY <1>6, <1>7, <1>8 DEF r

\* An owner step leaves the queue's list and the cancelled inputs alone, and
\* moves the head only forward, to the end of the list.
LEMMA OwnerKeepsQueue ==
  ASSUME TypeOK, OwnerNext
  PROVE  /\ UNCHANGED queue_vars
         /\ queue_head' = queue_head \/ queue_head' = Len(queue)
BY DEF OwnerNext, queue_vars, CollectInputs, StartTurn, ConsumeInputs, CompleteRun, AcceptResponse,
       AcceptInterruption, FailModelCall, StartTool, AcceptToolOutcome, CompleteTools, FinishRun,
       SettleInterrupted, Resume, BeginCompaction, EndCompaction, StartModelCall,
       CompleteCompactionCall, RecordCompletedCompactionCall, SwitchActive

\* A step of any kind conserves the inputs.
LEMMA InputsStep ==
  ASSUME TypeOK, InputsConserved, [SessionNext]_session_vars
  PROVE  InputsConserved'
<1> USE DEF TypeOK
<1>1. CASE UNCHANGED session_vars
  BY <1>1 DEF InputsConserved, session_vars
<1>2. CASE OwnerNext
  BY <1>2, OwnerKeepsQueue DEF InputsConserved, queue_vars
<1>3. CASE EnqueueMessage
  <2>1. /\ queue' = Append(queue, inputs + 1) /\ inputs' = inputs + 1
        /\ cancelled_inputs' = cancelled_inputs
    BY <1>3 DEF EnqueueMessage
  <2>2. /\ DOMAIN queue = 1 .. Len(queue) /\ DOMAIN queue' = 1 .. Len(queue) + 1
        /\ \A i \in 1 .. Len(queue) : queue'[i] = queue[i]
        /\ queue'[Len(queue) + 1] = inputs + 1
    BY <2>1
  <2>3. \A i \in 1 .. Len(queue) : queue[i] \in 1 .. inputs
    BY <2>2 DEF InputsConserved, Range
  <2>4. \A x \in cancelled_inputs : x \in 1 .. inputs
    BY DEF InputsConserved
  <2>5. Range(queue') = Range(queue) \cup {inputs + 1}
    <3>1. Range(queue') \subseteq Range(queue) \cup {inputs + 1}
      <4> SUFFICES ASSUME NEW i \in 1 .. Len(queue) + 1
                   PROVE  queue'[i] \in Range(queue) \cup {inputs + 1}
        BY <2>2 DEF Range
      <4>1. CASE i \in 1 .. Len(queue)
        BY <2>2, <4>1 DEF Range
      <4>2. CASE i = Len(queue) + 1
        BY <2>2, <4>2
      <4> QED
        BY <4>1, <4>2
    <3>2. Range(queue) \subseteq Range(queue')
      <4> SUFFICES ASSUME NEW i \in 1 .. Len(queue)
                   PROVE  queue[i] \in Range(queue')
        BY <2>2 DEF Range
      <4>1. i \in DOMAIN queue' /\ queue'[i] = queue[i]
        BY <2>2
      <4> QED
        BY <4>1 DEF Range
    <3>3. inputs + 1 \in Range(queue')
      <4>1. Len(queue) + 1 \in DOMAIN queue'
        BY <2>2
      <4> QED
        BY <2>2, <4>1 DEF Range
    <3> QED
      BY <3>1, <3>2, <3>3
  <2>6. IsInjective(queue')
    <3> SUFFICES ASSUME NEW i \in 1 .. Len(queue) + 1, NEW j \in 1 .. Len(queue) + 1,
                        queue'[i] = queue'[j]
                 PROVE  i = j
      BY <2>2 DEF IsInjective
    <3>1. CASE i \in 1 .. Len(queue) /\ j \in 1 .. Len(queue)
      BY <2>2, <3>1 DEF InputsConserved, IsInjective
    <3>2. \A m \in 1 .. Len(queue) : queue'[m] # queue'[Len(queue) + 1]
      <4> SUFFICES ASSUME NEW m \in 1 .. Len(queue)
                   PROVE  queue[m] # inputs + 1
        BY <2>2
      <4>1. queue[m] <= inputs /\ queue[m] \in Nat
        BY <2>3
      <4> QED
        BY <4>1
    <3>3. CASE i = Len(queue) + 1 \/ j = Len(queue) + 1
      BY <3>2, <3>3
    <3> QED
      BY <3>1, <3>3
  <2>7. 1 .. inputs + 1 = (1 .. inputs) \cup {inputs + 1}
    <3>1. \A x \in 1 .. inputs + 1 : x \in 1 .. inputs \/ x = inputs + 1
      OBVIOUS
    <3>2. \A x \in 1 .. inputs : x \in 1 .. inputs + 1
      OBVIOUS
    <3>3. inputs + 1 \in 1 .. inputs + 1
      OBVIOUS
    <3> DEFINE old == 1 .. inputs
               new == 1 .. inputs + 1
               id == inputs + 1
    <3>4. /\ \A x \in new : x \in old \/ x = id
          /\ \A x \in old : x \in new
          /\ id \in new
      BY <3>1, <3>2, <3>3
    <3> HIDE DEF old, new, id
    <3>5. new = old \cup {id}
      BY <3>4
    <3> QED
      BY <3>5 DEF old, new, id
  <2>8. inputs + 1 \notin cancelled_inputs
    BY <2>4
  <2> QED
    BY <2>1, <2>5, <2>6, <2>7, <2>8 DEF InputsConserved
<1>4. ASSUME NEW from \in 1 .. Len(queue), NEW before \in 0 .. Len(queue),
             MoveQueuedInput(from, before)
      PROVE  InputsConserved'
  <2> DEFINE to == IF before = 0 THEN Len(queue) ELSE IF before > from THEN before - 1 ELSE before
  <2>1. to \in 1 .. Len(queue) /\ queue' = Moved(queue, from, to)
        /\ inputs' = inputs /\ cancelled_inputs' = cancelled_inputs
    BY <1>4 DEF MoveQueuedInput
  <2> QED
    BY <2>1, MovedPermutes DEF InputsConserved
<1>5. ASSUME NEW k \in 1 .. Len(queue), CancelQueuedInput(k)
      PROVE  InputsConserved'
  <2>1. queue' = Removed(queue, k) /\ inputs' = inputs
        /\ cancelled_inputs' = cancelled_inputs \cup {queue[k]}
    BY <1>5 DEF CancelQueuedInput
  <2>2. queue[k] \in Range(queue)
    BY DEF Range
  <2> QED
    BY <2>1, <2>2, RemovedDrops DEF InputsConserved
<1> QED
  BY <1>1, <1>2, <1>3, <1>4, <1>5 DEF SessionNext, SenderNext

\* No input is lost or doubled, however many senders and turns interleave.
THEOREM SessionInputsConserved == SessionSpec => []InputsConserved
<1>1. SessionInit => InputsConserved
  BY DEF SessionInit, InputsConserved, IsInjective, Range
<1>2. TypeOK /\ InputsConserved /\ [SessionNext]_session_vars => InputsConserved'
  BY InputsStep
<1> QED
  BY <1>1, <1>2, SessionTypeCorrect, PTL DEF SessionSpec

\* No step moves, drops or gives back an input the head has passed.
LEMMA ConsumedStep ==
  ASSUME TypeOK, SessionNext
  PROVE  /\ queue_head <= queue_head'
         /\ \A i \in 1 .. queue_head : i \in DOMAIN queue' /\ queue'[i] = queue[i]
<1> USE DEF TypeOK
<1>1. CASE OwnerNext
  BY <1>1, OwnerKeepsQueue DEF queue_vars
<1>2. CASE EnqueueMessage
  BY <1>2 DEF EnqueueMessage
<1>3. ASSUME NEW from \in 1 .. Len(queue), NEW before \in 0 .. Len(queue),
             MoveQueuedInput(from, before)
      PROVE  /\ queue_head <= queue_head'
             /\ \A i \in 1 .. queue_head : i \in DOMAIN queue' /\ queue'[i] = queue[i]
  <2> DEFINE to == IF before = 0 THEN Len(queue) ELSE IF before > from THEN before - 1 ELSE before
  <2>1. /\ from > queue_head /\ to \in queue_head + 1 .. Len(queue)
        /\ queue' = Moved(queue, from, to) /\ queue_head' = queue_head
    BY <1>3 DEF MoveQueuedInput
  <2>2. \A i \in 1 .. queue_head : MovedFrom(from, to, i) = i
    BY <2>1 DEF MovedFrom
  <2> QED
    BY <2>1, <2>2 DEF Moved
<1>4. ASSUME NEW k \in 1 .. Len(queue), CancelQueuedInput(k)
      PROVE  /\ queue_head <= queue_head'
             /\ \A i \in 1 .. queue_head : i \in DOMAIN queue' /\ queue'[i] = queue[i]
  BY <1>4 DEF CancelQueuedInput, Removed
<1> QED
  BY <1>1, <1>2, <1>3, <1>4 DEF SessionNext, SenderNext

\* A consumed input keeps its place in the queue's log: a move or a cancellation
\* that races the start of a turn never reaches an input the turn has taken.
THEOREM SessionConsumedStays == SessionSpec => ConsumedStays
<1>1. TypeOK /\ [SessionNext]_session_vars =>
        [/\ queue_head <= queue_head'
         /\ \A i \in 1 .. queue_head : i \in DOMAIN queue' /\ queue'[i] = queue[i]]_session_vars
  BY ConsumedStep
<1> QED
  BY <1>1, SessionTypeCorrect, PTL DEF SessionSpec, ConsumedStays

-----------------------------------------------------------------------------
(* The state machine, the call records and the batch. *)

\* The invariant the two properties rest on together: the phase says which of
\* the call record and the batch the session must have.
PhaseInv == CallInFlight /\ BatchWhileExecuting

\* The states of different phases differ.
LEMMA PhasesDiffer ==
  /\ \A s \in StableState : s # CallingModel /\ s # ExecutingTools
  /\ \A r : Compacting(r) # CallingModel /\ Compacting(r) # ExecutingTools
  /\ CallingModel # ExecutingTools
BY DEF StableState, CallingModel, ExecutingTools, Compacting

\* Finishing a run leaves neither phase.
LEMMA FinishedPhase ==
  ASSUME NEW calls, NEW outcome \in RunOutcome, FinishWith(calls, outcome)
  PROVE  state' # CallingModel /\ state' # ExecutingTools
BY StateTypes, PhasesDiffer DEF FinishWith

\* Every step of the session keeps the phase, the call and the batch in step.
LEMMA PhaseStep ==
  ASSUME TypeOK, PhaseInv, [SessionNext]_session_vars
  PROVE  PhaseInv'
<1> USE DEF PhaseInv, CallInFlight, BatchWhileExecuting
<1>1. CASE UNCHANGED session_vars
  BY <1>1 DEF session_vars
<1>2. CASE SenderNext
  BY <1>2 DEF SenderNext, EnqueueMessage, MoveQueuedInput, CancelQueuedInput, call_vars
<1>3. CASE CollectInputs \/ Resume
  <2>1. CASE CollectInputs
    BY <2>1, StateTypes, PhasesDiffer DEF CollectInputs
  <2>2. CASE Resume
    <3>1. state # ExecutingTools
      BY <2>2 DEF Resume, IsStable, ExecutingTools
    <3> QED
      BY <2>2, <3>1, StateTypes, PhasesDiffer DEF Resume
  <2> QED
    BY <1>3, <2>1, <2>2
<1>4. CASE StartTurn
  <2>1. model_calls'[active_model_call'] = NewModelCall("Conversation", "Running")
        /\ active_model_call' # NoCall
    BY <1>4 DEF StartTurn, StartCall, TypeOK, NoCall
  <2>2. state # ExecutingTools /\ state' = CallingModel /\ batch' = batch
    BY <1>4 DEF StartTurn, ExecutingTools
  <2> QED
    BY <2>1, <2>2, PhasesDiffer DEF NewModelCall
<1>5. CASE CompleteRun
  BY <1>5, FinishedPhase DEF CompleteRun, RunOutcome, Ready, ExecutingTools
<1>6. ASSUME NEW response \in Response, AcceptResponse(response)
      PROVE  PhaseInv'
  <2>1. batch = <<>>
    BY <1>6, PhasesDiffer DEF AcceptResponse
  <2>2. CASE response.stop \notin {"Stop", "ToolUse"}
    BY <1>6, <2>1, <2>2, FinishedPhase DEF AcceptResponse, RunOutcome, StoppedFor
  <2>3. CASE response.stop \in {"Stop", "ToolUse"} /\ ~ IsAcceptable(response)
    BY <1>6, <2>1, <2>3, FinishedPhase DEF AcceptResponse, RunOutcome
  <2>4. CASE response.stop \in {"Stop", "ToolUse"} /\ IsAcceptable(response)
    <3>1. response.calls \in Seq(ToolCallId)
      BY DEF Response
    <3>2. NewBatch(response.calls) = <<>> <=> response.calls = <<>>
      BY <3>1 DEF NewBatch
    <3>3. /\ batch' = NewBatch(response.calls)
          /\ state' = IF response.calls = <<>> THEN Ready(FALSE) ELSE ExecutingTools
      BY <1>6, <2>4 DEF AcceptResponse
    <3> QED
      BY <3>2, <3>3, StateTypes, PhasesDiffer
  <2> QED
    BY <2>2, <2>3, <2>4
<1>7. CASE AcceptInterruption
  BY <1>7, FinishedPhase, PhasesDiffer DEF AcceptInterruption, RunOutcome
<1>8. ASSUME NEW outcome \in RunOutcome, FailModelCall(outcome)
      PROVE  PhaseInv'
  BY <1>8, FinishedPhase, PhasesDiffer DEF FailModelCall
<1>9. ASSUME NEW k \in DOMAIN batch, StartTool(k)
      PROVE  PhaseInv'
  BY <1>9, PhasesDiffer DEF StartTool, TypeOK, call_vars
<1>10. ASSUME NEW k \in DOMAIN batch, NEW outcome \in ToolOutcome, AcceptToolOutcome(k, outcome)
       PROVE  PhaseInv'
  BY <1>10, PhasesDiffer DEF AcceptToolOutcome, TypeOK, call_vars
<1>11. CASE CompleteTools
  <2>1. state' # CallingModel /\ state' # ExecutingTools
    BY <1>11, FinishedPhase, StateTypes, PhasesDiffer DEF CompleteTools, RunOutcome
  <2> QED
    BY <1>11, <2>1 DEF CompleteTools
<1>12. ASSUME NEW outcome \in RunOutcome, FinishRun(outcome)
       PROVE  PhaseInv'
  BY <1>12, FinishedPhase, StateCases, PhasesDiffer DEF FinishRun, TypeOK
<1>13. CASE SettleInterrupted
  <2>1. CASE SettleCallingModel
    BY <2>1, FinishedPhase, PhasesDiffer DEF SettleCallingModel, RunOutcome
  <2>2. CASE SettleExecutingTools
    BY <2>2, FinishedPhase DEF SettleExecutingTools, RunOutcome
  <2>3. CASE SettleCompacting
    <3>1. state # ExecutingTools
      BY <2>3 DEF SettleCompacting, ExecutingTools
    <3>2. state' # CallingModel /\ state' # ExecutingTools
      BY <2>3, FinishedPhase, StateCases, PhasesDiffer DEF SettleCompacting, RunOutcome, TypeOK
    <3> QED
      BY <2>3, <3>1, <3>2 DEF SettleCompacting
  <2> QED
    BY <1>13, <2>1, <2>2, <2>3 DEF SettleInterrupted
<1>14. CASE BeginCompaction
  <2>1. state # ExecutingTools /\ batch' = batch
    BY <1>14 DEF BeginCompaction, IsStable, ExecutingTools
  <2>2. state' # ExecutingTools /\ state' # CallingModel
    BY <1>14, PhasesDiffer DEF BeginCompaction
  <2> QED
    BY <2>1, <2>2
<1>15. CASE EndCompaction
  <2>1. state # ExecutingTools
    BY <1>15 DEF EndCompaction, ExecutingTools
  <2> QED
    BY <1>15, <2>1, StateCases, PhasesDiffer DEF EndCompaction, TypeOK
<1>16. ASSUME NEW purpose \in Purpose, StartModelCall(purpose)
       PROVE  PhaseInv'
  BY <1>16 DEF StartModelCall, IsStable, CallingModel, ExecutingTools
<1>17. ASSUME NEW status \in CallStatus \ {"Running"}, CompleteCompactionCall(status)
       PROVE  PhaseInv'
  BY <1>17 DEF CompleteCompactionCall, IsStable, CallingModel, ExecutingTools
<1>18. CASE RecordCompletedCompactionCall
  BY <1>18 DEF RecordCompletedCompactionCall, TypeOK, NoCall
<1>19. CASE SwitchActive
  BY <1>19 DEF SwitchActive, call_vars
<1> QED
  BY <1>1, <1>2, <1>3, <1>4, <1>5, <1>6, <1>7, <1>8, <1>9, <1>10, <1>11, <1>12, <1>13, <1>14,
     <1>15, <1>16, <1>17, <1>18, <1>19
  DEF SessionNext, OwnerNext

\* The phase, the call record and the batch stay in step in every behaviour of
\* the session, the settlement of an abandoned run included.
THEOREM SessionPhases == SessionSpec => []PhaseInv
<1>1. SessionInit => PhaseInv
  BY StateTypes, PhasesDiffer DEF SessionInit, PhaseInv, CallInFlight, BatchWhileExecuting
<1>2. TypeOK /\ PhaseInv /\ [SessionNext]_session_vars => PhaseInv'
  BY PhaseStep
<1> QED
  BY <1>1, <1>2, SessionTypeCorrect, PTL DEF SessionSpec

\* A call in flight always finds the running record it has to close.
THEOREM SessionCallInFlight == SessionSpec => []CallInFlight
BY SessionPhases, PTL DEF PhaseInv

\* There is a batch exactly while its tools run.
THEOREM SessionBatchWhileExecuting == SessionSpec => []BatchWhileExecuting
BY SessionPhases, PTL DEF PhaseInv

-----------------------------------------------------------------------------
(* The history. *)

\* The five things a step does to the history.  It leaves the messages and the calls of
\* the batch as they are;
Quiet ==
  /\ UNCHANGED <<history, queue_head>>
  /\ (state = ExecutingTools) <=> (state' = ExecutingTools)
  /\ Len(batch') = Len(batch)
  /\ \A i \in 1 .. Len(batch) : batch'[i].call = batch[i].call

\* starts a turn, with the inputs;
Consumes == ConsumeInputs /\ state # ExecutingTools /\ state' # ExecutingTools /\ UNCHANGED queue

\* keeps the fragment of an interrupted answer;
Interrupts ==
  /\ history' = Append(history, FragmentMessage)
  /\ UNCHANGED queue_head
  /\ state # ExecutingTools /\ state' # ExecutingTools

\* accepts an answer with its calls;
Answers(calls) ==
  /\ history' = history \o <<AssistantMessage>> \o ToolUses(calls)
  /\ UNCHANGED queue_head
  /\ state # ExecutingTools
  /\ calls # <<>> => state' = ExecutingTools
  /\ batch' = NewBatch(calls)

\* or drains the batch, every call of it with an outcome.
Drains(b) ==
  /\ history' = history \o Drained(b)
  /\ UNCHANGED queue_head
  /\ state = ExecutingTools /\ state' # ExecutingTools
  /\ Len(b) = Len(batch)
  /\ \A i \in 1 .. Len(batch) : b[i].call = batch[i].call /\ b[i].outcome # NotSettled

\* A tool's start and its outcome leave the calls of the batch alone.
LEMMA ToolStepsAreQuiet ==
  ASSUME TypeOK, TypeOK', NEW k \in DOMAIN batch,
         StartTool(k) \/ \E outcome \in ToolOutcome : AcceptToolOutcome(k, outcome)
  PROVE  Quiet
<1>1. batch \in Seq(ToolExecution) /\ \A i \in 1 .. Len(batch) : batch[i] \in ToolExecution
  BY DEF TypeOK
<1>2. UNCHANGED <<history, queue_head, state>>
  BY DEF StartTool, AcceptToolOutcome
<1>3. CASE StartTool(k)
  BY <1>1, <1>2, <1>3 DEF StartTool, Quiet, ToolExecution
<1>4. ASSUME NEW outcome \in ToolOutcome, AcceptToolOutcome(k, outcome)
      PROVE  Quiet
  BY <1>1, <1>2, <1>4 DEF AcceptToolOutcome, Quiet, ToolExecution
<1> QED
  BY <1>3, <1>4

\* Every step does one of the five.
LEMMA HistorySteps ==
  ASSUME TypeOK, TypeOK', PhaseInv, PhaseInv', SessionNext
  PROVE  \/ Quiet \/ Consumes \/ Interrupts
         \/ \E calls \in Seq(ToolCallId) : Answers(calls)
         \/ \E b \in Seq(ToolExecution) : Drains(b)
<1>0. /\ (state = ExecutingTools) <=> (batch # <<>>)
      /\ (state' = ExecutingTools) <=> (batch' # <<>>)
  BY DEF PhaseInv, BatchWhileExecuting
<1>1. CASE SenderNext
  <2>1. UNCHANGED <<history, queue_head, batch, state>>
    BY <1>1 DEF SenderNext, EnqueueMessage, MoveQueuedInput, CancelQueuedInput
  <2> QED
    BY <2>1 DEF Quiet
<1>2. ASSUME UNCHANGED <<history, queue_head, batch>>
      PROVE  Quiet
  BY <1>0, <1>2 DEF Quiet
<1>3. CASE CollectInputs \/ CompleteRun \/ Resume \/ BeginCompaction \/ EndCompaction
           \/ RecordCompletedCompactionCall \/ SwitchActive
  BY <1>2, <1>3 DEF CollectInputs, CompleteRun, Resume, BeginCompaction, EndCompaction,
     RecordCompletedCompactionCall, SwitchActive
<1>4. CASE StartTurn
  BY <1>0, <1>4, PhasesDiffer DEF StartTurn, Consumes, ExecutingTools, queue_vars
<1>5. ASSUME NEW response \in Response, AcceptResponse(response)
      PROVE  Quiet \/ \E calls \in Seq(ToolCallId) : Answers(calls)
  <2>1. CASE UNCHANGED <<batch, history>>
    BY <1>2, <1>5, <2>1 DEF AcceptResponse
  <2>2. CASE ~ UNCHANGED <<batch, history>>
    <3>1. response.calls \in Seq(ToolCallId)
      BY DEF Response
    <3>2. Answers(response.calls)
      BY <1>5, <2>2, PhasesDiffer DEF AcceptResponse, Answers
    <3> QED
      BY <3>1, <3>2
  <2> QED
    BY <2>1, <2>2
<1>6. CASE AcceptInterruption
  BY <1>6, <1>0, PhasesDiffer DEF AcceptInterruption, Interrupts
<1>7. ASSUME NEW outcome \in RunOutcome, FailModelCall(outcome) \/ FinishRun(outcome)
      PROVE  Quiet
  BY <1>2, <1>7 DEF FailModelCall, FinishRun
<1>8. ASSUME NEW k \in DOMAIN batch,
             StartTool(k) \/ \E outcome \in ToolOutcome : AcceptToolOutcome(k, outcome)
      PROVE  Quiet
  BY <1>8, ToolStepsAreQuiet
<1>9. CASE CompleteTools
  <2>1. Drains(batch)
    BY <1>0, <1>9 DEF CompleteTools, Drains, TypeOK
  <2> QED
    BY <2>1 DEF TypeOK
<1>10. CASE SettleInterrupted
  <2>1. CASE SettleExecutingTools
    <3>1. batch \in Seq(ToolExecution)
      BY DEF TypeOK
    <3>2. /\ Settled(batch) \in Seq(ToolExecution)
          /\ Len(Settled(batch)) = Len(batch)
          /\ \A i \in DOMAIN Settled(batch) : Settled(batch)[i].outcome # NotSettled
      BY <3>1, SettledType
    <3>3. \A i \in 1 .. Len(batch) : Settled(batch)[i].call = batch[i].call
      <4>1. \A i \in 1 .. Len(batch) : batch[i] \in ToolExecution
        BY <3>1
      <4> QED
        BY <4>1 DEF Settled, ToolExecution
    <3>4. Drains(Settled(batch))
      BY <1>0, <1>10, <2>1, <3>2, <3>3 DEF SettleInterrupted, SettleExecutingTools, Drains
    <3> QED
      BY <3>2, <3>4
  <2>2. CASE SettleCallingModel \/ SettleCompacting
    BY <1>2, <1>10, <2>2 DEF SettleInterrupted, SettleCallingModel, SettleCompacting
  <2> QED
    BY <1>10, <2>1, <2>2 DEF SettleInterrupted
<1>11. ASSUME NEW purpose \in Purpose, StartModelCall(purpose)
       PROVE  Quiet
  BY <1>2, <1>11 DEF StartModelCall
<1>12. ASSUME NEW status \in CallStatus, CompleteCompactionCall(status)
       PROVE  Quiet
  BY <1>2, <1>12 DEF CompleteCompactionCall
<1> QED
  BY <1>1, <1>3, <1>4, <1>5, <1>6, <1>7, <1>8, <1>9, <1>10, <1>11, <1>12 DEF SessionNext, OwnerNext

\* What a history that grew holds, and where.
LEMMA Grown ==
  ASSUME NEW s \in Seq(Message), NEW t \in Seq(Message)
  PROVE  /\ s \o t \in Seq(Message)
         /\ Len(s) \in Nat /\ Len(t) \in Nat
         /\ Len(s \o t) = Len(s) + Len(t)
         /\ DOMAIN (s \o t) = 1 .. Len(s) + Len(t)
         /\ DOMAIN s = 1 .. Len(s)
         /\ DOMAIN t = 1 .. Len(t)
         /\ \A i \in 1 .. Len(s) : (s \o t)[i] = s[i]
         /\ \A i \in 1 .. Len(t) : (s \o t)[Len(s) + i] = t[i]
OBVIOUS

\* A drained batch is one result per call, in call order, and no use or input.
LEMMA DrainedKinds ==
  ASSUME NEW b \in Seq(ToolExecution), \A m \in DOMAIN b : b[m].outcome # NotSettled
  PROVE  /\ Len(Drained(b)) >= Len(b)
         /\ \A m \in 1 .. Len(b) : Drained(b)[m] = ToolResultMessage(b[m].call, b[m].outcome)
         /\ \A m \in 1 .. Len(b) : /\ Drained(b)[m].kind = "tool_result"
                                   /\ Drained(b)[m].call = b[m].call
         /\ \A m \in DOMAIN Drained(b) : Drained(b)[m].kind \notin {"tool_use", "input"}
<1> DEFINE results == [m \in 1 .. Len(b) |-> ToolResultMessage(b[m].call, b[m].outcome)]
           extra == IF \E m \in DOMAIN b : b[m].outcome = "SuccessWithInput"
                    THEN <<ToolInputMessage>> ELSE <<>>
           more == Drained(b)
<1>1. more = results \o extra
  BY DEF Drained
<1>2. \A m \in 1 .. Len(b) : ToolResultMessage(b[m].call, b[m].outcome) \in Message
  <2> TAKE m \in 1 .. Len(b)
  <2>1. b[m] \in ToolExecution /\ b[m].outcome # NotSettled
    OBVIOUS
  <2>2. b[m].call \in ToolCallId /\ b[m].outcome \in ToolOutcome
    BY <2>1 DEF ToolExecution
  <2> QED
    BY <2>2 DEF Message, ToolResultMessage
<1>3. results \in Seq(Message) /\ Len(results) = Len(b)
  BY <1>2
<1>4. \A m \in 1 .. Len(b) : /\ results[m] = ToolResultMessage(b[m].call, b[m].outcome)
                             /\ results[m].kind = "tool_result"
                             /\ results[m].call = b[m].call
  BY DEF ToolResultMessage
<1>5. extra \in Seq(Message) /\ \A m \in DOMAIN extra : extra[m].kind \notin {"tool_use", "input"}
  <2>1. ToolInputMessage \in Message /\ ToolInputMessage.kind \notin {"tool_use", "input"}
    BY DEF ToolInputMessage, Message
  <2>2. CASE extra = <<>>
    BY <2>2
  <2>3. CASE extra = <<ToolInputMessage>>
    BY <2>1, <2>3
  <2> QED
    BY <2>2, <2>3
<1> HIDE DEF results, extra, more
<1>6. /\ Len(results) \in Nat /\ Len(extra) \in Nat
      /\ Len(more) = Len(results) + Len(extra)
      /\ DOMAIN more = 1 .. Len(results) + Len(extra)
      /\ DOMAIN extra = 1 .. Len(extra)
      /\ \A m \in 1 .. Len(results) : more[m] = results[m]
      /\ \A m \in 1 .. Len(extra) : more[Len(results) + m] = extra[m]
  BY <1>1, <1>3, <1>5, Grown
<1>7. ASSUME NEW m \in DOMAIN more
      PROVE  more[m].kind \notin {"tool_use", "input"}
  <2>1. CASE m <= Len(b)
    BY <1>3, <1>4, <1>6, <2>1
  <2>2. CASE m > Len(b)
    <3>1. m - Len(b) \in 1 .. Len(extra) /\ Len(results) + (m - Len(b)) = m
      BY <1>3, <1>6, <2>2
    <3> QED
      BY <1>5, <1>6, <3>1
  <2> QED
    BY <1>3, <1>6, <2>1, <2>2
<1> QED
  BY <1>3, <1>4, <1>6, <1>7 DEF more

\* Messages that are no inputs leave the inputs of the history as they are.
LEMMA OthersAppended ==
  ASSUME TypeOK, HistoryInputs, UNCHANGED queue_head, NEW more \in Seq(Message),
         history' = history \o more, \A i \in DOMAIN more : more[i].kind # "input",
         \A j \in 1 .. queue_head : queue'[j] = queue[j]
  PROVE  HistoryInputs'
<1>1. history \in Seq(Message) /\ queue_head \in Nat
  BY DEF TypeOK
<1>2. /\ DOMAIN history' = 1 .. Len(history) + Len(more)
      /\ DOMAIN history = 1 .. Len(history)
      /\ Len(history) \in Nat /\ Len(more) \in Nat
      /\ \A i \in 1 .. Len(history) : history'[i] = history[i]
      /\ \A i \in DOMAIN history' : i \notin DOMAIN history => history'[i].kind # "input"
  BY <1>1
<1>3. \A id : InputMessage(id).kind = "input"
  BY DEF InputMessage
<1>4. \A j \in 1 .. queue_head : \E i \in DOMAIN history' : history'[i] = InputMessage(queue'[j])
  BY <1>2 DEF HistoryInputs
<1>5. \A i \in DOMAIN history' : history'[i].kind = "input" =>
        \E j \in 1 .. queue_head : history'[i].id = queue'[j]
  BY <1>2 DEF HistoryInputs
<1>6. ASSUME NEW i \in DOMAIN history', NEW k \in DOMAIN history', NEW j \in 1 .. queue_head,
             NEW l \in 1 .. queue_head,
             i < k, history'[i] = InputMessage(queue'[j]), history'[k] = InputMessage(queue'[l])
      PROVE  j < l
  <2>1. i \in DOMAIN history /\ k \in DOMAIN history
    BY <1>2, <1>3, <1>6
  <2>2. history[i] = InputMessage(queue[j]) /\ history[k] = InputMessage(queue[l])
    BY <1>2, <1>6, <2>1
  <2> QED
    BY <1>6, <2>1, <2>2 DEF HistoryInputs
<1>7. queue_head' = queue_head
  OBVIOUS
<1> QED
  BY <1>4, <1>5, <1>6, <1>7 DEF HistoryInputs

\* The start of a turn appends the inputs it takes in the order of the queue.
LEMMA InputsConsumed ==
  ASSUME TypeOK, InputsConserved, HistoryInputs, Consumes
  PROVE  HistoryInputs'
<1> DEFINE h == queue_head
           n == Len(queue) - h
           more == [i \in 1 .. n |-> InputMessage(queue[h + i])]
<1>1. /\ history \in Seq(Message) /\ queue \in Seq(Nat) /\ h \in 0 .. Len(queue) /\ n \in Nat
      /\ queue' = queue /\ queue_head' = Len(queue) /\ Len(queue) \in Nat /\ Len(history) \in Nat
  BY DEF TypeOK, Consumes, ConsumeInputs
<1>2. history' = history \o more
  BY DEF Consumes, ConsumeInputs
<1>3. more \in Seq(Message) /\ Len(more) = n
  <2>1. \A i \in 1 .. n : InputMessage(queue[h + i]) \in Message
    BY <1>1 DEF InputMessage, Message
  <2> QED
    BY <1>1, <2>1
<1>4. \A i \in 1 .. n : more[i] = InputMessage(queue[h + i])
  OBVIOUS
<1> HIDE DEF more
<1>5. /\ DOMAIN history' = 1 .. Len(history) + n
      /\ DOMAIN history = 1 .. Len(history)
      /\ \A i \in 1 .. Len(history) : history'[i] = history[i]
      /\ \A i \in 1 .. n : history'[Len(history) + i] = InputMessage(queue[h + i])
  <2> HIDE DEF n, h
  <2>1. /\ DOMAIN history' = 1 .. Len(history) + n
        /\ DOMAIN history = 1 .. Len(history)
        /\ \A i \in 1 .. Len(history) : history'[i] = history[i]
        /\ \A i \in 1 .. n : history'[Len(history) + i] = more[i]
    BY <1>1, <1>2, <1>3, Grown
  <2> QED
    BY <2>1, <1>4
<1>6. \A j, l \in 1 .. Len(queue) : queue[j] = queue[l] => j = l
  <2>1. IsInjective(queue) /\ DOMAIN queue = 1 .. Len(queue)
    BY <1>1 DEF InputsConserved
  <2> QED
    BY <2>1 DEF IsInjective
<1>7. \A j, l : InputMessage(j) = InputMessage(l) => j = l
  BY DEF InputMessage
<1>8. \A j : InputMessage(j).kind = "input" /\ InputMessage(j).id = j
  BY DEF InputMessage
<1>9. \A j \in 1 .. h : \E i \in DOMAIN history : history[i] = InputMessage(queue[j])
  BY DEF HistoryInputs
<1>10. \A i \in DOMAIN history : history[i].kind = "input" =>
         \E j \in 1 .. h : history[i].id = queue[j]
  BY DEF HistoryInputs
<1>11. \A i, k \in DOMAIN history : \A j, l \in 1 .. h :
         i < k /\ history[i] = InputMessage(queue[j]) /\ history[k] = InputMessage(queue[l]) => j < l
  BY DEF HistoryInputs
<1>12. ASSUME NEW j \in 1 .. Len(queue)
       PROVE  \E i \in DOMAIN history' : history'[i] = InputMessage(queue[j])
  <2>1. CASE j <= h
    <3>1. PICK i \in DOMAIN history : history[i] = InputMessage(queue[j])
      BY <1>1, <1>9, <2>1
    <3>2. i \in DOMAIN history' /\ history'[i] = history[i]
      BY <1>1, <1>5
    <3> QED
      BY <3>1, <3>2
  <2>2. CASE j > h
    <3>1. j - h \in 1 .. n /\ h + (j - h) = j /\ Len(history) + (j - h) \in DOMAIN history'
      BY <1>1, <1>5, <2>2
    <3> QED
      BY <1>5, <3>1
  <2> QED
    BY <1>1, <2>1, <2>2
\* Where an input of the history is, and which position of the queue it has.
<1>13. ASSUME NEW i \in DOMAIN history', NEW j \in 1 .. Len(queue), history'[i] = InputMessage(queue[j])
       PROVE  \/ i <= Len(history) /\ j <= h /\ history[i] = InputMessage(queue[j])
              \/ i > Len(history) /\ j = h + (i - Len(history))
  <2>1. CASE i <= Len(history)
    <3>1. i \in DOMAIN history /\ history[i] = InputMessage(queue[j])
      BY <1>1, <1>5, <1>13, <2>1
    <3>2. PICK l \in 1 .. h : history[i].id = queue[l]
      BY <3>1, <1>8, <1>10
    <3>3. queue[j] = queue[l]
      BY <3>1, <3>2, <1>8
    <3> QED
      BY <1>1, <1>6, <2>1, <3>1, <3>2, <3>3
  <2>2. CASE i > Len(history)
    <3>1. i - Len(history) \in 1 .. n /\ Len(history) + (i - Len(history)) = i
      BY <1>1, <1>5, <2>2
    <3>2. InputMessage(queue[j]) = InputMessage(queue[h + (i - Len(history))])
      BY <1>5, <1>13, <3>1
    <3>3. h + (i - Len(history)) \in 1 .. Len(queue)
      BY <1>1, <3>1
    <3> QED
      BY <1>6, <1>7, <2>2, <3>2, <3>3
  <2> QED
    BY <1>1, <1>5, <2>1, <2>2
<1>14. ASSUME NEW i \in DOMAIN history', history'[i].kind = "input"
       PROVE  \E j \in 1 .. Len(queue) : history'[i].id = queue[j]
  <2>1. CASE i <= Len(history)
    BY <1>1, <1>5, <1>10, <1>14, <2>1
  <2>2. CASE i > Len(history)
    <3>1. i - Len(history) \in 1 .. n /\ Len(history) + (i - Len(history)) = i
      BY <1>1, <1>5, <2>2
    <3>2. h + (i - Len(history)) \in 1 .. Len(queue)
      BY <1>1, <3>1
    <3> QED
      BY <1>5, <1>8, <3>1, <3>2
  <2> QED
    BY <1>1, <1>5, <2>1, <2>2
<1>15. ASSUME NEW i \in DOMAIN history', NEW k \in DOMAIN history',
              NEW j \in 1 .. Len(queue), NEW l \in 1 .. Len(queue),
              i < k, history'[i] = InputMessage(queue[j]), history'[k] = InputMessage(queue[l])
       PROVE  j < l
  <2>1. \/ i <= Len(history) /\ j <= h /\ history[i] = InputMessage(queue[j])
        \/ i > Len(history) /\ j = h + (i - Len(history))
    BY <1>13, <1>15
  <2>2. \/ k <= Len(history) /\ l <= h /\ history[k] = InputMessage(queue[l])
        \/ k > Len(history) /\ l = h + (k - Len(history))
    BY <1>13, <1>15
  <2>3. i \in Nat /\ k \in Nat /\ i >= 1 /\ k >= 1
    BY <1>5, <1>1
  <2>4. CASE k <= Len(history)
    <3>1. i \in DOMAIN history /\ k \in DOMAIN history /\ j \in 1 .. h /\ l \in 1 .. h
      BY <1>1, <1>5, <1>15, <2>1, <2>2, <2>3, <2>4
    <3> QED
      BY <1>1, <1>11, <1>15, <2>1, <2>2, <2>3, <2>4, <3>1
  <2>5. CASE k > Len(history)
    BY <1>1, <1>15, <2>1, <2>2, <2>3, <2>5
  <2> QED
    BY <1>1, <2>3, <2>4, <2>5
<1> QED
  BY <1>1, <1>12, <1>14, <1>15 DEF HistoryInputs

\* A block of tool uses that ends within the old history is a block of it.
LEMMA OldBlock ==
  ASSUME history \in Seq(Message), NEW more \in Seq(Message), history' = history \o more,
         more # <<>> => more[1].kind # "tool_use",
         NEW i \in DOMAIN history', NEW j \in i .. Len(history'), UseBlock(i, j)', j <= Len(history)
  PROVE  i \in DOMAIN history /\ j \in i .. Len(history) /\ UseBlock(i, j)
<1>1. /\ Len(history) \in Nat /\ DOMAIN history = 1 .. Len(history)
      /\ DOMAIN history' = 1 .. Len(history')
      /\ \A m \in 1 .. Len(history) : history'[m] = history[m]
  BY Grown
<1>2. i \in Nat /\ j \in Nat /\ 1 <= i /\ i <= j
  BY <1>1
<1>3. \A m \in i .. j : history[m].kind = "tool_use"
  BY <1>1, <1>2 DEF UseBlock
<1>4. i = 1 \/ history[i - 1].kind # "tool_use"
  <2>1. CASE i # 1
    <3>1. i - 1 \in 1 .. Len(history)
      BY <1>1, <1>2, <2>1
    <3> QED
      BY <1>1, <2>1, <3>1 DEF UseBlock
  <2> QED
    BY <2>1
<1>5. j = Len(history) \/ history[j + 1].kind # "tool_use"
  <2>1. CASE j < Len(history)
    <3>1. j + 1 \in 1 .. Len(history) /\ j # Len(history')
      BY <1>1, <1>2, <2>1, Grown
    <3> QED
      BY <1>1, <3>1 DEF UseBlock
  <2>2. \A a, b \in Nat : a <= b => a < b \/ a = b
    OBVIOUS
  <2>3. j < Len(history) \/ j = Len(history)
    BY <1>1, <1>2, <2>2, Zenon
  <2> QED
    BY <2>1, <2>3
<1>6. i \in DOMAIN history /\ j \in i .. Len(history)
  BY <1>1, <1>2
<1> QED
  BY <1>3, <1>4, <1>5, <1>6 DEF UseBlock

\* A block that is answered stays so.
LEMMA AnswersStay ==
  ASSUME history \in Seq(Message), NEW more \in Seq(Message), history' = history \o more,
         NEW i \in DOMAIN history, NEW j \in i .. Len(history),
         j + (j - i + 1) <= Len(history),
         \A m \in i .. j : /\ history[m + (j - i + 1)].kind = "tool_result"
                           /\ history[m + (j - i + 1)].call = history[m].call
  PROVE  /\ j + (j - i + 1) <= Len(history') /\ j # Len(history')
         /\ \A m \in i .. j : /\ history'[m + (j - i + 1)].kind = "tool_result"
                              /\ history'[m + (j - i + 1)].call = history'[m].call
<1>1. /\ Len(history) \in Nat /\ DOMAIN history = 1 .. Len(history)
      /\ Len(history') = Len(history) + Len(more) /\ Len(more) \in Nat
      /\ \A m \in 1 .. Len(history) : history'[m] = history[m]
  BY Grown
<1>2. i \in Nat /\ j \in Nat /\ 1 <= i /\ i <= j
  BY <1>1
<1>3. \A m \in i .. j : m \in 1 .. Len(history) /\ m + (j - i + 1) \in 1 .. Len(history)
  BY <1>1, <1>2
<1> QED
  BY <1>1, <1>2, <1>3

\* Outside a batch, messages that are no tool uses leave every call answered.
LEMMA AnsweredOutside ==
  ASSUME TypeOK, ToolUsesAnswered, state # ExecutingTools, state' # ExecutingTools,
         NEW more \in Seq(Message), history' = history \o more,
         \A m \in DOMAIN more : more[m].kind # "tool_use"
  PROVE  ToolUsesAnswered'
<1>1. history \in Seq(Message)
  BY DEF TypeOK
<1>2. /\ Len(history) \in Nat
      /\ DOMAIN history' = 1 .. Len(history) + Len(more)
      /\ Len(history') = Len(history) + Len(more) /\ Len(more) \in Nat
      /\ \A m \in 1 .. Len(more) : history'[Len(history) + m] = more[m]
  BY <1>1, Grown
<1>3. more # <<>> => more[1].kind # "tool_use"
  BY <1>2
<1>4. ASSUME NEW i \in DOMAIN history', NEW j \in i .. Len(history'), UseBlock(i, j)'
      PROVE  LET n == j - i + 1
             IN  /\ j + n <= Len(history')
                 /\ \A m \in i .. j : /\ history'[m + n].kind = "tool_result"
                                      /\ history'[m + n].call = history'[m].call
  <2>1. i \in Nat /\ j \in Nat /\ i <= j /\ history'[j].kind = "tool_use"
    BY <1>2, <1>4 DEF UseBlock
  <2>2. j <= Len(history)
    <3>1. CASE j > Len(history)
      <4>1. j - Len(history) \in 1 .. Len(more) /\ Len(history) + (j - Len(history)) = j
        BY <1>2, <2>1, <3>1
      <4> QED
        BY <1>2, <2>1, <4>1
    <3> QED
      BY <1>2, <2>1, <3>1
  <2>3. i \in DOMAIN history /\ j \in i .. Len(history) /\ UseBlock(i, j)
    BY <1>1, <1>3, <1>4, <2>2, OldBlock
  <2>4. /\ j + (j - i + 1) <= Len(history)
        /\ \A m \in i .. j : /\ history[m + (j - i + 1)].kind = "tool_result"
                             /\ history[m + (j - i + 1)].call = history[m].call
    BY <2>3 DEF ToolUsesAnswered
  <2> QED
    BY <1>1, <2>3, <2>4, AnswersStay
<1> QED
  BY <1>4 DEF ToolUsesAnswered

\* The results a batch is drained into answer the calls at the end of the history.
LEMMA AnsweredByDraining ==
  ASSUME TypeOK, ToolUsesAnswered, NEW b \in Seq(ToolExecution), Drains(b)
  PROVE  ToolUsesAnswered'
<1> DEFINE more == Drained(b)
<1>1. history \in Seq(Message) /\ batch \in Seq(ToolExecution) /\ Len(b) = Len(batch)
      /\ Len(batch) \in Nat /\ \A k \in DOMAIN b : b[k].outcome # NotSettled
  BY DEF TypeOK, Drains
<1>2. more \in Seq(Message)
  BY <1>1, DrainedType
<1>3. history' = history \o more /\ state = ExecutingTools /\ state' # ExecutingTools
  BY DEF Drains
<1>4. /\ Len(more) >= Len(b)
      /\ \A m \in 1 .. Len(b) : more[m].kind = "tool_result" /\ more[m].call = batch[m].call
      /\ \A m \in DOMAIN more : more[m].kind # "tool_use"
  <2>1. /\ Len(more) >= Len(b)
        /\ \A m \in 1 .. Len(b) : more[m].kind = "tool_result" /\ more[m].call = b[m].call
        /\ \A m \in DOMAIN more : more[m].kind # "tool_use"
    BY <1>1, DrainedKinds
  <2> QED
    BY <1>1, <2>1 DEF Drains
<1> HIDE DEF more
<1>5. /\ Len(history) \in Nat
      /\ DOMAIN history = 1 .. Len(history)
      /\ DOMAIN history' = 1 .. Len(history) + Len(more)
      /\ Len(history') = Len(history) + Len(more) /\ Len(more) \in Nat
      /\ DOMAIN more = 1 .. Len(more)
      /\ \A m \in 1 .. Len(history) : history'[m] = history[m]
      /\ \A m \in 1 .. Len(more) : history'[Len(history) + m] = more[m]
  BY <1>1, <1>2, <1>3, Grown
<1>6. more # <<>> => more[1].kind # "tool_use"
  BY <1>2, <1>4, <1>5
<1>7. ASSUME NEW i \in DOMAIN history', NEW j \in i .. Len(history'), UseBlock(i, j)'
      PROVE  LET n == j - i + 1
             IN  /\ j + n <= Len(history')
                 /\ \A m \in i .. j : /\ history'[m + n].kind = "tool_result"
                                      /\ history'[m + n].call = history'[m].call
  <2>1. i \in Nat /\ j \in Nat /\ 1 <= i /\ i <= j /\ history'[j].kind = "tool_use"
    BY <1>5, <1>7 DEF UseBlock
  <2>2. j <= Len(history)
    <3>1. CASE j > Len(history)
      <4>1. j - Len(history) \in 1 .. Len(more) /\ Len(history) + (j - Len(history)) = j
        BY <1>5, <2>1, <3>1
      <4> QED
        BY <1>4, <1>5, <2>1, <4>1
    <3> QED
      BY <1>5, <2>1, <3>1
  <2>3. i \in DOMAIN history /\ j \in i .. Len(history) /\ UseBlock(i, j)
    BY <1>1, <1>2, <1>3, <1>6, <1>7, <2>2, OldBlock
  <2>4. CASE j # Len(history)
    <3>1. /\ j + (j - i + 1) <= Len(history)
          /\ \A m \in i .. j : /\ history[m + (j - i + 1)].kind = "tool_result"
                               /\ history[m + (j - i + 1)].call = history[m].call
      BY <2>3, <2>4 DEF ToolUsesAnswered
    <3> QED
      BY <1>1, <1>2, <1>3, <2>3, <3>1, AnswersStay
  <2>5. CASE j = Len(history)
    <3>1. /\ j - i + 1 = Len(batch)
          /\ \A m \in i .. j : batch[m - i + 1].call = history[m].call
      BY <1>3, <2>3, <2>5 DEF ToolUsesAnswered
    <3>2. ASSUME NEW m \in i .. j
          PROVE  /\ history'[m + (j - i + 1)].kind = "tool_result"
                 /\ history'[m + (j - i + 1)].call = history'[m].call
      <4>1. /\ m - i + 1 \in 1 .. Len(b) /\ m - i + 1 \in 1 .. Len(more)
            /\ m + (j - i + 1) = Len(history) + (m - i + 1)
            /\ m \in 1 .. Len(history)
        BY <1>1, <1>4, <1>5, <2>1, <2>5, <3>1
      <4>2. history'[m + (j - i + 1)] = more[m - i + 1]
        BY <1>5, <4>1
      <4> QED
        BY <1>4, <1>5, <3>1, <4>1, <4>2
    <3> QED
      BY <1>1, <1>4, <1>5, <2>1, <2>5, <3>1, <3>2
  <2> QED
    BY <2>4, <2>5
<1> QED
  BY <1>3, <1>7 DEF ToolUsesAnswered

\* The calls of an answer that is accepted are the batch's, at the end of the history.
LEMMA AnsweredByAnswering ==
  ASSUME TypeOK, ToolUsesAnswered, NEW calls \in Seq(ToolCallId), Answers(calls)
  PROVE  ToolUsesAnswered'
<1> DEFINE N == Len(history)
           C == Len(calls)
           uses == ToolUses(calls)
           more == <<AssistantMessage>> \o uses
<1>1. history \in Seq(Message) /\ N \in Nat /\ C \in Nat
  BY DEF TypeOK
<1>2. uses \in Seq(Message) /\ Len(uses) = C /\ \A m \in 1 .. C : uses[m] = ToolUseMessage(calls[m])
  <2>1. \A m \in 1 .. C : ToolUseMessage(calls[m]) \in Message
    BY DEF ToolUseMessage, Message
  <2> QED
    BY <2>1 DEF ToolUses
<1>3. AssistantMessage \in Message /\ AssistantMessage.kind # "tool_use"
  BY DEF AssistantMessage, Message
<1> HIDE DEF uses
<1>4. /\ more \in Seq(Message) /\ Len(more) = C + 1 /\ more[1] = AssistantMessage
      /\ \A m \in 1 .. C : more[1 + m] = uses[m]
  <2>1. <<AssistantMessage>> \in Seq(Message) /\ Len(<<AssistantMessage>>) = 1
        /\ <<AssistantMessage>>[1] = AssistantMessage
    BY <1>3
  <2> QED
    BY <1>1, <1>2, <2>1, Grown
<1>5. history' = history \o more
  <2>1. history' = history \o <<AssistantMessage>> \o uses
    BY DEF Answers, uses
  <2> QED
    BY <1>1, <1>2, <1>3, <2>1
<1> HIDE DEF more
<1>6. /\ DOMAIN history = 1 .. N
      /\ DOMAIN history' = 1 .. N + (C + 1)
      /\ Len(history') = N + (C + 1)
      /\ \A m \in 1 .. C + 1 : history'[N + m] = more[m]
  <2> HIDE DEF C
  <2>1. /\ DOMAIN history = 1 .. Len(history)
        /\ DOMAIN history' = 1 .. Len(history) + Len(more)
        /\ Len(history') = Len(history) + Len(more)
        /\ \A m \in 1 .. Len(more) : history'[Len(history) + m] = more[m]
    BY <1>1, <1>4, <1>5, Grown
  <2> QED
    BY <1>4, <2>1
<1> HIDE DEF N, C
<1>7. history'[N + 1].kind # "tool_use"
  BY <1>1, <1>3, <1>4, <1>6
<1>8. \A m \in 1 .. C : /\ history'[N + 1 + m].kind = "tool_use"
                        /\ history'[N + 1 + m].call = calls[m]
  <2> TAKE m \in 1 .. C
  <2>1. 1 + m \in 1 .. C + 1 /\ N + 1 + m = N + (1 + m)
    BY <1>1
  <2>2. history'[N + 1 + m] = ToolUseMessage(calls[m])
    BY <1>2, <1>4, <1>6, <2>1
  <2> QED
    BY <2>2 DEF ToolUseMessage
<1>9. more # <<>> => more[1].kind # "tool_use"
  BY <1>3, <1>4
<1>10. ASSUME NEW i \in DOMAIN history', NEW j \in i .. Len(history'), UseBlock(i, j)'
       PROVE  LET n == j - i + 1
              IN  IF state' = ExecutingTools /\ j = Len(history')
                  THEN n = Len(batch') /\ \A m \in i .. j : batch'[m - i + 1].call = history'[m].call
                  ELSE /\ j + n <= Len(history')
                       /\ \A m \in i .. j : /\ history'[m + n].kind = "tool_result"
                                            /\ history'[m + n].call = history'[m].call
  <2>1. /\ i \in Nat /\ j \in Nat /\ 1 <= i /\ i <= j /\ j <= N + (C + 1)
        /\ \A m \in i .. j : history'[m].kind = "tool_use"
    BY <1>1, <1>6, <1>10 DEF UseBlock
  <2>2. CASE j <= N
    <3>1. i \in DOMAIN history /\ j \in i .. Len(history) /\ UseBlock(i, j)
      BY <1>1, <1>4, <1>5, <1>9, <1>10, <2>2, OldBlock DEF N
    <3>2. /\ j + (j - i + 1) <= Len(history)
          /\ \A m \in i .. j : /\ history[m + (j - i + 1)].kind = "tool_result"
                               /\ history[m + (j - i + 1)].call = history[m].call
      BY <3>1 DEF ToolUsesAnswered, Answers
    <3> QED
      BY <1>1, <1>4, <1>5, <3>1, <3>2, AnswersStay
  <2>3. CASE j > N
    <3>1. i = N + 2
      <4>1. CASE i < N + 2
        <5>1. N + 1 \in i .. j
          BY <1>1, <2>1, <2>3, <4>1
        <5> QED
          BY <1>7, <2>1, <5>1
      <4>2. CASE i > N + 2
        <5>1. i - N - 2 \in 1 .. C /\ N + 1 + (i - N - 2) = i - 1 /\ i # 1
          BY <1>1, <2>1, <4>2
        <5> QED
          BY <1>8, <1>10, <5>1 DEF UseBlock
      <4> QED
        BY <1>1, <2>1, <4>1, <4>2
    <3>2. j = N + (C + 1)
      <4>1. CASE j < N + (C + 1)
        <5>1. j - N \in 1 .. C /\ N + 1 + (j - N) = j + 1 /\ j # Len(history')
          BY <1>1, <1>6, <2>1, <2>3, <4>1
        <5> QED
          BY <1>8, <1>10, <5>1 DEF UseBlock
      <4> QED
        BY <1>1, <2>1, <4>1
    <3>3. calls # <<>>
      BY <1>1, <2>1, <3>1, <3>2 DEF C
    <3>4. /\ state' = ExecutingTools /\ batch' = NewBatch(calls)
          /\ j - i + 1 = C
      BY <1>1, <3>1, <3>2, <3>3 DEF Answers
    <3>5. Len(batch') = C /\ \A m \in 1 .. C : batch'[m].call = calls[m]
      BY <3>4, <1>1 DEF NewBatch, C
    <3>6. ASSUME NEW m \in i .. j
          PROVE  batch'[m - i + 1].call = history'[m].call
      <4>1. m - i + 1 \in 1 .. C /\ N + 1 + (m - i + 1) = m
        BY <1>1, <2>1, <3>1, <3>2
      <4> QED
        BY <1>8, <3>5, <4>1
    <3> QED
      BY <1>6, <3>2, <3>4, <3>5, <3>6
  <2> QED
    BY <1>1, <2>1, <2>2, <2>3
<1> QED
  BY <1>10 DEF ToolUsesAnswered

\* A step that leaves the messages and the batch's calls alone leaves them answered.
LEMMA AnsweredQuietly ==
  ASSUME TypeOK, ToolUsesAnswered, Quiet
  PROVE  ToolUsesAnswered'
<1>1. /\ history' = history
      /\ (state = ExecutingTools) <=> (state' = ExecutingTools)
      /\ Len(batch') = Len(batch)
      /\ \A m \in 1 .. Len(batch) : batch'[m].call = batch[m].call
  BY DEF Quiet
<1>2. \A i, j : UseBlock(i, j)' <=> UseBlock(i, j)
  BY <1>1 DEF UseBlock
<1>3. ASSUME NEW i \in DOMAIN history, NEW j \in i .. Len(history), UseBlock(i, j),
             state = ExecutingTools, j = Len(history)
      PROVE  /\ j - i + 1 = Len(batch')
             /\ \A m \in i .. j : batch'[m - i + 1].call = history[m].call
  <2>1. /\ j - i + 1 = Len(batch)
        /\ \A m \in i .. j : batch[m - i + 1].call = history[m].call
    BY <1>3 DEF ToolUsesAnswered
  <2>2. i \in Nat /\ j \in Nat
    BY DEF TypeOK
  <2>3. \A m \in i .. j : m - i + 1 \in 1 .. Len(batch)
    BY <2>1, <2>2
  <2> QED
    BY <1>1, <2>1, <2>3
<1> QED
  BY <1>1, <1>2, <1>3 DEF ToolUsesAnswered

\* The history grows as it should in every step.
LEMMA HistoryStep ==
  ASSUME TypeOK, TypeOK', PhaseInv, PhaseInv', InputsConserved, HistoryTrue,
         [SessionNext]_session_vars
  PROVE  HistoryTrue'
<1>1. CASE UNCHANGED session_vars
  BY <1>1 DEF session_vars, HistoryTrue, HistoryInputs, ToolUsesAnswered, UseBlock
<1>2. CASE SessionNext
  <2>1. history \in Seq(Message) /\ \A j \in 1 .. queue_head : queue'[j] = queue[j]
    BY <1>2, ConsumedStep DEF TypeOK
  <2>2. HistoryInputs /\ ToolUsesAnswered
    BY DEF HistoryTrue
  <2>3. CASE Quiet
    <3> DEFINE more == <<>>
    <3>1. /\ more \in Seq(Message) /\ history' = history \o more /\ UNCHANGED queue_head
          /\ \A m \in DOMAIN more : more[m].kind # "input"
      BY <2>1, <2>3 DEF Quiet
    <3> HIDE DEF more
    <3>2. HistoryInputs'
      BY <2>1, <2>2, <3>1, OthersAppended
    <3> QED
      BY <2>2, <2>3, <3>2, AnsweredQuietly DEF HistoryTrue
  <2>4. CASE Consumes
    <3>1. HistoryInputs'
      BY <2>2, <2>4, InputsConsumed
    <3> DEFINE more == [i \in 1 .. Len(queue) - queue_head |-> InputMessage(queue[queue_head + i])]
    <3>2. more \in Seq(Message) /\ \A m \in DOMAIN more : more[m].kind # "tool_use"
      <4>1. queue \in Seq(Nat) /\ queue_head \in 0 .. Len(queue)
        BY DEF TypeOK
      <4>2. Len(queue) - queue_head \in Nat
        BY <4>1
      <4>3. \A i \in 1 .. Len(queue) - queue_head :
              /\ InputMessage(queue[queue_head + i]) \in Message
              /\ InputMessage(queue[queue_head + i]).kind # "tool_use"
        BY <4>1 DEF InputMessage, Message
      <4> QED
        BY <4>2, <4>3
    <3>3. history' = history \o more /\ state # ExecutingTools /\ state' # ExecutingTools
      BY <2>4 DEF Consumes, ConsumeInputs
    <3> HIDE DEF more
    <3>4. ToolUsesAnswered'
      BY <2>2, <3>2, <3>3, AnsweredOutside
    <3> QED
      BY <3>1, <3>4 DEF HistoryTrue
  <2>5. CASE Interrupts
    <3> DEFINE more == <<FragmentMessage>>
    <3>1. /\ more \in Seq(Message)
          /\ \A m \in DOMAIN more : more[m].kind # "tool_use" /\ more[m].kind # "input"
      BY DEF FragmentMessage, Message
    <3>2. /\ history' = history \o more /\ state # ExecutingTools /\ state' # ExecutingTools
          /\ UNCHANGED queue_head
      BY <2>1, <2>5 DEF Interrupts
    <3> HIDE DEF more
    <3> QED
      BY <2>1, <2>2, <3>1, <3>2, OthersAppended, AnsweredOutside DEF HistoryTrue
  <2>6. ASSUME NEW calls \in Seq(ToolCallId), Answers(calls)
        PROVE  HistoryTrue'
    <3> DEFINE uses == ToolUses(calls)
               more == <<AssistantMessage>> \o uses
    <3>1. uses \in Seq(Message) /\ \A m \in DOMAIN uses : uses[m].kind # "input"
      <4>1. \A m \in 1 .. Len(calls) : /\ ToolUseMessage(calls[m]) \in Message
                                       /\ ToolUseMessage(calls[m]).kind # "input"
        BY DEF ToolUseMessage, Message
      <4> QED
        BY <4>1 DEF ToolUses
    <3> HIDE DEF uses
    <3>2. AssistantMessage \in Message /\ AssistantMessage.kind # "input"
      BY DEF AssistantMessage, Message
    <3>3. more \in Seq(Message) /\ \A m \in DOMAIN more : more[m].kind # "input"
      BY <3>1, <3>2
    <3>4. history' = history \o more
      <4>1. history' = history \o <<AssistantMessage>> \o uses
        BY <2>6 DEF Answers, uses
      <4> QED
        BY <2>1, <3>1, <3>2, <4>1
    <3> HIDE DEF more
    <3>5. HistoryInputs'
      BY <2>1, <2>2, <2>6, <3>3, <3>4, OthersAppended DEF Answers
    <3> QED
      BY <2>2, <2>6, <3>5, AnsweredByAnswering DEF HistoryTrue
  <2>7. ASSUME NEW b \in Seq(ToolExecution), Drains(b)
        PROVE  HistoryTrue'
    <3>1. \A m \in DOMAIN b : b[m].outcome # NotSettled
      BY <2>7 DEF Drains, TypeOK
    <3>2. Drained(b) \in Seq(Message)
      BY <3>1, DrainedType
    <3>3. \A m \in DOMAIN Drained(b) : Drained(b)[m].kind # "input"
      BY <2>7, DrainedKinds, <3>1
    <3>4. HistoryInputs'
      BY <2>1, <2>2, <2>7, <3>2, <3>3, OthersAppended DEF Drains
    <3> QED
      BY <2>2, <2>7, <3>4, AnsweredByDraining DEF HistoryTrue
  <2> QED
    BY <1>2, <2>3, <2>4, <2>5, <2>6, <2>7, HistorySteps
<1> QED
  BY <1>1, <1>2

\* The history of every session tells what happened: the inputs the queue's head has
\* passed, each once and in order, and every tool call of every answer with its result,
\* whatever was interrupted, settled or cancelled in between.
THEOREM SessionHistoryTrue == SessionSpec => []HistoryTrue
<1>1. SessionInit => HistoryTrue
  BY DEF SessionInit, HistoryTrue, HistoryInputs, ToolUsesAnswered
<1>2. TypeOK /\ TypeOK' /\ PhaseInv /\ PhaseInv' /\ InputsConserved /\ HistoryTrue
        /\ [SessionNext]_session_vars => HistoryTrue'
  BY HistoryStep
<1> QED
  BY <1>1, <1>2, SessionTypeCorrect, SessionInputsConserved, SessionPhases, PTL DEF SessionSpec

-----------------------------------------------------------------------------
(* The executor. *)

\* The steps of the owner the executor composes, one by one.
LEMMA FinishRunIsOwner ==
  ASSUME NEW outcome, FinishRun(outcome)
  PROVE  SessionNext
<1>1. outcome \in RunOutcome
  BY DEF FinishRun, RunOutcome
<1> QED
  BY <1>1 DEF SessionNext, OwnerNext

\* The start of a side call is a step of the run's owner.
LEMMA SideCallIsOwner ==
  ASSUME NEW purpose \in Purpose, StartModelCall(purpose)
  PROVE  SessionNext
BY DEF SessionNext, OwnerNext

\* The end of a side call is one as well.
LEMMA EndSideCallIsOwner ==
  ASSUME NEW status \in CallStatus \ {"Running"}, CompleteCompactionCall(status)
  PROVE  SessionNext
BY DEF SessionNext, OwnerNext

\* So is the start of a tool.
LEMMA ToolIsOwner ==
  ASSUME NEW k, NEW outcome \in ToolOutcome,
         StartTool(k) \/ AcceptToolOutcome(k, outcome)
  PROVE  SessionNext
<1>1. k \in DOMAIN batch
  BY DEF StartTool, AcceptToolOutcome
<1> QED
  BY <1>1 DEF SessionNext, OwnerNext

\* And so is the record of a summary.
LEMMA RecordSummaryIsOwner ==
  ASSUME RecordSummary
  PROVE  SessionNext \/ UNCHANGED session_vars
BY DEF RecordSummary, SessionNext, OwnerNext

\* The boundary, and the handoff of a switch.
LEMMA BoundaryRefines ==
  ASSUME BoundaryStep
  PROVE  SessionNext \/ UNCHANGED session_vars
<1>1. CASE BoundaryInterrupted \/ HandoffInterrupted
  BY <1>1, FinishRunIsOwner DEF BoundaryInterrupted, HandoffInterrupted, FinishInterrupted
<1>2. CASE \E changed \in BOOLEAN : BoundaryPassed(changed)
  BY <1>2 DEF BoundaryPassed
<1>3. CASE BoundaryHandoff
  BY <1>3, SideCallIsOwner DEF BoundaryHandoff, Purpose
<1>4. CASE HandoffReturns
  <2>1. PICK status \in IF cancelled THEN {"Interrupted"} ELSE {"Completed", "Failed"} :
          CompleteCompactionCall(status)
    BY <1>4 DEF HandoffReturns
  <2>2. status \in CallStatus \ {"Running"}
    BY <2>1 DEF CallStatus
  <2> QED
    BY <2>1, <2>2, EndSideCallIsOwner
<1>5. CASE HandoffCommitted
  BY <1>5 DEF HandoffCommitted, SessionNext, OwnerNext
<1>6. CASE HandoffUnwritten \/ HandoffStale \/ HandoffInvalid
  BY <1>6 DEF HandoffUnwritten, HandoffStale, HandoffInvalid
<1> QED
  BY <1>1, <1>2, <1>3, <1>4, <1>5, <1>6 DEF BoundaryStep

\* A cutover, for whichever reason and by whichever method.
LEMMA CutoverRefines ==
  ASSUME CutoverStep
  PROVE  SessionNext \/ UNCHANGED session_vars
<1>1. CASE Collect
  BY <1>1 DEF Collect, SessionNext, OwnerNext
<1>2. CASE SettleStandby
  BY <1>2, RecordSummaryIsOwner DEF SettleStandby
<1>3. CASE SettleStandbyCancelled \/ SettleFailure
  BY <1>3, FinishRunIsOwner DEF SettleStandbyCancelled, SettleFailure, FinishInterrupted
<1>4. CASE BeginCutover
  BY <1>4 DEF BeginCutover, SessionNext, OwnerNext
<1>5. CASE ForceCancelled \/ TrimFits \/ LocalFails \/ UpstreamFails
  BY <1>5 DEF ForceCancelled, TrimFits, LocalFails, UpstreamFails
<1>6. CASE CatchUp
  BY <1>6 DEF CatchUp, SessionNext, OwnerNext
<1>7. CASE TrimCommits \/ UpstreamCommits
  BY <1>7 DEF TrimCommits, UpstreamCommits, SessionNext, OwnerNext
<1>8. CASE UpstreamStarts
  BY <1>8, SideCallIsOwner DEF UpstreamStarts, Purpose
<1>9. CASE UpstreamReturns
  <2>1. PICK status \in {"Completed", "Failed"} \cup (IF cancelled THEN {"Interrupted"} ELSE {}) :
          CompleteCompactionCall(status)
    BY <1>9 DEF UpstreamReturns
  <2>2. status \in CallStatus \ {"Running"}
    BY <2>1 DEF CallStatus
  <2> QED
    BY <2>1, <2>2, EndSideCallIsOwner
<1>10. CASE EndCutover
  BY <1>10 DEF EndCutover, SessionNext, OwnerNext
<1>11. CASE Recovered
  BY <1>11 DEF Recovered, SessionNext, OwnerNext
<1> QED
  BY <1>1, <1>2, <1>3, <1>4, <1>5, <1>6, <1>7, <1>8, <1>9, <1>10, <1>11 DEF CutoverStep

\* The model call and the tool batch.
LEMMA ActionRefines ==
  ASSUME ActionStep
  PROVE  SessionNext \/ UNCHANGED session_vars
<1>1. CASE CheckCancelled
  BY <1>1, FinishRunIsOwner DEF CheckCancelled
<1>2. CASE Advance
  BY <1>2 DEF Advance, SessionNext, OwnerNext
<1>3. CASE StartNext \/ SummaryFinishes \/ ContinueWithInput \/ ModelReturns \/ Rejected
            \/ ToolsReturn
  BY <1>3 DEF StartNext, SummaryFinishes, ContinueWithInput, ModelReturns, Rejected, ToolsReturn
<1>4. CASE SettleFinished \/ Return
  BY <1>4, RecordSummaryIsOwner DEF SettleFinished, Return
<1>5. CASE ReturnCancelled
  BY <1>5, FinishRunIsOwner DEF ReturnCancelled, FinishInterrupted
<1>6. CASE \E response \in Response : AnswerComplete(response)
  BY <1>6 DEF AnswerComplete, SessionNext, OwnerNext
<1>7. CASE AnswerInterrupted
  BY <1>7 DEF AnswerInterrupted, SessionNext, OwnerNext
<1>8. CASE \E outcome \in RunOutcome : AnswerFailed(outcome)
  BY <1>8 DEF AnswerFailed, SessionNext, OwnerNext
<1>9. CASE \E k \in DOMAIN task : \E registered \in BOOLEAN : SerialNext(k, registered)
  <2>1. PICK k \in DOMAIN task, registered \in BOOLEAN : SerialNext(k, registered)
    BY <1>9
  <2>2. \E outcome \in ToolOutcome : StartTool(k) \/ AcceptToolOutcome(k, outcome)
    BY <2>1 DEF SerialNext, ToolOutcome
  <2> QED
    BY <2>2, ToolIsOwner
<1>10. CASE \E k \in DOMAIN task : \E registered \in BOOLEAN : ParallelAdmit(k, registered)
  <2>1. PICK k \in DOMAIN task, registered \in BOOLEAN : ParallelAdmit(k, registered)
    BY <1>10
  <2>2. StartTool(k) \/ UNCHANGED session_vars
    BY <2>1 DEF ParallelAdmit
  <2>3. "Reported" \in ToolOutcome
    BY DEF ToolOutcome
  <2> QED
    BY <2>2, <2>3, ToolIsOwner
<1>11. CASE \E k \in DOMAIN task : ToolPoll(k)
  <2>1. PICK k \in DOMAIN task : ToolPoll(k)
    BY <1>11
  <2>2. \/ \E outcome \in ToolOutcome : AcceptToolOutcome(k, outcome)
        \/ UNCHANGED session_vars
    BY <2>1 DEF ToolPoll, ToolOutcome
  <2> QED
    BY <2>2, ToolIsOwner
<1>12. CASE \E k \in DOMAIN task : ToolReturnsOutcome(k)
  <2>1. PICK k \in DOMAIN task : ToolReturnsOutcome(k)
    BY <1>12
  <2>2. \E outcome \in ToolOutcome : AcceptToolOutcome(k, outcome)
    BY <2>1, ExecutorAssumption DEF ToolReturnsOutcome, ToolOutcome
  <2> QED
    BY <2>2, ToolIsOwner
<1>13. CASE CompleteBatch
  BY <1>13 DEF CompleteBatch, SessionNext, OwnerNext
<1> QED
  BY <1>1, <1>2, <1>3, <1>4, <1>5, <1>6, <1>7, <1>8, <1>9, <1>10, <1>11, <1>12, <1>13
  DEF ActionStep

\* Every step of the executor is a step of the session or leaves it alone: no path of
\* the run loop, a failure or a recovery writes the session outside its operations.
LEMMA ExecutorStepRefines ==
  ASSUME [ExecutorNext]_vars
  PROVE  [SessionNext]_session_vars
<1>1. CASE UNCHANGED vars
  BY <1>1 DEF vars
<1>2. CASE OperationStep
  BY <1>2, BoundaryRefines, CutoverRefines, ActionRefines DEF OperationStep
<1>3. CASE SenderNext
  BY <1>3 DEF SessionNext
<1>4. CASE \E operation \in {"Run", "Compact"} : StartOperation(operation)
  BY <1>4 DEF StartOperation, SessionNext, OwnerNext
<1>5. CASE SettleAbandoned
  BY <1>5 DEF SettleAbandoned, SessionNext, OwnerNext
<1>6. CASE Cancel \/ Crash
  BY <1>6 DEF Cancel, Crash
<1>7. CASE OperationFails
  BY <1>7 DEF OperationFails, SessionNext, OwnerNext
<1>8. CASE Reopen
  BY <1>8 DEF Reopen, SessionNext, OwnerNext
<1> QED
  BY <1>1, <1>2, <1>3, <1>4, <1>5, <1>6, <1>7, <1>8 DEF ExecutorNext

\* The executor implements the session: runs, cutovers, handoffs, cancellation, failures
\* and crashes, with senders beside them, are behaviours of the session's specification.
THEOREM ExecutorImplementsSession == ExecutorSpec => SessionSpec
<1>1. ExecutorInit => SessionInit
  BY DEF ExecutorInit
<1>2. [ExecutorNext]_vars => [SessionNext]_session_vars
  BY ExecutorStepRefines
<1> QED
  BY <1>1, <1>2, PTL DEF ExecutorSpec, SessionSpec

\* No crash, cancellation or failure of an operation loses or doubles an input.
THEOREM ExecutorInputsConserved == ExecutorSpec => []InputsConserved
BY ExecutorImplementsSession, SessionInputsConserved, PTL

\* Nor does one tear the history: the inputs are in it once and in order, and every tool
\* call with its result.
THEOREM ExecutorHistoryTrue == ExecutorSpec => []HistoryTrue
BY ExecutorImplementsSession, SessionHistoryTrue, PTL

\* Whatever the operation is at, a session in CallingModel has its running call, and a
\* session that executes tools its batch.
THEOREM ExecutorPhases == ExecutorSpec => []PhaseInv
BY ExecutorImplementsSession, SessionPhases, PTL

-----------------------------------------------------------------------------
(* The inductive invariant of an operation: what each await knows. *)

\* The awaits at which the operation has the session at a stable point.
StablePoints == {"boundary", "handoff", "handoff_over", "collect", "settle", "force", "failed",
                 "recovered", "check", "rejected", "finished"}
\* The awaits inside Compacting.
InsideCompaction == {"compacting", "upstream", "upstream_over", "end"}
\* All of them.
Labels == StablePoints \cup InsideCompaction
            \cup {"rest", "down", "advance", "start_next", "model", "answer", "tools", "tools_over"}

\* An operation holds the session while it is at one of its own awaits, and a manual
\* compaction is at none but those of the boundary and of its cutover.
OpTrue ==
  /\ faults \in Nat
  /\ op \in {"None", "Run", "Compact"}
  /\ pc \in Labels
  /\ op = "None" <=> pc \in {"rest", "down"}
  /\ op = "Compact" =>
       \/ pc \in {"boundary", "handoff", "handoff_over"}
       \/ pc \in {"force", "failed"} \cup InsideCompaction /\ reason = "Manual"
  /\ pc = "down" => faults # 0

\* The phase the session is in at each await.
PhaseAtPc ==
  /\ pc \in StablePoints => IsStable(state)
  /\ pc \in InsideCompaction => state.phase = "Compacting"
  /\ pc = "advance" => IsStable(state) \/ state = ExecutingTools
  /\ pc = "start_next" => state.phase # "Compacting"
  /\ pc \in {"model", "answer"} => state = CallingModel
  /\ pc \in {"tools", "tools_over"} => state = ExecutingTools
  /\ pc = "rest" /\ faults = 0 => IsStable(state)

\* No summary is in flight from the settlement before a cutover until its end, in a
\* manual compaction, or without an operation.
SummaryTrue ==
  /\ SummaryFresh
  /\ pc \in {"rest", "down", "force", "failed", "recovered"} \cup InsideCompaction \/ op = "Compact"
       => summary = NoSummary

\* No record runs.
NoneRuns == \A i \in DOMAIN model_calls : model_calls[i].status # "Running"
\* A record that runs is the one the session names.
OnlyActiveRuns ==
  \A i \in DOMAIN model_calls : model_calls[i].status = "Running" => i = active_model_call
\* Until something fails, the only record that runs is the one of the call the operation
\* awaits.
CallsTrue ==
  faults = 0 =>
    /\ OnlyActiveRuns
    /\ pc \notin {"handoff", "upstream"} /\ state # CallingModel => NoneRuns

\* What a call's record in the batch says of its execution.
CallRecorded(k) ==
  /\ k \in DOMAIN task /\ task[k] = "running" =>
       batch[k].started /\ batch[k].outcome = NotSettled
  /\ k \notin DOMAIN task \/ task[k] = "waiting" =>
       ~ batch[k].started /\ batch[k].outcome = NotSettled
  /\ k \in DOMAIN task /\ task[k] \in {"admitted", "unregistered"} =>
       batch[k].outcome = NotSettled
  /\ k \in DOMAIN task /\ task[k] = "admitted" /\ pc = "tools" =>
       batch[k].started \/ cancelled

\* The executions and the batch stay in step: none without a batch, one per call while
\* its tools run, all of them over when the batch is completed.
TasksTrue ==
  /\ \A k \in DOMAIN batch : CallRecorded(k)
  /\ batch = <<>> \/ pc = "advance" => DOMAIN task = {}
  /\ pc \in {"tools", "tools_over"} => DOMAIN task = DOMAIN batch
  /\ pc = "start_next" => /\ DOMAIN task = DOMAIN batch
                          /\ \A k \in DOMAIN task : task[k] = "waiting"
  /\ pc = "tools_over" => \A k \in DOMAIN task : task[k] = "over"

\* What every await knows.
OperationInv == OpTrue /\ PhaseAtPc /\ SummaryTrue /\ CallsTrue /\ TasksTrue

\* The steps that are not the operation's own: a sender's, and those that start, cancel,
\* lose and recover an operation.
BesideStep ==
  \/ SenderNext /\ UNCHANGED exec_vars
  \/ \E operation \in {"Run", "Compact"} : StartOperation(operation)
  \/ SettleAbandoned \/ Cancel \/ OperationFails \/ Crash \/ Reopen

\* Where an operation goes from each await, by the steps of the boundary.
LEMMA OpBoundary ==
  ASSUME OpTrue, BoundaryStep
  PROVE  OpTrue'
<1> USE DEF OpTrue, Labels, StablePoints, InsideCompaction, At
<1>1. CASE BoundaryInterrupted \/ HandoffInterrupted \/ HandoffInvalid
  BY <1>1 DEF BoundaryInterrupted, HandoffInterrupted, HandoffInvalid, FinishInterrupted,
     EndOperation, LeaveTo
<1>2. CASE \E changed \in BOOLEAN : BoundaryPassed(changed)
  BY <1>2 DEF BoundaryPassed, Goto, AfterBoundary
<1>3. CASE BoundaryHandoff \/ HandoffUnwritten \/ HandoffReturns \/ HandoffStale
  BY <1>3 DEF BoundaryHandoff, HandoffUnwritten, HandoffReturns, HandoffStale, Goto, cut_vars
<1>4. CASE HandoffCommitted
  BY <1>4 DEF HandoffCommitted, Goto, AfterBoundary
<1> QED
  BY <1>1, <1>2, <1>3, <1>4 DEF BoundaryStep

\* By the steps of a cutover: a manual one stays within its own awaits.
LEMMA OpCutover ==
  ASSUME OpTrue, CutoverStep
  PROVE  OpTrue'
<1> USE DEF OpTrue, Labels, StablePoints, InsideCompaction, At
<1>1. CASE Collect
  BY <1>1 DEF Collect, Goto
<1>2. CASE SettleStandby \/ BeginCutover \/ CatchUp
  BY <1>2 DEF SettleStandby, BeginCutover, CatchUp, Goto, cut_vars, exec_vars
<1>3. CASE SettleStandbyCancelled
  BY <1>3 DEF SettleStandbyCancelled, FinishInterrupted, EndOperation, LeaveTo
<1>4. CASE ForceCancelled
  BY <1>4 DEF ForceCancelled, EndOperation, LeaveTo, Goto
<1>5. CASE TrimCommits \/ TrimFits \/ LocalFails \/ UpstreamCommits \/ UpstreamFails
  BY <1>5 DEF TrimCommits, TrimFits, LocalFails, UpstreamCommits, UpstreamFails, CutoverEnds, Goto
<1>6. CASE UpstreamStarts
  BY <1>6 DEF UpstreamStarts, CutoverEnds, Goto, cut_vars
<1>7. CASE UpstreamReturns
  BY <1>7 DEF UpstreamReturns, CutoverEnds, Goto, cut_vars
<1>8. CASE EndCutover
  BY <1>8 DEF EndCutover, AfterCutover, EndOperation, LeaveTo, Goto, cut_vars
<1>9. CASE SettleFailure
  BY <1>9 DEF SettleFailure, AfterCutover, EndOperation, LeaveTo, Goto, cut_vars
<1>10. CASE Recovered
  BY <1>10 DEF Recovered, Goto
<1> QED
  BY <1>1, <1>2, <1>3, <1>4, <1>5, <1>6, <1>7, <1>8, <1>9, <1>10 DEF CutoverStep

\* By the model call and the batch, which only a run makes.
LEMMA OpAction ==
  ASSUME OpTrue, ActionStep
  PROVE  OpTrue'
<1> USE DEF OpTrue, Labels, StablePoints, InsideCompaction, At
<1>1. CASE CheckCancelled \/ Advance \/ StartNext
  BY <1>1 DEF CheckCancelled, Advance, StartNext, Goto, cut_vars
<1>2. CASE SummaryFinishes \/ SettleFinished \/ ContinueWithInput \/ ModelReturns \/ ToolsReturn
            \/ CompleteBatch
  BY <1>2 DEF SummaryFinishes, SettleFinished, ContinueWithInput, ModelReturns, ToolsReturn,
     CompleteBatch, Goto, cut_vars
<1>3. CASE Return \/ ReturnCancelled
  BY <1>3 DEF Return, ReturnCancelled, FinishInterrupted, EndOperation, LeaveTo
<1>4. CASE \E response \in Response : AnswerComplete(response)
  BY <1>4 DEF AnswerComplete, AfterAnswer, Top, Goto, cut_vars
<1>5. CASE AnswerInterrupted \/ \E outcome \in RunOutcome : AnswerFailed(outcome)
  BY <1>5 DEF AnswerInterrupted, AnswerFailed, AfterAnswer, Top, Goto, cut_vars
<1>6. CASE Rejected
  BY <1>6 DEF Rejected, Goto
<1>7. CASE \E k \in DOMAIN task : \E registered \in BOOLEAN :
             SerialNext(k, registered) \/ ParallelAdmit(k, registered)
  BY <1>7 DEF SerialNext, ParallelAdmit, TasksBecome, cut_vars
<1>8. CASE \E k \in DOMAIN task : ToolPoll(k) \/ ToolReturnsOutcome(k)
  BY <1>8 DEF ToolPoll, ToolReturnsOutcome, TasksBecome, cut_vars
<1> QED
  BY <1>1, <1>2, <1>3, <1>4, <1>5, <1>6, <1>7, <1>8 DEF ActionStep

\* By the steps beside it: its start, its cancellation, its failure, a crash and the
\* reopening of the session.
LEMMA OpBeside ==
  ASSUME OpTrue, BesideStep
  PROVE  OpTrue'
<1> USE DEF OpTrue, Labels, StablePoints, InsideCompaction, At
<1>1. CASE SenderNext /\ UNCHANGED exec_vars
  BY <1>1 DEF exec_vars, cut_vars
<1>2. CASE \E operation \in {"Run", "Compact"} : StartOperation(operation)
  BY <1>2 DEF StartOperation, cut_vars
<1>3. CASE SettleAbandoned \/ Cancel \/ Reopen
  BY <1>3 DEF SettleAbandoned, Cancel, Reopen, cut_vars
<1>4. CASE OperationFails \/ Crash
  BY <1>4, ExecutorAssumption DEF OperationFails, Crash, LeaveTo
<1> QED
  BY <1>1, <1>2, <1>3, <1>4 DEF BesideStep

\* The phases a finished run and a closed compaction leave are stable.
LEMMA FinishedIsStable ==
  ASSUME NEW calls, NEW outcome, FinishWith(calls, outcome)
  PROVE  IsStable(state')
BY DEF FinishWith, IsStable, Idle, Suspended

\* A compaction goes back to a stable state.
LEMMA ResumedIsStable ==
  ASSUME TypeOK, EndCompaction
  PROVE  IsStable(state')
BY DEF TypeOK, EndCompaction, SessionState, StableState, IsStable

\* So does whatever settles an interrupted session.
LEMMA SettledIsStable ==
  ASSUME TypeOK, SettleInterrupted
  PROVE  IsStable(state')
<1>1. CASE SettleCallingModel
  BY <1>1, FinishedIsStable DEF SettleCallingModel
<1>2. CASE SettleExecutingTools
  BY <1>2, FinishedIsStable DEF SettleExecutingTools
<1>3. CASE SettleCompacting
  <2>1. CASE state.resume.phase = "Suspended"
    BY <1>3, <2>1 DEF SettleCompacting, IsStable
  <2>2. CASE state.resume.phase # "Suspended"
    BY <1>3, <2>2, FinishedIsStable DEF SettleCompacting
  <2> QED
    BY <2>1, <2>2
<1> QED
  BY <1>1, <1>2, <1>3 DEF SettleInterrupted

\* What an answer leaves: a stable session, or one with tools to execute.
LEMMA AnsweredPhase ==
  ASSUME NEW response, AcceptResponse(response)
  PROVE  /\ IsStable(state') \/ state' = ExecutingTools
         /\ response.stop = "ContextLengthExceeded" => IsStable(state')
<1>1. CASE \E calls, outcome : FinishWith(calls, outcome)
  BY <1>1, FinishedIsStable
<1>2. CASE ~ \E calls, outcome : FinishWith(calls, outcome)
  BY <1>2 DEF AcceptResponse, IsStable, Ready
<1> QED
  BY <1>1, <1>2

\* The phase at each await, by the steps of the boundary,
LEMMA PhaseBoundary ==
  ASSUME TypeOK, OpTrue, PhaseAtPc, BoundaryStep
  PROVE  PhaseAtPc'
<1> USE DEF PhaseAtPc, StablePoints, InsideCompaction, At
<1>1. CASE BoundaryInterrupted \/ HandoffInterrupted
  <2>1. FinishRun("Interrupted") /\ pc' = "rest"
    BY <1>1 DEF BoundaryInterrupted, HandoffInterrupted, FinishInterrupted, EndOperation, LeaveTo
  <2> QED
    BY <2>1, FinishedIsStable DEF FinishRun
<1>2. CASE \E changed \in BOOLEAN : BoundaryPassed(changed)
  BY <1>2 DEF BoundaryPassed, Goto, AfterBoundary, session_vars, IsStable
<1>3. CASE BoundaryHandoff \/ HandoffReturns
  BY <1>3 DEF BoundaryHandoff, HandoffReturns, StartModelCall, CompleteCompactionCall, Goto, IsStable
<1>4. CASE HandoffUnwritten \/ HandoffStale \/ HandoffInvalid
  BY <1>4 DEF HandoffUnwritten, HandoffStale, HandoffInvalid, Goto, EndOperation, LeaveTo,
     session_vars, IsStable
<1>5. CASE HandoffCommitted
  BY <1>5 DEF HandoffCommitted, SwitchActive, Goto, AfterBoundary, IsStable
<1> QED
  BY <1>1, <1>2, <1>3, <1>4, <1>5 DEF BoundaryStep

\* of a cutover,
LEMMA PhaseCutover ==
  ASSUME TypeOK, OpTrue, PhaseAtPc, CutoverStep
  PROVE  PhaseAtPc'
<1> USE DEF PhaseAtPc, StablePoints, InsideCompaction, At
<1>1. CASE Collect
  BY <1>1 DEF Collect, CollectInputs, Goto, session_vars, IsStable, Ready
<1>2. CASE SettleStandby
  <2>1. state' = state /\ pc' = "force" /\ pc = "settle"
    BY <1>2 DEF SettleStandby, RecordSummary, RecordCompletedCompactionCall, Goto, session_vars
  <2> QED
    BY <2>1 DEF IsStable
<1>3. CASE SettleStandbyCancelled
  <2>1. FinishRun("Interrupted") /\ pc' = "rest"
    BY <1>3 DEF SettleStandbyCancelled, FinishInterrupted, EndOperation, LeaveTo
  <2> QED
    BY <2>1, FinishedIsStable DEF FinishRun
<1>4. CASE BeginCutover
  BY <1>4 DEF BeginCutover, BeginCompaction, Goto, Compacting
<1>5. CASE ForceCancelled
  BY <1>5 DEF ForceCancelled, EndOperation, LeaveTo, Goto, session_vars, IsStable
<1>6. CASE CatchUp
  BY <1>6 DEF CatchUp, RecordCompletedCompactionCall, exec_vars
<1>7. CASE TrimCommits \/ UpstreamCommits
  BY <1>7 DEF TrimCommits, UpstreamCommits, SwitchActive, CutoverEnds, Goto
<1>8. CASE TrimFits \/ LocalFails \/ UpstreamFails
  BY <1>8 DEF TrimFits, LocalFails, UpstreamFails, CutoverEnds, Goto, session_vars
<1>9. CASE UpstreamStarts
  BY <1>9 DEF UpstreamStarts, StartModelCall, CutoverEnds, Goto, session_vars
<1>10. CASE UpstreamReturns
  BY <1>10 DEF UpstreamReturns, CompleteCompactionCall, CutoverEnds, Goto
<1>11. CASE EndCutover
  <2>1. IsStable(state')
    BY <1>11, ResumedIsStable DEF EndCutover
  <2>2. pc' \in {"rest", "check", "recovered", "failed"}
    BY <1>11 DEF EndCutover, AfterCutover, EndOperation, LeaveTo, Goto
  <2> QED
    BY <2>1, <2>2
<1>12. CASE SettleFailure
  <2>1. IsStable(state')
    BY <1>12, FinishedIsStable DEF SettleFailure, FinishRun
  <2>2. pc' \in {"rest", "check", "recovered", "failed"}
    BY <1>12 DEF SettleFailure, AfterCutover, EndOperation, LeaveTo, Goto
  <2> QED
    BY <2>1, <2>2
<1>13. CASE Recovered
  BY <1>13 DEF Recovered, Resume, Goto, session_vars, IsStable, Ready
<1> QED
  BY <1>1, <1>2, <1>3, <1>4, <1>5, <1>6, <1>7, <1>8, <1>9, <1>10, <1>11, <1>12, <1>13
  DEF CutoverStep

\* No step of the batch but its completion changes the phase.
LEMMA ToolStepsKeepPhase ==
  ASSUME NEW k,
         \/ \E registered \in BOOLEAN : SerialNext(k, registered) \/ ParallelAdmit(k, registered)
         \/ ToolPoll(k) \/ ToolReturnsOutcome(k)
  PROVE  /\ pc = "tools"
         /\ UNCHANGED <<op, pc, cancelled, summary, faults, state, call_vars, active>>
<1>1. CASE \E registered \in BOOLEAN : SerialNext(k, registered)
  BY <1>1 DEF SerialNext, StartTool, AcceptToolOutcome, TasksBecome, At
<1>2. CASE \E registered \in BOOLEAN : ParallelAdmit(k, registered)
  BY <1>2 DEF ParallelAdmit, StartTool, TasksBecome, At, session_vars, call_vars
<1>3. CASE ToolPoll(k)
  BY <1>3 DEF ToolPoll, AcceptToolOutcome, TasksBecome, At, session_vars, call_vars
<1>4. CASE ToolReturnsOutcome(k)
  BY <1>4 DEF ToolReturnsOutcome, AcceptToolOutcome, TasksBecome, At
<1> QED
  BY <1>1, <1>2, <1>3, <1>4

\* of the model call and the batch,
LEMMA PhaseAction ==
  ASSUME TypeOK, OpTrue, PhaseAtPc, ActionStep
  PROVE  PhaseAtPc'
<1> USE DEF PhaseAtPc, StablePoints, InsideCompaction, At
<1>1. CASE CheckCancelled
  <2>1. pc = "check" /\ pc' = "advance"
    BY <1>1 DEF CheckCancelled, Goto
  <2>2. IsStable(state')
    <3>1. CASE FinishRun("Interrupted")
      BY <3>1, FinishedIsStable DEF FinishRun
    <3>2. CASE UNCHANGED session_vars
      BY <3>2, <2>1 DEF session_vars, IsStable
    <3> QED
      BY <1>1, <3>1, <3>2 DEF CheckCancelled
  <2> QED
    BY <2>1, <2>2
<1>2. CASE Advance
  <2>1. pc = "advance" /\ pc' = "start_next"
    BY <1>2 DEF Advance, Goto
  <2>2. CASE StartTurn
    BY <2>1, <2>2 DEF StartTurn, CallingModel
  <2>3. CASE CompleteRun
    <3>1. IsStable(state')
      BY <2>3, FinishedIsStable DEF CompleteRun
    <3> QED
      BY <2>1, <3>1 DEF IsStable
  <2>4. CASE UNCHANGED session_vars
    BY <2>1, <2>4 DEF session_vars, IsStable, ExecutingTools
  <2> QED
    BY <1>2, <2>2, <2>3, <2>4 DEF Advance
<1>3. CASE StartNext
  <2>1. state \in SessionState
    BY DEF TypeOK
  <2> QED
    BY <1>3, <2>1 DEF StartNext, Goto, session_vars, IsStable, SessionState, StableState,
       CallingModel, ExecutingTools
<1>4. CASE SummaryFinishes \/ SettleFinished \/ ContinueWithInput \/ ModelReturns \/ ToolsReturn
            \/ Rejected
  BY <1>4 DEF SummaryFinishes, SettleFinished, ContinueWithInput, ModelReturns, ToolsReturn,
     Rejected, RecordSummary, RecordCompletedCompactionCall, Goto, session_vars, IsStable
<1>5. CASE Return
  BY <1>5 DEF Return, RecordSummary, RecordCompletedCompactionCall, EndOperation, LeaveTo,
     session_vars, IsStable
<1>6. CASE ReturnCancelled
  <2>1. FinishRun("Interrupted") /\ pc' = "rest"
    BY <1>6 DEF ReturnCancelled, FinishInterrupted, EndOperation, LeaveTo
  <2> QED
    BY <2>1, FinishedIsStable DEF FinishRun
<1>7. CASE \E response \in Response : AnswerComplete(response)
  <2>1. PICK response \in Response : AnswerComplete(response)
    BY <1>7
  <2>2. /\ IsStable(state') \/ state' = ExecutingTools
        /\ response.stop = "ContextLengthExceeded" => IsStable(state')
    BY <2>1, AnsweredPhase DEF AnswerComplete
  <2>3. (pc' = "rejected" /\ response.stop = "ContextLengthExceeded") \/ pc' = Top
    BY <2>1 DEF AnswerComplete, AfterAnswer, Goto
  <2> QED
    BY <2>2, <2>3 DEF Top
<1>8. CASE AnswerInterrupted \/ \E outcome \in RunOutcome : AnswerFailed(outcome)
  <2>1. IsStable(state')
    BY <1>8, FinishedIsStable DEF AnswerInterrupted, AnswerFailed, AcceptInterruption, FailModelCall
  <2>2. pc' \in {"rejected", "boundary"}
    BY <1>8, <2>1 DEF AnswerInterrupted, AnswerFailed, AfterAnswer, Goto, Top
  <2> QED
    BY <2>1, <2>2
<1>9. CASE \/ \E k \in DOMAIN task : \E registered \in BOOLEAN : SerialNext(k, registered)
           \/ \E k \in DOMAIN task : \E registered \in BOOLEAN : ParallelAdmit(k, registered)
           \/ \E k \in DOMAIN task : ToolPoll(k)
           \/ \E k \in DOMAIN task : ToolReturnsOutcome(k)
  <2>1. pc = "tools" /\ pc' = pc /\ state' = state
    BY <1>9, ToolStepsKeepPhase
  <2> QED
    BY <2>1
<1>10. CASE CompleteBatch
  BY <1>10 DEF CompleteBatch, CompleteTools, FinishWith, Goto, IsStable, Idle, Suspended, Ready
<1> QED
  BY <1>1, <1>2, <1>3, <1>4, <1>5, <1>6, <1>7, <1>8, <1>9, <1>10 DEF ActionStep

\* and beside the operation.
LEMMA PhaseBeside ==
  ASSUME TypeOK, OpTrue, PhaseAtPc, BesideStep
  PROVE  PhaseAtPc'
<1> USE DEF PhaseAtPc, StablePoints, InsideCompaction, At
<1>1. CASE SenderNext /\ UNCHANGED exec_vars
  BY <1>1 DEF SenderNext, EnqueueMessage, MoveQueuedInput, CancelQueuedInput, exec_vars, IsStable
<1>2. CASE \E operation \in {"Run", "Compact"} : StartOperation(operation)
  BY <1>2 DEF StartOperation, Resume, session_vars, IsStable, Ready
<1>3. CASE SettleAbandoned
  <2>1. IsStable(state') /\ pc' = "rest"
    BY <1>3, SettledIsStable DEF SettleAbandoned
  <2> QED
    BY <2>1
<1>4. CASE Reopen
  <2>1. IsStable(state') /\ pc' = "rest"
    BY <1>4, SettledIsStable DEF Reopen, session_vars, IsStable
  <2> QED
    BY <2>1
<1>5. CASE Cancel
  BY <1>5 DEF Cancel, session_vars, IsStable
<1>6. CASE OperationFails \/ Crash
  <2>1. pc' \in {"rest", "down"} /\ faults' # 0
    BY <1>6 DEF OperationFails, Crash, LeaveTo, OpTrue
  <2> QED
    BY <2>1
<1> QED
  BY <1>1, <1>2, <1>3, <1>4, <1>5, <1>6 DEF BesideStep

\* A summary is planned on the active generation, and a step that replaces the
\* generation is one of an await that has none, or drops it.
LEMMA SummaryBoundary ==
  ASSUME OpTrue, OpTrue', SummaryTrue, BoundaryStep
  PROVE  SummaryTrue'
<1> USE DEF SummaryTrue, SummaryFresh, InsideCompaction, At
<1>1. CASE BoundaryInterrupted \/ HandoffInterrupted \/ HandoffInvalid \/ HandoffCommitted
  <2>1. summary' = NoSummary
    BY <1>1 DEF BoundaryInterrupted, HandoffInterrupted, HandoffInvalid, HandoffCommitted,
       FinishInterrupted, EndOperation, LeaveTo
  <2> QED
    BY <2>1 DEF NoSummary
<1>2. CASE \E changed \in BOOLEAN : BoundaryPassed(changed)
  BY <1>2 DEF BoundaryPassed, Goto, AfterBoundary, session_vars, NoSummary, OpTrue
<1>3. CASE BoundaryHandoff \/ HandoffUnwritten \/ HandoffReturns \/ HandoffStale
  BY <1>3 DEF BoundaryHandoff, HandoffUnwritten, HandoffReturns, HandoffStale, Goto,
     StartModelCall, CompleteCompactionCall, session_vars, NoSummary
<1> QED
  BY <1>1, <1>2, <1>3 DEF BoundaryStep

\* A cutover settles the summary before it replaces the generation.
LEMMA SummaryCutover ==
  ASSUME OpTrue, OpTrue', SummaryTrue, CutoverStep
  PROVE  SummaryTrue'
<1> USE DEF SummaryTrue, SummaryFresh, InsideCompaction, At
<1>1. CASE Collect
  BY <1>1 DEF Collect, CollectInputs, Goto, session_vars, NoSummary
<1>2. CASE SettleStandby
  BY <1>2 DEF SettleStandby, NoSummary
<1>3. CASE SettleStandbyCancelled
  BY <1>3 DEF SettleStandbyCancelled, FinishInterrupted, EndOperation, LeaveTo, NoSummary
<1>4. CASE pc \in {"force", "failed", "recovered"} \cup InsideCompaction
  <2>1. summary = NoSummary
    BY <1>4
  <2>2. summary' = NoSummary
    <3>1. CASE summary' = summary
      BY <2>1, <3>1 DEF NoSummary
    <3>2. CASE summary' = NoSummary
      BY <3>2
    <3>3. CASE Collect \/ SettleStandby \/ SettleStandbyCancelled
      BY <1>4, <3>3 DEF Collect, SettleStandby, SettleStandbyCancelled
    <3>4. CASE BeginCutover \/ ForceCancelled \/ CatchUp
      BY <3>1, <3>2, <3>4 DEF BeginCutover, ForceCancelled, CatchUp, EndOperation, LeaveTo, exec_vars
    <3>5. CASE TrimCommits \/ TrimFits \/ LocalFails \/ UpstreamCommits \/ UpstreamFails
      BY <3>1, <3>5 DEF TrimCommits, TrimFits, LocalFails, UpstreamCommits, UpstreamFails, CutoverEnds
    <3>6. CASE UpstreamStarts \/ UpstreamReturns
      BY <3>1, <3>6 DEF UpstreamStarts, UpstreamReturns, CutoverEnds
    <3>7. CASE EndCutover \/ SettleFailure
      BY <3>1, <3>2, <3>7 DEF EndCutover, SettleFailure, AfterCutover, EndOperation, LeaveTo
    <3>8. CASE Recovered
      BY <3>1, <3>8 DEF Recovered
    <3> QED
      BY <3>3, <3>4, <3>5, <3>6, <3>7, <3>8 DEF CutoverStep
  <2> QED
    BY <2>2
<1>5. \/ Collect \/ SettleStandby \/ SettleStandbyCancelled
      \/ pc \in {"force", "failed", "recovered"} \cup InsideCompaction
  BY DEF CutoverStep, BeginCutover, ForceCancelled, CatchUp, TrimCommits, TrimFits, LocalFails,
     UpstreamStarts, UpstreamReturns, UpstreamCommits, UpstreamFails, EndCutover, SettleFailure,
     Recovered
<1> QED
  BY <1>1, <1>2, <1>3, <1>4, <1>5

\* The model call and the batch never replace the generation.
LEMMA SummaryAction ==
  ASSUME TypeOK, OpTrue, OpTrue', SummaryTrue, ActionStep
  PROVE  SummaryTrue'
<1> USE DEF SummaryTrue, SummaryFresh, InsideCompaction, At
<1>1. pc \in {"check", "advance", "start_next", "model", "tools", "answer", "tools_over",
              "finished", "rejected"}
  BY ToolStepsKeepPhase DEF ActionStep, CheckCancelled, Advance, StartNext, SummaryFinishes,
     SettleFinished, Return, ReturnCancelled, ContinueWithInput, ModelReturns, AnswerComplete,
     AnswerInterrupted, AnswerFailed, Rejected, ToolsReturn, CompleteBatch
<1>2. op = "Run"
  BY <1>1 DEF OpTrue, InsideCompaction
<1>3. CASE summary' = NoSummary
  BY <1>3
<1>4. CASE StartNext
  BY <1>4, <1>2 DEF StartNext, Goto, InFlight, NoSummary, session_vars
<1>5. CASE SummaryFinishes
  <2>1. summary # NoSummary
    BY <1>5 DEF SummaryFinishes, NoSummary
  <2>2. summary'.generation = summary.generation
    BY <1>5 DEF SummaryFinishes
  <2> QED
    BY <1>5, <1>2, <2>1, <2>2 DEF SummaryFinishes, session_vars
<1>6. ASSUME UNCHANGED <<summary, op, active>>,
             pc' \notin {"rest", "down", "force", "failed", "recovered"} \cup InsideCompaction
      PROVE  SummaryTrue'
  BY <1>2, <1>6
<1>7. CASE CheckCancelled
  BY <1>7, <1>3, <1>6 DEF CheckCancelled, FinishRun, Goto, session_vars
<1>8. CASE Advance
  BY <1>8, <1>6 DEF Advance, StartTurn, CompleteRun, Goto, session_vars
<1>9. CASE SettleFinished \/ Return \/ ReturnCancelled
  BY <1>9, <1>3 DEF SettleFinished, Return, ReturnCancelled, FinishInterrupted, EndOperation, LeaveTo
<1>10. CASE ContinueWithInput \/ ModelReturns \/ Rejected \/ ToolsReturn
  BY <1>10, <1>6 DEF ContinueWithInput, ModelReturns, Rejected, ToolsReturn, Goto, session_vars
<1>11. CASE \E response \in Response : AnswerComplete(response)
  BY <1>11, <1>6 DEF AnswerComplete, AcceptResponse, AfterAnswer, Goto, Top
<1>12. CASE AnswerInterrupted \/ \E outcome \in RunOutcome : AnswerFailed(outcome)
  BY <1>12, <1>6 DEF AnswerInterrupted, AnswerFailed, AcceptInterruption, FailModelCall, AfterAnswer,
     Goto, Top
<1>13. CASE \/ \E k \in DOMAIN task : \E registered \in BOOLEAN : SerialNext(k, registered)
            \/ \E k \in DOMAIN task : \E registered \in BOOLEAN : ParallelAdmit(k, registered)
            \/ \E k \in DOMAIN task : ToolPoll(k)
            \/ \E k \in DOMAIN task : ToolReturnsOutcome(k)
  <2>1. pc = "tools" /\ UNCHANGED <<summary, op, active, pc>>
    BY <1>13, ToolStepsKeepPhase
  <2> QED
    BY <2>1, <1>6
<1>14. CASE CompleteBatch
  BY <1>14, <1>6 DEF CompleteBatch, CompleteTools, Goto
<1> QED
  BY <1>4, <1>5, <1>7, <1>8, <1>9, <1>10, <1>11, <1>12, <1>13, <1>14 DEF ActionStep

\* Nor does anything beside the operation, which ends without a summary.
LEMMA SummaryBeside ==
  ASSUME OpTrue, OpTrue', SummaryTrue, BesideStep
  PROVE  SummaryTrue'
<1> USE DEF SummaryTrue, SummaryFresh, InsideCompaction, At
<1>1. CASE SenderNext /\ UNCHANGED exec_vars
  BY <1>1 DEF SenderNext, EnqueueMessage, MoveQueuedInput, CancelQueuedInput, exec_vars
<1>2. CASE \E operation \in {"Run", "Compact"} : StartOperation(operation)
  BY <1>2 DEF StartOperation, NoSummary
<1>3. CASE SettleAbandoned \/ Reopen
  BY <1>3 DEF SettleAbandoned, Reopen, NoSummary
<1>4. CASE Cancel
  BY <1>4 DEF Cancel, session_vars
<1>5. CASE OperationFails \/ Crash
  BY <1>5 DEF OperationFails, Crash, LeaveTo, NoSummary
<1> QED
  BY <1>1, <1>2, <1>3, <1>4, <1>5 DEF BesideStep

-----------------------------------------------------------------------------
(* The records of the calls. *)

\* Finishing a run with no record running opens none.
LEMMA FinishOpensNone ==
  ASSUME TypeOK, NoneRuns, NEW outcome, FinishWith(model_calls, outcome)
  PROVE  NoneRuns'
<1>1. model_calls' = model_calls
  BY DEF FinishWith, Abandoned, NoneRuns, TypeOK, NoCall
<1> QED
  BY <1>1 DEF NoneRuns

\* The end of the active call leaves none running.
LEMMA EndLeavesNone ==
  ASSUME TypeOK, OnlyActiveRuns, NEW status \in CallStatus \ {"Running"},
         active_model_call # NoCall
  PROVE  /\ Ended(status) \in Seq(ModelCallRecord)
         /\ DOMAIN Ended(status) = DOMAIN model_calls
         /\ \A i \in DOMAIN model_calls : Ended(status)[i].status # "Running"
<1> DEFINE a == active_model_call
<1>1. model_calls \in Seq(ModelCallRecord) /\ a \in 1 .. Len(model_calls)
  BY DEF TypeOK, NoCall
<1>2. /\ Ended(status) \in Seq(ModelCallRecord)
      /\ Len(Ended(status)) = Len(model_calls)
      /\ \A i \in 1 .. Len(model_calls) \ {a} : Ended(status)[i] = model_calls[i]
  BY <1>1, StatusType DEF Ended
<1>3. model_calls[a] \in ModelCallRecord
  BY <1>1
<1>4. Ended(status)[a].status = status
  BY <1>1, <1>3 DEF Ended, ModelCallRecord
<1> QED
  BY <1>1, <1>2, <1>4 DEF OnlyActiveRuns

\* A run finished together with its call leaves none running either.
LEMMA FinishWithEndLeavesNone ==
  ASSUME TypeOK, OnlyActiveRuns, NEW status \in CallStatus \ {"Running"}, NEW outcome,
         active_model_call # NoCall, FinishWith(Ended(status), outcome)
  PROVE  NoneRuns'
<1>1. /\ DOMAIN Ended(status) = DOMAIN model_calls
      /\ \A i \in DOMAIN model_calls : Ended(status)[i].status # "Running"
  BY EndLeavesNone
<1>2. active_model_call \in DOMAIN model_calls
  BY DEF TypeOK, NoCall
<1>3. model_calls' = Ended(status)
  BY <1>1, <1>2 DEF FinishWith, Abandoned
<1> QED
  BY <1>1, <1>3 DEF NoneRuns

\* A call that starts when none runs is the one that runs.
LEMMA StartedIsActive ==
  ASSUME TypeOK, NoneRuns, NEW purpose, StartCall(purpose)
  PROVE  OnlyActiveRuns'
<1>1. model_calls \in Seq(ModelCallRecord)
  BY DEF TypeOK
<1> DEFINE r == NewModelCall(purpose, "Running")
<1>2. model_calls' = Append(model_calls, r) /\ active_model_call' = Len(model_calls) + 1
  BY DEF StartCall
<1> HIDE DEF r
<1>3. /\ DOMAIN model_calls' = 1 .. Len(model_calls) + 1
      /\ \A i \in 1 .. Len(model_calls) : model_calls'[i] = model_calls[i]
  BY <1>1, <1>2
<1> QED
  BY <1>1, <1>2, <1>3 DEF OnlyActiveRuns, NoneRuns

\* The record of a summary is one that does not run.
LEMMA SummaryOpensNone ==
  ASSUME TypeOK, RecordSummary \/ RecordCompletedCompactionCall
  PROVE  /\ UNCHANGED state
         /\ OnlyActiveRuns => OnlyActiveRuns'
         /\ NoneRuns => NoneRuns'
<1>1. CASE UNCHANGED session_vars
  BY <1>1 DEF session_vars, OnlyActiveRuns, NoneRuns
<1>2. CASE RecordCompletedCompactionCall
  <2>1. model_calls \in Seq(ModelCallRecord)
    BY DEF TypeOK
  <2> DEFINE r == NewModelCall("CompactionSummary", "Completed")
  <2>2. model_calls' = Append(model_calls, r) /\ r.status = "Completed"
    BY <1>2 DEF RecordCompletedCompactionCall, NewModelCall
  <2> HIDE DEF r
  <2>3. /\ DOMAIN model_calls' = 1 .. Len(model_calls) + 1
        /\ \A i \in 1 .. Len(model_calls) : model_calls'[i] = model_calls[i]
        /\ model_calls'[Len(model_calls) + 1] = r
    BY <2>1, <2>2
  <2>4. UNCHANGED <<state, active_model_call>>
    BY <1>2 DEF RecordCompletedCompactionCall
  <2> QED
    BY <2>1, <2>2, <2>3, <2>4 DEF OnlyActiveRuns, NoneRuns
<1> QED
  BY <1>1, <1>2 DEF RecordSummary

\* The handoff closes the record it opened before the boundary goes on.
LEMMA CallsBoundary ==
  ASSUME TypeOK, OpTrue, PhaseAtPc, CallsTrue, BoundaryStep
  PROVE  CallsTrue'
<1> SUFFICES ASSUME faults' = 0
             PROVE  /\ OnlyActiveRuns'
                    /\ pc' \notin {"handoff", "upstream"} /\ state' # CallingModel => NoneRuns'
  BY DEF CallsTrue
<1> USE DEF At
<1>1. faults = 0
  BY DEF BoundaryStep, BoundaryInterrupted, BoundaryPassed, BoundaryHandoff, HandoffUnwritten,
     HandoffReturns, HandoffInterrupted, HandoffCommitted, HandoffStale, HandoffInvalid,
     FinishInterrupted, EndOperation, Goto
<1>2. IsStable(state) => state # CallingModel
  BY DEF IsStable, CallingModel
<1>3. OnlyActiveRuns /\ (pc # "handoff" /\ pc \in StablePoints => NoneRuns)
  BY <1>1, <1>2 DEF CallsTrue, PhaseAtPc, StablePoints
<1>4. NoneRuns' => OnlyActiveRuns'
  BY DEF NoneRuns, OnlyActiveRuns
<1>5. CASE BoundaryInterrupted \/ HandoffInterrupted
  <2>1. NoneRuns /\ FinishWith(model_calls, "Interrupted")
    BY <1>5, <1>3 DEF BoundaryInterrupted, HandoffInterrupted, FinishInterrupted, FinishRun, StablePoints
  <2> QED
    BY <2>1, <1>4, FinishOpensNone
<1>6. CASE \/ \E changed \in BOOLEAN : BoundaryPassed(changed)
           \/ HandoffUnwritten \/ HandoffCommitted \/ HandoffStale \/ HandoffInvalid
  <2>1. NoneRuns /\ UNCHANGED call_vars
    BY <1>6, <1>3 DEF BoundaryPassed, HandoffUnwritten, HandoffCommitted, HandoffStale, HandoffInvalid,
       SwitchActive, session_vars, call_vars, StablePoints
  <2> QED
    BY <2>1, <1>4 DEF NoneRuns, call_vars
<1>7. CASE BoundaryHandoff
  <2>1. NoneRuns /\ StartCall("CompactionTranslation") /\ pc' = "handoff"
    BY <1>7, <1>3 DEF BoundaryHandoff, StartModelCall, StablePoints, Goto
  <2> QED
    BY <2>1, StartedIsActive
<1>8. CASE HandoffReturns
  <2>1. PICK status \in IF cancelled THEN {"Interrupted"} ELSE {"Completed", "Failed"} :
          CompleteCompactionCall(status)
    BY <1>8 DEF HandoffReturns
  <2>2. status \in CallStatus \ {"Running"}
    BY DEF CallStatus
  <2>3. NoneRuns'
    BY <2>1, <2>2, <1>3, EndLeavesNone DEF CompleteCompactionCall, NoneRuns
  <2> QED
    BY <2>3, <1>4
<1> QED
  BY <1>5, <1>6, <1>7, <1>8 DEF BoundaryStep

\* So does an upstream compaction.
LEMMA CallsCutover ==
  ASSUME TypeOK, OpTrue, PhaseAtPc, CallsTrue, CutoverStep
  PROVE  CallsTrue'
<1> SUFFICES ASSUME faults' = 0
             PROVE  /\ OnlyActiveRuns'
                    /\ pc' \notin {"handoff", "upstream"} /\ state' # CallingModel => NoneRuns'
  BY DEF CallsTrue
<1> USE DEF At
<1>1. faults = 0
  BY DEF CutoverStep, Collect, SettleStandby, SettleStandbyCancelled, BeginCutover, ForceCancelled,
     CatchUp, TrimCommits, TrimFits, LocalFails, UpstreamStarts, UpstreamReturns, UpstreamCommits,
     UpstreamFails, EndCutover, SettleFailure, Recovered, AfterCutover, CutoverEnds,
     FinishInterrupted, EndOperation, Goto, exec_vars
<1>2. IsStable(state) \/ state.phase = "Compacting" => state # CallingModel
  BY DEF IsStable, CallingModel
<1>3. /\ OnlyActiveRuns
      /\ pc \notin {"handoff", "upstream"} /\ pc \in StablePoints \cup InsideCompaction => NoneRuns
  BY <1>1, <1>2 DEF CallsTrue, PhaseAtPc
<1>4. NoneRuns' => OnlyActiveRuns'
  BY DEF NoneRuns, OnlyActiveRuns
<1>5. CASE NoneRuns /\ UNCHANGED model_calls
  BY <1>5, <1>4 DEF NoneRuns
<1>6. CASE Collect \/ BeginCutover \/ ForceCancelled
  BY <1>6, <1>5, <1>3 DEF Collect, CollectInputs, BeginCutover, BeginCompaction, ForceCancelled,
     session_vars, call_vars, StablePoints
<1>7. CASE SettleStandby
  <2>1. NoneRuns
    BY <1>7, <1>3 DEF SettleStandby, StablePoints
  <2>2. CASE RecordSummary
    BY <2>1, <2>2, <1>4, SummaryOpensNone
  <2>3. CASE UNCHANGED session_vars
    BY <2>1, <2>3, <1>5 DEF session_vars
  <2> QED
    BY <1>7, <2>2, <2>3 DEF SettleStandby
<1>8. CASE SettleStandbyCancelled \/ SettleFailure
  <2>1. NoneRuns /\ \E outcome : FinishWith(model_calls, outcome)
    BY <1>8, <1>3 DEF SettleStandbyCancelled, SettleFailure, FinishInterrupted, FinishRun, StablePoints
  <2> QED
    BY <2>1, <1>4, FinishOpensNone
<1>9. CASE CatchUp
  <2>1. NoneRuns /\ RecordCompletedCompactionCall
    BY <1>9, <1>3 DEF CatchUp, InsideCompaction
  <2> QED
    BY <2>1, <1>4, SummaryOpensNone
<1>10. CASE TrimCommits \/ TrimFits \/ LocalFails \/ UpstreamCommits \/ UpstreamFails
  BY <1>10, <1>5, <1>3 DEF TrimCommits, TrimFits, LocalFails, UpstreamCommits, UpstreamFails,
     SwitchActive, session_vars, call_vars, InsideCompaction
<1>11. CASE UpstreamStarts
  <2>1. NoneRuns
    BY <1>11, <1>3 DEF UpstreamStarts, InsideCompaction
  <2>2. CASE cancelled
    BY <1>11, <2>1, <2>2, <1>5 DEF UpstreamStarts, session_vars
  <2>3. CASE ~ cancelled
    <3>1. StartCall("UpstreamCompaction") /\ pc' = "upstream"
      BY <1>11, <2>3 DEF UpstreamStarts, StartModelCall, Goto
    <3> QED
      BY <2>1, <3>1, StartedIsActive
  <2> QED
    BY <2>2, <2>3
<1>12. CASE UpstreamReturns
  <2>1. PICK status \in {"Completed", "Failed"} \cup (IF cancelled THEN {"Interrupted"} ELSE {}) :
          CompleteCompactionCall(status)
    BY <1>12 DEF UpstreamReturns
  <2>2. status \in CallStatus \ {"Running"}
    BY DEF CallStatus
  <2>3. NoneRuns'
    BY <2>1, <2>2, <1>3, EndLeavesNone DEF CompleteCompactionCall, NoneRuns
  <2> QED
    BY <2>3, <1>4
<1>13. CASE EndCutover \/ Recovered
  BY <1>13, <1>5, <1>3 DEF EndCutover, EndCompaction, Recovered, Resume, session_vars, call_vars,
     StablePoints, InsideCompaction
<1> QED
  BY <1>6, <1>7, <1>8, <1>9, <1>10, <1>11, <1>12, <1>13 DEF CutoverStep

\* The steps of the batch and of the model call leave the count of failures alone.
LEMMA ActionCountsNoFault ==
  ASSUME ActionStep
  PROVE  faults' = faults
<1>1. CASE \/ \E k \in DOMAIN task : \E registered \in BOOLEAN : SerialNext(k, registered)
           \/ \E k \in DOMAIN task : \E registered \in BOOLEAN : ParallelAdmit(k, registered)
           \/ \E k \in DOMAIN task : ToolPoll(k)
           \/ \E k \in DOMAIN task : ToolReturnsOutcome(k)
  BY <1>1, ToolStepsKeepPhase
<1>2. CASE CheckCancelled \/ Advance \/ StartNext \/ SummaryFinishes \/ SettleFinished
           \/ Return \/ ReturnCancelled \/ ContinueWithInput \/ ModelReturns
  BY <1>2 DEF CheckCancelled, Advance, StartNext, SummaryFinishes, SettleFinished, Return,
     ReturnCancelled, ContinueWithInput, ModelReturns, FinishInterrupted, EndOperation, Goto
<1>3. CASE \/ \E response \in Response : AnswerComplete(response)
           \/ AnswerInterrupted \/ (\E outcome \in RunOutcome : AnswerFailed(outcome)) \/ Rejected
           \/ ToolsReturn \/ CompleteBatch
  BY <1>3 DEF AnswerComplete, AnswerInterrupted, AnswerFailed, Rejected, ToolsReturn, CompleteBatch,
     AfterAnswer, Goto
<1> QED
  BY <1>1, <1>2, <1>3 DEF ActionStep

\* A turn opens its record when none runs, and whatever ends the turn closes it.
LEMMA CallsAction ==
  ASSUME TypeOK, OpTrue, PhaseAtPc, PhaseAtPc', CallsTrue, ActionStep
  PROVE  CallsTrue'
<1> SUFFICES ASSUME faults' = 0
             PROVE  /\ OnlyActiveRuns'
                    /\ pc' \notin {"handoff", "upstream"} /\ state' # CallingModel => NoneRuns'
  BY DEF CallsTrue
<1> USE DEF At
<1>1. faults = 0
  BY ActionCountsNoFault
<1>2. /\ OnlyActiveRuns
      /\ pc \notin {"handoff", "upstream"} /\ state # CallingModel => NoneRuns
  BY <1>1 DEF CallsTrue
<1>3. NoneRuns' => OnlyActiveRuns'
  BY DEF NoneRuns, OnlyActiveRuns
<1>4. ASSUME pc \notin {"handoff", "upstream"}, UNCHANGED <<state, model_calls, active_model_call>>
      PROVE  /\ OnlyActiveRuns'
             /\ pc' \notin {"handoff", "upstream"} /\ state' # CallingModel => NoneRuns'
  BY <1>2, <1>4 DEF OnlyActiveRuns, NoneRuns
<1>5. pc \in StablePoints => state # CallingModel
  BY DEF PhaseAtPc, IsStable, CallingModel
<1>6. CASE CheckCancelled
  <2>1. NoneRuns /\ pc = "check"
    BY <1>6, <1>2, <1>5 DEF CheckCancelled, StablePoints
  <2>2. CASE FinishRun("Interrupted")
    BY <2>1, <2>2, <1>3, FinishOpensNone DEF FinishRun
  <2>3. CASE UNCHANGED session_vars
    BY <2>1, <2>3, <1>4 DEF session_vars
  <2> QED
    BY <1>6, <2>2, <2>3 DEF CheckCancelled
<1>7. CASE Advance
  <2>1. NoneRuns /\ pc = "advance" /\ pc' = "start_next"
    BY <1>7, <1>2 DEF Advance, PhaseAtPc, Goto, IsStable, CallingModel, ExecutingTools
  <2>2. CASE StartTurn
    BY <2>1, <2>2, StartedIsActive DEF StartTurn
  <2>3. CASE CompleteRun
    BY <2>1, <2>3, <1>3, FinishOpensNone DEF CompleteRun
  <2>4. CASE UNCHANGED session_vars
    BY <2>1, <2>4, <1>4 DEF session_vars
  <2> QED
    BY <1>7, <2>2, <2>3, <2>4 DEF Advance
<1>8. CASE StartNext \/ SummaryFinishes \/ ContinueWithInput \/ ModelReturns \/ Rejected \/ ToolsReturn
  BY <1>8, <1>4 DEF StartNext, SummaryFinishes, ContinueWithInput, ModelReturns, Rejected, ToolsReturn,
     session_vars
<1>9. CASE SettleFinished \/ Return
  <2>1. pc \notin {"handoff", "upstream"} /\ (RecordSummary \/ UNCHANGED session_vars)
    BY <1>9 DEF SettleFinished, Return
  <2>2. CASE RecordSummary
    BY <2>1, <2>2, <1>2, <1>3, SummaryOpensNone
  <2>3. CASE UNCHANGED session_vars
    BY <2>1, <2>3, <1>4 DEF session_vars
  <2> QED
    BY <2>1, <2>2, <2>3
<1>10. CASE ReturnCancelled
  <2>1. NoneRuns /\ FinishWith(model_calls, "Interrupted")
    BY <1>10, <1>2, <1>5 DEF ReturnCancelled, FinishInterrupted, FinishRun, StablePoints
  <2> QED
    BY <2>1, <1>3, FinishOpensNone
<1>11. CASE \E response \in Response : AnswerComplete(response)
  <2>1. PICK response \in Response : AcceptResponse(response)
    BY <1>11 DEF AnswerComplete
  <2>2. "Completed" \in CallStatus \ {"Running"} /\ active_model_call # NoCall
    BY <2>1 DEF CallStatus, AcceptResponse
  <2>3. CASE \E outcome : FinishWith(Ended("Completed"), outcome)
    BY <2>2, <2>3, <1>2, <1>3, FinishWithEndLeavesNone
  <2>4. CASE model_calls' = Ended("Completed")
    BY <2>2, <2>4, <1>2, <1>3, EndLeavesNone DEF NoneRuns
  <2> QED
    BY <2>1, <2>3, <2>4 DEF AcceptResponse
<1>12. CASE AnswerInterrupted \/ \E outcome \in RunOutcome : AnswerFailed(outcome)
  <2>1. PICK status \in {"Interrupted", "Failed"} : \E outcome : FinishWith(Ended(status), outcome)
    BY <1>12 DEF AnswerInterrupted, AnswerFailed, AcceptInterruption, FailModelCall
  <2>2. status \in CallStatus \ {"Running"} /\ active_model_call # NoCall
    BY <1>12 DEF CallStatus, AnswerInterrupted, AnswerFailed, AcceptInterruption, FailModelCall
  <2> QED
    BY <2>1, <2>2, <1>2, <1>3, FinishWithEndLeavesNone
<1>13. CASE \/ \E k \in DOMAIN task : \E registered \in BOOLEAN : SerialNext(k, registered)
            \/ \E k \in DOMAIN task : \E registered \in BOOLEAN : ParallelAdmit(k, registered)
            \/ \E k \in DOMAIN task : ToolPoll(k)
            \/ \E k \in DOMAIN task : ToolReturnsOutcome(k)
  <2>1. pc = "tools" /\ UNCHANGED <<state, model_calls, active_model_call>>
    BY <1>13, ToolStepsKeepPhase DEF call_vars
  <2> QED
    BY <2>1, <1>4
<1>14. CASE CompleteBatch
  <2>1. NoneRuns
    BY <1>14, <1>2 DEF CompleteBatch, CompleteTools, ExecutingTools, CallingModel
  <2>2. CASE \E outcome : FinishWith(model_calls, outcome)
    BY <2>1, <2>2, <1>3, FinishOpensNone
  <2>3. CASE UNCHANGED call_vars
    BY <2>1, <2>3, <1>3 DEF call_vars, NoneRuns
  <2> QED
    BY <1>14, <2>2, <2>3 DEF CompleteBatch, CompleteTools
<1> QED
  BY <1>6, <1>7, <1>8, <1>9, <1>10, <1>11, <1>12, <1>13, <1>14 DEF ActionStep

\* Without a failure nothing beside the operation finds a record running at rest.
LEMMA CallsBeside ==
  ASSUME TypeOK, OpTrue, PhaseAtPc, CallsTrue, BesideStep
  PROVE  CallsTrue'
<1> SUFFICES ASSUME faults' = 0
             PROVE  /\ OnlyActiveRuns'
                    /\ pc' \notin {"handoff", "upstream"} /\ state' # CallingModel => NoneRuns'
  BY DEF CallsTrue
<1> USE DEF At
<1>1. faults = 0 /\ ~ OperationFails /\ ~ Crash /\ ~ Reopen
  BY DEF BesideStep, OpTrue, StartOperation, SettleAbandoned, Cancel, OperationFails, Crash, Reopen,
     exec_vars
<1>2. /\ OnlyActiveRuns
      /\ pc \notin {"handoff", "upstream"} /\ state # CallingModel => NoneRuns
  BY <1>1 DEF CallsTrue
<1>3. NoneRuns' => OnlyActiveRuns'
  BY DEF NoneRuns, OnlyActiveRuns
<1>4. CASE SenderNext /\ UNCHANGED exec_vars
  <2>1. UNCHANGED <<state, model_calls, active_model_call, pc>>
    BY <1>4 DEF SenderNext, EnqueueMessage, MoveQueuedInput, CancelQueuedInput, exec_vars, call_vars
  <2> QED
    BY <2>1, <1>2 DEF OnlyActiveRuns, NoneRuns
<1>5. CASE \E operation \in {"Run", "Compact"} : StartOperation(operation)
  <2>1. pc = "rest" /\ IsStable(state) /\ UNCHANGED model_calls
    BY <1>5 DEF StartOperation, Resume, call_vars, session_vars
  <2>2. NoneRuns
    BY <2>1, <1>2 DEF IsStable, CallingModel
  <2> QED
    BY <2>1, <2>2, <1>3 DEF NoneRuns
<1>6. CASE SettleAbandoned
  BY <1>6, <1>1 DEF SettleAbandoned, PhaseAtPc
<1>7. CASE Cancel
  <2>1. UNCHANGED <<state, model_calls, active_model_call, pc>>
    BY <1>7 DEF Cancel, session_vars
  <2> QED
    BY <2>1, <1>2 DEF OnlyActiveRuns, NoneRuns
<1> QED
  BY <1>1, <1>4, <1>5, <1>6, <1>7 DEF BesideStep

-----------------------------------------------------------------------------
(* The executions of the batch. *)

\* Without a batch there is no execution to tell of.
LEMMA NoTasks ==
  ASSUME batch' = <<>>, DOMAIN task' = {}
  PROVE  TasksTrue'
BY DEF TasksTrue

\* A session at a stable point, or inside a compaction, has no batch.
LEMMA NoBatch ==
  ASSUME PhaseInv, TasksTrue, state # ExecutingTools
  PROVE  batch = <<>> /\ DOMAIN task = {}
BY DEF PhaseInv, BatchWhileExecuting, TasksTrue

\* Settling an interrupted session leaves none.
LEMMA SettlingDrains ==
  ASSUME PhaseInv, SettleInterrupted
  PROVE  batch' = <<>>
<1>1. state # ExecutingTools => batch = <<>>
  BY DEF PhaseInv, BatchWhileExecuting
<1>2. CASE SettleExecutingTools
  BY <1>2 DEF SettleExecutingTools
<1>3. CASE SettleCallingModel
  BY <1>1, <1>3 DEF SettleCallingModel, CallingModel, ExecutingTools
<1>4. CASE SettleCompacting
  BY <1>1, <1>4 DEF SettleCompacting, ExecutingTools
<1> QED
  BY <1>2, <1>3, <1>4 DEF SettleInterrupted

\* The boundary and the cutovers have no batch.
LEMMA TasksBoundary ==
  ASSUME PhaseInv, PhaseAtPc, TasksTrue, BoundaryStep
  PROVE  TasksTrue'
<1>1. UNCHANGED <<batch, task>>
  BY DEF BoundaryStep, BoundaryInterrupted, BoundaryPassed, BoundaryHandoff, HandoffUnwritten,
     HandoffReturns, HandoffInterrupted, HandoffCommitted, HandoffStale, HandoffInvalid,
     FinishInterrupted, FinishRun, EndOperation, StartModelCall, CompleteCompactionCall, SwitchActive,
     session_vars
<1>2. pc \in StablePoints
  BY DEF BoundaryStep, BoundaryInterrupted, BoundaryPassed, BoundaryHandoff, HandoffUnwritten,
     HandoffReturns, HandoffInterrupted, HandoffCommitted, HandoffStale, HandoffInvalid, At,
     StablePoints
<1>3. state # ExecutingTools
  BY <1>2 DEF PhaseAtPc, IsStable, ExecutingTools
<1> QED
  BY <1>1, <1>3, NoBatch, NoTasks

\* The same of a cutover.
LEMMA TasksCutover ==
  ASSUME PhaseInv, PhaseAtPc, TasksTrue, CutoverStep
  PROVE  TasksTrue'
<1>1. UNCHANGED task
  BY DEF CutoverStep, Collect, SettleStandby, SettleStandbyCancelled, BeginCutover, ForceCancelled,
     CatchUp, TrimCommits, TrimFits, LocalFails, UpstreamStarts, UpstreamReturns, UpstreamCommits,
     UpstreamFails, EndCutover, SettleFailure, Recovered, AfterCutover, CutoverEnds,
     FinishInterrupted, EndOperation, exec_vars
<1>2. UNCHANGED batch
  BY DEF CutoverStep, Collect, CollectInputs, SettleStandby, RecordSummary,
     RecordCompletedCompactionCall, SettleStandbyCancelled, BeginCutover, BeginCompaction,
     ForceCancelled, CatchUp, TrimCommits, TrimFits, LocalFails, UpstreamStarts, StartModelCall,
     UpstreamReturns, CompleteCompactionCall, UpstreamCommits, SwitchActive, UpstreamFails,
     EndCutover, EndCompaction, SettleFailure, FinishRun, Recovered, Resume, FinishInterrupted,
     session_vars
<1>3. pc \in StablePoints \cup InsideCompaction
  BY DEF CutoverStep, Collect, SettleStandby, SettleStandbyCancelled, BeginCutover, ForceCancelled,
     CatchUp, TrimCommits, TrimFits, LocalFails, UpstreamStarts, UpstreamReturns, UpstreamCommits,
     UpstreamFails, EndCutover, SettleFailure, Recovered, At, StablePoints, InsideCompaction
<1>4. state # ExecutingTools
  BY <1>3 DEF PhaseAtPc, IsStable, ExecutingTools
<1> QED
  BY <1>1, <1>2, <1>4, NoBatch, NoTasks

\* A step of one call of the batch: the others stay as they are.
LEMMA OneCallMoves ==
  ASSUME TypeOK, TasksTrue, pc = "tools", NEW k \in DOMAIN batch, NEW what,
         UNCHANGED <<pc, cancelled>>,
         task' = [task EXCEPT ![k] = what],
         DOMAIN batch' = DOMAIN batch,
         \A j \in DOMAIN batch : j # k => batch'[j] = batch[j],
         CallRecorded(k)'
  PROVE  TasksTrue'
<1>1. DOMAIN task = DOMAIN batch
  BY DEF TasksTrue
<1>2. DOMAIN task' = DOMAIN task /\ \A j \in DOMAIN task : j # k => task'[j] = task[j]
  OBVIOUS
<1>3. ASSUME NEW j \in DOMAIN batch, j # k
      PROVE  CallRecorded(j)'
  <2>1. CallRecorded(j)
    BY DEF TasksTrue
  <2> QED
    BY <1>1, <1>2, <1>3, <2>1 DEF CallRecorded
<1>4. batch' # <<>>
  OBVIOUS
<1> QED
  BY <1>1, <1>2, <1>3, <1>4 DEF TasksTrue

\* What the end and the start of a tool write of its call.
LEMMA ToolWrites ==
  ASSUME TypeOK, NEW k \in DOMAIN batch, NEW outcome \in ToolOutcome
  PROVE  /\ AcceptToolOutcome(k, outcome) =>
              /\ DOMAIN batch' = DOMAIN batch
              /\ \A j \in DOMAIN batch : j # k => batch'[j] = batch[j]
              /\ batch'[k].outcome = outcome
         /\ StartTool(k) =>
              /\ DOMAIN batch' = DOMAIN batch
              /\ \A j \in DOMAIN batch : j # k => batch'[j] = batch[j]
              /\ batch'[k].started = TRUE
              /\ batch'[k].outcome = batch[k].outcome
<1>1. batch[k] \in ToolExecution
  BY DEF TypeOK
<1>2. batch = [j \in DOMAIN batch |-> batch[j]]
  BY DEF TypeOK
<1> QED
  BY <1>1, <1>2 DEF AcceptToolOutcome, StartTool, ToolExecution

\* A call that is over has told its outcome.
LEMMA OverIsRecorded ==
  ASSUME TypeOK, TasksTrue, pc = "tools", UNCHANGED <<pc, cancelled>>,
         NEW k \in DOMAIN batch, NEW outcome \in ToolOutcome,
         AcceptToolOutcome(k, outcome), task' = [task EXCEPT ![k] = "over"]
  PROVE  TasksTrue'
<1>1. /\ DOMAIN batch' = DOMAIN batch
      /\ \A j \in DOMAIN batch : j # k => batch'[j] = batch[j]
  BY ToolWrites
<1>2. k \in DOMAIN task' /\ task'[k] = "over"
  BY DEF TasksTrue
<1>3. CallRecorded(k)'
  BY <1>2 DEF CallRecorded
<1> QED
  BY <1>1, <1>3, OneCallMoves

\* The steps of a call of the batch: it is marked started before it can run, unless the
\* cancellation that skipped the mark also keeps it from running.
LEMMA TasksTool ==
  ASSUME TypeOK, TasksTrue, NEW k \in DOMAIN task,
         \/ \E registered \in BOOLEAN : SerialNext(k, registered) \/ ParallelAdmit(k, registered)
         \/ ToolPoll(k) \/ ToolReturnsOutcome(k)
  PROVE  TasksTrue'
<1>1. pc = "tools" /\ UNCHANGED <<pc, cancelled>>
  BY ToolStepsKeepPhase
<1>2. DOMAIN task = DOMAIN batch /\ k \in DOMAIN batch
  BY <1>1 DEF TasksTrue
<1>3. CallRecorded(k)
  BY <1>2 DEF TasksTrue
<1>4. "Reported" \in ToolOutcome /\ "Cancelled" \in ToolOutcome /\ "Refused" \in ToolOutcome
  BY DEF ToolOutcome
<1>5. ASSUME NEW what \in {"admitted", "unregistered", "running"},
             task' = [task EXCEPT ![k] = what]
      PROVE  /\ StartTool(k) /\ task[k] = "waiting" => TasksTrue'
             /\ /\ UNCHANGED batch
                /\ \/ task[k] = "waiting" /\ (what = "unregistered" \/ cancelled)
                   \/ task[k] = "admitted" /\ ~ cancelled
                /\ what = "running" => task[k] = "admitted" /\ ~ cancelled
                => TasksTrue'
  <2>1. k \in DOMAIN task' /\ task'[k] = what
    BY <1>5
  <2>2. ASSUME StartTool(k), task[k] = "waiting"
        PROVE  TasksTrue'
    <3>1. /\ DOMAIN batch' = DOMAIN batch
          /\ \A j \in DOMAIN batch : j # k => batch'[j] = batch[j]
          /\ batch'[k].started = TRUE
          /\ batch'[k].outcome = batch[k].outcome
      BY <2>2, <1>2, <1>4, ToolWrites
    <3>2. batch[k].outcome = NotSettled
      BY <2>2, <1>3 DEF CallRecorded
    <3>3. CallRecorded(k)'
      BY <2>1, <3>1, <3>2 DEF CallRecorded
    <3> QED
      BY <1>1, <1>2, <1>5, <3>1, <3>3, OneCallMoves
  <2>3. ASSUME UNCHANGED batch,
               \/ task[k] = "waiting" /\ (what = "unregistered" \/ cancelled)
               \/ task[k] = "admitted" /\ ~ cancelled,
               what = "running" => task[k] = "admitted" /\ ~ cancelled
        PROVE  TasksTrue'
    <3>1. CallRecorded(k)'
      BY <2>1, <2>3, <1>1, <1>2, <1>3 DEF CallRecorded
    <3> QED
      BY <1>1, <1>2, <1>5, <2>3, <3>1, OneCallMoves
  <2> QED
    BY <2>2, <2>3
<1>6. ASSUME NEW registered \in BOOLEAN, SerialNext(k, registered)
      PROVE  TasksTrue'
  <2>1. task[k] = "waiting"
    BY <1>6 DEF SerialNext, NextCall, Waiting
  <2>2. \/ /\ \E outcome \in ToolOutcome : AcceptToolOutcome(k, outcome)
           /\ task' = [task EXCEPT ![k] = "over"]
        \/ StartTool(k) /\ task' = [task EXCEPT ![k] = "admitted"]
    BY <1>6, <1>4 DEF SerialNext, TasksBecome
  <2> QED
    BY <1>1, <1>2, <1>5, <2>1, <2>2, OverIsRecorded
<1>7. ASSUME NEW registered \in BOOLEAN, ParallelAdmit(k, registered)
      PROVE  TasksTrue'
  <2>1. task[k] = "waiting"
    BY <1>7 DEF ParallelAdmit, NextCall, Waiting
  <2>2. \/ StartTool(k) /\ task' = [task EXCEPT ![k] = "admitted"]
        \/ UNCHANGED batch /\ cancelled /\ task' = [task EXCEPT ![k] = "admitted"]
        \/ UNCHANGED batch /\ task' = [task EXCEPT ![k] = "unregistered"]
    BY <1>7 DEF ParallelAdmit, TasksBecome, session_vars
  <2> QED
    BY <1>5, <2>1, <2>2
<1>8. ASSUME ToolPoll(k)
      PROVE  TasksTrue'
  <2>1. task[k] \in {"admitted", "unregistered"}
    BY <1>8 DEF ToolPoll, InFlightTasks
  <2>2. \/ /\ \E outcome \in ToolOutcome : AcceptToolOutcome(k, outcome)
           /\ task' = [task EXCEPT ![k] = "over"]
        \/ /\ UNCHANGED batch /\ task[k] = "admitted" /\ ~ cancelled
           /\ task' = [task EXCEPT ![k] = "running"]
    BY <1>8, <1>4, <2>1 DEF ToolPoll, TasksBecome, session_vars
  <2> QED
    BY <1>1, <1>2, <1>5, <2>2, OverIsRecorded
<1>9. ASSUME ToolReturnsOutcome(k)
      PROVE  TasksTrue'
  <2>1. PICK outcome \in ToolOutcome : AcceptToolOutcome(k, outcome)
    BY <1>9, ExecutorAssumption DEF ToolReturnsOutcome, ToolOutcome
  <2>2. task' = [task EXCEPT ![k] = "over"]
    BY <1>9 DEF ToolReturnsOutcome, TasksBecome
  <2> QED
    BY <1>1, <1>2, <2>1, <2>2, OverIsRecorded
<1> QED
  BY <1>6, <1>7, <1>8, <1>9

\* The steps of the run loop around the batch.
LEMMA TasksAction ==
  ASSUME TypeOK, TypeOK', PhaseInv, PhaseInv', PhaseAtPc, PhaseAtPc', TasksTrue, ActionStep
  PROVE  TasksTrue'
<1> USE DEF At
<1>1. pc \in StablePoints \cup {"model", "answer"} => batch = <<>> /\ DOMAIN task = {}
  BY NoBatch DEF PhaseAtPc, IsStable, CallingModel, ExecutingTools
<1>2. CASE CheckCancelled
  <2>1. UNCHANGED <<batch, task>> /\ pc = "check"
    BY <1>2 DEF CheckCancelled, FinishRun, session_vars
  <2> QED
    BY <1>1, <2>1, NoTasks DEF StablePoints
<1>3. CASE Advance
  <2>1. /\ pc = "advance" /\ pc' = "start_next" /\ UNCHANGED batch
        /\ task' = [k \in DOMAIN batch |-> "waiting"]
    BY <1>3 DEF Advance, StartTurn, CompleteRun, Goto, session_vars
  <2>2. DOMAIN task = {} /\ \A k \in DOMAIN batch : CallRecorded(k)
    BY <2>1 DEF TasksTrue
  <2>3. \A k \in DOMAIN batch : CallRecorded(k)'
    BY <2>1, <2>2 DEF CallRecorded
  <2>4. batch = <<>> => DOMAIN batch = {}
    OBVIOUS
  <2> QED
    BY <2>1, <2>3, <2>4 DEF TasksTrue
<1>4. CASE StartNext
  <2>1. /\ pc = "start_next" /\ pc' \in {"model", "tools", "finished"}
        /\ UNCHANGED <<batch, task, cancelled>>
    BY <1>4 DEF StartNext, Goto, session_vars
  <2>2. /\ DOMAIN task = DOMAIN batch
        /\ \A k \in DOMAIN task : task[k] = "waiting"
    BY <2>1 DEF TasksTrue
  <2>3. \A k \in DOMAIN batch : CallRecorded(k)'
    BY <2>1, <2>2 DEF CallRecorded, TasksTrue
  <2>4. batch = <<>> => DOMAIN batch = {}
    OBVIOUS
  <2> QED
    BY <2>1, <2>2, <2>3, <2>4 DEF TasksTrue
<1>5. CASE SummaryFinishes \/ SettleFinished
  <2>1. UNCHANGED <<batch, task, cancelled, pc>>
    BY <1>5 DEF SummaryFinishes, SettleFinished, RecordSummary, RecordCompletedCompactionCall,
       session_vars
  <2> QED
    BY <2>1 DEF TasksTrue, CallRecorded
<1>6. CASE Return \/ ReturnCancelled \/ ContinueWithInput \/ Rejected \/ ModelReturns
  <2>1. UNCHANGED <<batch, task>> /\ pc \in {"finished", "rejected", "model"}
    BY <1>6 DEF Return, ReturnCancelled, ContinueWithInput, Rejected, ModelReturns, RecordSummary,
       RecordCompletedCompactionCall, FinishInterrupted, FinishRun, EndOperation, session_vars
  <2> QED
    BY <1>1, <2>1, NoTasks DEF StablePoints
<1>7. CASE AnswerInterrupted \/ \E outcome \in RunOutcome : AnswerFailed(outcome)
  <2>1. UNCHANGED <<batch, task>> /\ pc = "answer"
    BY <1>7 DEF AnswerInterrupted, AnswerFailed, AcceptInterruption, FailModelCall, AfterAnswer
  <2> QED
    BY <1>1, <2>1, NoTasks
<1>8. CASE \E response \in Response : AnswerComplete(response)
  <2>1. PICK response \in Response : AnswerComplete(response)
    BY <1>8
  <2>2. /\ pc = "answer" /\ pc' \in {"rejected", "boundary", "advance"} /\ UNCHANGED task
        /\ AcceptResponse(response)
    BY <2>1 DEF AnswerComplete, AfterAnswer, Goto, Top
  <2>3. batch = <<>> /\ DOMAIN task = {}
    BY <1>1, <2>2
  <2>4. CASE UNCHANGED batch
    BY <2>2, <2>3, <2>4, NoTasks
  <2>5. CASE batch' = NewBatch(response.calls)
    <3>1. \A k \in DOMAIN batch' : ~ batch'[k].started /\ batch'[k].outcome = NotSettled
      BY <2>5 DEF NewBatch
    <3>2. \A k \in DOMAIN batch' : CallRecorded(k)'
      BY <2>2, <2>3, <3>1 DEF CallRecorded
    <3> QED
      BY <2>2, <2>3, <3>2 DEF TasksTrue
  <2> QED
    BY <2>2, <2>4, <2>5 DEF AcceptResponse
<1>9. CASE \/ \E k \in DOMAIN task : \E registered \in BOOLEAN : SerialNext(k, registered)
           \/ \E k \in DOMAIN task : \E registered \in BOOLEAN : ParallelAdmit(k, registered)
           \/ \E k \in DOMAIN task : ToolPoll(k)
           \/ \E k \in DOMAIN task : ToolReturnsOutcome(k)
  BY <1>9, TasksTool
<1>10. CASE ToolsReturn
  <2>1. /\ pc = "tools" /\ pc' = "tools_over" /\ UNCHANGED <<batch, task, cancelled>>
        /\ \A k \in DOMAIN task : task[k] = "over"
    BY <1>10 DEF ToolsReturn, Goto, session_vars
  <2>2. \A k \in DOMAIN batch : CallRecorded(k)'
    BY <2>1 DEF CallRecorded, TasksTrue
  <2> QED
    BY <2>1, <2>2 DEF TasksTrue
<1>11. CASE CompleteBatch
  BY <1>11, NoTasks DEF CompleteBatch, CompleteTools
<1> QED
  BY <1>2, <1>3, <1>4, <1>5, <1>6, <1>7, <1>8, <1>9, <1>10, <1>11 DEF ActionStep

\* A failure and a crash leave the batch with its executions, or neither.
LEMMA TasksBeside ==
  ASSUME PhaseInv, PhaseAtPc, TasksTrue, BesideStep
  PROVE  TasksTrue'
<1> USE DEF At
<1>1. CASE SenderNext /\ UNCHANGED exec_vars
  <2>1. UNCHANGED <<batch, task, cancelled, pc>>
    BY <1>1 DEF SenderNext, EnqueueMessage, MoveQueuedInput, CancelQueuedInput, exec_vars
  <2> QED
    BY <2>1 DEF TasksTrue, CallRecorded
<1>2. CASE \E operation \in {"Run", "Compact"} : StartOperation(operation)
  <2>1. IsStable(state) /\ UNCHANGED <<batch, task>>
    BY <1>2 DEF StartOperation, Resume, session_vars
  <2> QED
    BY <2>1, NoBatch, NoTasks DEF IsStable, ExecutingTools
<1>3. CASE SettleAbandoned
  BY <1>3, SettlingDrains, NoTasks DEF SettleAbandoned
<1>4. CASE Cancel
  <2>1. UNCHANGED <<batch, task, pc>> /\ cancelled' = TRUE
    BY <1>4 DEF Cancel, session_vars
  <2> QED
    BY <2>1 DEF TasksTrue, CallRecorded
<1>5. CASE OperationFails \/ Crash
  <2>1. pc' \in {"rest", "down"}
    BY <1>5 DEF OperationFails, Crash, LeaveTo
  <2>2. CASE batch' = <<>>
    <3>1. DOMAIN task' = {}
      BY <1>5, <2>2 DEF OperationFails, Crash, session_vars, TasksTrue
    <3> QED
      BY <2>2, <3>1, NoTasks
  <2>3. CASE batch' # <<>>
    <3>1. UNCHANGED <<batch, task>>
      BY <1>5, <2>3, SettlingDrains DEF OperationFails, EndCompaction, Crash, session_vars
    <3> QED
      BY <2>1, <2>3, <3>1 DEF TasksTrue, CallRecorded
  <2> QED
    BY <2>2, <2>3
<1>6. CASE Reopen
  <2>1. CASE IsStable(state)
    BY <1>6, <2>1, NoBatch, NoTasks DEF Reopen, session_vars, IsStable, ExecutingTools
  <2>2. CASE ~ IsStable(state)
    BY <1>6, <2>2, SettlingDrains, NoTasks DEF Reopen
  <2> QED
    BY <2>1, <2>2
<1> QED
  BY <1>1, <1>2, <1>3, <1>4, <1>5, <1>6 DEF BesideStep

-----------------------------------------------------------------------------
(* The operation's theorems. *)

\* A step of the executor is the operation's own or one beside it.
LEMMA StepKinds ==
  ASSUME ExecutorNext
  PROVE  BoundaryStep \/ CutoverStep \/ ActionStep \/ BesideStep
BY DEF ExecutorNext, OperationStep, BesideStep

\* The invariant holds before the first operation.
LEMMA OperationInit == ExecutorInit => OperationInv
BY DEF ExecutorInit, SessionInit, OperationInv, OpTrue, Labels, PhaseAtPc, StablePoints,
   InsideCompaction, IsStable, Idle, SummaryTrue, SummaryFresh, CallsTrue, OnlyActiveRuns, NoneRuns,
   TasksTrue

\* Every step keeps it.
LEMMA OperationStepKeeps ==
  ASSUME TypeOK, TypeOK', PhaseInv, PhaseInv', OperationInv, [ExecutorNext]_vars
  PROVE  OperationInv'
<1> USE DEF OperationInv
<1>1. CASE UNCHANGED vars
  BY <1>1 DEF vars, session_vars, exec_vars, cut_vars, OpTrue, PhaseAtPc, IsStable, SummaryTrue,
     SummaryFresh, CallsTrue, OnlyActiveRuns, NoneRuns, TasksTrue, CallRecorded
<1>2. CASE BoundaryStep
  BY <1>2, OpBoundary, PhaseBoundary, SummaryBoundary, CallsBoundary, TasksBoundary
<1>3. CASE CutoverStep
  BY <1>3, OpCutover, PhaseCutover, SummaryCutover, CallsCutover, TasksCutover
<1>4. CASE ActionStep
  BY <1>4, OpAction, PhaseAction, SummaryAction, CallsAction, TasksAction
<1>5. CASE BesideStep
  BY <1>5, OpBeside, PhaseBeside, SummaryBeside, CallsBeside, TasksBeside
<1> QED
  BY <1>1, <1>2, <1>3, <1>4, <1>5, StepKinds

\* Every await of an operation knows the phase, the summary, the call records and the
\* executions it was proved to know.
THEOREM OperationSafe == ExecutorSpec => []OperationInv
<1>1. TypeOK /\ TypeOK' /\ PhaseInv /\ PhaseInv' /\ OperationInv /\ [ExecutorNext]_vars
        => OperationInv'
  BY OperationStepKeeps
<1>2. ExecutorSpec => []TypeOK
  BY ExecutorImplementsSession, SessionTypeCorrect, PTL
<1> QED
  BY <1>1, <1>2, ExecutorPhases, OperationInit, PTL DEF ExecutorSpec

\* A standby summary is never older than the context it will be added to: whatever the
\* run, a cutover, a provider switch or a failure does, a summary in flight was planned
\* on the active generation.
THEOREM SummariesAreFresh == ExecutorSpec => []SummaryFresh
<1>1. OperationInv => SummaryFresh
  BY DEF OperationInv, SummaryTrue
<1> QED
  BY <1>1, OperationSafe, PTL

\* Unless something failed, an operation that returned has closed every call record it
\* opened, and left the session stable.
THEOREM OperationsCloseCalls == ExecutorSpec => []OperationClosesCalls
<1>1. OperationInv => OperationClosesCalls
  BY DEF OperationInv, PhaseAtPc, CallsTrue, NoneRuns, OperationClosesCalls, At, IsStable, CallingModel
<1> QED
  BY <1>1, OperationSafe, PTL

\* What the history says of a call of the batch that is drained.
LEMMA DrainedSays ==
  ASSUME NEW b \in Seq(ToolExecution), \A i \in DOMAIN b : b[i].outcome # NotSettled,
         history \in Seq(Message), history' = history \o Drained(b), NEW k \in DOMAIN b
  PROVE  history'[Len(history) + k].outcome = b[k].outcome
<1> DEFINE d == Drained(b)
<1>1. k \in 1 .. Len(b) /\ Len(b) \in Nat /\ Len(history) \in Nat
  OBVIOUS
<1>2. d \in Seq(Message) /\ Len(d) >= Len(b) /\ d[k] = ToolResultMessage(b[k].call, b[k].outcome)
  BY <1>1, DrainedType, DrainedKinds
<1> HIDE DEF d
<1>3. k \in 1 .. Len(d)
  BY <1>1, <1>2
<1>4. history'[Len(history) + k] = d[k]
  BY <1>2, <1>3, Grown DEF d
<1> QED
  BY <1>2, <1>4 DEF ToolResultMessage

\* A batch is emptied by its completion, or by the settlement of what was interrupted.
LEMMA WhoDrains ==
  ASSUME TypeOK, PhaseInv, PhaseAtPc, TasksTrue, ExecutorNext, batch # <<>>, batch' = <<>>
  PROVE  CompleteBatch \/ SettleExecutingTools
<1>0. state = ExecutingTools
  BY DEF PhaseInv, BatchWhileExecuting
<1>1. CASE BoundaryStep
  <2>1. UNCHANGED batch
    BY <1>1 DEF BoundaryStep, BoundaryInterrupted, BoundaryPassed, BoundaryHandoff, HandoffUnwritten,
     HandoffReturns, HandoffInterrupted, HandoffCommitted, HandoffStale, HandoffInvalid,
     FinishInterrupted, FinishRun, EndOperation, StartModelCall, CompleteCompactionCall, SwitchActive,
     session_vars
  <2> QED
    BY <2>1
<1>2. CASE CutoverStep
  <2>1. UNCHANGED batch
    BY <1>2 DEF CutoverStep, Collect, CollectInputs, SettleStandby, RecordSummary,
     RecordCompletedCompactionCall, SettleStandbyCancelled, BeginCutover, BeginCompaction,
     ForceCancelled, CatchUp, TrimCommits, TrimFits, LocalFails, UpstreamStarts, StartModelCall,
     UpstreamReturns, CompleteCompactionCall, UpstreamCommits, SwitchActive, UpstreamFails,
     EndCutover, EndCompaction, SettleFailure, FinishRun, Recovered, Resume, FinishInterrupted,
     session_vars
  <2> QED
    BY <2>1
<1>3. CASE ActionStep
  <2>1. CASE \E k \in DOMAIN task : \/ \E registered \in BOOLEAN : SerialNext(k, registered)
                                    \/ \E registered \in BOOLEAN : ParallelAdmit(k, registered)
                                    \/ ToolPoll(k) \/ ToolReturnsOutcome(k)
    <3>1. \/ UNCHANGED batch
          \/ \E k : StartTool(k) \/ \E outcome : AcceptToolOutcome(k, outcome)
      BY <2>1 DEF SerialNext, ParallelAdmit, ToolPoll, ToolReturnsOutcome, session_vars
    <3>2. DOMAIN batch' = DOMAIN batch
      BY <3>1 DEF StartTool, AcceptToolOutcome
    <3>3. batch \in Seq(ToolExecution) /\ DOMAIN <<>> = {}
      BY DEF TypeOK
    <3>4. DOMAIN batch # {}
      <4>1. Len(batch) \in Nat /\ DOMAIN batch = 1 .. Len(batch)
        BY <3>3
      <4>2. Len(batch) # 0
        BY <3>3
      <4>3. 1 \in DOMAIN batch
        BY <4>1, <4>2
      <4> QED
        BY <4>3
    <3> QED
      BY <3>2, <3>3, <3>4
  <2>2. CASE \/ \E response \in Response : AnswerComplete(response)
             \/ AnswerInterrupted \/ \E outcome \in RunOutcome : AnswerFailed(outcome)
    <3>1. state = CallingModel
      BY <2>2 DEF AnswerComplete, AnswerInterrupted, AnswerFailed, AcceptResponse, AcceptInterruption,
         FailModelCall
    <3> QED
      BY <3>1, <1>0 DEF CallingModel, ExecutingTools
  <2>3. CASE CheckCancelled \/ Advance \/ StartNext \/ SummaryFinishes \/ SettleFinished
             \/ Return \/ ReturnCancelled \/ ContinueWithInput \/ ModelReturns \/ Rejected
             \/ ToolsReturn
    <3>1. UNCHANGED batch
      BY <2>3 DEF CheckCancelled, Advance, StartTurn, CompleteRun, StartNext, SummaryFinishes,
         SettleFinished, Return, ReturnCancelled, ContinueWithInput, ModelReturns, Rejected,
         ToolsReturn, RecordSummary, RecordCompletedCompactionCall, FinishInterrupted, FinishRun,
         session_vars
    <3> QED
      BY <3>1
  <2> QED
    BY <1>3, <2>1, <2>2, <2>3 DEF ActionStep
<1>4. CASE BesideStep
  <2>1. \/ UNCHANGED batch \/ SettleInterrupted
    BY <1>4 DEF BesideStep, SenderNext, EnqueueMessage, MoveQueuedInput, CancelQueuedInput,
       StartOperation, Resume, SettleAbandoned, Cancel, OperationFails, EndCompaction, Crash, Reopen,
       session_vars
  <2> QED
    BY <2>1, <1>0 DEF SettleInterrupted, SettleCallingModel, SettleCompacting, CallingModel,
       ExecutingTools
<1> QED
  BY <1>1, <1>2, <1>3, <1>4, StepKinds

\* The step of EffectsReported.
LEMMA ReportsTheTruth ==
  ASSUME TypeOK, PhaseInv, OperationInv, ExecutorNext, batch # <<>>, batch' = <<>>,
         NEW k \in DOMAIN batch
  PROVE  /\ k \in DOMAIN task /\ task[k] = "running" =>
              history'[Len(history) + k].outcome = "Unknown"
         /\ k \notin DOMAIN task \/ task[k] = "waiting" =>
              history'[Len(history) + k].outcome = "Cancelled"
<1>1. CallRecorded(k)
  BY DEF OperationInv, TasksTrue
<1>2. CASE CompleteBatch
  <2>1. DOMAIN task = DOMAIN batch /\ task[k] = "over"
    BY <1>2 DEF CompleteBatch, At, OperationInv, TasksTrue
  <2> QED
    BY <2>1
<1>3. CASE SettleExecutingTools
  <2> DEFINE s == Settled(batch)
  <2>1. batch \in Seq(ToolExecution) /\ history \in Seq(Message)
    BY DEF TypeOK
  <2>2. /\ s \in Seq(ToolExecution)
        /\ \A i \in DOMAIN s : s[i].outcome # NotSettled
        /\ k \in DOMAIN s
    BY <2>1, SettledType DEF Settled
  <2>3. s[k].outcome = IF batch[k].outcome # NotSettled THEN batch[k].outcome
                       ELSE IF batch[k].started THEN "Unknown" ELSE "Cancelled"
    <3>1. batch[k] \in ToolExecution /\ k \in 1 .. Len(batch)
      BY <2>1
    <3> QED
      BY <3>1 DEF Settled, ToolExecution
  <2>4. history' = history \o Drained(s)
    BY <1>3 DEF SettleExecutingTools
  <2> HIDE DEF s
  <2>5. history'[Len(history) + k].outcome = s[k].outcome
    BY <2>1, <2>2, <2>4, DrainedSays
  <2> QED
    BY <1>1, <2>3, <2>5 DEF CallRecorded
<1> QED
  BY <1>2, <1>3, WhoDrains DEF OperationInv

\* However a batch comes to be drained, by its completion, a failure, or the recovery
\* after a crash, the history reports a call whose tool was executing as Unknown and
\* one that was still waiting as Cancelled.
THEOREM EffectsAreReported == ExecutorSpec => EffectsReported
<1>1. TypeOK /\ PhaseInv /\ OperationInv /\ [ExecutorNext]_vars =>
        [batch # <<>> /\ batch' = <<>> =>
           \A k \in DOMAIN batch :
             LET reported == history'[Len(history) + k].outcome
             IN  /\ k \in DOMAIN task /\ task[k] = "running" => reported = "Unknown"
                 /\ k \notin DOMAIN task \/ task[k] = "waiting" => reported = "Cancelled"]_vars
  BY ReportsTheTruth
<1>2. ExecutorSpec => []TypeOK
  BY ExecutorImplementsSession, SessionTypeCorrect, PTL
<1> QED
  BY <1>1, <1>2, ExecutorPhases, OperationSafe, PTL DEF ExecutorSpec, EffectsReported

=============================================================================

------------------------------ MODULE ModelCall ------------------------------
(***************************************************************************)
(* One logical model call: the attempts of the client (client.rs,          *)
(* utils/retry.rs), the stream it reads and resumes from checkpoints       *)
(* (client/stream.rs, model_use/recovery.rs), the segments the executor    *)
(* continues past an output limit (executor/model/), and the preview the   *)
(* session shows meanwhile (application/session/live.rs).                  *)
(*                                                                         *)
(* The answer is the pieces 1 .. MaxPieces of text; the service generates  *)
(* them in order and, resumed from a checkpoint or told to continue, goes  *)
(* on behind the last piece it is given.  Usage counts generated pieces.   *)
(* The wire is generateContent, the only one with checkpoints.             *)
(***************************************************************************)
EXTENDS StreamDecoders

CONSTANTS
  MaxPieces,      \* bound: the length of the whole answer
  SignedPieces,   \* the pieces that arrive signed, each in blocks of its own
  MaxRecords,     \* bound: records of one connection
  MaxHops,        \* resumptions of one stream (32)
  MaxAttempts,    \* attempts of one call, the first included (6)
  MaxSegments,    \* segments of one logical call (8)
  OutputBudget    \* usage past which no segment follows (262144)

ASSUME ModelCallAssumption ==
  /\ SignedPieces \subseteq Nat
  /\ {MaxPieces, MaxRecords, MaxHops} \subseteq Nat
  /\ {MaxAttempts, MaxSegments, OutputBudget} \subseteq Nat \ {0}

VARIABLES
  streamed,       \* the request asks for a stream
  recoverable,    \* its model resumes from checkpoints
  stage,          \* "opening", "backoff", "ahead", "reading" or "over"
  attempt,        \* of the current segment's call
  server,         \* the connection: the piece it started behind, the last one sent, records
  stream,         \* the EventStream
  acc,            \* the accumulator of the segment
  continuation,   \* what earlier segments left: messages, usage, next index, their number
  observation,    \* the segment's usage, stop reason and block numbering
  preview,        \* the session's LivePreview
  outcome,        \* "running", or how the call ended
  result          \* the messages and the usage it returned

call_vars == <<streamed, recoverable, stage, attempt, server, stream, acc, continuation, observation,
               preview, outcome, result>>

GoogleRules == GetReasoningReplay("Google", FALSE)

(* The text of messages, as pieces. *)
TextOf(messages) ==
  FlattenSeq([k \in DOMAIN messages |->
    IF messages[k].t = "Assistant" THEN FlattenSeq(messages[k].content) ELSE <<>>])

-----------------------------------------------------------------------------
(* LivePreview: coalesced entries, and where each one is. *)

Empty == [x \in {} |-> 0]
NewPreview == [entries |-> <<>>, positions |-> Empty, checkpoint |-> <<>>]

ShownDelta == {"TextDelta", "ReasoningDelta", "ToolUseDelta"}

Insert(p, key, entry) ==
  [p EXCEPT !.entries = Append(@, entry), !.positions = Put(@, key, Len(p.entries) + 1)]

(* An entry of its own kind is replaced where it stands. *)
PutEntry(p, key, entry) ==
  IF key \in DOMAIN p.positions THEN [p EXCEPT !.entries[p.positions[key]] = entry]
                                ELSE Insert(p, key, entry)

(* New output ends the notice that the stream is recovering. *)
RecoveryKey == <<"Recovering", 0>>
DropRecovery(p) ==
  IF RecoveryKey \notin DOMAIN p.positions THEN p
  ELSE LET gone == p.positions[RecoveryKey]
       IN  [p EXCEPT !.entries = RemoveAt(@, gone),
                     !.positions = [key \in DOMAIN @ \ {RecoveryKey} |->
                                      IF @[key] > gone THEN @[key] - 1 ELSE @[key]]]

Observe(p, e) ==
  CASE e.t = "Checkpoint" -> [p EXCEPT !.checkpoint =
         <<[revision |-> e.revision, entries |-> p.entries, positions |-> p.positions]>>]
    [] e.t = "Rewind" ->
         IF p.checkpoint /= <<>> /\ p.checkpoint[1].revision = e.revision
         THEN [p EXCEPT !.entries = p.checkpoint[1].entries, !.positions = p.checkpoint[1].positions]
         ELSE p
    [] e.t = "Recovering" -> PutEntry(p, RecoveryKey, <<>>)
    [] e.t = "Usage" -> PutEntry(p, <<"Usage", 0>>, <<>>)
    [] e.t \in ShownDelta ->
         LET q == DropRecovery(p)
             key == <<e.t, e.index>>
         IN  IF key \in DOMAIN q.positions
             THEN [q EXCEPT !.entries[q.positions[key]] = @ \o e.data]
             ELSE Insert(q, key, e.data)
    [] OTHER -> p

-----------------------------------------------------------------------------
(* The service.  A record may carry the next piece, a checkpoint token and  *)
(* a finish reason; "continuation" ends a hop, not the answer.              *)

ErrorKind == {"transient", "broken", "fatal"}

GenerationRecord ==
  {r \in [piece : BOOLEAN, token : BOOLEAN, finish : {"none", "continuation", "end", "length"}] :
     /\ r.finish = "continuation" => r.token
     /\ r.token => recoverable}

Offered(r) ==
  /\ server.records < MaxRecords
  /\ r.piece => server.sent < MaxPieces

Connected(from) == [from |-> from, sent |-> from, records |-> 0]
Sent(r) == [server EXCEPT !.sent = @ + (IF r.piece THEN 1 ELSE 0), !.records = @ + 1]

-----------------------------------------------------------------------------
(* EventStream. *)

NewStream ==
  [decoder |-> GoogleDecoder, pending |-> <<>>, done |-> FALSE, token |-> None, saved |-> <<>>,
   revision |-> 0, hops |-> 0, failures |-> 0, continuation |-> FALSE, terminal |-> FALSE,
   waiting |-> FALSE, usage |-> 0, committed |-> 0, previous |-> 0, initial_input |-> FALSE]

(* The content decoder's events; inspect has taken the hop boundary out. *)
Decoded(s, r, at) ==
  LET finished == IF r.finish \in {"end", "length"} THEN [s.decoder EXCEPT !.reason = r.finish]
                                                    ELSE s.decoder
      used == UsageEvent(s.previous + at.sent - at.from)
      part == [kind |-> "Text", data |-> <<at.sent>>, signed |-> at.sent \in SignedPieces]
      step == IF r.piece THEN GooglePart(Step(finished), part) ELSE Step(finished)
  IN  [step EXCEPT !.events = AppendBlockCompletions(<<used>> \o @)]

(* A checkpoint settles what the stream has delivered so far. *)
Checkpointed(s, r, at) ==
  [s EXCEPT !.token = at.sent, !.saved = <<s.decoder>>, !.revision = @ + 1, !.failures = 0,
            !.committed = s.usage, !.continuation = (r.finish = "continuation"),
            !.pending = Append(@, Checkpoint(s.revision + 1))]

Received(s, r, at) ==
  LET step == Decoded(s, r, at)
      input == IF recoverable /\ ~s.initial_input THEN <<InputTokens(1)>> ELSE <<>>
      fed == [s EXCEPT !.decoder = step.decoder, !.pending = step.events \o input,
                       !.terminal = @ \/ r.finish \in {"end", "length"},
                       !.usage = at.sent - at.from, !.initial_input = TRUE]
  IN  IF r.token THEN Checkpointed(fed, r, at) ELSE fed

(* permits: a transport failure, whether or not a whole attempt may repeat, *)
(* and what is retryable.                                                   *)
Permits(error) == error /= "fatal"

MayRecover(s, error) ==
  /\ recoverable
  /\ s.token /= None /\ s.saved /= <<>>
  /\ s.hops < MaxHops
  /\ s.failures < MaxAttempts - 1
  /\ Permits(error)

Scheduled(s) ==
  [s EXCEPT !.hops = @ + 1,
            !.failures = IF s.continuation THEN @ ELSE @ + 1,
            !.continuation = FALSE, !.waiting = TRUE,
            !.pending = <<Rewind(s.revision), Recovering(s.hops + 1),
                          UsageEvent(s.previous + s.committed)>>]

Reopened(s) ==
  [s EXCEPT !.decoder = s.saved[1], !.previous = @ + s.committed, !.terminal = FALSE,
            !.committed = 0, !.usage = 0, !.waiting = FALSE]

-----------------------------------------------------------------------------
(* How a call ends. *)

NewContinuation == [messages |-> <<>>, usage |-> 0, next_index |-> 0, segments |-> 1]
NewObservation(next_index) ==
  [usage |-> 0, index_offset |-> next_index, next_index |-> next_index]

(* The result goes to the session, which clears the preview; the rest of    *)
(* the call is dropped.                                                     *)
EndCall(end, messages, usage) ==
  /\ outcome' = end
  /\ result' = [messages |-> messages, usage |-> usage]
  /\ stage' = "over"
  /\ attempt' = 1
  /\ preview' = NewPreview
  /\ stream' = NewStream /\ server' = Connected(0) /\ acc' = NewAccumulator
  /\ continuation' = NewContinuation /\ observation' = NewObservation(0)
  /\ UNCHANGED <<streamed, recoverable>>

Usage == continuation.usage + observation.usage

(* is_retryable: the transient failures, before anything was answered. *)
Retryable(error) == error = "transient"

AttemptFailsUncounted(error) ==
  IF attempt >= MaxAttempts \/ ~Retryable(error) THEN EndCall("failed", <<>>, Usage)
  ELSE /\ stage' = "backoff"
       /\ UNCHANGED <<streamed, recoverable, attempt, server, stream, acc, continuation, observation,
                      preview, outcome, result>>

(* An attempt that delivered nothing may be replaced. *)
AttemptFails(error) ==
  IF attempt >= MaxAttempts \/ ~Retryable(error) THEN EndCall("failed", <<>>, Usage)
  ELSE /\ stage' = "backoff"
       /\ attempt' = attempt + 1
       /\ UNCHANGED <<streamed, recoverable, server, stream, acc, continuation, observation, preview, outcome, result>>

(* What failed under a read: the attempt until its first event is in hand,  *)
(* the segment's stream afterwards.  A failed stream keeps nothing.         *)
StreamFails(error) ==
  IF stage = "ahead" THEN AttemptFails(error) ELSE EndCall("failed", <<>>, Usage)

(* A segment ran into its output limit. *)
OutputLimited(fragment, usage, next_index) ==
  IF continuation.segments >= MaxSegments \/ usage >= OutputBudget
  THEN EndCall("failed", continuation.messages \o fragment, usage)
  ELSE /\ continuation' = [messages |-> continuation.messages \o ContinuationMessages(fragment),
                           usage |-> usage, next_index |-> next_index,
                           segments |-> continuation.segments + 1]
       /\ observation' = NewObservation(next_index)
       /\ stage' = "opening"
       /\ attempt' = 1
       /\ acc' = NewAccumulator
       /\ UNCHANGED <<streamed, recoverable, server, stream, preview, outcome, result>>

Start == Len(TextOf(continuation.messages))

-----------------------------------------------------------------------------
(* The client's call. *)

CallInit ==
  /\ streamed \in BOOLEAN
  /\ recoverable \in BOOLEAN
  /\ stage = "opening" /\ attempt = 1
  /\ server = Connected(0)
  /\ stream = NewStream
  /\ acc = NewAccumulator
  /\ continuation = NewContinuation
  /\ observation = NewObservation(0)
  /\ preview = NewPreview
  /\ outcome = "running"
  /\ result = [messages |-> <<>>, usage |-> 0]

OpenStream ==
  /\ stage = "opening" /\ streamed
  /\ stream' = NewStream
  /\ server' = Connected(Start)
  /\ stage' = "ahead"
  /\ UNCHANGED <<streamed, recoverable, attempt, acc, continuation, observation, preview,
                 outcome, result>>

OpeningFails(error) == stage = "opening" /\ AttemptFails(error)

Retry ==
  /\ stage = "backoff"
  /\ stage' = "opening"
  /\ UNCHANGED <<streamed, recoverable, attempt, server, stream, acc, continuation, observation,
                 preview, outcome, result>>

(* The first event is in hand: the attempt succeeded. *)
HandOver ==
  /\ stage = "ahead" /\ stream.pending /= <<>>
  /\ stage' = "reading"
  /\ UNCHANGED <<streamed, recoverable, attempt, server, stream, acc, continuation, observation,
                 preview, outcome, result>>

(* A buffered reply brings the whole segment. *)
BufferedReply(n, stop) ==
  LET pieces == [k \in 1 .. n |-> Start + k]
      messages == IF n = 0 THEN <<>> ELSE <<Assistant(<<pieces>>)>>
      usage == continuation.usage + n
  IN  /\ stage = "opening" /\ ~streamed
      /\ Start + n <= MaxPieces
      /\ IF stop = "length" THEN OutputLimited(messages, usage, 0)
         ELSE EndCall("complete", continuation.messages \o messages, usage)

-----------------------------------------------------------------------------
(* EventStream::next: one turn of its loop. *)

Reading == stage \in {"ahead", "reading"} /\ stream.pending = <<>> /\ ~stream.done
Receiving == Reading /\ ~stream.waiting /\ ~stream.continuation

StreamBecomes(s, at) ==
  /\ stream' = s
  /\ server' = at
  /\ UNCHANGED <<streamed, recoverable, stage, attempt, acc, continuation, observation, preview,
                 outcome, result>>

ScheduleRecovery(error) ==
  IF MayRecover(stream, error) THEN StreamBecomes(Scheduled(stream), server) ELSE StreamFails(error)

Reopen ==
  /\ Reading /\ stream.waiting
  /\ StreamBecomes(Reopened(stream), Connected(stream.token))

ReopenFails(error) ==
  /\ Reading /\ stream.waiting
  /\ ScheduleRecovery(error)

ContinueHop ==
  /\ Reading /\ ~stream.waiting /\ stream.continuation
  /\ ScheduleRecovery("none")

ReceiveRecord(r) ==
  /\ Receiving
  /\ Offered(r)
  /\ StreamBecomes(Received(stream, r, Sent(r)), Sent(r))

ReadFails(error) == Receiving /\ ScheduleRecovery(error)

(* The body ended: resumable unless the answer is over. *)
EndOfBody ==
  LET finished == GoogleFinish(stream.decoder)
  IN  /\ Receiving
      /\ IF recoverable /\ stream.token /= None /\ ~stream.terminal THEN ScheduleRecovery("none")
         ELSE IF finished.failed THEN StreamFails("fatal")
         ELSE StreamBecomes([stream EXCEPT !.pending = AppendBlockCompletions(finished.events),
                                           !.done = TRUE], server)

-----------------------------------------------------------------------------
(* The executor reads the stream. *)

(* map_event: indices behind the ones of earlier segments, usage on top of  *)
(* theirs, and no stop that another segment follows.                        *)
HasIndex(e) == "index" \in DOMAIN e
MapEvent(e) ==
  IF HasIndex(e) THEN [e EXCEPT !.index = @ + observation.index_offset]
  ELSE IF e.t = "Usage" THEN UsageEvent(continuation.usage + e.usage) ELSE e

ObservedUnnumbered(e) == [observation EXCEPT !.usage = IF e.t = "Usage" THEN e.usage ELSE @]

Observed(e) ==
  [observation EXCEPT
     !.usage = IF e.t = "Usage" THEN e.usage ELSE @,
     !.next_index = IF HasIndex(e) /\ e.index + observation.index_offset >= @
                    THEN e.index + observation.index_offset + 1 ELSE @]

TakeEvent ==
  LET e == Head(stream.pending)
      fed == Feed(acc, e)
  IN  /\ stage = "reading" /\ stream.pending /= <<>>
      /\ IF fed.violation THEN EndCall("failed", <<>>, Usage)
         ELSE /\ acc' = fed
              /\ observation' = Observed(e)
              /\ preview' = IF e.t = "Stop" THEN preview ELSE Observe(preview, MapEvent(e))
              /\ stream' = [stream EXCEPT !.pending = Tail(@)]
              /\ UNCHANGED <<streamed, recoverable, stage, attempt, server, continuation,
                             outcome, result>>

SegmentEnds ==
  /\ stage = "reading" /\ stream.pending = <<>> /\ stream.done
  /\ IF acc.stop = "MaxOutputLengthExceeded"
     THEN OutputLimited(ContextFragment(acc, GoogleRules), Usage, observation.next_index)
     ELSE IF FinishFails(acc) THEN EndCall("failed", <<>>, Usage)
     ELSE EndCall("complete", continuation.messages \o Finish(acc, GoogleRules), Usage)

(* The run is cancelled, at whichever await the call is or before it looks  *)
(* at the stream's end.  A call not answered yet has nothing of its own.    *)
Interrupted ==
  /\ outcome = "running"
  /\ EndCall("interrupted",
             continuation.messages \o
               (IF stage = "reading" THEN ContextFragment(acc, GoogleRules) ELSE <<>>), Usage)

CallStep ==
  \/ OpenStream \/ Retry \/ HandOver
  \/ \E n \in 0 .. MaxPieces, stop \in {"end", "length"} : BufferedReply(n, stop)
  \/ Reopen \/ ContinueHop \/ EndOfBody \/ TakeEvent \/ SegmentEnds
  \/ \E r \in GenerationRecord : ReceiveRecord(r)
  \/ \E error \in ErrorKind : OpeningFails(error) \/ ReopenFails(error) \/ ReadFails(error)

CallNext == CallStep \/ Interrupted

(* Every await of a call ends: reads and heads have deadlines (transport),  *)
(* backoffs are timers, and the runtime polls a future that is ready.       *)
CallSpec == CallInit /\ [][CallNext]_call_vars /\ WF_call_vars(CallStep)

-----------------------------------------------------------------------------
(* Properties. *)

ShownText == FlattenSeq(preview.entries)
SavedText(p) == IF p.checkpoint = <<>> THEN <<>> ELSE FlattenSeq(p.checkpoint[1].entries)

Shown == IF outcome = "running" THEN ShownText ELSE TextOf(result.messages)
Settled ==
  LET kept == IF streamed THEN Start ELSE 0
      saved == Len(SavedText(preview))
  IN  IF outcome /= "running" THEN Len(Shown) ELSE IF saved > kept THEN saved ELSE kept

Answer == INSTANCE LogicalAnswer WITH Length <- MaxPieces, shown <- Shown, settled <- Settled

(* The call implements what a logical answer promises.                      *)
AnswerPromise == Answer!AnswerSpec

(* A call ends, whatever the service does: a chain of checkpoints without   *)
(* progress, of failed resumptions or of output limits runs out.            *)
CallEnds == <>(outcome /= "running")
=============================================================================

---------------------------- MODULE ProtocolStream ----------------------------
(***************************************************************************)
(* One streamed model call, from the upstream service to the messages the  *)
(* next request sends: a service answers part by part on one of the seven  *)
(* wires, the client decodes each record into events, the accumulator      *)
(* takes them one by one, and the call ends complete, capped, failed or    *)
(* interrupted between any two events.                                     *)
(*                                                                         *)
(* The service is external and well behaved unless fault says otherwise:   *)
(* it breaks off, reports an error, or sends more unannounced pieces than  *)
(* the decoder buffers.  answer is what it really produced so far.         *)
(***************************************************************************)
EXTENDS BufferedReplies, RequestRenderers

CONSTANTS MaxParts,      \* parts of one answer
          MaxPieces,     \* pieces after which the parts of an answer grow no further
          Protocols,     \* the wires checked
          RepeatsSteps   \* interactions: the terminal repeats steps that step.stop filled

ASSUME StreamAssumption ==
  /\ MaxParts \in 1 .. 3
  /\ MaxPieces \in Nat \ {0}
  /\ Protocols \subseteq Protocol
  /\ RepeatsSteps \in BOOLEAN

VARIABLES protocol, compat,
          answer,    \* the parts the service produced
          reason,    \* the finish reason it sent
          metered,   \* Bedrock: it sent the usage
          fault,     \* it misbehaved
          wire,      \* the record on its way to the client
          decoder, pending, acc, phase

wireVars == <<answer, reason, metered, fault>>
clientVars == <<protocol, compat, decoder, pending, acc, phase>>
streamVars == <<protocol, compat, answer, reason, metered, fault, wire, decoder, pending, acc, phase>>

CallIds == <<"call a", "call b", "call c">>

Part(kind, id) ==
  [kind |-> kind, data |-> <<>>, signed |-> FALSE, id |-> id, announced |-> FALSE,
   streamed |-> FALSE, closed |-> FALSE, filled |-> FALSE]

Record(t, k, part, data, status) ==
  [t |-> t, part |-> k, kind |-> part.kind, data |-> data, id |-> part.id,
   signed |-> part.signed, status |-> status]
Signal(t, status) == Record(t, 0, Part("Text", NoId), <<>>, status)

StreamInit ==
  /\ protocol \in Protocols
  /\ compat \in (IF protocol \in {"Anthropic", "Responses"} THEN BOOLEAN ELSE {FALSE})
  /\ answer = <<>>
  /\ reason = NoStop
  /\ metered = FALSE
  /\ fault = FALSE
  /\ wire = <<>>
  /\ decoder = CreateStreamDecoder(protocol)
  /\ pending = <<>>
  /\ acc = NewAccumulator
  /\ phase = "streaming"

-----------------------------------------------------------------------------
(* The service. *)

Kinds ==
  [Anthropic |-> {"Text", "Think", "Redacted", "Call"},
   Bedrock |-> {"Text", "Think", "Redacted", "Call"}, Chat |-> {"Text", "Think", "Call"},
   Mistral |-> {"Text", "Think", "Call"}, Google |-> {"Text", "Think", "Call"},
   Responses |-> {"Text", "Think", "Call", "Item"}, Interactions |-> {"Text", "Think", "Call"}]

Ended(part) ==
  CASE part.kind = "Call" -> part.data /= <<>> /\ Last(part.data) = 0
    [] part.kind \in {"Text", "Think"} -> part.data /= <<>>
    [] OTHER -> TRUE

(* The rest of a part handed over at once. *)
Whole(part) ==
  IF Ended(part) THEN part.data
  ELSE IF part.kind = "Call" THEN Append(part.data, 0) ELSE <<1>>

NextPieces(part) ==
  {Len(part.data) + 1} \cup (IF part.kind = "Call" THEN {0} ELSE {})

Parts == 1 .. Len(answer)
Spent == FoldLeft(LAMBDA n, part : n + Len(part.data), 0, answer)
Calls == {k \in Parts : answer[k].kind = "Call"}

(* Blocks follow one another, or interleave on the wires that allow it.     *)
Settled(k) ==
  CASE protocol \in {"Anthropic", "Bedrock", "Interactions"} -> answer[k].closed
    [] protocol = "Google" -> Ended(answer[k])
    [] OTHER -> TRUE

(* The service writes a record once the client has read the one before.     *)
MaySend == phase = "streaming" /\ wire = <<>> /\ pending = <<>>
Send(record) == wire' = <<record>> /\ UNCHANGED clientVars

MayBegin(kind) ==
  /\ MaySend /\ reason = NoStop
  /\ Len(answer) < MaxParts
  /\ kind \in Kinds[protocol]
  /\ \A k \in Parts : Settled(k)
  /\ protocol \in {"Chat", "Mistral"} => kind = "Call" \/ \A k \in Parts : answer[k].kind /= kind
  /\ protocol = "Google" /\ Len(answer) > 0 =>
       answer[Len(answer)].kind /= kind \/ answer[Len(answer)].signed \/ kind = "Call"

IdsFor(kind) ==
  IF kind /= "Call" THEN {NoId}
  ELSE {CallIds[Len(answer) + 1]}
       \cup (IF protocol = "Google" THEN {EmptyId, CallIds[1]} ELSE {})

(* A block, item or step is announced. *)
UpstreamOpens(kind, id) ==
  /\ protocol \in {"Anthropic", "Responses", "Interactions"} \/ (protocol = "Bedrock" /\ kind = "Call")
  /\ kind /= "Item"
  /\ MayBegin(kind) /\ id \in IdsFor(kind)
  /\ \A k \in Parts : protocol = "Responses" => answer[k].announced
  /\ \E first \in (IF protocol = "Interactions" /\ kind /= "Call" THEN {<<>>, <<1>>} ELSE {<<>>}) :
       LET part == [Part(kind, id) EXCEPT !.announced = TRUE, !.data = first,
                                          !.streamed = first /= <<>>]
       IN  /\ answer' = Append(answer, part)
           /\ Send(Record("open", Len(answer) + 1, part, first, "running"))
  /\ UNCHANGED <<reason, metered, fault>>

(* A block that begins with its first piece, or an item's piece that comes  *)
(* before the item.  A generateContent call is one piece.                   *)
UpstreamBegins(kind, id) ==
  /\ \/ protocol \in {"Chat", "Mistral", "Google"}
     \/ protocol = "Bedrock" /\ kind /= "Call"
     \/ protocol = "Responses" /\ kind /= "Item"
  /\ MayBegin(kind) /\ id \in IdsFor(kind)
  /\ \E signed \in (IF protocol = "Google" THEN BOOLEAN ELSE {FALSE}) :
       LET new == [Part(kind, id) EXCEPT !.signed = signed, !.streamed = TRUE]
           part == [new EXCEPT !.data = CASE kind = "Redacted" -> <<>>
                                          [] protocol = "Google" -> Whole(new)
                                          [] OTHER -> <<1>>]
       IN  /\ answer' = Append(answer, part)
           /\ Send(Record("delta", Len(answer) + 1, part, part.data, "running"))
  /\ fault' = (fault \/ (protocol = "Responses" /\ OrphanPieces(decoder) >= MaxOrphans))
  /\ UNCHANGED <<reason, metered>>

(* A compaction item arrives whole. *)
UpstreamHandsItem ==
  /\ protocol = "Responses"
  /\ MayBegin("Item")
  /\ \A k \in Parts : answer[k].announced
  /\ answer' = Append(answer, [Part("Item", NoId) EXCEPT !.announced = TRUE, !.closed = TRUE])
  /\ Send(Signal("item", "running"))
  /\ UNCHANGED <<reason, metered, fault>>

MayGoOn(k) ==
  /\ MaySend /\ reason = NoStop
  /\ k \in Parts
  /\ ~answer[k].closed

(* Another piece of part k.  Only the first fragment of a chat call names   *)
(* it, and a later one may leave out the index while there is one call.     *)
UpstreamExtends(k) ==
  /\ MayGoOn(k)
  /\ answer[k].kind \notin {"Redacted", "Item"}
  /\ answer[k].kind = "Call" => ~Ended(answer[k])
  /\ Spent < MaxPieces
  /\ protocol = "Google" => k = Len(answer) /\ answer[k].kind /= "Call"
                            /\ ~(answer[k].kind = "Think" /\ answer[k].signed)
  /\ protocol = "Interactions" /\ ~answer[k].streamed => answer[k].data = <<>>
  /\ \E piece \in NextPieces(answer[k]) :
       LET part == [answer[k] EXCEPT !.data = Append(@, piece), !.streamed = TRUE]
           record == Record("delta", k, part, <<piece>>, "running")
       IN  /\ answer' = [answer EXCEPT ![k] = part]
           /\ IF protocol = "Chat" /\ part.kind = "Call"
              THEN \E index \in {k} \cup (IF Calls = {k} THEN {0} ELSE {}) :
                     Send([record EXCEPT !.id = NoId, !.part = index])
              ELSE Send([record EXCEPT !.signed = FALSE])
  /\ fault' = (fault \/ (protocol = "Responses" /\ ~answer[k].announced
                         /\ OrphanPieces(decoder) >= MaxOrphans))
  /\ UNCHANGED <<reason, metered>>

(* The item of an early piece is announced; items are announced in order. *)
UpstreamAnnounces(k) ==
  /\ protocol = "Responses"
  /\ MayGoOn(k)
  /\ ~answer[k].announced
  /\ \A j \in 1 .. k - 1 : answer[j].announced
  /\ answer' = [answer EXCEPT ![k].announced = TRUE]
  /\ \E data \in {<<>>, answer[k].data} :
       Send(Record("open", k, answer[k], IF answer[k].kind = "Call" THEN data ELSE <<>>, "running"))
  /\ UNCHANGED <<reason, metered, fault>>

(* The proof of a thought. *)
UpstreamSigns(k) ==
  /\ protocol \in {"Anthropic", "Bedrock", "Interactions", "Google"}
  /\ MayGoOn(k)
  /\ answer[k].kind = "Think" /\ ~answer[k].signed /\ answer[k].data /= <<>>
  /\ protocol = "Google" => k = Len(answer)
  /\ protocol = "Interactions" => answer[k].streamed
  /\ answer' = [answer EXCEPT ![k].signed = TRUE]
  /\ Send(Record("sign", k, answer[k], <<>>, "running"))
  /\ UNCHANGED <<reason, metered, fault>>

(* A call's arguments in full, before its item is done. *)
UpstreamSnapshots(k) ==
  /\ protocol = "Responses"
  /\ MayGoOn(k)
  /\ answer[k].kind = "Call" /\ answer[k].announced
  /\ answer' = [answer EXCEPT ![k].data = Whole(answer[k])]
  /\ Send(Record("snapshot", k, answer[k], Whole(answer[k]), "running"))
  /\ UNCHANGED <<reason, metered, fault>>

(* A block ends; a call may be cut.  A Responses item comes again with its  *)
(* arguments or ciphertext, and its status; a step that did not stream      *)
(* comes whole.                                                             *)
UpstreamCloses(k, status) ==
  /\ protocol \in {"Anthropic", "Bedrock", "Responses", "Interactions"}
  /\ MayGoOn(k)
  /\ protocol = "Responses" => answer[k].announced
  /\ protocol \notin {"Responses", "Interactions"} => answer[k].data /= <<>> \/ answer[k].kind = "Redacted"
  /\ protocol = "Interactions" => ~answer[k].streamed \/ Ended(answer[k])
  /\ status = "incomplete" => protocol = "Responses" /\ answer[k].kind = "Call" /\ ~Ended(answer[k])
  /\ status = "completed" /\ protocol = "Responses" => answer[k].kind = "Call" \/ Ended(answer[k])
  /\ \E signed \in (IF \/ protocol = "Responses" /\ answer[k].kind = "Think"
                       \/ protocol = "Interactions" /\ answer[k].kind = "Think" /\ ~answer[k].streamed
                    THEN BOOLEAN ELSE {answer[k].signed}) :
       LET full == protocol \in {"Responses", "Interactions"} /\ status = "completed"
           part == [answer[k] EXCEPT !.data = IF full THEN Whole(answer[k]) ELSE @,
                                     !.signed = signed, !.closed = TRUE,
                                     !.filled = protocol = "Interactions" /\ ~answer[k].streamed]
       IN  /\ answer' = [answer EXCEPT ![k] = part]
           /\ Send(Record("close", k, part, part.data, status))
  /\ UNCHANGED <<reason, metered, fault>>

(* A normal end needs every part whole; a cut answer ends by its limit or a *)
(* filter.                                                                  *)
MayEnd(status) ==
  /\ MaySend /\ reason = NoStop
  /\ answer /= <<>>
  /\ \A k \in Parts : (protocol \in {"Anthropic", "Bedrock"} => answer[k].closed)
                      /\ (protocol = "Responses" => answer[k].announced)
  /\ status \in {"end", "tool"} =>
       \A k \in Parts :
         \/ Ended(answer[k])
         \/ ~answer[k].closed /\ protocol = "Responses" /\ answer[k].kind = "Call"
         \/ protocol = "Interactions" /\ ~answer[k].streamed /\ ~answer[k].closed
  /\ status = "tool" => Calls /= {} /\ protocol \in {"Anthropic", "Bedrock", "Chat"}
  /\ status = "end" => Calls = {} \/ protocol \notin {"Anthropic", "Bedrock", "Chat"}
  /\ status \in {"length", "filter"} =>
       /\ protocol /= "Mistral"
       /\ \A k \in Parts : answer[k].kind \in {"Text", "Think"} => answer[k].data /= <<>>

UpstreamFinishes(status) ==
  /\ protocol \in {"Anthropic", "Bedrock", "Chat", "Google"}
  /\ MayEnd(status)
  /\ reason' = status
  /\ Send(Signal("finish", status))
  /\ UNCHANGED <<answer, metered, fault>>

UpstreamMeters ==
  /\ protocol \in {"Bedrock", "Chat"}
  /\ MaySend /\ ~metered
  /\ answer /= <<>>
  /\ \A k \in Parts : protocol = "Bedrock" => answer[k].closed
  /\ protocol = "Chat" => reason /= NoStop
  /\ metered' = TRUE
  /\ Send(Signal("usage", "running"))
  /\ UNCHANGED <<answer, reason, fault>>

(* The last record.  Responses repeats its items, interactions its steps.   *)
UpstreamTerminates(status) ==
  LET ends == status \in {"end", "tool"}
      Completed(k) ==
        IF ends /\ ~answer[k].closed /\ protocol \in {"Responses", "Interactions"}
        THEN [answer[k] EXCEPT !.data = Whole(answer[k])] ELSE answer[k]
      finished == [k \in Parts |-> Completed(k)]
      repeated == SelectSeq([k \in Parts |-> Record("item", k, finished[k], finished[k].data, status)],
                            LAMBDA item :
                              CASE protocol = "Responses" -> item.kind = "Call"
                                [] protocol = "Interactions" ->
                                     /\ Ended(finished[item.part])
                                     /\ RepeatsSteps \/ ~answer[item.part].filled
                                [] OTHER -> FALSE)
  IN  /\ \/ protocol \in {"Anthropic", "Chat"}
            /\ MaySend /\ reason = status
         \/ protocol \in {"Mistral", "Responses", "Interactions"} /\ MayEnd(status)
      /\ reason' = status
      /\ answer' = finished
      /\ Send([Signal("terminal", status) EXCEPT !.data = repeated])
      /\ UNCHANGED <<metered, fault>>

(* The service reports a failure, or a reading beside the answer. *)
UpstreamErrs ==
  /\ MaySend
  /\ fault' = TRUE
  /\ Send(Signal("error", "running"))
  /\ UNCHANGED <<answer, reason, metered>>

UpstreamReadsAccount ==
  /\ protocol = "Responses" /\ answer = <<>>
  /\ MaySend
  /\ Send(Signal("account", "running"))
  /\ UNCHANGED wireVars

-----------------------------------------------------------------------------
(* The client. *)

StreamEnd(a) ==
  CASE a.violation -> "broken"
    [] a.stop = NoStop -> "streaming"
    [] a.stop = "MaxOutputLengthExceeded" -> "capped"
    [] OTHER -> IF FinishFails(a) THEN "malformed" ELSE "complete"

(* What the decoder made of its input; the events wait to be read one by    *)
(* one.  A body that ends without one leaves the answer incomplete.         *)
Deliver(s, ended) ==
  /\ decoder' = s.decoder
  /\ pending' = IF s.failed THEN <<>> ELSE s.events
  /\ phase' = IF s.failed \/ (ended /\ s.events = <<>>) THEN "failed" ELSE phase
  /\ wire' = <<>>
  /\ UNCHANGED <<protocol, compat, acc>>

(* The client reads the record at hand. *)
ReadRecord ==
  /\ phase = "streaming" /\ wire /= <<>>
  /\ Deliver(DecoderFeed(protocol, decoder, wire[1]), FALSE)
  /\ UNCHANGED wireVars

(* The reader takes the next event. *)
TakeEvent ==
  /\ phase = "streaming" /\ pending /= <<>>
  /\ acc' = Feed(acc, Head(pending))
  /\ pending' = Tail(pending)
  /\ phase' = StreamEnd(acc')
  /\ UNCHANGED <<protocol, compat, decoder, wire>> /\ UNCHANGED wireVars

(* The body ends: the decoder's finish.  For generateContent this is the    *)
(* regular end.                                                             *)
BodyEnds ==
  /\ MaySend
  /\ Deliver(DecoderFinish(protocol, decoder), TRUE)
  /\ fault' = (fault \/ protocol /= "Google" \/ (reason = NoStop /\ Calls = {}))
  /\ UNCHANGED <<answer, reason, metered>>

(* The run is cancelled between two events. *)
Interrupt ==
  /\ phase = "streaming"
  /\ phase' = "interrupted"
  /\ UNCHANGED <<protocol, compat, decoder, wire, pending, acc>> /\ UNCHANGED wireVars

StreamNext ==
  \/ \E kind \in {"Text", "Think", "Redacted", "Call"}, id \in {NoId, EmptyId} \cup Range(CallIds) :
       UpstreamOpens(kind, id) \/ UpstreamBegins(kind, id)
  \/ UpstreamHandsItem
  \/ \E k \in 1 .. MaxParts :
       \/ UpstreamExtends(k) \/ UpstreamAnnounces(k) \/ UpstreamSigns(k) \/ UpstreamSnapshots(k)
       \/ \E status \in {"completed", "incomplete"} : UpstreamCloses(k, status)
  \/ \E status \in DOMAIN DirectStop : UpstreamFinishes(status) \/ UpstreamTerminates(status)
  \/ UpstreamMeters \/ UpstreamErrs \/ UpstreamReadsAccount
  \/ ReadRecord \/ TakeEvent \/ BodyEnds \/ Interrupt

StreamSpec == StreamInit /\ [][StreamNext]_streamVars

-----------------------------------------------------------------------------
(* What the call leaves behind. *)

Rules == GetReasoningReplay(protocol, compat)
Fragment == ContextFragment(acc, Rules)

CallsOf(messages) == SelectSeq(messages, LAMBDA m : m.t = "ToolUse")
Results(messages) ==
  [k \in 1 .. Len(CallsOf(messages)) |-> ToolResult(CallsOf(messages)[k].id, "ok")]

(* The conversation the next request sends: the tools of a complete answer  *)
(* have run, anything else is followed by more input or by the instruction  *)
(* to continue.                                                             *)
NextConversation ==
  <<System, User>> \o
    CASE phase = "interrupted" -> Fragment \o <<User>>
      [] phase = "capped" -> ContinuationMessages(Fragment) \o <<User>>
      [] phase = "complete" ->
           LET messages == Finish(acc, Rules)
           IN  IF CallsOf(messages) = <<>> THEN messages \o <<User>> ELSE messages \o Results(messages)

-----------------------------------------------------------------------------
(* Properties. *)

(* No decoder makes the accumulator's contract fail, and no decoder or      *)
(* accumulator refuses an answer the service gave properly: a stream only   *)
(* fails when the service broke off, reported an error, flooded the orphan  *)
(* buffer, or had a filter cut one of its calls.                            *)
StreamContract ==
  /\ phase /= "broken"
  /\ phase = "failed" => fault
  /\ phase = "malformed" => reason = "filter" /\ \E k \in Calls : ~Ended(answer[k])

RECURSIVE JoinAssistants(_)
JoinAssistants(messages) ==
  IF messages = <<>> THEN <<>>
  ELSE LET m == Head(messages)
           rest == JoinAssistants(Tail(messages))
       IN  IF m.t /= "Assistant" THEN <<m>> \o rest
           ELSE LET text == FlattenSeq(m.content)
                IN  IF rest /= <<>> /\ Head(rest).t = "Assistant"
                    THEN <<Assistant(<<text \o Head(rest).content[1]>>)>> \o Tail(rest)
                    ELSE <<Assistant(<<text>>)>> \o rest

WithoutItems(messages) == SelectSeq(messages, LAMBDA m : m.t /= "UpstreamCompaction")

(* A streamed answer that completes is the answer the buffered reader of    *)
(* the same protocol makes of the same parts, with the same stop reason     *)
(* (Chat and Mistral may order text and thought differently), and nothing   *)
(* completes that the service did not end (generateContent after a call     *)
(* excepted).                                                               *)
StreamAgrees ==
  phase = "complete" =>
    LET streamed == JoinAssistants(WithoutItems(Finish(acc, Rules)))
        buffered == JoinAssistants(Decode(protocol, answer, reason))
    IN  /\ IF protocol \in {"Chat", "Mistral"}
           THEN /\ Range(streamed) = Range(buffered)
                /\ Len(streamed) = Len(buffered)
                /\ CallsOf(streamed) = CallsOf(buffered)
           ELSE streamed = buffered
        /\ reason /= NoStop \/ (protocol = "Google" /\ Calls /= {})
        /\ acc.stop = DecodedStop(protocol, answer, IF reason = NoStop THEN "end" ELSE reason)

Blocks(turn, t) == SelectSeq(turn.blocks, LAMBDA b : b.t = t)
Ids(blocks) == [k \in DOMAIN blocks |-> blocks[k].id]

(* The turn rules the request modules document: roles alternate from the    *)
(* user, and the calls of a turn are answered, all and in order, by the     *)
(* turn right after it.                                                     *)
AlternatingAccepted(turns) ==
  /\ turns[1].role = "user"
  /\ \A k \in 1 .. Len(turns) - 1 : turns[k].role /= turns[k + 1].role
  /\ \A k \in DOMAIN turns :
       /\ Blocks(turns[k], "call") /= <<>> =>
            k < Len(turns) /\ Ids(Blocks(turns[k + 1], "result")) = Ids(Blocks(turns[k], "call"))
       /\ Blocks(turns[k], "result") /= <<>> =>
            k > 1 /\ Ids(Blocks(turns[k - 1], "call")) = Ids(Blocks(turns[k], "result"))

(* A tool_calls message is followed by its tool replies at once. *)
ChatAccepted(turns) ==
  \A k \in DOMAIN turns :
    LET calls == Ids(Blocks(turns[k], "call"))
    IN  /\ k + Len(calls) <= Len(turns)
        /\ \A j \in DOMAIN calls : /\ turns[k + j].role = "tool"
                                   /\ turns[k + j].blocks[1].id = calls[j]

(* On the item wires a result answers one call before it, and each call has *)
(* one.                                                                     *)
ItemsAccepted(turns) ==
  LET items == FlattenSeq([k \in DOMAIN turns |-> turns[k].blocks])
      Positions(t, id) == {k \in DOMAIN items : items[k].t = t /\ items[k].id = id}
  IN  \A k \in DOMAIN items :
        /\ items[k].t = "call" => \E r \in Positions("result", items[k].id) : k < r
        /\ Cardinality(Positions("call", items[k].id)) = Cardinality(Positions("result", items[k].id))

Accepted(q, turns) ==
  CASE q \in {"Anthropic", "Google", "Bedrock"} -> AlternatingAccepted(turns)
    [] q = "Chat" -> ChatAccepted(turns)
    [] OTHER -> ItemsAccepted(turns)

(* Text after a call, or a thought between the calls of a turn that opened  *)
(* with text.                                                               *)
SplitCalls(conversation) ==
  \E i, j \in DOMAIN conversation :
    /\ i < j
    /\ conversation[i].t = "ToolUse"
    /\ \/ conversation[j].t = "Assistant"
       \/ /\ conversation[j].t = "Reasoning"
          /\ \E k \in 1 .. i - 1 : conversation[k].t = "Assistant"

DistinctIds == \A j, k \in Calls : answer[j].id /= EmptyId /\ (j /= k => answer[j].id /= answer[k].id)
Closed == phase \in {"interrupted", "capped", "complete"} /\ (phase = "complete" => DistinctIds)

(* Whatever the call left, on whichever wire it ran, every wire can carry   *)
(* it in the next request: the renderer refuses nothing but a compaction    *)
(* item off the Responses wire, and what it renders obeys that wire's turn  *)
(* rules.                                                                   *)
NextRequestAccepted ==
  Closed =>
    \A q \in Protocol, vendor \in BOOLEAN :
      LET r == Render(q, NextConversation, vendor)
          items == \E k \in DOMAIN NextConversation : NextConversation[k].t = "UpstreamCompaction"
      IN  IF r.failed THEN items /\ q /= "Responses"
          ELSE (q = "Chat" /\ SplitCalls(NextConversation)) \/ Accepted(q, r.turns)

RECURSIVE JoinTexts(_)
JoinTexts(blocks) ==
  IF Len(blocks) < 2 THEN blocks
  ELSE LET a == blocks[1]
           b == blocks[2]
       IN  IF a.t = "text" /\ b.t = "text" /\ ~b.signed
           THEN JoinTexts(<<[a EXCEPT !.data = @ \o b.data]>> \o SubSeq(blocks, 3, Len(blocks)))
           ELSE <<a>> \o JoinTexts(Tail(blocks))

(* The blocks the service produced, as its own wire spells them. *)
ProducedBlock(part) ==
  CASE part.kind = "Text" -> <<[TextBlock(part.data) EXCEPT !.signed = part.signed]>>
    [] part.kind = "Redacted" -> <<RedactedBlock>>
    [] part.kind = "Item" -> <<ItemBlock>>
    [] part.kind = "Call" -> <<WireBlock("call", part.data, part.signed, part.id)>>
    [] part.kind = "Think" ->
         IF protocol /= "Responses" THEN <<ThoughtBlock(part.data, part.signed)>>
         ELSE IF compat THEN <<ThoughtBlock(part.data, FALSE)>>
         ELSE IF part.signed THEN <<ThoughtBlock(<<>>, TRUE)>> ELSE <<>>

LeadsWithThought ==
  \A j, k \in Parts : j < k /\ answer[k].kind \in {"Think", "Redacted"} =>
                      answer[j].kind \in {"Think", "Redacted"}

(* What a cut answer keeps is whole.  An interrupted one keeps the calls    *)
(* the service finished, with exactly their arguments and one result each,  *)
(* no id twice, and a proof only with the part the service put it on; one   *)
(* cut by its output limit keeps all its text, in order, and no call.       *)
CutKeepsWhole ==
  /\ phase = "interrupted" =>
       LET calls == CallsOf(Fragment)
           results == SelectSeq(Fragment, LAMBDA m : m.t = "ToolResult")
           Proved(k) == Fragment[k].t = "Reasoning" /\ (Fragment[k].signature \/ Fragment[k].ciphertext)
       IN  /\ \A k \in DOMAIN calls : \E j \in Calls :
                answer[j].id = calls[k].id /\ Ended(answer[j]) /\ answer[j].data = calls[k].arguments
           /\ [k \in DOMAIN calls |-> calls[k].id] = [k \in DOMAIN results |-> results[k].id]
           /\ Cardinality({calls[k].id : k \in DOMAIN calls}) = Len(calls)
           /\ \A k \in DOMAIN Fragment : Proved(k) =>
                \/ \E j \in Parts : /\ answer[j].signed \/ answer[j].kind = "Redacted"
                                    /\ answer[j].kind \in {"Think", "Redacted"}
                                    /\ answer[j].data = Fragment[k].text
                \/ /\ protocol = "Google" /\ Fragment[k].text = <<>>
                   /\ k < Len(Fragment)
                   /\ \E j \in Parts :
                        /\ answer[j].signed
                        /\ \/ Fragment[k + 1].t = "ToolUse" /\ answer[j].id = Fragment[k + 1].id
                           \/ Fragment[k + 1].t = "Assistant" /\ answer[j].kind = "Text"
  /\ phase = "capped" =>
       LET kept == ContinuationMessages(Fragment)
           Texts(messages) == FlattenSeq([k \in DOMAIN messages |->
                                IF messages[k].t = "Assistant" THEN FlattenSeq(messages[k].content) ELSE <<>>])
       IN  /\ Texts(kept) = Texts(Decode(protocol, OfKind(answer, "Text"), "length"))
           /\ \A k \in DOMAIN kept : kept[k].t \in {"Assistant", "Reasoning"}

(* A complete answer goes back to its own wire as it came: the same parts   *)
(* in the same order, each proof on the part it arrived on.  (Messages      *)
(* keeps thinking only in front of a turn; Chat and Mistral reorder.)       *)
ReplayFaithful ==
  /\ phase = "complete" /\ DistinctIds
  /\ protocol \notin {"Chat", "Mistral"}
  /\ protocol = "Anthropic" => LeadsWithThought
  => LET r == Render(protocol, NextConversation, protocol = "Responses" /\ compat)
         sent == FlattenSeq([k \in DOMAIN r.turns |->
                   IF r.turns[k].role \in {"assistant", "model"} THEN r.turns[k].blocks ELSE <<>>])
     IN  JoinTexts(sent) = JoinTexts(FlattenSeq(Each(ProducedBlock, answer)))
=============================================================================

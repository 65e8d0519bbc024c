---------------------------- MODULE StreamDecoders ----------------------------
(***************************************************************************)
(* The wire decoders: what each protocol's decoder makes of one record of  *)
(* its stream (protocol/model_use/stream/*.rs), and the completions        *)
(* StreamDecoder adds after block endings.                                 *)
(*                                                                         *)
(* A record is [t, part, kind, data, id, signed, status]: the part of the  *)
(* answer it belongs to stands for the wire's index, item id, call id or   *)
(* step number.  A wire uses the record types it has:                      *)
(*   open, delta, sign, close   a block announced, extended, signed, ended *)
(*   snapshot, item             full arguments; an item handed over whole  *)
(*   finish, usage, terminal    the reason, the usage, the end             *)
(*   account, error             a reading beside the answer; a failure     *)
(***************************************************************************)
EXTENDS StreamAccumulator

CONSTANT MaxOrphans   \* pieces buffered for unannounced items (64 KiB in the code)

ASSUME MaxOrphansAssumption == MaxOrphans \in Nat

None == -1

(* A decoder with the events of the record at hand. *)
Step(d) == [decoder |-> d, events |-> <<>>, failed |-> FALSE]
Emit(s, e) == [s EXCEPT !.events = Append(@, e)]
Fail(s) == [s EXCEPT !.failed = TRUE]

(* BlockCounter: indices in the order blocks open. *)
OpenBlock(s, kind) ==
  [s EXCEPT !.events = Append(@, BlockStart(s.decoder.next, kind)), !.decoder.next = @ + 1]

(* end_blocks_in_order. *)
EndBlocks(s, indices) ==
  FoldLeft(LAMBDA acc, i : Emit(acc, BlockEnd(i)), s, SetToSortSeq(indices, LAMBDA i, j : i < j))

Values(f) == {f[x] : x \in DOMAIN f}

DirectStop ==
  [end |-> "Stop", tool |-> "ToolUse", length |-> "MaxOutputLengthExceeded",
   filter |-> "ContentFilter"]

(* The wires whose normal end reads as a call for tools when one was made.  *)
StopForCalls(reason, calls) ==
  IF reason \in {"end", "tool"} THEN (IF calls THEN "ToolUse" ELSE "Stop") ELSE DirectStop[reason]

Content(i, r) ==
  CASE r.kind = "Text" -> TextDelta(i, r.data)
    [] r.kind = "Think" -> ReasoningDelta(i, r.data)
    [] r.kind = "Redacted" -> ReasoningCiphertextDelta(i)
    [] r.kind = "Call" -> ToolUseDelta(i, NoId, FALSE, r.data)

BlockKind == [Text |-> "Text", Think |-> "Reasoning", Redacted |-> "Reasoning", Call |-> "ToolUse"]

-----------------------------------------------------------------------------
(* Anthropic Messages: the wire numbers and announces its blocks. *)

AnthropicDecoder == [stop |-> NoStop]

AnthropicOpen(s, r) ==
  LET started == Emit(s, BlockStart(r.part, BlockKind[r.kind]))
  IN  CASE r.kind = "Redacted" -> Emit(started, ReasoningCiphertextDelta(r.part))
        [] r.kind = "Call" -> Emit(started, ToolUseDelta(r.part, r.id, TRUE, <<>>))
        [] OTHER -> started

AnthropicFeed(d, r) ==
  CASE r.t = "usage" -> Emit(Step(d), UsageEvent(1))
    [] r.t = "open" -> AnthropicOpen(Step(d), r)
    [] r.t = "delta" -> Emit(Step(d), Content(r.part, r))
    [] r.t = "sign" -> Emit(Step(d), ReasoningSignatureDelta(r.part))
    [] r.t = "close" -> Emit(Step(d), BlockEnd(r.part))
    [] r.t = "finish" -> Emit(Step([d EXCEPT !.stop = DirectStop[r.status]]), UsageEvent(1))
    [] r.t = "terminal" ->
         Emit(Step(AnthropicDecoder), StopEvent(IF d.stop = NoStop THEN "Unknown" ELSE d.stop))
    [] r.t = "error" -> Fail(Step(d))
    [] OTHER -> Step(d)

-----------------------------------------------------------------------------
(* Bedrock Converse: text and reasoning blocks open at their first delta;   *)
(* whichever of messageStop and metadata arrives second is the terminal.    *)

BedrockDecoder == [next |-> 0, blocks |-> <<>>, reason |-> NoStop, usage |-> FALSE, done |-> FALSE]

BedrockEnsure(s, part, kind) ==
  IF part \in DOMAIN s.decoder.blocks THEN s
  ELSE [OpenBlock(s, kind) EXCEPT !.decoder.blocks = Put(@, part, s.decoder.next)]

BedrockBlock(s, r) ==
  CASE r.t = "open" ->
         IF r.kind /= "Call" \/ r.part \in DOMAIN s.decoder.blocks THEN s
         ELSE LET opened == BedrockEnsure(s, r.part, "ToolUse")
              IN  Emit(opened, ToolUseDelta(opened.decoder.blocks[r.part], r.id, TRUE, <<>>))
    [] r.t = "delta" /\ r.kind = "Call" ->
         IF r.part \in DOMAIN s.decoder.blocks
         THEN Emit(s, Content(s.decoder.blocks[r.part], r)) ELSE s
    [] r.t = "delta" /\ r.kind /= "Call" ->
         LET opened == BedrockEnsure(s, r.part, BlockKind[r.kind])
         IN  Emit(opened, Content(opened.decoder.blocks[r.part], r))
    [] r.t = "sign" ->
         LET opened == BedrockEnsure(s, r.part, "Reasoning")
         IN  Emit(opened, ReasoningSignatureDelta(opened.decoder.blocks[r.part]))
    [] r.t = "close" ->
         IF r.part \notin DOMAIN s.decoder.blocks THEN s
         ELSE [Emit(s, BlockEnd(s.decoder.blocks[r.part]))
               EXCEPT !.decoder.blocks = [p \in DOMAIN @ \ {r.part} |-> @[p]]]
    [] r.t = "finish" -> [s EXCEPT !.decoder.reason = r.status]
    [] r.t = "usage" -> [Emit(s, UsageEvent(1)) EXCEPT !.decoder.usage = TRUE]
    [] OTHER -> s

BedrockTerminate(s) ==
  Emit(EndBlocks([s EXCEPT !.decoder.done = TRUE, !.decoder.reason = NoStop],
                 Values(s.decoder.blocks)),
       StopEvent(DirectStop[s.decoder.reason]))

BedrockFeed(d, r) ==
  LET s == BedrockBlock(Step(d), r)
  IN  IF d.done \/ r.t = "error" THEN Fail(Step(d))
      ELSE IF s.decoder.reason /= NoStop /\ s.decoder.usage THEN BedrockTerminate(s) ELSE s

BedrockFinish(d) == IF d.done THEN Step(d) ELSE Fail(Step(d))

-----------------------------------------------------------------------------
(* Chat completions and Mistral conversations: no block events.  One text   *)
(* and one reasoning block and one block per call open at their first       *)
(* delta, and all of them close at the end.                                 *)

LazyDecoder ==
  [next |-> 0, text |-> None, reasoning |-> None, tools |-> <<>>, reason |-> NoStop, done |-> FALSE]

LazyOpened(d) == (Values(d.tools) \cup {d.text, d.reasoning}) \ {None}

PushText(s, data) ==
  LET opened == IF s.decoder.text /= None THEN s
                ELSE [OpenBlock(s, "Text") EXCEPT !.decoder.text = s.decoder.next]
  IN  Emit(opened, TextDelta(opened.decoder.text, data))

PushReasoning(s, data) ==
  LET opened == IF s.decoder.reasoning /= None THEN s
                ELSE [OpenBlock(s, "Reasoning") EXCEPT !.decoder.reasoning = s.decoder.next]
  IN  Emit(opened, ReasoningDelta(opened.decoder.reasoning, data))

PushCall(s, part, r) ==
  LET opened == IF part \in DOMAIN s.decoder.tools THEN s
                ELSE [OpenBlock(s, "ToolUse")
                      EXCEPT !.decoder.tools = Put(@, part, s.decoder.next)]
  IN  Emit(opened, ToolUseDelta(opened.decoder.tools[part], r.id, r.id /= NoId, r.data))

(* decode_tool_fragment: a fragment without an index (part 0) goes to the   *)
(* only tool block there is.                                                *)
ToolFragment(s, r) ==
  IF r.part /= 0 THEN PushCall(s, r.part, r)
  ELSE IF Cardinality(DOMAIN s.decoder.tools) = 1
       THEN PushCall(s, CHOOSE p \in DOMAIN s.decoder.tools : TRUE, r)
       ELSE Fail(s)

LazyContent(s, r) ==
  CASE r.kind = "Text" -> PushText(s, r.data)
    [] r.kind = "Think" -> PushReasoning(s, r.data)

ChatTerminate(s) ==
  LET done == [s EXCEPT !.decoder.done = TRUE]
  IN  IF s.decoder.reason = NoStop THEN Fail(done)
      ELSE Emit(EndBlocks(done, LazyOpened(s.decoder)), StopEvent(DirectStop[s.decoder.reason]))

ChatFeed(d, r) ==
  LET s == Step(d)
  IN  CASE d.done \/ r.t = "error" -> Fail(s)
        [] ~d.done /\ r.t = "terminal" -> ChatTerminate(s)
        [] ~d.done /\ r.t = "usage" -> Emit(s, UsageEvent(1))
        [] ~d.done /\ r.t = "finish" -> [s EXCEPT !.decoder.reason = r.status]
        [] ~d.done /\ r.t = "delta" ->
             IF r.kind = "Call" THEN ToolFragment(s, r) ELSE LazyContent(s, r)
        [] OTHER -> s

MistralTerminate(s) ==
  Emit(EndBlocks([s EXCEPT !.decoder.done = TRUE], LazyOpened(s.decoder)),
       StopEvent(IF s.decoder.tools /= <<>> THEN "ToolUse" ELSE "Stop"))

MistralFeed(d, r) ==
  LET s == Step(d)
  IN  CASE d.done \/ r.t = "error" -> Fail(s)
        [] ~d.done /\ r.t = "terminal" -> MistralTerminate(Emit(s, UsageEvent(1)))
        [] ~d.done /\ r.t = "delta" ->
             IF r.kind = "Call" THEN PushCall(s, r.part, r) ELSE LazyContent(s, r)
        [] OTHER -> s

-----------------------------------------------------------------------------
(* Google generateContent: the body's end is the terminal.  Thoughts        *)
(* continue one reasoning block until one is signed; a signature on a text  *)
(* or a call becomes a reasoning block of its own right before it.          *)

GoogleDecoder ==
  [next |-> 0, text |-> None, reasoning |-> None, proof |-> FALSE, reason |-> NoStop,
   calls |-> FALSE]

CloseText(s) ==
  IF s.decoder.text = None THEN s
  ELSE [Emit(s, BlockEnd(s.decoder.text)) EXCEPT !.decoder.text = None]

CloseReasoningUnproved(s) ==
  IF s.decoder.reasoning = None THEN s
  ELSE [Emit(s, BlockEnd(s.decoder.reasoning))
        EXCEPT !.decoder.reasoning = None, !.decoder.proof = FALSE]

(* The held signature is the block's last delta. *)
CloseReasoning(s) ==
  IF s.decoder.reasoning = None THEN s
  ELSE LET i == s.decoder.reasoning
           proved == IF s.decoder.proof THEN Emit(s, ReasoningSignatureDelta(i)) ELSE s
       IN  [Emit(proved, BlockEnd(i)) EXCEPT !.decoder.reasoning = None, !.decoder.proof = FALSE]

SignatureBlock(s) ==
  LET i == s.decoder.next
  IN  Emit(Emit(OpenBlock(s, "Reasoning"), ReasoningSignatureDelta(i)), BlockEnd(i))

LandSignature(s) ==
  IF s.decoder.reasoning /= None /\ ~s.decoder.proof
  THEN [s EXCEPT !.decoder.proof = TRUE]
  ELSE SignatureBlock(CloseReasoning(s))

ThoughtPart(s, r) ==
  LET after == CloseText(s)
      sealed == IF after.decoder.proof THEN CloseReasoning(after) ELSE after
      opened == IF sealed.decoder.reasoning /= None THEN sealed
                ELSE [OpenBlock(sealed, "Reasoning")
                      EXCEPT !.decoder.reasoning = sealed.decoder.next]
      text == IF r.data = <<>> THEN opened
              ELSE Emit(opened, ReasoningDelta(opened.decoder.reasoning, r.data))
  IN  [text EXCEPT !.decoder.proof = @ \/ r.signed]

CallPart(s, r) ==
  LET closed == CloseReasoning(CloseText(s))
      signed == IF r.signed THEN SignatureBlock(closed) ELSE closed
      i == signed.decoder.next
  IN  [Emit(Emit(OpenBlock(signed, "ToolUse"), ToolUseDelta(i, r.id, TRUE, r.data)), BlockEnd(i))
       EXCEPT !.decoder.calls = TRUE]

TextPart(s, r) ==
  LET closed == CloseReasoning(s)
      signed == IF r.signed THEN SignatureBlock(CloseText(closed)) ELSE closed
      opened == IF signed.decoder.text /= None \/ r.data = <<>> THEN signed
                ELSE [OpenBlock(signed, "Text") EXCEPT !.decoder.text = signed.decoder.next]
  IN  IF r.data = <<>> THEN opened ELSE Emit(opened, TextDelta(opened.decoder.text, r.data))

GooglePart(s, r) ==
  CASE r.kind = "Think" -> ThoughtPart(s, r)
    [] r.kind = "Call" -> CallPart(s, r)
    [] r.kind = "Text" -> TextPart(s, r)

GoogleFeed(d, r) ==
  CASE r.t = "error" -> Fail(Step(d))
    [] r.t = "usage" -> Emit(Step(d), UsageEvent(1))
    [] r.t = "finish" -> Step([d EXCEPT !.reason = r.status])
    [] r.t = "delta" -> GooglePart(Step(d), r)
    [] r.t = "sign" -> LandSignature(Step(d))
    [] OTHER -> Step(d)

(* The body ended without a finish reason: tolerable only after a call. *)
GoogleFinish(d) ==
  LET closed == CloseReasoning(CloseText(Step(d)))
  IN  IF d.reason = NoStop /\ ~d.calls THEN Fail(closed)
      ELSE Emit(closed, StopEvent(StopForCalls(IF d.reason = NoStop THEN "end" ELSE d.reason,
                                               d.calls)))

-----------------------------------------------------------------------------
(* OpenAI Responses: items may arrive interleaved, deltas before their      *)
(* item is announced, and arguments only as snapshots.                      *)

ResponsesDecoder ==
  [next |-> 0, blocks |-> <<>>, open |-> {}, arguments |-> <<>>, orphans |-> <<>>, cipher |-> {},
   done |-> FALSE]

Shape(d, item) == d.blocks[item].kind
IndexOf(d, item) == d.blocks[item].index

EmitDelta(s, item, r) ==
  LET i == IndexOf(s.decoder, item)
      emitted == Emit(s, Content(i, r))
  IN  IF r.kind /= "Call" THEN emitted
      ELSE [emitted EXCEPT !.decoder.arguments = Put(@, i, (IF i \in DOMAIN @ THEN @[i] ELSE <<>>)
                                                           \o r.data)]

(* A full snapshot supplies the bytes the deltas have not, and no others. *)
Reconcile(s, item, r) ==
  IF item \notin DOMAIN s.decoder.blocks \/ Shape(s.decoder, item) /= "Call" THEN Fail(s)
  ELSE LET i == IndexOf(s.decoder, item)
           emitted == IF i \in DOMAIN s.decoder.arguments THEN s.decoder.arguments[i] ELSE <<>>
           suffix == SubSeq(r.data, Len(emitted) + 1, Len(r.data))
       IN  CASE r.data = <<>> -> s
             [] r.data /= <<>> /\ ~IsPrefix(emitted, r.data) -> Fail(s)
             [] r.data /= <<>> /\ IsPrefix(emitted, r.data) /\ suffix = <<>> -> s
             [] OTHER -> IF i \in s.decoder.open
                         THEN EmitDelta(s, item, [r EXCEPT !.data = suffix, !.kind = "Call"])
                         ELSE Fail(s)

EmitCiphertext(s, item, r) ==
  LET i == IndexOf(s.decoder, item)
  IN  IF ~r.signed \/ i \in s.decoder.cipher THEN s
      ELSE [Emit(s, ReasoningCiphertextDelta(i)) EXCEPT !.decoder.cipher = @ \cup {i}]

FlushOrphansKept(s, item) ==
  IF item \notin DOMAIN s.decoder.orphans THEN s
  ELSE FoldLeft(LAMBDA acc, r : EmitDelta(acc, item, r), s, s.decoder.orphans[item])

FlushOrphans(s, item) ==
  IF item \notin DOMAIN s.decoder.orphans THEN s
  ELSE FoldLeft(LAMBDA acc, r : EmitDelta(acc, item, r),
                [s EXCEPT !.decoder.orphans = [x \in DOMAIN @ \ {item} |-> @[x]]],
                s.decoder.orphans[item])

Announce(s, r) ==
  IF r.part \in DOMAIN s.decoder.blocks THEN s
  ELSE LET i == s.decoder.next
           opened == [OpenBlock(s, BlockKind[r.kind])
                      EXCEPT !.decoder.blocks = Put(@, r.part, [index |-> i, kind |-> r.kind]),
                             !.decoder.open = @ \cup {i}]
           named == CASE r.kind = "Call" -> Emit(opened, ToolUseDelta(i, r.id, TRUE, <<>>))
                      [] r.kind = "Think" -> EmitCiphertext(opened, r.part, r)
                      [] OTHER -> opened
           flushed == FlushOrphans(named, r.part)
       IN  IF r.kind = "Call" THEN Reconcile(flushed, r.part, r) ELSE flushed

OrphanPieces(d) ==
  FoldLeft(LAMBDA n, item : n + Len(d.orphans[item]), 0, SetToSeq(DOMAIN d.orphans))

ResponsesDelta(s, r) ==
  IF r.part \in DOMAIN s.decoder.blocks THEN EmitDelta(s, r.part, r)
  ELSE IF OrphanPieces(s.decoder) >= MaxOrphans THEN Fail(s)
  ELSE [s EXCEPT !.decoder.orphans =
          Put(@, r.part, (IF r.part \in DOMAIN @ THEN @[r.part] ELSE <<>>) \o <<r>>)]

ItemDone(s, r) ==
  IF r.part \notin DOMAIN s.decoder.blocks THEN s
  ELSE LET i == IndexOf(s.decoder, r.part)
           filled == CASE Shape(s.decoder, r.part) = "Call" -> Reconcile(s, r.part, r)
                       [] Shape(s.decoder, r.part) = "Think" -> EmitCiphertext(s, r.part, r)
                       [] OTHER -> s
       IN  IF i \in filled.decoder.open /\ ~filled.failed
           THEN [Emit(filled, BlockEnd(i)) EXCEPT !.decoder.open = @ \ {i}] ELSE filled

(* The terminal response repeats the items in its output (r.data).          *)
ResponsesTerminal(s, r) ==
  LET Open(item) == /\ item.part \in DOMAIN s.decoder.blocks
                    /\ Shape(s.decoder, item.part) = "Call"
                    /\ IndexOf(s.decoder, item.part) \in s.decoder.open
      filled == FoldLeft(LAMBDA acc, item : Reconcile(acc, item.part, item),
                         [s EXCEPT !.decoder.done = TRUE], SelectSeq(r.data, Open))
      calls == \E item \in DOMAIN s.decoder.blocks : Shape(s.decoder, item) = "Call"
      ended == EndBlocks([filled EXCEPT !.decoder.open = {}], filled.decoder.open)
  IN  IF s.decoder.orphans /= <<>> THEN Fail(s)
      ELSE IF filled.failed THEN filled
      ELSE Emit(Emit(ended, UsageEvent(1)), StopEvent(StopForCalls(r.status, calls)))

ResponsesFeed(d, r) ==
  LET s == Step(d)
  IN  CASE d.done -> Fail(s)
        [] ~d.done /\ r.t = "error" -> Fail([s EXCEPT !.decoder.done = TRUE])
        [] ~d.done /\ r.t = "account" -> Emit(s, Account)
        [] ~d.done /\ r.t = "open" -> Announce(s, r)
        [] ~d.done /\ r.t = "delta" -> ResponsesDelta(s, r)
        [] ~d.done /\ r.t = "snapshot" -> Reconcile(s, r.part, r)
        [] ~d.done /\ r.t = "item" ->
             [Emit(s, UpstreamCompaction(d.next)) EXCEPT !.decoder.next = @ + 1]
        [] ~d.done /\ r.t = "close" -> ItemDone(s, r)
        [] ~d.done /\ r.t = "terminal" -> ResponsesTerminal(s, r)
        [] OTHER -> s

-----------------------------------------------------------------------------
(* Google interactions: a step streams, or arrives whole in its own event   *)
(* or in the terminal resource; blocks close at the terminal.               *)

InteractionsDecoder == [next |-> 0, steps |-> <<>>, done |-> FALSE]

StepBlock(i, kind, streamed) ==
  [index |-> i, kind |-> kind, needs_terminal_fill |-> ~streamed, completed |-> FALSE,
   signed |-> FALSE]

OpenStep(s, part, kind, streamed) ==
  IF part \in DOMAIN s.decoder.steps
  THEN IF streamed THEN [s EXCEPT !.decoder.steps[part].needs_terminal_fill = FALSE] ELSE s
  ELSE [OpenBlock(s, BlockKind[kind])
        EXCEPT !.decoder.steps = Put(@, part, StepBlock(s.decoder.next, kind, streamed))]

StepIndex(s, part) == s.decoder.steps[part].index

(* step.start: a thought or a call opens its block, a model output only on  *)
(* the text it carries; what the start carries streams at once.             *)
StepStart(s, r) ==
  CASE r.kind = "Text" /\ r.data = <<>> -> s
    [] r.kind = "Call" /\ r.part \in DOMAIN s.decoder.steps -> s
    [] OTHER ->
         LET opened == OpenStep(s, r.part, r.kind, r.data /= <<>>)
             i == StepIndex(opened, r.part)
         IN  CASE r.kind = "Call" -> Emit(opened, ToolUseDelta(i, r.id, TRUE, r.data))
               [] r.kind /= "Call" /\ r.data = <<>> -> opened
               [] OTHER -> Emit(opened, Content(i, r))

(* A delta whose kind contradicts the step's block is dropped. *)
StepDelta(s, r) ==
  IF r.part \in DOMAIN s.decoder.steps /\ s.decoder.steps[r.part].kind /= r.kind THEN s
  ELSE LET opened == OpenStep(s, r.part, r.kind, TRUE)
       IN  IF r.t = "sign" THEN [opened EXCEPT !.decoder.steps[r.part].signed = TRUE]
           ELSE Emit(opened, Content(StepIndex(opened, r.part), r))

(* fill: what a completed step never streamed. *)
FillStep(s, r) ==
  LET opened == OpenStep(s, r.part, r.kind, FALSE)
      block == opened.decoder.steps[r.part]
      kept == IF block.kind /= "Think" THEN opened
              ELSE [opened EXCEPT !.decoder.steps[r.part].completed = TRUE,
                                  !.decoder.steps[r.part].signed = @ \/ r.signed]
  IN  CASE block.kind = "Call" ->
             IF block.needs_terminal_fill
             THEN Emit(kept, ToolUseDelta(block.index, r.id, TRUE, r.data))
             ELSE Emit(kept, ToolUseDelta(block.index, NoId, TRUE, <<>>))
        [] block.kind /= "Call" /\ block.needs_terminal_fill ->
             Emit(kept, Content(block.index, [r EXCEPT !.kind = block.kind]))
        [] OTHER -> kept

(* The terminal resource repeats completed steps (r.data); then the replay  *)
(* items and the proofs of the thoughts, the block ends and the stop.       *)
InteractionsTerminal(s, r) ==
  LET filled == FoldLeft(FillStep, [s EXCEPT !.decoder.done = TRUE], r.data)
      steps == filled.decoder.steps
      Thoughts(P(_)) == SetToSortSeq({steps[p].index : p \in {q \in DOMAIN steps :
                                        steps[q].kind = "Think" /\ P(steps[q])}},
                                     LAMBDA i, j : i < j)
      Each(t, event(_), indices) == FoldLeft(LAMBDA acc, i : Emit(acc, event(i)), t, indices)
      items == Each(filled, ReasoningReplayItem, Thoughts(LAMBDA b : b.completed))
      proofs == Each(items, ReasoningSignatureDelta, Thoughts(LAMBDA b : b.signed))
      ended == EndBlocks(proofs, {steps[p].index : p \in DOMAIN steps})
      calls == \E p \in DOMAIN steps : steps[p].kind = "Call"
  IN  Emit(Emit(ended, UsageEvent(1)), StopEvent(StopForCalls(r.status, calls)))

InteractionsFeed(d, r) ==
  LET s == Step(d)
  IN  CASE d.done -> Fail(s)
        [] ~d.done /\ r.t = "error" -> Fail([s EXCEPT !.decoder.done = TRUE])
        [] ~d.done /\ r.t = "open" -> StepStart(s, r)
        [] ~d.done /\ r.t \in {"delta", "sign"} -> StepDelta(s, r)
        [] ~d.done /\ r.t = "close" -> FillStep(s, r)
        [] ~d.done /\ r.t = "terminal" -> InteractionsTerminal(s, r)
        [] OTHER -> s

-----------------------------------------------------------------------------
(* StreamDecoder: one decoder per protocol, and completions after block     *)
(* endings.                                                                 *)

Protocol == {"Anthropic", "Bedrock", "Chat", "Mistral", "Google", "Responses", "Interactions"}

(* get_reasoning_replay; compat is the vendor form of the Messages wire and  *)
(* the plaintext form of the Responses wire, and the plain Chat wire.       *)
GetReasoningReplay(p, compat) ==
  CASE p = "Anthropic" -> ReplayRules(p, compat, "SignatureOrCiphertext", FALSE)
    [] p = "Bedrock" -> ReplayRules(p, FALSE, "SignatureOrCiphertext", FALSE)
    [] p = "Google" -> ReplayRules(p, FALSE, "Signature", TRUE)
    [] p = "Interactions" -> ReplayRules(p, FALSE, "Signature", FALSE)
    [] p = "Responses" /\ compat -> ReplayRules(p, TRUE, "Plaintext", FALSE)
    [] p = "Responses" /\ ~compat -> ReplayRules(p, FALSE, "Ciphertext", FALSE)
    [] p = "Chat" /\ compat -> ReplayRules(NoMaterial, FALSE, "Never", FALSE)
    [] OTHER -> ReplayRules(NoMaterial, TRUE, "Plaintext", FALSE)

CreateStreamDecoder(p) ==
  CASE p = "Anthropic" -> AnthropicDecoder
    [] p = "Bedrock" -> BedrockDecoder
    [] p \in {"Chat", "Mistral"} -> LazyDecoder
    [] p = "Google" -> GoogleDecoder
    [] p = "Responses" -> ResponsesDecoder
    [] p = "Interactions" -> InteractionsDecoder

WireFeed(p, d, r) ==
  CASE p = "Anthropic" -> AnthropicFeed(d, r)
    [] p = "Bedrock" -> BedrockFeed(d, r)
    [] p = "Chat" -> ChatFeed(d, r)
    [] p = "Mistral" -> MistralFeed(d, r)
    [] p = "Google" -> GoogleFeed(d, r)
    [] p = "Responses" -> ResponsesFeed(d, r)
    [] p = "Interactions" -> InteractionsFeed(d, r)

WireFinish(p, d) ==
  CASE p = "Bedrock" -> BedrockFinish(d)
    [] p = "Google" -> GoogleFinish(d)
    [] OTHER -> Step(d)

(* append_block_completions: a block that closed in a record whose stop, if *)
(* any, is normal is complete.                                              *)
AppendBlockCompletions(events) ==
  IF \E k \in DOMAIN events : events[k].t = "Stop" /\ events[k].reason \notin NormalStops
  THEN events
  ELSE FlattenSeq([k \in 1 .. Len(events) |->
                     IF events[k].t = "BlockEnd"
                     THEN <<events[k], BlockComplete(events[k].index)>> ELSE <<events[k]>>])

(* confirms_block_ends: a Responses item closed with its own status         *)
(* incomplete is not completed.                                             *)
DecoderFeed(p, d, r) ==
  LET s == WireFeed(p, d, r)
      confirmed == ~(p = "Responses" /\ r.t = "close" /\ r.status = "incomplete")
  IN  IF confirmed THEN [s EXCEPT !.events = AppendBlockCompletions(@)] ELSE s

DecoderFinish(p, d) ==
  LET s == WireFinish(p, d) IN [s EXCEPT !.events = AppendBlockCompletions(@)]
=============================================================================

-------------------------- MODULE StreamAccumulator --------------------------
(***************************************************************************)
(* The accumulator that rebuilds an answer from the normalized events of a *)
(* stream (protocol/model_use/stream.rs), and what it keeps of an answer   *)
(* that did not end normally (stream/partial.rs).  Pure operators: an      *)
(* accumulator is a record, Feed takes it from one event to the next.      *)
(*                                                                         *)
(* Text, reasoning text and tool arguments are sequences of pieces.  The   *)
(* pieces of a call's arguments are numbered, and piece 0 closes the       *)
(* object, so arguments parse exactly when they are 1, .., k, 0 or blank.  *)
(* A signature, a ciphertext and a replay item are present or not; display *)
(* text is left out.                                                       *)
(***************************************************************************)
EXTENDS Integers, Sequences, FiniteSets, SequencesExt

NoId == "no id"          \* no call id arrived
EmptyId == ""            \* the wire sent none or an empty one
NoStop == "running"
NormalStops == {"Stop", "ToolUse"}

(* Events. *)
BlockStart(i, kind) == [t |-> "BlockStart", index |-> i, kind |-> kind]
TextDelta(i, data) == [t |-> "TextDelta", index |-> i, data |-> data]
ReasoningDelta(i, data) == [t |-> "ReasoningDelta", index |-> i, data |-> data]
ReasoningDisplayDelta(i) == [t |-> "ReasoningDisplayDelta", index |-> i]
ReasoningSignatureDelta(i) == [t |-> "ReasoningSignatureDelta", index |-> i]
ReasoningCiphertextDelta(i) == [t |-> "ReasoningCiphertextDelta", index |-> i]
ReasoningReplayItem(i) == [t |-> "ReasoningReplayItem", index |-> i]
ToolUseDelta(i, id, named, data) ==
  [t |-> "ToolUseDelta", index |-> i, id |-> id, named |-> named, data |-> data]
BlockEnd(i) == [t |-> "BlockEnd", index |-> i]
BlockComplete(i) == [t |-> "BlockComplete", index |-> i]
UpstreamCompaction(i) == [t |-> "UpstreamCompaction", index |-> i]
UsageEvent(usage) == [t |-> "Usage", usage |-> usage]
Account == [t |-> "Account"]
StopEvent(reason) == [t |-> "Stop", reason |-> reason]
Checkpoint(revision) == [t |-> "Checkpoint", revision |-> revision]
Rewind(revision) == [t |-> "Rewind", revision |-> revision]
Recovering(attempt) == [t |-> "Recovering", attempt |-> attempt]
InputTokens(tokens) == [t |-> "InputTokens", tokens |-> tokens]

Block(kind) ==
  [kind |-> kind, closed |-> FALSE, complete |-> FALSE, text |-> <<>>, signature |-> FALSE,
   ciphertext |-> FALSE, item |-> FALSE, call_id |-> NoId, named |-> FALSE]

NewAccumulator ==
  [blocks |-> <<>>, items |-> {}, usage |-> 0, stop |-> NoStop, saved |-> <<>>, violation |-> FALSE]

Violation(acc) == [acc EXCEPT !.violation = TRUE]

Put(f, i, value) == [j \in DOMAIN f \cup {i} |-> IF j = i THEN value ELSE f[j]]

-----------------------------------------------------------------------------
(* feed: one event, or the contract violation it caused. *)

DeltaKind ==
  [TextDelta |-> "Text", ReasoningDelta |-> "Reasoning", ReasoningDisplayDelta |-> "Reasoning",
   ReasoningSignatureDelta |-> "Reasoning", ReasoningCiphertextDelta |-> "Reasoning",
   ReasoningReplayItem |-> "Reasoning", ToolUseDelta |-> "ToolUse"]

(* get_block_mut: the block exists, has the event's kind and is open. *)
Lands(acc, e) ==
  /\ e.index \in DOMAIN acc.blocks
  /\ acc.blocks[e.index].kind = DeltaKind[e.t]
  /\ ~acc.blocks[e.index].closed

Written(block, e) ==
  CASE e.t \in {"TextDelta", "ReasoningDelta"} -> [block EXCEPT !.text = @ \o e.data]
    [] e.t = "ReasoningDisplayDelta" -> block
    [] e.t = "ReasoningSignatureDelta" -> [block EXCEPT !.signature = TRUE]
    [] e.t = "ReasoningCiphertextDelta" -> [block EXCEPT !.ciphertext = TRUE]
    [] e.t = "ReasoningReplayItem" -> [block EXCEPT !.item = TRUE]
    [] e.t = "ToolUseDelta" ->
         [block EXCEPT !.call_id = IF e.id = NoId THEN @ ELSE e.id,
                       !.named = @ \/ e.named,
                       !.text = @ \o e.data]

(* close: once, and a tool block only with its id and name. *)
Closes(acc, i) ==
  /\ i \in DOMAIN acc.blocks
  /\ ~acc.blocks[i].closed
  /\ acc.blocks[i].kind = "ToolUse" => acc.blocks[i].call_id /= NoId /\ acc.blocks[i].named

Completes(acc, i) ==
  /\ i \in DOMAIN acc.blocks
  /\ acc.blocks[i].closed
  /\ ~acc.blocks[i].complete

Feed(acc, e) ==
  IF acc.stop /= NoStop THEN Violation(acc)
  ELSE     CASE e.t = "Checkpoint" ->
                  [acc EXCEPT !.saved = <<[revision |-> e.revision,
                                           state |-> [acc EXCEPT !.saved = <<>>]]>>]
             [] e.t = "Rewind" ->
                  IF acc.saved /= <<>> /\ acc.saved[1].revision = e.revision
                  THEN [acc.saved[1].state EXCEPT !.saved = acc.saved]
                  ELSE Violation(acc)
             [] e.t = "BlockStart" ->
                  IF e.index \notin DOMAIN acc.blocks
                  THEN [acc EXCEPT !.blocks = Put(@, e.index, Block(e.kind))] ELSE Violation(acc)
             [] e.t \in DOMAIN DeltaKind ->
                  IF Lands(acc, e)
                  THEN [acc EXCEPT !.blocks[e.index] = Written(@, e)]
                  ELSE Violation(acc)
             [] e.t = "BlockEnd" ->
                  IF Closes(acc, e.index)
                  THEN [acc EXCEPT !.blocks[e.index].closed = TRUE] ELSE Violation(acc)
             [] e.t = "BlockComplete" ->
                  IF Completes(acc, e.index)
                  THEN [acc EXCEPT !.blocks[e.index].complete = TRUE] ELSE Violation(acc)
             [] e.t = "Usage" -> [acc EXCEPT !.usage = e.usage]
             [] e.t = "UpstreamCompaction" -> [acc EXCEPT !.items = @ \cup {e.index}]
             [] e.t = "Stop" -> [acc EXCEPT !.stop = e.reason]
             [] OTHER -> acc     \* Recovering, InputTokens, Account: nothing of the answer

-----------------------------------------------------------------------------
(* Messages. *)

Assistant(content) == [t |-> "Assistant", content |-> content]
(* opaque names the protocol whose material the message carries, if any.     *)
Reasoning(text, signature, ciphertext, item, opaque) ==
  [t |-> "Reasoning", text |-> text, signature |-> signature, ciphertext |-> ciphertext,
   item |-> item, opaque |-> opaque]
ToolUse(id, arguments) == [t |-> "ToolUse", id |-> id, arguments |-> arguments]
ToolResult(id, status) == [t |-> "ToolResult", id |-> id, status |-> status]
CompactionItem(i) == [t |-> "UpstreamCompaction", index |-> i]

(* parse_tool_arguments: blank, or an object whose pieces are all there once. *)
Parses(raw) ==
  \/ raw = <<>>
  \/ /\ raw[Len(raw)] = 0
     /\ \A k \in 1 .. Len(raw) - 1 : raw[k] = k

(* An assistant text joins the assistant message before it. *)
AppendText(messages, text) ==
  IF messages /= <<>> /\ Last(messages).t = "Assistant"
  THEN Append(Front(messages), Assistant(Append(Last(messages).content, text)))
  ELSE Append(messages, Assistant(<<text>>))

(* A protocol's rules for sending reasoning back: the material it proves    *)
(* reasoning with, whether unproven text may go back before its block       *)
(* completes, what a complete block has to carry, and whether a             *)
(* signature-only block seals the part right after it.                      *)
NoMaterial == "no material"
ReplayRules(material, transparent, proof, seals) ==
  [material |-> material, transparent |-> transparent, proof |-> proof, seals_next_part |-> seals]

ClassifyMaterial(rules, block) ==
  LET carried == CASE rules.material = "Interactions" -> block.item
                   [] rules.material = "Responses" -> block.ciphertext
                   [] rules.material = "Google" -> block.signature
                   [] rules.material = NoMaterial -> FALSE
                   [] OTHER -> block.signature \/ block.ciphertext
  IN  IF carried THEN rules.material ELSE NoMaterial

BlockMessage(messages, block, rules) ==
  CASE block.kind = "Text" -> AppendText(messages, block.text)
    [] block.kind = "Reasoning" ->
         Append(messages, Reasoning(block.text, block.signature, block.ciphertext, block.item,
                                    ClassifyMaterial(rules, block)))
    [] block.kind = "ToolUse" -> Append(messages, ToolUse(block.call_id, block.text))

(* Blocks and whole items in the order of their indices. *)
Indices(acc) == SetToSortSeq(DOMAIN acc.blocks \cup acc.items, LAMBDA i, j : i < j)

FinishFails(acc) ==
  \/ acc.stop = NoStop
  \/ \E i \in DOMAIN acc.blocks :
       \/ ~acc.blocks[i].closed
       \/ /\ acc.blocks[i].kind = "ToolUse"
          /\ \/ acc.blocks[i].call_id = NoId
             \/ ~acc.blocks[i].named
             \/ ~Parses(acc.blocks[i].text)

Finish(acc, rules) ==
  FoldLeft(LAMBDA messages, i :
             IF i \in DOMAIN acc.blocks THEN BlockMessage(messages, acc.blocks[i], rules)
                                        ELSE Append(messages, CompactionItem(i)),
           <<>>, Indices(acc))

-----------------------------------------------------------------------------
(* What an interrupted or capped answer leaves to replay. *)

ReasoningReplayable(rules, block) ==
  \/ rules.transparent /\ ~block.signature /\ ~block.ciphertext /\ block.text /= <<>>
  \/ /\ block.complete
     /\ \/ rules.proof = "Plaintext" /\ block.text /= <<>>
        \/ rules.proof \in {"Signature", "SignatureOrCiphertext"} /\ block.signature
        \/ rules.proof \in {"Ciphertext", "SignatureOrCiphertext"} /\ block.ciphertext

CallReplayableUnfinished(acc, i) ==
  /\ acc.blocks[i].call_id \notin {NoId, EmptyId}
  /\ acc.blocks[i].named
  /\ Parses(acc.blocks[i].text)

(* A call goes back only complete, with a fresh non-empty id, a name and    *)
(* arguments that parse.  The ids of earlier tool blocks count even when    *)
(* their own calls are not kept.                                            *)
CallReplayable(acc, i) ==
  LET block == acc.blocks[i]
  IN  /\ block.complete
      /\ block.call_id \notin {NoId, EmptyId}
      /\ ~\E j \in DOMAIN acc.blocks :
            /\ j < i
            /\ acc.blocks[j].kind = "ToolUse"
            /\ acc.blocks[j].call_id = block.call_id
      /\ block.named
      /\ Parses(block.text)

Classified(acc, rules, i) ==
  CASE i \notin DOMAIN acc.blocks -> TRUE
    [] acc.blocks[i].kind = "Text" -> TRUE
    [] acc.blocks[i].kind = "Reasoning" -> ReasoningReplayable(rules, acc.blocks[i])
    [] acc.blocks[i].kind = "ToolUse" -> CallReplayable(acc, i)

SignatureOnly(block) == block.kind = "Reasoning" /\ block.text = <<>> /\ block.signature

(* mark_unsealed_signatures: the part a signature seals is the one right    *)
(* behind it, text or call, and goes back itself.                           *)
Sealed(acc, rules, order, k) ==
  /\ k < Len(order)
  /\ order[k + 1] \in DOMAIN acc.blocks
  /\ acc.blocks[order[k + 1]].kind \in {"Text", "ToolUse"}
  /\ Classified(acc, rules, order[k + 1])

Replayable(acc, rules, order, k) ==
  IF /\ rules.seals_next_part
     /\ order[k] \in DOMAIN acc.blocks
     /\ SignatureOnly(acc.blocks[order[k]])
  THEN Classified(acc, rules, order[k]) /\ Sealed(acc, rules, order, k)
  ELSE Classified(acc, rules, order[k])

PartialMessage(acc, rules, i) ==
  IF i \notin DOMAIN acc.blocks THEN CompactionItem(i)
  ELSE Last(BlockMessage(<<>>, acc.blocks[i], rules))

(* build_context_fragment: the messages that go back, then one result per   *)
(* retained call.  A failed stream keeps none.                              *)
ContextFragment(acc, rules) ==
  LET order == Indices(acc)
      kept == SelectSeq([k \in 1 .. Len(order) |-> k], LAMBDA k : Replayable(acc, rules, order, k))
      messages == [k \in 1 .. Len(kept) |-> PartialMessage(acc, rules, order[kept[k]])]
      calls == SelectSeq(messages, LAMBDA m : m.t = "ToolUse")
  IN  messages \o [k \in 1 .. Len(calls) |-> ToolResult(calls[k].id, "cancelled")]

(* get_continuation_messages: text and reasoning only, without a signature  *)
(* whose call is dropped.                                                   *)
ContinuationMessages(fragment) ==
  LET Kept(k) ==
        \/ fragment[k].t = "Assistant"
        \/ /\ fragment[k].t = "Reasoning"
           /\ ~(/\ fragment[k].text = <<>>
                /\ fragment[k].signature
                /\ k < Len(fragment)
                /\ fragment[k + 1].t = "ToolUse")
      kept == SelectSeq([k \in 1 .. Len(fragment) |-> k], Kept)
  IN  [k \in 1 .. Len(kept) |-> fragment[kept[k]]]
=============================================================================

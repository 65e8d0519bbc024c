--------------------------- MODULE RequestRenderers ---------------------------
(***************************************************************************)
(* The request wires (protocol/model_use/request/*.rs): how each protocol  *)
(* folds the flat conversation into the turns its wire takes, what it      *)
(* refuses to send, and which reasoning goes back with which proof.        *)
(*                                                                         *)
(* A rendered turn is [role, blocks]; an item wire's turn has one block.   *)
(* A block is [t, data, signed, id].  Tools, caps, caching and reasoning   *)
(* controls do not depend on the conversation and are left out.            *)
(***************************************************************************)
EXTENDS StreamDecoders

User == [t |-> "User"]
System == [t |-> "System"]
Developer == [t |-> "Developer"]
Instruction == {"System", "Developer"}

WireBlock(t, data, signed, id) == [t |-> t, data |-> data, signed |-> signed, id |-> id]
UserBlock == WireBlock("user", <<>>, FALSE, NoId)
TextBlock(text) == WireBlock("text", text, FALSE, NoId)
ThoughtBlock(text, signed) == WireBlock("thought", text, signed, NoId)
RedactedBlock == WireBlock("redacted", <<>>, FALSE, NoId)
ItemBlock == WireBlock("item", <<>>, FALSE, NoId)
CallBlock(m) == WireBlock("call", m.arguments, FALSE, m.id)
ResultBlock(m) == WireBlock("result", <<>>, FALSE, m.id)
TextBlocks(m) == [k \in 1 .. Len(m.content) |-> TextBlock(m.content[k])]

Turn(role, blocks) == [role |-> role, blocks |-> blocks]

(* A rendering in progress: the turns, the calls waiting for results, the   *)
(* kind of message before, and what a wire holds back for the next part.    *)
Rendering ==
  [turns |-> <<>>, pending |-> <<>>, run |-> FALSE, seen |-> FALSE, opens |-> FALSE,
   held |-> FALSE, thought |-> <<>>, failed |-> FALSE]

Refuse(r) == [r EXCEPT !.failed = TRUE]

(* split_leading_instructions: the run of instructions a conversation opens *)
(* with, and the rest.                                                      *)
LeadingRun(conversation) ==
  CHOOSE n \in 0 .. Len(conversation) :
    /\ \A k \in 1 .. n : conversation[k].t \in Instruction
    /\ n < Len(conversation) => conversation[n + 1].t \notin Instruction

AfterInstructions(conversation) ==
  SubSeq(conversation, LeadingRun(conversation) + 1, Len(conversation))

PushTurnApart(turns, role, blocks) ==
  IF blocks = <<>> THEN turns ELSE Append(turns, Turn(role, blocks))

(* AlternatingTurns::push: a push lands on the turn before it when the role *)
(* is the same, and an empty push adds nothing.                             *)
PushTurn(turns, role, blocks) ==
  IF blocks = <<>> THEN turns
  ELSE IF turns /= <<>> /\ Last(turns).role = role
       THEN Append(Front(turns), Turn(role, Last(turns).blocks \o blocks))
       ELSE Append(turns, Turn(role, blocks))

Push(r, role, blocks) == [r EXCEPT !.turns = PushTurn(@, role, blocks)]

(* material_if_kind: proof counts only for the wire that made it. *)
Proof(m, p) == m.opaque = p /\ m.signature
Cipher(m, p) == m.opaque = p /\ m.ciphertext

-----------------------------------------------------------------------------
(* Anthropic Messages. *)

(* render_replayed_reasoning: a foreign signed thought is omitted. *)
AnthropicThought(m) ==
  LET unsigned == m.opaque = NoMaterial /\ ~m.signature /\ ~m.ciphertext
      text == IF unsigned \/ (m.opaque = "Anthropic" /\ ~m.ciphertext) THEN m.text ELSE <<>>
  IN  IF Cipher(m, "Anthropic") THEN <<RedactedBlock>>
      ELSE IF text = <<>> /\ ~Proof(m, "Anthropic") THEN <<>>
      ELSE <<ThoughtBlock(text, Proof(m, "Anthropic"))>>

(* The assistant turn being built is the last turn of a running render. *)
PrependToTurn(r, blocks) ==
  [r EXCEPT !.turns = Append(Front(@), Turn("assistant", blocks \o Last(@).blocks))]

(* append_continued_text: a resumed text joins the text it continues. *)
JoinText(r, blocks) ==
  IF /\ r.run /\ r.turns /= <<>> /\ Last(r.turns).role = "assistant"
     /\ Last(Last(r.turns).blocks).t = "text"
  THEN [r EXCEPT !.turns =
          LET built == Last(@).blocks
          IN  Append(Front(@), Turn("assistant",
                Append(Front(built), TextBlock(Last(built).data \o blocks[1].data)) \o Tail(blocks)))]
  ELSE Push(r, "assistant", blocks)

(* render_assistant_turn: thinking leads its turn; past the content it is   *)
(* dropped, or moved to the front of a turn that opened without any.        *)
AnthropicAssistant(r, m) ==
  CASE m.t = "Reasoning" ->
         LET blocks == AnthropicThought(m)
         IN  IF blocks = <<>> \/ (r.seen /\ r.opens) THEN r
             ELSE IF r.seen THEN [PrependToTurn(r, blocks) EXCEPT !.opens = TRUE]
             ELSE [Push(r, "assistant", blocks) EXCEPT !.opens = TRUE]
    [] m.t = "Assistant" -> [JoinText(r, TextBlocks(m)) EXCEPT !.seen = TRUE]
    [] m.t = "ToolUse" ->
         [Push(r, "assistant", <<CallBlock(m)>>) EXCEPT !.seen = TRUE, !.pending = Append(@, m.id)]

(* The results that follow answer the pending calls one by one, in order.   *)
OrderedResult(r, m) ==
  IF r.pending = <<>> \/ Head(r.pending) /= m.id THEN Refuse(r)
  ELSE [Push(r, "user", <<ResultBlock(m)>>) EXCEPT !.pending = Tail(@), !.run = FALSE]

StartRun(r) == IF r.run THEN r ELSE [r EXCEPT !.run = TRUE, !.seen = FALSE, !.opens = FALSE,
                                              !.held = FALSE]

AnthropicMessage(r, m) ==
  CASE m.t = "UpstreamCompaction" -> Refuse(r)
    [] m.t \in Instruction \cup {"User"} ->
         IF r.pending /= <<>> THEN Refuse(r)
         ELSE [Push(r, "user", <<UserBlock>>) EXCEPT !.run = FALSE]
    [] m.t \in {"Reasoning", "Assistant", "ToolUse"} ->
         IF r.pending /= <<>> /\ ~r.run THEN Refuse(r) ELSE AnthropicAssistant(StartRun(r), m)
    [] m.t = "ToolResult" -> OrderedResult(r, m)

(* finish_from_user, and no call left without its result. *)
FinishFromUser(r) ==
  IF r.pending /= <<>> \/ (r.turns /= <<>> /\ r.turns[1].role /= "user") THEN Refuse(r) ELSE r

(* An instruction-only conversation keeps its last one as user input. *)
AnthropicRest(conversation) ==
  LET rest == AfterInstructions(conversation)
  IN  IF rest = <<>> /\ conversation /= <<>> THEN <<Last(conversation)>> ELSE rest

RenderAnthropic(conversation) ==
  LET r == FinishFromUser(FoldLeft(AnthropicMessage, Rendering, AnthropicRest(conversation)))
  IN  IF r.turns = <<>> THEN Refuse(r) ELSE r

-----------------------------------------------------------------------------
(* Google generateContent. *)

PushPartUnsigned(r, block) == Push(r, "model", <<block>>)

(* push_part: a held signature lands on the next part without its own. *)
PushPart(r, block) ==
  [Push(r, "model", <<[block EXCEPT !.signed = @ \/ r.held]>>)
   EXCEPT !.held = @ /\ block.signed]

GoogleModel(r, m) ==
  CASE m.t = "Reasoning" ->
         IF m.text = <<>> THEN [r EXCEPT !.held = @ \/ Proof(m, "Google")]
         ELSE PushPart(r, ThoughtBlock(m.text, Proof(m, "Google")))
    [] m.t = "Assistant" -> FoldLeft(PushPart, r, TextBlocks(m))
    [] m.t = "ToolUse" -> [PushPart(r, CallBlock(m)) EXCEPT !.pending = Append(@, m.id)]

(* render_function_responses pairs by tool name and order; one tool here. *)
NamedResult(r, m) ==
  IF r.pending = <<>> THEN Refuse(r)
  ELSE [Push(r, "user", <<ResultBlock(m)>>) EXCEPT !.pending = Tail(@), !.run = FALSE]

GoogleMessage(r, m) ==
  CASE m.t = "UpstreamCompaction" -> Refuse(r)
    [] m.t \in Instruction \cup {"User"} ->
         IF r.pending /= <<>> THEN Refuse(r)
         ELSE [Push(r, "user", <<UserBlock>>) EXCEPT !.run = FALSE]
    [] m.t \in {"Reasoning", "Assistant", "ToolUse"} ->
         IF r.pending /= <<>> /\ ~r.run THEN Refuse(r) ELSE GoogleModel(StartRun(r), m)
    [] m.t = "ToolResult" -> NamedResult(r, m)

(* Gemini 3 and later: the first call of a model turn carries a signature,  *)
(* the documented marker where the history has none.                        *)
StampFirstCalls(turns) ==
  LET Stamped(turn) ==
        LET calls == {k \in DOMAIN turn.blocks : turn.blocks[k].t = "call"}
        IN  IF calls = {} THEN turn
            ELSE [turn EXCEPT !.blocks[CHOOSE k \in calls : \A l \in calls : k <= l].signed = TRUE]
  IN  [k \in DOMAIN turns |-> Stamped(turns[k])]

RenderGoogle(conversation, requires_call_signature) ==
  LET r == FinishFromUser(FoldLeft(GoogleMessage, Rendering, AfterInstructions(conversation)))
  IN  IF r.turns = <<>> THEN Refuse(r)
      ELSE IF requires_call_signature THEN [r EXCEPT !.turns = StampFirstCalls(@)] ELSE r

-----------------------------------------------------------------------------
(* Bedrock Converse. *)

BedrockMessage(r, m) ==
  CASE m.t = "UpstreamCompaction" -> Refuse(r)
    [] m.t \in Instruction \cup {"User"} -> Push(r, "user", <<UserBlock>>)
    [] m.t = "Assistant" -> Push(r, "assistant", TextBlocks(m))
    [] m.t = "Reasoning" ->
         Push(r, "assistant",
              IF Cipher(m, "Bedrock") THEN <<RedactedBlock>>
              ELSE IF m.text /= <<>> \/ Proof(m, "Bedrock")
                   THEN <<ThoughtBlock(m.text, Proof(m, "Bedrock"))>> ELSE <<>>)
    [] m.t = "ToolUse" ->
         IF m.id = EmptyId THEN Refuse(r)
         ELSE [Push(r, "assistant", <<CallBlock(m)>>) EXCEPT !.pending = Append(@, m.id)]
    [] m.t = "ToolResult" ->
         IF ~Contains(r.pending, m.id) THEN Refuse(r)
         ELSE [Push(r, "user", <<ResultBlock(m)>>) EXCEPT !.pending = RemoveFirst(@, m.id)]

RenderBedrock(conversation) ==
  LET r == FoldLeft(BedrockMessage, Rendering, AfterInstructions(conversation))
  IN  IF r.pending /= <<>> THEN Refuse(r) ELSE r

-----------------------------------------------------------------------------
(* Chat completions.  run: the last turn is an assistant message that still *)
(* takes calls; opens: it opened with a call and takes reasoning as well.   *)

ChatTurn(r, role, block) ==
  [r EXCEPT !.turns = Append(@, Turn(role, <<block>>)), !.run = FALSE, !.opens = FALSE,
            !.thought = <<>>]

AttachReasoning(blocks, thought) ==
  IF thought = <<>> THEN blocks ELSE <<ThoughtBlock(thought, FALSE)>> \o blocks

ChatMessage(r, m) ==
  CASE m.t = "UpstreamCompaction" -> Refuse(r)
    [] m.t = "System" -> ChatTurn(r, "system", UserBlock)
    [] m.t = "Developer" -> ChatTurn(r, "system", UserBlock)
    [] m.t = "User" -> ChatTurn(r, "user", UserBlock)
    [] m.t = "ToolResult" -> ChatTurn(r, "tool", ResultBlock(m))
    [] m.t = "Assistant" ->
         [r EXCEPT !.turns = Append(@, Turn("assistant", AttachReasoning(TextBlocks(m), r.thought))),
                   !.run = TRUE, !.opens = FALSE, !.thought = <<>>]
    [] m.t = "ToolUse" /\ r.run ->
         [r EXCEPT !.turns = Append(Front(@), Turn("assistant", Append(Last(@).blocks, CallBlock(m))))]
    [] m.t = "ToolUse" /\ ~r.run ->
         [r EXCEPT !.turns = Append(@, Turn("assistant", AttachReasoning(<<CallBlock(m)>>, r.thought))),
                   !.run = TRUE, !.opens = TRUE, !.thought = <<>>]
    [] m.t = "Reasoning" /\ r.opens ->
         [r EXCEPT !.turns = Append(Front(@),
            Turn("assistant",
              LET built == Last(@).blocks
              IN  IF built[1].t = "thought"
                  THEN <<ThoughtBlock(built[1].data \o m.text, FALSE)>> \o Tail(built)
                  ELSE AttachReasoning(built, m.text)))]
    [] m.t = "Reasoning" /\ ~r.opens -> [r EXCEPT !.thought = @ \o m.text, !.run = FALSE]

(* The plain wire has no field for reasoning. *)
RenderChat(conversation, plain) ==
  FoldLeft(LAMBDA r, m : ChatMessage(r, IF plain /\ m.t = "Reasoning"
                                        THEN [m EXCEPT !.text = <<>>] ELSE m),
           Rendering, conversation)

-----------------------------------------------------------------------------
(* Mistral conversations, OpenAI Responses, Google interactions: one entry, *)
(* item or step per message.                                                *)

Entry(r, role, blocks) ==
  [r EXCEPT !.turns = Append(@, Turn(role, blocks)), !.thought = <<>>]

MistralMessage(r, m) ==
  CASE m.t = "UpstreamCompaction" -> Refuse(r)
    [] m.t \in Instruction \cup {"User"} -> Entry(r, "user", <<UserBlock>>)
    [] m.t = "Assistant" -> Entry(r, "assistant", AttachReasoning(TextBlocks(m), r.thought))
    [] m.t = "Reasoning" -> [r EXCEPT !.thought = @ \o m.text]
    [] m.t = "ToolUse" -> Entry(r, "assistant", <<CallBlock(m)>>)
    [] m.t = "ToolResult" -> Entry(r, "user", <<ResultBlock(m)>>)

RenderMistral(conversation) ==
  LET r == FoldLeft(MistralMessage, Rendering, AfterInstructions(conversation))
  IN  IF r.turns = <<>> THEN Refuse(r) ELSE r

(* A reasoning item goes back with the material its form sends, or not.     *)
ResponsesReasoning(m, compat) ==
  IF compat THEN (IF m.text /= <<>> THEN <<ThoughtBlock(m.text, FALSE)>> ELSE <<>>)
            ELSE (IF Cipher(m, "Responses") THEN <<ThoughtBlock(<<>>, TRUE)>> ELSE <<>>)

(* summary text is display only; the ciphertext stands in for the text. *)
ResponsesItem(r, m, compat) ==
  CASE m.t \in Instruction -> Entry(r, "system", <<UserBlock>>)
    [] m.t = "User" -> Entry(r, "user", <<UserBlock>>)
    [] m.t = "ToolUse" -> Entry(r, "assistant", <<CallBlock(m)>>)
    [] m.t = "ToolResult" -> Entry(r, "user", <<ResultBlock(m)>>)
    [] m.t = "Reasoning" ->
         IF ResponsesReasoning(m, compat) = <<>> THEN r
         ELSE Entry(r, "assistant", ResponsesReasoning(m, compat))
    [] m.t = "Assistant" ->
         IF m.content = <<>> THEN r ELSE Entry(r, "assistant", TextBlocks(m))
    [] m.t = "UpstreamCompaction" -> Entry(r, "assistant", <<ItemBlock>>)

RenderResponses(conversation, compat) ==
  FoldLeft(LAMBDA r, m : ResponsesItem(r, m, compat), Rendering, conversation)

(* A thought goes back as its original step, or unsigned when nothing        *)
(* proves it; a foreign proof is not reused.                                *)
InteractionsThought(m) ==
  IF m.opaque = "Interactions" /\ m.item THEN <<ThoughtBlock(m.text, m.signature)>>
  ELSE IF m.opaque = NoMaterial /\ m.text /= <<>> THEN <<ThoughtBlock(m.text, FALSE)>>
  ELSE <<>>

InteractionsStep(r, m) ==
  CASE m.t = "UpstreamCompaction" -> Refuse(r)
    [] m.t \in Instruction \cup {"User"} -> Entry(r, "user", <<UserBlock>>)
    [] m.t = "Reasoning" ->
         IF InteractionsThought(m) = <<>> THEN r ELSE Entry(r, "assistant", InteractionsThought(m))
    [] m.t = "Assistant" ->
         IF m.content = <<>> THEN r ELSE Entry(r, "assistant", TextBlocks(m))
    [] m.t = "ToolUse" -> Entry(r, "assistant", <<CallBlock(m)>>)
    [] m.t = "ToolResult" -> Entry(r, "user", <<ResultBlock(m)>>)

RenderInteractions(conversation) ==
  FoldLeft(InteractionsStep, Rendering, AfterInstructions(conversation))

Render(p, conversation, compat) ==
  CASE p = "Anthropic" -> RenderAnthropic(conversation)
    [] p = "Bedrock" -> RenderBedrock(conversation)
    [] p = "Chat" -> RenderChat(conversation, compat)
    [] p = "Mistral" -> RenderMistral(conversation)
    [] p = "Google" -> RenderGoogle(conversation, compat)
    [] p = "Responses" -> RenderResponses(conversation, compat)
    [] p = "Interactions" -> RenderInteractions(conversation)
=============================================================================

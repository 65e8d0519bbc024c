--------------------------- MODULE BufferedReplies ---------------------------
(***************************************************************************)
(* The readers of whole replies (protocol/model_use/response/*.rs): what   *)
(* each protocol's buffered decode makes of an answer.  An answer is the   *)
(* sequence of parts the model produced, each [kind, data, signed, id]; a  *)
(* Text, Think, Redacted or Call, or an opaque compaction Item.            *)
(***************************************************************************)
EXTENDS StreamDecoders

(* signed_reasoning: the proof's format is named when there is a proof. *)
SignedReasoning(p, part) ==
  Reasoning(part.data, part.signed, FALSE, FALSE, IF part.signed THEN p ELSE NoMaterial)
RedactedReasoning(p) == Reasoning(<<>>, FALSE, TRUE, FALSE, p)
ReasoningText(part) == Reasoning(part.data, FALSE, FALSE, FALSE, NoMaterial)
CallMessage(part) == ToolUse(part.id, part.data)
OneText(part) == Assistant(<<part.data>>)

(* Anthropic Messages and Bedrock Converse: blocks in order; text is held   *)
(* and flushed before reasoning and calls.  A capped Messages reply's calls *)
(* are not read at all.                                                     *)
FlushingDecode(p, parts, reason) ==
  FoldLeft(LAMBDA messages, part :
             CASE part.kind = "Text" -> AppendText(messages, part.data)
               [] part.kind = "Think" -> Append(messages, SignedReasoning(p, part))
               [] part.kind = "Redacted" -> Append(messages, RedactedReasoning(p))
               [] part.kind = "Call" ->
                    IF p = "Anthropic" /\ reason = "length" THEN messages
                    ELSE Append(messages, CallMessage(part)),
           <<>>, parts)

OfKind(parts, kind) == SelectSeq(parts, LAMBDA part : part.kind = kind)
Each(Op(_), parts) == [k \in 1 .. Len(parts) |-> Op(parts[k])]

(* Chat completions: the reasoning, the text, then the calls. *)
ChatDecode(parts, reason) ==
  Each(ReasoningText, OfKind(parts, "Think")) \o Each(OneText, OfKind(parts, "Text"))
    \o (IF reason = "length" THEN <<>> ELSE Each(CallMessage, OfKind(parts, "Call")))

(* Mistral conversations: the output entry (a thought ahead of its text)    *)
(* and the call entries.                                                    *)
MistralDecode(parts) ==
  Each(ReasoningText, OfKind(parts, "Think")) \o Each(OneText, OfKind(parts, "Text"))
    \o Each(CallMessage, OfKind(parts, "Call"))

(* Google generateContent: a signature on a text or a call is a message of  *)
(* its own right before it.                                                 *)
SignatureOnlyMessage == Reasoning(<<>>, TRUE, FALSE, FALSE, "Google")

GoogleDecode(parts) ==
  FoldLeft(LAMBDA messages, part :
             LET sealed == IF part.signed /\ part.kind /= "Think"
                           THEN Append(messages, SignatureOnlyMessage) ELSE messages
             IN  CASE part.kind = "Text" -> AppendText(sealed, part.data)
                   [] part.kind = "Think" -> Append(messages, SignedReasoning("Google", part))
                   [] part.kind = "Call" -> Append(sealed, CallMessage(part)),
           <<>>, parts)

(* OpenAI Responses: one message per item; compaction items belong to       *)
(* another reader, and the calls of a capped reply are not read.            *)
ResponsesDecode(parts, reason) ==
  LET Item(part) ==
        CASE part.kind = "Text" -> <<OneText(part)>>
          [] part.kind = "Think" ->
               <<Reasoning(part.data, FALSE, part.signed, FALSE,
                           IF part.signed THEN "Responses" ELSE NoMaterial)>>
          [] part.kind = "Call" -> IF reason = "length" THEN <<>> ELSE <<CallMessage(part)>>
          [] part.kind = "Item" -> <<>>
  IN  FlattenSeq(Each(Item, parts))

(* Google interactions: one message per step, a thought with its item. *)
InteractionsDecode(parts) ==
  LET StepMessage(part) ==
        CASE part.kind = "Text" -> OneText(part)
          [] part.kind = "Think" -> Reasoning(part.data, part.signed, FALSE, TRUE, "Interactions")
          [] part.kind = "Call" -> CallMessage(part)
  IN  Each(StepMessage, parts)

Decode(p, parts, reason) ==
  CASE p \in {"Anthropic", "Bedrock"} -> FlushingDecode(p, parts, reason)
    [] p = "Chat" -> ChatDecode(parts, reason)
    [] p = "Mistral" -> MistralDecode(parts)
    [] p = "Google" -> GoogleDecode(parts)
    [] p = "Responses" -> ResponsesDecode(parts, reason)
    [] p = "Interactions" -> InteractionsDecode(parts)

(* The stop reason of the reply, by the mapping both paths share. *)
DecodedStop(p, parts, reason) ==
  LET calls == OfKind(parts, "Call") /= <<>>
  IN  CASE p \in {"Anthropic", "Bedrock", "Chat"} -> DirectStop[reason]
        [] p = "Mistral" -> IF calls THEN "ToolUse" ELSE "Stop"
        [] OTHER -> StopForCalls(reason, calls)
=============================================================================

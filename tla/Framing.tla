-------------------------------- MODULE Framing --------------------------------
(***************************************************************************)
(* A streamed body read record by record (transport/record.rs), cut by one *)
(* of two framings: server-sent events (transport/sse.rs) and AWS event-   *)
(* stream frames (transport/aws_eventstream.rs).  The network delivers the *)
(* body in chunks of any size.  A byte of text is a field's name with its  *)
(* colon, a letter, a return or a line feed; a byte of a frame is a        *)
(* number: the first of a frame is its length, the second its type.        *)
(***************************************************************************)
EXTENDS Naturals, Sequences, FiniteSets, FiniteSetsExt, SequencesExt

CONSTANTS
  MaxBody,     \* bound: the length of a body
  MaxChunk,    \* bound: the length of a chunk
  MaxEvent,    \* max_event_bytes, of a record or a frame
  MaxRecords   \* max_stream_events

ASSUME FramingAssumption == {MaxBody, MaxChunk, MaxEvent, MaxRecords} \subseteq Nat \ {0}

VARIABLES
  framing,   \* "sse" or "aws"
  body,      \* the bytes received so far
  parser,    \* the framing's parser
  pending,   \* records completed and not handed over
  handed,    \* records handed over
  reading    \* "open", "ended" or "failed"

framing_vars == <<framing, body, parser, pending, handed, reading>>

MinFrame == 2
Byte(kind) ==
  IF kind = "sse" THEN {"data:", "event:", "id:", "x", "CR", "LF"} ELSE 0 .. MaxEvent + 1

NewParser == [buffer |-> <<>>, event |-> <<>>, id |-> FALSE, data |-> <<>>, bytes |-> 0,
              out |-> <<>>, failed |-> FALSE]

Fail(p) == [p EXCEPT !.failed = TRUE]

-----------------------------------------------------------------------------
(* Server-sent events. *)

FlushPending(p) ==
  [p EXCEPT !.event = <<>>, !.id = FALSE, !.data = <<>>, !.bytes = 0,
            !.out = IF p.data = <<>> /\ p.event = <<>> /\ ~ p.id THEN @
                    ELSE Append(@, [event |-> p.event, data |-> p.data])]

\* A blank line is the boundary of a record; other fields and comments are ignored.
HandleLine(p, line) ==
  IF line = <<>> THEN FlushPending(p)
  ELSE [p EXCEPT !.data = IF Head(line) = "data:" THEN Append(@, Tail(line)) ELSE @,
                 !.event = IF Head(line) = "event:" THEN <<Tail(line)>> ELSE @,
                 !.id = @ \/ Head(line) = "id:"]

\* A line is charged to its record before it is read.
ChargeLine(p, length) ==
  IF p.bytes + length > MaxEvent THEN Fail(p) ELSE [p EXCEPT !.bytes = @ + length]

\* Mutant: a return before the line feed is part of the line.
LineKept(buffer) == buffer
Line(buffer) == IF buffer # <<>> /\ Last(buffer) = "CR" THEN Front(buffer) ELSE buffer

TakeByte(p, byte) ==
  IF p.failed THEN p
  ELSE IF byte # "LF" THEN [p EXCEPT !.buffer = Append(@, byte)]
  ELSE LET charged == ChargeLine(p, Len(p.buffer) + 1)
       IN  IF charged.failed THEN charged
           ELSE HandleLine([charged EXCEPT !.buffer = <<>>], Line(p.buffer))

EnforceCap(p) == IF p.bytes + Len(p.buffer) > MaxEvent THEN Fail(p) ELSE p

SseFeed(p, chunk) ==
  LET fed[i \in 0 .. Len(chunk)] == IF i = 0 THEN p ELSE TakeByte(fed[i - 1], chunk[i])
  IN  EnforceCap(fed[Len(chunk)])

\* A trailing record without its blank line is dispatched too.
SseFinish(p) ==
  IF EnforceCap(p).failed THEN Fail(p)
  ELSE FlushPending(IF p.buffer = <<>> THEN p ELSE HandleLine([p EXCEPT !.buffer = <<>>], p.buffer))

-----------------------------------------------------------------------------
(* AWS event-stream frames. *)

\* parse_frame and decode_record: a ping carries nothing, a damaged frame fails.
FrameRecord(frame) ==
  IF frame[2] = 0 THEN <<>> ELSE <<[event |-> frame[2], data |-> SubSeq(frame, 3, Len(frame))]>>
Damaged(frame) == frame[2] > 2

TakeFrame(p) ==
  LET total == Head(p.buffer)
      frame == SubSeq(p.buffer, 1, total)
  IN  IF p.failed \/ Len(p.buffer) < MinFrame THEN p
      ELSE IF total < MinFrame \/ total > MaxEvent THEN Fail(p)
      ELSE IF Len(p.buffer) < total THEN p
      ELSE IF Damaged(frame) THEN Fail(p)
      ELSE [p EXCEPT !.buffer = SubSeq(@, total + 1, Len(@)), !.out = @ \o FrameRecord(frame)]

\* The loop stops where it changes nothing more.
AwsFeed(p, chunk) ==
  LET whole == [p EXCEPT !.buffer = @ \o chunk]
      left[i \in 0 .. Len(whole.buffer)] == IF i = 0 THEN whole ELSE TakeFrame(left[i - 1])
  IN  left[Len(whole.buffer)]

AwsFinish(p) == IF p.buffer = <<>> THEN p ELSE Fail(p)

-----------------------------------------------------------------------------
(* RecordStream::next. *)

Feed(p, chunk) == IF framing = "sse" THEN SseFeed(p, chunk) ELSE AwsFeed(p, chunk)
FinishBody(p) == IF framing = "sse" THEN SseFinish(p) ELSE AwsFinish(p)

\* What a step of the parser leaves: its records, or, when it failed, none of them.
Parsed(p, next) ==
  /\ parser' = [p EXCEPT !.out = <<>>]
  /\ pending' = IF p.failed THEN <<>> ELSE p.out
  /\ reading' = IF p.failed THEN "failed" ELSE next

NextChunk ==
  /\ reading = "open" /\ pending = <<>>
  /\ \E n \in 1 .. MaxChunk : \E chunk \in [1 .. n -> Byte(framing)] :
       /\ Len(body) + n <= MaxBody
       /\ body' = body \o chunk
       /\ Parsed(Feed(parser, chunk), "open")
  /\ UNCHANGED <<framing, handed>>

BodyEnds ==
  /\ reading = "open" /\ pending = <<>>
  /\ Parsed(FinishBody(parser), "ended")
  /\ UNCHANGED <<framing, body, handed>>

HandRecord ==
  /\ reading # "failed" /\ pending # <<>>
  /\ IF Len(handed) = MaxRecords
     THEN reading' = "failed" /\ pending' = <<>> /\ UNCHANGED handed
     ELSE /\ handed' = Append(handed, Head(pending)) /\ pending' = Tail(pending)
          /\ UNCHANGED reading
  /\ UNCHANGED <<framing, body, parser>>

FramingInit ==
  /\ framing \in {"sse", "aws"}
  /\ body = <<>> /\ parser = NewParser /\ pending = <<>> /\ handed = <<>> /\ reading = "open"

FramingNext == NextChunk \/ BodyEnds \/ HandRecord

FramingSpec == FramingInit /\ [][FramingNext]_framing_vars

-----------------------------------------------------------------------------
(* The reference: what a whole body says, cut at its line feeds or lengths. *)

LastBefore(S, i) == Max({0} \cup {j \in S : j < i})

\* The values at a set of positions, from the first position to the last.
Nth(S, k) == CHOOSE i \in {j \in S : Cardinality({l \in S : l < j}) = k - 1} : TRUE
Ordered(S, value) == [k \in 1 .. Cardinality(S) |-> value[Nth(S, k)]]

Feeds(b) == {i \in DOMAIN b : b[i] = "LF"}

\* The line that ends behind position i, without its line feed.
LineAt(b, i) ==
  LET text == SubSeq(b, LastBefore(Feeds(b), i) + 1, i - 1)
  IN  IF i <= Len(b) /\ text # <<>> /\ Last(text) = "CR" THEN Front(text) ELSE text

Boundaries(b) == {i \in Feeds(b) : LineAt(b, i) = <<>>}

\* The lines of one field in the record that ends at position i.
LinesOf(b, i, field) ==
  {j \in Feeds(b) \cup {Len(b) + 1} :
     /\ LastBefore(Boundaries(b), i) < j /\ j <= i
     /\ LineAt(b, j) # <<>> /\ Head(LineAt(b, j)) = field}

RecordAt(b, i) ==
  LET events == LinesOf(b, i, "event:")
      data == LinesOf(b, i, "data:")
  IN  [event |-> IF events = {} THEN <<>> ELSE <<Tail(LineAt(b, Max(events)))>>,
       data |-> Ordered(data, [j \in data |-> Tail(LineAt(b, j))])]

\* A record ends at each boundary and at the end; one without a field is none.
SseRecords(b) ==
  LET full == {i \in Boundaries(b) \cup {Len(b) + 1} :
                 \E field \in {"data:", "event:", "id:"} : LinesOf(b, i, field) # {}}
  IN  [records |-> Ordered(full, [i \in full |-> RecordAt(b, i)]),
       broken |-> \E i \in DOMAIN b : i - LastBefore(Boundaries(b), i) > MaxEvent]

FrameAt(b, i) == SubSeq(b, i, i + b[i] - 1)
LengthRead(b, i) == i < Len(b)
FrameRead(b, i) == LengthRead(b, i) /\ i + b[i] - 1 <= Len(b)
Refused(b, i) ==
  \/ LengthRead(b, i) /\ b[i] \notin MinFrame .. MaxEvent
  \/ FrameRead(b, i) /\ Damaged(FrameAt(b, i))
WholeFrame(b, i) == FrameRead(b, i) /\ ~ Refused(b, i)

\* A frame begins at the first byte, and behind every whole frame.
FrameStarts(b) ==
  {i \in 1 .. Len(b) + 1 :
     \A S \in SUBSET (1 .. Len(b) + 1) :
       1 \in S /\ (\A j \in S : WholeFrame(b, j) => j + b[j] \in S) => i \in S}

AwsRecords(b) ==
  LET full == {i \in FrameStarts(b) : WholeFrame(b, i) /\ FrameRecord(FrameAt(b, i)) # <<>>}
  IN  [records |-> Ordered(full, [i \in full |-> FrameRecord(FrameAt(b, i))[1]]),
       broken |-> \E i \in FrameStarts(b) : Refused(b, i),
       rest |-> Len(b) + 1 \notin FrameStarts(b)]

Said == IF framing = "sse" THEN SseRecords(body) ELSE AwsRecords(body)

\* However the network cuts a body, what is handed over are the records the
\* whole body says, in order and each once: a prefix while it is read, all of
\* them at its end.  And the reading fails exactly when a record or frame of the
\* body is too large or damaged, the body of frames ends inside one, or there
\* are too many, never for where a chunk happened to end.
CutAnyhow ==
  LET said == Said
  IN  /\ IsPrefix(handed, said.records)
      /\ reading = "ended" => ~ (framing = "aws" /\ said.rest)
      /\ reading = "ended" /\ pending = <<>> => handed = said.records
      /\ reading = "failed" =>
           \/ said.broken \/ Len(said.records) > MaxRecords
           \/ framing = "aws" /\ said.rest
      /\ reading # "failed" => ~ said.broken
=============================================================================

---------------------------- MODULE AnthropicServed ----------------------------
(***************************************************************************)
(* A 200 of an Anthropic-style upstream: AnthropicProvider.Stream          *)
(* (src/providers/anthropic.go) reads it line by line and writes whole     *)
(* events on, for three kinds of client: one that is streamed to, one of   *)
(* /v1/chat/completions behind the converter, and one that did not ask for *)
(* a stream.  All of them, and Stream, take lines by the same rule: the    *)
(* lines event: and data: are kept until an empty one ends the event.  In  *)
(* the end the router adds its error event, or makes a message of the      *)
(* buffer (proxy, src/router/router.go).                                   *)
(***************************************************************************)
EXTENDS StreamConverter, BufferedMessage

CONSTANTS
  Words,            \* what a text delta may add
  MaxBlocks,        \* bounds on what the upstream sends
  MaxEvents

ASSUME UpstreamAssumption == MaxBlocks \in Nat /\ MaxEvents \in Nat

VARIABLES
  up,               \* the upstream: the whole events it has sent, and the one
                    \* whose lines are on their way
  copy,             \* eventType and dataLines of Stream
  sse,              \* the client that is streamed to: the lines of an event, its
                    \* view of the message, its blocks, the errors it was told
  buffer,           \* the lines that converter and buffer keep; they get the same
  converted,        \* the converter, and the client behind it
  gathered,         \* what sseBytesToMessage makes of the events
  outcome           \* "reading", what Stream returned: "nil" or "error", "told"

copyVars == <<up, copy, sse, buffer, converted, gathered, outcome>>

NoName  == "none"
NoLines == [event |-> NoName, data |-> <<>>]

CopyInit ==
  /\ up = [client |-> Fresh, text |-> <<>>, blocks |-> <<>>, errors |-> 0, sent |-> 0,
           line |-> "event", ev |-> Plain("message_start")]
  /\ copy = NoLines
  /\ sse = [lines |-> NoLines, client |-> Fresh, blocks |-> <<>>, errors |-> 0]
  /\ buffer = NoLines
  /\ converted = NewConverter
  /\ gathered = NoMessage
  /\ outcome = "reading"

-------------------------------------------------------------------------------
(* The message that a reader of all events has: its blocks, each with the      *)
(* pieces of its text, thinking or arguments, and with how many deltas of types *)
(* that the router does not know (signatures, citations).                      *)

Opaque == "other"       \* of blocks and deltas: a type that the router does not know

PartsOf(ev) ==
  CASE ev.kind \in {"text", "thinking"} -> ev.text
    [] ev.kind = "tool_use" -> <<ev.call>>
    [] OTHER -> <<>>

AddPieces(block, ev) ==
  [block EXCEPT !.parts = @ \o PartsOf(ev), !.opaque = IF ev.kind = Opaque THEN @ + 1 ELSE @]

Added(blocks, ev) ==
  CASE ev.type = "content_block_start" ->
         Append(blocks, [kind |-> ev.kind, call |-> ev.call, parts |-> <<>>, opaque |-> 0])
    [] ev.type = "content_block_delta" -> [blocks EXCEPT ![ev.index + 1] = AddPieces(@, ev)]
    [] OTHER -> blocks

-------------------------------------------------------------------------------
(* Lines.                                                                      *)

EventLine(name) == [kind |-> "event", name |-> name]
DataLine(data)  == [kind |-> "data", data |-> data]
EmptyLine       == [kind |-> "empty"]
ErrorEvent      == Plain("error")

Keep(lines, line) ==
  CASE line.kind = "event" -> [lines EXCEPT !.event = line.name]
    [] line.kind = "data"  -> [lines EXCEPT !.data = Append(@, line.data)]
    [] line.kind = "empty" -> NoLines

\* The event that an empty line ends, if it has a name, and if its data are of
\* one piece: joined, the data of two events are no JSON.
Ends(lines, line) ==
  IF line.kind = "empty" /\ lines.event # NoName /\ Len(lines.data) = 1
  THEN <<lines.data[1]>> ELSE <<>>

Follow(s, line) ==
  LET evs == Ends(s.lines, line)
      t   == [s EXCEPT !.lines = Keep(@, line)]
  IN  CASE evs = <<>> -> t
        [] evs = <<ErrorEvent>> -> [t EXCEPT !.errors = @ + 1]
        [] OTHER -> [t EXCEPT !.client = See(@, evs[1]), !.blocks = Added(@, evs[1])]

\* The events that lines make for one that has kept these already.
Collect(s, line) == [lines |-> Keep(s.lines, line), evs |-> s.evs \o Ends(s.lines, line)]

EventsOf(kept, written) == FoldLeft(Collect, [lines |-> kept, evs |-> <<>>], written)

\* The lines go to whatever client there is.
Write(lines) ==
  LET read == EventsOf(buffer, lines)
  IN  /\ sse' = FoldLeft(Follow, sse, lines)
      /\ buffer' = read.lines
      /\ converted' = FoldLeft(ConvertEvent, converted, read.evs)
      /\ gathered' = FoldLeft(Gather, gathered, read.evs)

-------------------------------------------------------------------------------
(* The upstream: the events of one message, each an event: line, a data: line  *)
(* and an empty one.  It may give up with an error event of its own.  Pings,   *)
(* which change nothing for anyone, are left out.                              *)

\* text_delta and thinking_delta.
WordDelta(kind, b, text) == [Block("content_block_delta", b, kind) EXCEPT !.text = text]

\* Text and thinking grow by words, and may get a delta of another type
\* (signature_delta, citations_delta); blocks of other types get input_json_delta
\* (server_tool_use), as tool_use does, or nothing (redacted_thinking).
Deltas(b) ==
  LET kind == up.blocks[b + 1].kind
  IN  IF kind \in {"text", "thinking"}
      THEN {WordDelta(kind, b, <<w>>) : w \in Words} \cup {Block("content_block_delta", b, Opaque)}
      ELSE {ToolUse("content_block_delta", b, b)}

BlockEvents(b) == {Block("content_block_stop", b, "none")} \cup Deltas(b)

Starts(b) ==
  IF b < MaxBlocks
  THEN {Block("content_block_start", b, kind) : kind \in {"text", "thinking", Opaque}}
         \cup {ToolUse("content_block_start", b, b)}
  ELSE {}

NextEvents ==
  {ev \in {Plain("message_start"), MessageDelta("end_turn"), MessageDelta("tool_use"),
           Plain("message_stop")}
          \cup Starts(up.client.next) \cup UNION {BlockEvents(b) : b \in up.client.open} :
     Legal(up.client, ev)}
  \cup {ErrorEvent}

\* The event is whole.
Sent ==
  up' = [up EXCEPT !.client = IF up.ev = ErrorEvent THEN @ ELSE See(@, up.ev),
                   !.text = IF up.ev.kind = "text" THEN @ \o up.ev.text ELSE @,
                   !.blocks = Added(@, up.ev),
                   !.errors = IF up.ev = ErrorEvent THEN 1 ELSE 0,
                   !.sent = @ + 1,
                   !.line = "event"]

Reading == outcome = "reading"

\* eventType is set.
ReadEvent ==
  /\ Reading /\ up.line = "event"
  /\ up.sent < MaxEvents /\ up.errors = 0
  /\ \E ev \in NextEvents :
       /\ up' = [up EXCEPT !.line = "data", !.ev = ev]
       /\ copy' = [copy EXCEPT !.event = ev.type]
  /\ UNCHANGED <<sse, buffer, converted, gathered, outcome>>

ReadData ==
  /\ Reading /\ up.line = "data"
  /\ up' = [up EXCEPT !.line = "empty"]
  /\ copy' = [copy EXCEPT !.data = Append(@, up.ev)]
  /\ UNCHANGED <<sse, buffer, converted, gathered, outcome>>

\* An empty line where no data are: an event without data is none.
ReadEmptyAlone ==
  /\ Reading /\ up.line = "data"
  /\ up' = [up EXCEPT !.line = "event"]
  /\ copy' = NoLines
  /\ UNCHANGED <<sse, buffer, converted, gathered, outcome>>

\* What Stream writes of the event it has read, before the empty line.
Lines == (IF copy.event # NoName THEN <<EventLine(copy.event)>> ELSE <<>>)
           \o [i \in DOMAIN copy.data |-> DataLine(copy.data[i])]

\* Mutant of ReadEmpty: the data lines are kept for the next event.
ReadEmptyKeeps ==
  /\ Reading /\ up.line = "empty"
  /\ Sent
  /\ Write(Append(Lines, EmptyLine))
  /\ copy' = [copy EXCEPT !.event = NoName]
  /\ UNCHANGED outcome

\* The event is written, and forgotten.
ReadEmpty ==
  /\ Reading /\ up.line = "empty"
  /\ Sent
  /\ Write(Append(Lines, EmptyLine))
  /\ copy' = NoLines
  /\ UNCHANGED outcome

-------------------------------------------------------------------------------
(* The end.                                                                    *)

\* Mutant of EndOfBody: the converter's client is given its [DONE] in any case.
EndOfBodyDone ==
  /\ Reading
  /\ outcome' = "nil"
  /\ converted' = [converted EXCEPT !.client = TakeDone(TakeFinish(@, "stop"))]
  /\ UNCHANGED <<up, copy, sse, buffer, gathered>>

\* The body ends, wherever that is: no error.
EndOfBody ==
  /\ Reading
  /\ outcome' = "nil"
  /\ UNCHANGED <<up, copy, sse, buffer, converted, gathered>>

\* Mutant of ReadFails: what there is of an event is not kept back.
ReadFailsWrites ==
  /\ Reading
  /\ outcome' = "error"
  /\ Write(Lines)
  /\ UNCHANGED <<up, copy>>

\* The context is done, the body cannot be read, or a line is longer than the
\* 64 KiB that the scanner takes.
ReadFails ==
  /\ Reading
  /\ outcome' = "error"
  /\ UNCHANGED <<up, copy, sse, buffer, converted, gathered>>

\* lazyStreamWriter.started.
Started == up.sent > 0

\* The router's error event goes past the converter, to the client.
TellError ==
  /\ outcome = "error" /\ Started
  /\ outcome' = "told"
  /\ sse' = FoldLeft(Follow, sse, <<EventLine("error"), DataLine(ErrorEvent), EmptyLine>>)
  /\ UNCHANGED <<up, copy, buffer, converted, gathered>>

CopyNext ==
  \/ ReadEvent \/ ReadData \/ ReadEmptyAlone \/ ReadEmpty
  \/ EndOfBody \/ ReadFails \/ TellError

CopySpec == CopyInit /\ [][CopyNext]_copyVars

-------------------------------------------------------------------------------
\* The blocks sent, of some kinds.
SentOf(kinds) == {b \in DOMAIN up.blocks : up.blocks[b].kind \in kinds}

\* A list of what f has, in the order of f's indexes.
Lists(list, f) ==
  /\ Len(list) = Cardinality(DOMAIN f)
  /\ \A b \in DOMAIN f : list[Cardinality({k \in DOMAIN f : k <= b})] = f[b]

(***************************************************************************)
(* Wherever in an event the body is cut, or fails, each of the three       *)
(* clients has of the events that were sent whole what its format has a    *)
(* place for, in order, no more and no fewer, and nothing of two events    *)
(* run together.  The client that is streamed to: all of every block, of   *)
(* whatever type (anthropic.go:123-176).  The buffered message: every      *)
(* text, thinking and tool_use block with all of its text, thinking or     *)
(* arguments; not the signatures and citations, and not the blocks of      *)
(* other types (sse.go:97-113, 159-186).  The client of chat/completions:  *)
(* all text, every tool call with its arguments, and that there was        *)
(* thinking; nothing else (convert.go:475-575).                            *)
(***************************************************************************)
CopyWhole ==
  /\ sse.client = up.client /\ sse.blocks = up.blocks /\ sse.lines = NoLines
  /\ Lists(ContentBlocks(gathered),
           [b \in SentOf({"text", "thinking", "tool_use"}) |->
              [kind |-> up.blocks[b].kind, call |-> up.blocks[b].call, parts |-> up.blocks[b].parts]])
  /\ ~converted.client.jumbled
  /\ converted.client.text = up.text
  /\ Lists(converted.client.calls,
           [b \in SentOf({"tool_use"}) |-> [id |-> up.blocks[b].call, args |-> up.blocks[b].parts]])
  /\ converted.client.reasoning = \E b \in SentOf({"thinking"}) : up.blocks[b].parts # <<>>

(***************************************************************************)
(* A stream that fails after output began is never passed off as a         *)
(* complete one: the client that is streamed to is told, once more than    *)
(* the upstream itself told it, in an event of its own and in no half of   *)
(* an event that was on its way.  router.go:257-259.                       *)
(***************************************************************************)
LossIsTold ==
  sse.errors = IF outcome = "told" THEN up.errors + 1 ELSE up.errors

(***************************************************************************)
(* Stream reports success for a body that just ends, and the attempt is    *)
(* booked as one (router.go:265-287).  No client is shown an ending for    *)
(* all that: a finish, [DONE] or a stop_reason is there only if the        *)
(* upstream sent it.  anthropic.go:178-182, convert.go:577-614, sse.go:19. *)
(***************************************************************************)
EarlyEndShows ==
  LET ended == up.client.endings = 1
  IN  /\ sse.client.stops = up.client.stops
      /\ (converted.client.finish # "none") = ended
      /\ converted.client.done = (up.client.phase = "stopped")
      /\ (gathered.stop_reason # "none") = ended
===============================================================================

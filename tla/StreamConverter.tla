---------------------------- MODULE StreamConverter ----------------------------
(***************************************************************************)
(* openAIStreamConverter of src/router/convert.go: Anthropic's events, as  *)
(* they are written, become the chunks of an OpenAI-style stream.  Each    *)
(* event comes in one Write, so that lines are never cut; the chunks go to *)
(* a client of OpenAI's API, which is modelled by what it puts together.   *)
(***************************************************************************)
EXTENDS AnthropicStream, Integers, Functions, SequencesExt

\* What a client makes of the chunks so far.  jumbled: one came out of order,
\* or a piece of a tool call that had not begun.
NewClient == [roles |-> 0, text |-> <<>>, reasoning |-> FALSE, calls |-> <<>>, finish |-> "none",
              done |-> FALSE, jumbled |-> FALSE]

\* toolIdx is blockToolIdx, and toolCallCount the size of its domain.
NewConverter == [emittedRole |-> FALSE, toolIdx |-> [b \in {} |-> 0], client |-> NewClient]

-------------------------------------------------------------------------------
(* The chunks, as the client takes them.                                      *)

TakeRole(cl) == [cl EXCEPT !.roles = @ + 1]

Untimely(cl) == cl.roles = 0 \/ cl.finish # "none" \/ cl.done

TakeText(cl, text) == [cl EXCEPT !.text = @ \o text, !.jumbled = @ \/ Untimely(cl)]

TakeReasoning(cl) == [cl EXCEPT !.reasoning = TRUE, !.jumbled = @ \/ Untimely(cl)]

\* The first piece of a tool call has the id; it is to be the next in the array.
TakeCall(cl, idx, id) ==
  [cl EXCEPT !.calls = Append(@, [id |-> id, args |-> <<>>]),
             !.jumbled = @ \/ Untimely(cl) \/ idx # Len(cl.calls)]

TakeArguments(cl, idx, piece) ==
  IF idx + 1 \in DOMAIN cl.calls
  THEN [cl EXCEPT !.calls[idx + 1].args = Append(@, piece), !.jumbled = @ \/ Untimely(cl)]
  ELSE [cl EXCEPT !.jumbled = TRUE]

TakeFinish(cl, reason) == [cl EXCEPT !.finish = reason, !.jumbled = @ \/ Untimely(cl)]

TakeDone(cl) == [cl EXCEPT !.done = TRUE, !.jumbled = @ \/ cl.done \/ cl.finish = "none"]

-------------------------------------------------------------------------------
(* convertEvent, by the event's type.                                         *)

OnMessageStart(c) ==
  IF c.emittedRole THEN c ELSE [c EXCEPT !.emittedRole = TRUE, !.client = TakeRole(@)]

\* Mutant of OnBlockStart: every block counts as a tool call.
OnBlockStartCountsAll(c, ev) ==
  LET idx == Cardinality(DOMAIN c.toolIdx)
  IN  [c EXCEPT !.toolIdx = Put(@, ev.index, idx),
                !.client = IF ev.kind = "tool_use" THEN TakeCall(@, idx, ev.call) ELSE @]

\* A tool_use block is the next tool call; the others are begun by their deltas.
OnBlockStart(c, ev) ==
  LET idx == Cardinality(DOMAIN c.toolIdx)
  IN  IF ev.kind = "tool_use"
      THEN [c EXCEPT !.toolIdx = Put(@, ev.index, idx), !.client = TakeCall(@, idx, ev.call)]
      ELSE c

\* By the type of the delta; pieces of arguments only if a tool_use block has them.
OnBlockDelta(c, ev) ==
  CASE ev.kind = "text"     -> [c EXCEPT !.client = TakeText(@, ev.text)]
    [] ev.kind = "thinking" -> [c EXCEPT !.client = TakeReasoning(@)]
    [] ev.kind = "tool_use" ->
         IF ev.index \in DOMAIN c.toolIdx
         THEN [c EXCEPT !.client = TakeArguments(@, c.toolIdx[ev.index], ev.call)] ELSE c
    [] OTHER -> c

\* finish_reason of the last chunk.
FinishReasonOf(stop_reason) ==
  CASE stop_reason = "max_tokens" -> "length"
    [] stop_reason = "tool_use"   -> "tool_calls"
    [] OTHER                      -> "stop"

ConvertEvent(c, ev) ==
  CASE ev.type = "message_start"       -> OnMessageStart(c)
    [] ev.type = "content_block_start" -> OnBlockStart(c, ev)
    [] ev.type = "content_block_delta" -> OnBlockDelta(c, ev)
    [] ev.type = "message_delta" ->
         [c EXCEPT !.client = TakeFinish(@, FinishReasonOf(ev.stop_reason))]
    [] ev.type = "message_stop"        -> [c EXCEPT !.client = TakeDone(@)]
    [] OTHER -> c
================================================================================

---------------------------- MODULE BufferedMessage ----------------------------
(***************************************************************************)
(* sseBytesToMessage of src/router/sse.go: for a client that did not ask   *)
(* for a stream, the events are buffered and one message is put together   *)
(* from them.  Usage numbers, names and model are left out.  The pieces of *)
(* a tool call's arguments are taken to be JSON together; the code puts {} *)
(* in the place of what is not.                                            *)
(***************************************************************************)
EXTENDS AnthropicStream, Functions, SequencesExt

\* blocks by index, and blockOrder, in which they came.
NoMessage == [started |-> FALSE, blocks |-> [b \in {} |-> 0], order |-> <<>>,
              stop_reason |-> "none"]

BlockOf(ev) ==
  [kind |-> ev.kind, text |-> <<>>, thinking |-> <<>>, call |-> ev.call, args |-> <<>>]

\* What a delta adds to a block, by the type of the delta: that of the block is
\* not looked at.  Of a type that is not known, a signature say, nothing.
Grow(block, ev) ==
  CASE ev.kind = "text"     -> [block EXCEPT !.text = @ \o ev.text]
    [] ev.kind = "thinking" -> [block EXCEPT !.thinking = @ \o ev.text]
    [] ev.kind = "tool_use" -> [block EXCEPT !.args = Append(@, ev.call)]
    [] OTHER                -> block

\* Mutant of GatherDelta: a delta goes to the block that was begun last.
GatherDeltaToLast(m, ev) ==
  IF m.order # <<>> THEN [m EXCEPT !.blocks[Last(m.order)] = Grow(@, ev)] ELSE m

GatherDelta(m, ev) ==
  IF ev.index \in DOMAIN m.blocks THEN [m EXCEPT !.blocks[ev.index] = Grow(@, ev)] ELSE m

Gather(m, ev) ==
  CASE ev.type = "message_start" -> [m EXCEPT !.started = TRUE]
    [] ev.type = "content_block_start" ->
         [m EXCEPT !.blocks = Put(@, ev.index, BlockOf(ev)), !.order = Append(@, ev.index)]
    [] ev.type = "content_block_delta" -> GatherDelta(m, ev)
    [] ev.type = "message_delta" -> [m EXCEPT !.stop_reason = ev.stop_reason]
    [] OTHER -> m

\* sort.Ints: at each place the number that has fewer before it, and with its
\* like no fewer, than places up to there.
Ascending(s) ==
  [i \in DOMAIN s |-> CHOOSE x \in Range(s) :
     /\ Cardinality({j \in DOMAIN s : s[j] < x}) < i
     /\ Cardinality({j \in DOMAIN s : s[j] <= x}) >= i]

\* The block of the answer: the part that fits its type.
ContentOf(block) ==
  [kind  |-> block.kind,
   call  |-> block.call,
   parts |-> CASE block.kind = "text"     -> block.text
               [] block.kind = "thinking" -> block.thinking
               [] block.kind = "tool_use" -> block.args]

\* Blocks of other types are left out.
AddContent(content, block) ==
  IF block.kind \in Kinds THEN Append(content, ContentOf(block)) ELSE content

\* The content of the message: the blocks in ascending order.
ContentBlocks(m) ==
  LET order == Ascending(m.order)
  IN  FoldLeft(AddContent, <<>>, [i \in DOMAIN order |-> m.blocks[order[i]]])
================================================================================

---------------------------- MODULE AnthropicStream ----------------------------
(***************************************************************************)
(* The event stream that everything in the router writes for a client:     *)
(* Anthropic's, of a message made of numbered content blocks.  Here is how *)
(* a client follows it, and which events it can make sense of.             *)
(***************************************************************************)
EXTENDS Naturals, Sequences

EventTypes == {"message_start", "content_block_start", "content_block_delta",
               "content_block_stop", "message_delta", "message_stop"}

\* The kinds of blocks that the router knows, and of the deltas that fill them.
Kinds       == {"text", "thinking", "tool_use"}
StopReasons == {"end_turn", "max_tokens", "tool_use", "stop_sequence"}

\* An event of the message as a whole, its ending, and an event of a block.
\* text: what a delta of a text block adds; call: which of the upstream's tool
\* calls a tool_use block, or a piece of its arguments, comes from.
Plain(type) == [type |-> type, index |-> 0, kind |-> "none", text |-> <<>>, call |-> 0,
                stop_reason |-> "none"]
MessageDelta(reason)     == [Plain("message_delta") EXCEPT !.stop_reason = reason]
Block(type, index, kind) == [Plain(type) EXCEPT !.index = index, !.kind = kind]
TextDelta(index, text)   == [Block("content_block_delta", index, "text") EXCEPT !.text = text]
ToolUse(type, index, call) == [Block(type, index, "tool_use") EXCEPT !.call = call]

\* What a map is after an assignment.
Put(map, index, value) ==
  [i \in DOMAIN map \cup {index} |-> IF i = index THEN value ELSE map[i]]

Events(Letter) ==
  [type: EventTypes, index: Nat, kind: Kinds \cup {"none"}, text: Seq(Letter), call: Nat,
   stop_reason: StopReasons \cup {"none"}]

\* What a client knows: where the message stands, which blocks are open, how
\* many were started, and which types of event came out of place.
Phases == {"none", "content", "ending", "stopped"}

ClientType == [phase: Phases, open: SUBSET Nat, next: Nat, illegal: SUBSET EventTypes,
               endings: Nat, stops: Nat]

Fresh == [phase |-> "none", open |-> {}, next |-> 0, illegal |-> {}, endings |-> 0, stops |-> 0]

Legal(c, ev) ==
  CASE ev.type = "message_start"       -> c.phase = "none"
    [] ev.type = "content_block_start" -> c.phase = "content" /\ ev.index = c.next
    [] ev.type \in {"content_block_delta", "content_block_stop"} ->
         c.phase = "content" /\ ev.index \in c.open
    [] ev.type = "message_delta"       -> c.phase = "content" /\ c.open = {}
    [] ev.type = "message_stop"        -> c.phase = "ending"

\* The client goes on after an event that is out of place.
See(c, ev) ==
  [phase   |-> CASE ev.type = "message_start" -> "content"
                 [] ev.type = "message_delta" -> "ending"
                 [] ev.type = "message_stop"  -> "stopped"
                 [] OTHER -> c.phase,
   open    |-> CASE ev.type = "content_block_start" -> c.open \cup {ev.index}
                 [] ev.type = "content_block_stop"  -> c.open \ {ev.index}
                 [] OTHER -> c.open,
   next    |-> IF ev.type = "content_block_start" THEN c.next + 1 ELSE c.next,
   illegal |-> IF Legal(c, ev) THEN c.illegal ELSE c.illegal \cup {ev.type},
   endings |-> IF ev.type = "message_delta" THEN c.endings + 1 ELSE c.endings,
   stops   |-> IF ev.type = "message_stop" THEN c.stops + 1 ELSE c.stops]
================================================================================

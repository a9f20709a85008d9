----------------------------- MODULE OpenAIStream -----------------------------
(***************************************************************************)
(* How OpenAIProvider.stream (src/providers/openai.go) turns the chunks of *)
(* an OpenAI-style upstream into Anthropic's events, from a 200 on.  One   *)
(* action is one turn of the scanner's loop, with all the events that it   *)
(* writes, or the end of it.  Lines that are no chunk, and chunks without  *)
(* choices, write nothing and are left out.                                *)
(***************************************************************************)
EXTENDS ThinkFilter, AnthropicStream, Integers

CONSTANTS
  Chunks,           \* the deltas an upstream sends: see ChunkType
  MaxChunks         \* bound on how many it sends

\* reasoning: a reasoning field that is not empty; tools: its tool calls, each
\* with any number for an index, and with or without a piece of its arguments;
\* finish: its finish_reason.
FinishReasons == {"stop", "length", "tool_calls", "content_filter", "other"}

ChunkType == [reasoning: BOOLEAN, tools: Seq([index: Int, args: BOOLEAN]),
              content: Seq(Letters), finish: FinishReasons \cup {"none"}]

ASSUME ChunkAssumption == Chunks \subseteq ChunkType /\ MaxChunks \in Nat

NotOpened == -1
Closed    == -2

VARIABLES
  st,               \* stream's variables, what a turn wrote, and what the client has seen
  result,           \* "running", what Stream returned: "nil", "error", or "panic"
  fed,              \* ghost: the content that came before the finish
  rude,             \* ghost: the upstream did not end as OpenAI's API does
  chunks            \* how many chunks came

vars == <<st, result, fed, rude, chunks>>

Init ==
  /\ st = [started |-> FALSE, ended |-> FALSE, next |-> 0,
           thinking |-> NotOpened, text |-> NotOpened, slots |-> <<>>,
           inThink |-> FALSE, partial |-> <<>>, told |-> <<>>, wrote |-> <<>>,
           client |-> Fresh]
  /\ result = "running"
  /\ fed = <<>>
  /\ rude = FALSE
  /\ chunks = 0

-------------------------------------------------------------------------------
(* What a turn of the loop is made of: from s to what s becomes.              *)

Emit(s, ev) == [s EXCEPT !.client = See(@, ev), !.wrote = Append(@, ev)]

\* Where a turn begins: nothing is written yet.
Quiet(s) == [s EXCEPT !.wrote = <<>>]

StartMessage(s) ==
  IF s.started THEN s ELSE Emit([s EXCEPT !.started = TRUE], Plain("message_start"))

\* The block gets the number s.next.
OpenBlock(s, kind) ==
  Emit([s EXCEPT !.next = @ + 1], Block("content_block_start", s.next, kind))

CloseThinkingBlock(s) ==
  IF s.thinking >= 0
  THEN Emit([s EXCEPT !.thinking = Closed], Block("content_block_stop", s.thinking, "thinking"))
  ELSE s

\* Thinking that comes after its block was closed is dropped.
EmitThinkingDelta(s, some) ==
  LET t == IF some /\ s.thinking = NotOpened
           THEN [OpenBlock(s, "thinking") EXCEPT !.thinking = s.next] ELSE s
  IN  IF some /\ t.thinking >= 0
      THEN Emit(t, Block("content_block_delta", t.thinking, "thinking")) ELSE t

\* Mutant of EmitTextDelta: the chunk that opens the block is not written.
EmitTextDeltaOpensOnly(s, content) ==
  LET c == CloseThinkingBlock(s)
  IN  IF content = <<>> \/ s.text = Closed THEN s
      ELSE IF s.text = NotOpened THEN [OpenBlock(c, "text") EXCEPT !.text = c.next]
      ELSE Emit([s EXCEPT !.told = @ \o content], TextDelta(s.text, content))

EmitTextDelta(s, content) ==
  LET c == CloseThinkingBlock(s)
      t == IF s.text = NotOpened THEN [OpenBlock(c, "text") EXCEPT !.text = c.next] ELSE s
  IN  IF content = <<>> \/ s.text = Closed THEN s
      ELSE Emit([t EXCEPT !.told = @ \o content], TextDelta(t.text, content))

\* The slot of a tool call, which its first piece opens a block for.
SlotOf(s, call) ==
  LET more  == call.index + 1 - Len(s.slots)
      slots == IF more > 0 THEN s.slots \o [i \in 1..more |-> NotOpened] ELSE s.slots
      c     == CloseThinkingBlock(s)
  IN  IF slots[call.index + 1] # NotOpened THEN [s EXCEPT !.slots = slots]
      ELSE Emit([c EXCEPT !.next = @ + 1, !.slots = [slots EXCEPT ![call.index + 1] = c.next]],
                ToolUse("content_block_start", c.next, call.index))

\* Mutant of ToolCall: the upstream's index is taken for the block's.
ToolCallAtIndex(s, call) ==
  LET t == SlotOf(s, call)
  IN  IF call.args
      THEN Emit(t, ToolUse("content_block_delta", call.index, call.index)) ELSE t

ToolCall(s, call) ==
  LET t == SlotOf(s, call)
  IN  IF call.args
      THEN Emit(t, ToolUse("content_block_delta", t.slots[call.index + 1], call.index)) ELSE t

ToolCalls(s, calls) == FoldLeft(ToolCall, s, calls)

Content(s, content) ==
  LET p == Process[s.partial \o content][s.inThink]
      t == [s EXCEPT !.inThink = p.inThink, !.partial = p.partial]
  IN  IF content = <<>> THEN s
      ELSE EmitTextDelta(EmitThinkingDelta(t, p.think # <<>>), p.text)

\* A tag that was begun and not finished is content after all.
Flush(s) ==
  LET t == [s EXCEPT !.partial = <<>>]
  IN  IF s.inThink THEN EmitThinkingDelta(t, s.partial # <<>>)
      ELSE EmitTextDelta(t, s.partial)

CloseSlot(s, block) ==
  IF block >= 0 THEN Emit(s, Block("content_block_stop", block, "tool_use")) ELSE s

\* Mutant of CloseSlots: the slots are marked closed, as the other blocks are.
CloseSlotsMarked(s) ==
  [FoldLeft(CloseSlot, s, s.slots) EXCEPT !.slots = [i \in DOMAIN @ |-> Closed]]

\* The slots keep their blocks, closed though they are.
CloseSlots(s) == FoldLeft(CloseSlot, s, s.slots)

CloseTextBlock(s) ==
  IF s.text >= 0
  THEN Emit([s EXCEPT !.text = Closed], Block("content_block_stop", s.text, "text")) ELSE s

MapFinishReason(reason) ==
  CASE reason = "length"         -> "max_tokens"
    [] reason = "tool_calls"     -> "tool_use"
    [] reason = "content_filter" -> "stop_sequence"
    [] OTHER                     -> "end_turn"

\* Mutant of Finish: finish_reason is taken as often as it comes.
FinishAgain(s, reason) ==
  Emit(CloseTextBlock(CloseSlots(CloseThinkingBlock(Flush([s EXCEPT !.ended = TRUE])))),
       MessageDelta(MapFinishReason(reason)))

\* Mutant of Finish: the thinking block is left open, for the text to close.
FinishThinking(s, reason) ==
  IF s.ended THEN s
  ELSE Emit(CloseTextBlock(CloseSlots(Flush([s EXCEPT !.ended = TRUE]))),
            MessageDelta(MapFinishReason(reason)))

Finish(s, reason) ==
  IF s.ended THEN s
  ELSE Emit(CloseTextBlock(CloseSlots(CloseThinkingBlock(Flush([s EXCEPT !.ended = TRUE])))),
            MessageDelta(MapFinishReason(reason)))

Turn(s, c) ==
  LET delta == Content(ToolCalls(EmitThinkingDelta(StartMessage(s), c.reasoning), c.tools),
                       c.content)
  IN  IF c.finish # "none" THEN Finish(delta, c.finish) ELSE delta

-------------------------------------------------------------------------------
HasDelta(c) == c.reasoning \/ c.tools # <<>> \/ c.content # <<>>

\* The calls of a chunk that have no place in toolCallSlots: to look for it there
\* is a panic, in the middle of the chunk.
Misplaced(c) == {k \in DOMAIN c.tools : c.tools[k].index < 0}

\* What of a chunk is dealt with.
Handled(c) ==
  IF Misplaced(c) = {} THEN c
  ELSE [c EXCEPT !.tools = SubSeq(@, 1, Min(Misplaced(c)) - 1), !.content = <<>>, !.finish = "none"]

Chunk(c) ==
  /\ result = "running"
  /\ chunks < MaxChunks
  /\ chunks' = chunks + 1
  /\ st' = Turn(Quiet(st), Handled(c))
  /\ fed' = IF st.ended THEN fed ELSE fed \o Handled(c).content
  /\ rude' = (rude \/ (st.ended /\ HasDelta(c)))
  /\ result' = IF Misplaced(c) = {} THEN "running" ELSE "panic"

\* "[DONE]"
Done ==
  /\ result = "running"
  /\ st' = Emit(Quiet(st), Plain("message_stop"))
  /\ result' = "nil"
  /\ rude' = (rude \/ ~st.ended)
  /\ UNCHANGED <<fed, chunks>>

\* Mutant of CloseWithoutDone: [DONE] is waited for.
CloseWithoutStop ==
  /\ result = "running"
  /\ result' = IF st.started /\ ~st.ended THEN "error" ELSE "nil"
  /\ st' = Quiet(st)
  /\ UNCHANGED <<fed, rude, chunks>>

\* The body ends.  After a finish_reason that is as good as [DONE]; after
\* nothing at all, no error either.
CloseWithoutDone ==
  /\ result = "running"
  /\ st' = IF st.ended THEN Emit(Quiet(st), Plain("message_stop")) ELSE Quiet(st)
  /\ result' = IF st.started /\ ~st.ended THEN "error" ELSE "nil"
  /\ UNCHANGED <<fed, rude, chunks>>

\* The context is done, or the body cannot be read.
Break ==
  /\ result = "running"
  /\ result' = "error"
  /\ st' = Quiet(st)
  /\ UNCHANGED <<fed, rude, chunks>>

Next == (\E c \in Chunks : Chunk(c)) \/ Done \/ CloseWithoutDone \/ Break

Spec == Init /\ [][Next]_vars

-------------------------------------------------------------------------------
BlockState == Nat \cup {NotOpened, Closed}

\* Every variable has its type.
TypeOK ==
  /\ st \in [started: BOOLEAN, ended: BOOLEAN, next: Nat, thinking: BlockState,
             text: BlockState, slots: Seq(Nat \cup {NotOpened}), inThink: BOOLEAN,
             partial: Seq(Letters), told: Seq(Letters), wrote: Seq(Events(Letters)), client: ClientType]
  /\ result \in {"running", "nil", "error", "panic"}
  /\ fed \in Seq(Letters)
  /\ rude \in BOOLEAN
  /\ chunks \in Nat

(***************************************************************************)
(* The translation is a stream a client can follow, whatever mix and order *)
(* of reasoning, text, tags and tool calls the chunks have: blocks are     *)
(* numbered as they start, a delta comes to an open block, every block is  *)
(* closed before the message ends.  Of an upstream that sends no delta     *)
(* after its finish_reason and no [DONE] before it.  openai.go:523-770.    *)
(***************************************************************************)
WellFormed == ~rude => st.client.illegal = {}

(***************************************************************************)
(* However often and late an upstream sends a finish_reason or [DONE], the *)
(* client hears one end of the message ("prevents duplicate finish         *)
(* events", openai.go:526).                                                *)
(***************************************************************************)
OneEnding == st.client.endings <= 1 /\ st.client.stops <= 1

(***************************************************************************)
(* What Stream returns fits what it wrote: no error, and so no retry and   *)
(* no error event by the router, exactly if the client got message_stop,   *)
(* or nothing; nor has it if the turn panicked.  openai.go:678-770.        *)
(***************************************************************************)
ResultFitsStream ==
  /\ result = "nil" => st.client.stops = 1 \/ st.client = Fresh
  /\ result \in {"error", "panic"} => st.client.stops = 0

(***************************************************************************)
(* No letter of the text is lost, doubled or taken for thinking, however   *)
(* the upstream cuts it into chunks, and what is held back, in case it is  *)
(* a tag, comes out at the finish.  openai.go:384-435, 700-724.            *)
(***************************************************************************)
TextIntact ==
  ~rude => st.told = Meaning[SubSeq(fed, 1, Len(fed) - Len(st.partial))][FALSE].text
===============================================================================

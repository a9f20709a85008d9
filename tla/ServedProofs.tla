----------------------------- MODULE ServedProofs -----------------------------
(***************************************************************************)
(* Proofs about what the clients of an OpenAI-style upstream have of it,   *)
(* for any letters, any number of chunks and tool calls: what the          *)
(* converter (src/router/convert.go) and sseBytesToMessage                 *)
(* (src/router/sse.go) make of the events that OpenAIProvider.stream       *)
(* (src/providers/openai.go) has written.                                  *)
(***************************************************************************)
EXTENDS StreamProofs

-------------------------------------------------------------------------------
(* The clients of an OpenAI-style upstream: what OpenAIProvider.stream writes *)
(* is put together twice, as a message and as an OpenAI client's answer.      *)

(* The message, with blocks 0 to n - 1.                                       *)

MessageBlocks ==
  [kind: Kinds, text: Seq(Letters), thinking: Seq(Letters), call: Nat, args: Seq(Nat)]

BufferedMessages(n) ==
  [started: BOOLEAN, blocks: [0..n - 1 -> MessageBlocks], order: Seq(Nat),
   stop_reason: StopReasons \cup {"none"}]

\* What a message keeps when its blocks change, and when they do not.
SameRest(m, d)   == d.started = m.started /\ d.stop_reason = m.stop_reason
SameBlocksOf(m, d) == d.blocks = m.blocks /\ d.order = m.order

\* A block that begins, and one that grows.
LEMMA FirstOfBlock ==
  ASSUME NEW ev \in Events(Letters), ev.kind \in Kinds
  PROVE  LET b == BlockOf(ev) IN
         /\ b \in MessageBlocks /\ b.kind = ev.kind /\ b.text = <<>> /\ b.call = ev.call
         /\ b.args = <<>>
<1>1. ev.call \in Nat /\ <<>> \in Seq(Letters) /\ <<>> \in Seq(Nat)
  BY DEF Events
<1> QED BY <1>1 DEF BlockOf, MessageBlocks

LEMMA MoreText ==
  ASSUME NEW b \in MessageBlocks, NEW ev \in Events(Letters), ev.kind = "text"
  PROVE  LET g == Grow(b, ev) IN
         /\ g \in MessageBlocks /\ g.kind = b.kind /\ g.text = b.text \o ev.text /\ g.call = b.call
         /\ g.args = b.args
<1> DEFINE x == b.text \o ev.text
<1>1. b.text \in Seq(Letters) /\ ev.text \in Seq(Letters)
  BY DEF MessageBlocks, Events
<1>2. x \in Seq(Letters)
  BY <1>1
<1>3. Grow(b, ev) = [b EXCEPT !.text = x]
  BY DEF Grow
<1> HIDE DEF x
<1>4. LET g == [b EXCEPT !.text = x] IN
      /\ g \in MessageBlocks /\ g.kind = b.kind /\ g.text = x /\ g.call = b.call /\ g.args = b.args
  BY <1>2 DEF MessageBlocks
<1> QED BY <1>3, <1>4 DEF x

LEMMA MoreArguments ==
  ASSUME NEW b \in MessageBlocks, NEW ev \in Events(Letters), ev.kind = "tool_use"
  PROVE  LET g == Grow(b, ev) IN
         /\ g \in MessageBlocks /\ g.kind = b.kind /\ g.text = b.text /\ g.call = b.call
         /\ g.args = Append(b.args, ev.call)
<1> DEFINE x == Append(b.args, ev.call)
<1>1. b.args \in Seq(Nat) /\ ev.call \in Nat
  BY DEF MessageBlocks, Events
<1>2. x \in Seq(Nat)
  BY <1>1
<1>3. Grow(b, ev) = [b EXCEPT !.args = x]
  BY DEF Grow
<1> HIDE DEF x
<1>4. LET g == [b EXCEPT !.args = x] IN
      /\ g \in MessageBlocks /\ g.kind = b.kind /\ g.text = b.text /\ g.call = b.call /\ g.args = x
  BY <1>2 DEF MessageBlocks
<1> QED BY <1>3, <1>4 DEF x

\* What sseBytesToMessage makes of an event, by its type.
LEMMA GatherStart ==
  ASSUME NEW n \in Nat, NEW m \in BufferedMessages(n), NEW ev, ev.type = "message_start"
  PROVE  LET d == Gather(m, ev) IN
         /\ d \in BufferedMessages(n) /\ SameBlocksOf(m, d) /\ d.started = TRUE
         /\ d.stop_reason = m.stop_reason
<1>1. Gather(m, ev) = [m EXCEPT !.started = TRUE]
  BY DEF Gather
<1> QED BY <1>1 DEF BufferedMessages, SameBlocksOf

LEMMA GatherEnding ==
  ASSUME NEW n \in Nat, NEW m \in BufferedMessages(n), NEW ev, ev.type = "message_delta",
         ev.stop_reason \in StopReasons
  PROVE  LET d == Gather(m, ev) IN
         /\ d \in BufferedMessages(n) /\ SameBlocksOf(m, d) /\ d.started = m.started
         /\ d.stop_reason = ev.stop_reason /\ d.stop_reason # "none"
<1>1. Gather(m, ev) = [m EXCEPT !.stop_reason = ev.stop_reason]
  BY DEF Gather
<1>2. ev.stop_reason # "none"
  BY DEF StopReasons
<1> QED BY <1>1, <1>2 DEF BufferedMessages, SameBlocksOf

LEMMA GatherSilent ==
  ASSUME NEW m, NEW ev, ev.type \in {"content_block_stop", "message_stop"}
  PROVE  Gather(m, ev) = m
BY DEF Gather

LEMMA GatherOpening ==
  ASSUME NEW n \in Nat, NEW m \in BufferedMessages(n), m.order = [i \in 1..n |-> i - 1],
         NEW ev \in Events(Letters),
         ev.type = "content_block_start", ev.index = n, ev.kind \in Kinds
  PROVE  LET d == Gather(m, ev) IN
         /\ d \in BufferedMessages(n + 1) /\ SameRest(m, d)
         /\ d.order = [i \in 1..n + 1 |-> i - 1]
         /\ \A i \in 0..n - 1 : d.blocks[i] = m.blocks[i]
         /\ d.blocks[n] = BlockOf(ev)
<1> DEFINE d == Gather(m, ev)
           b == BlockOf(ev)
           f == Put(m.blocks, n, b)
           o == Append(m.order, n)
<1>1. b \in MessageBlocks
  BY FirstOfBlock
<1>2. d = [m EXCEPT !.blocks = f, !.order = o]
  BY DEF Gather
<1>3. m.blocks \in [0..n - 1 -> MessageBlocks]
  BY DEF BufferedMessages
<1> HIDE DEF b
<1>4. 0..(n + 1) - 1 = (0..n - 1) \cup {n} /\ n \notin 0..n - 1
  OBVIOUS
<1>5. f \in [(0..n - 1) \cup {n} -> MessageBlocks]
      /\ \A i \in (0..n - 1) \cup {n} : f[i] = IF i = n THEN b ELSE m.blocks[i]
  BY <1>1, <1>3 DEF Put
<1>6. o \in Seq(Nat) /\ o = [i \in 1..n + 1 |-> i - 1]
  <2> DEFINE q == [i \in 1..n |-> i - 1]
             r == [i \in 1..n + 1 |-> i - 1]
             p == Append(q, n)
  <2>1. q \in Seq(Nat) /\ Len(q) = n /\ \A i \in 1..n : q[i] = i - 1
    OBVIOUS
  <2>2. r \in Seq(Nat) /\ Len(r) = n + 1 /\ \A i \in 1..n + 1 : r[i] = i - 1
    OBVIOUS
  <2> HIDE DEF q, r
  <2>3. p \in Seq(Nat) /\ Len(p) = n + 1 /\ (\A i \in 1..n : p[i] = q[i]) /\ p[n + 1] = n
    BY <2>1
  <2> HIDE DEF p
  <2>4. ASSUME NEW i \in 1..n + 1 PROVE p[i] = r[i]
    <3>1. i \in 1..n \/ i = n + 1
      OBVIOUS
    <3> QED BY <3>1, <2>1, <2>2, <2>3
  <2>5. p = r
    BY <2>2, <2>3, <2>4, EqualSeqs
  <2> QED BY <2>2, <2>5 DEF p, q, r
<1> HIDE DEF f, o
<1>7. d \in BufferedMessages(n + 1) /\ d.blocks = f /\ d.order = o /\ SameRest(m, d)
  BY <1>2, <1>4, <1>5, <1>6 DEF BufferedMessages, SameRest
<1> QED BY <1>4, <1>5, <1>6, <1>7 DEF b

LEMMA GatherGrowing ==
  ASSUME NEW n \in Nat, NEW m \in BufferedMessages(n), NEW ev \in Events(Letters),
         ev.type = "content_block_delta", ev.index \in 0..n - 1,
         Grow(m.blocks[ev.index], ev) \in MessageBlocks
  PROVE  LET d == Gather(m, ev) IN
         /\ d \in BufferedMessages(n) /\ SameRest(m, d) /\ d.order = m.order
         /\ \A i \in 0..n - 1 : i # ev.index => d.blocks[i] = m.blocks[i]
         /\ d.blocks[ev.index] = Grow(m.blocks[ev.index], ev)
<1> DEFINE d == Gather(m, ev)
           k == ev.index
           g == Grow(m.blocks[k], ev)
<1>1. m.blocks \in [0..n - 1 -> MessageBlocks] /\ DOMAIN m.blocks = 0..n - 1
  BY DEF BufferedMessages
<1>2. d = [m EXCEPT !.blocks = [m.blocks EXCEPT ![k] = g]]
  <2> DEFINE h(a, j) == [a EXCEPT !.blocks[j] = Grow(@, ev)]
  <2>1. ASSUME NEW a, NEW j PROVE h(a, j) = [a EXCEPT !.blocks = [a.blocks EXCEPT ![j] = Grow(a.blocks[j], ev)]]
    OBVIOUS
  <2>2. d = h(m, k)
    BY <1>1 DEF Gather, GatherDelta
  <2> HIDE DEF h
  <2> QED BY <2>1, <2>2
<1> DEFINE f == [m.blocks EXCEPT ![k] = g]
<1> HIDE DEF g, k
<1>3. k \in 0..n - 1 /\ g \in MessageBlocks
  BY DEF k, g
<1>4. f \in [0..n - 1 -> MessageBlocks] /\ \A i \in 0..n - 1 : f[i] = IF i = k THEN g ELSE m.blocks[i]
  BY <1>1, <1>3
<1> HIDE DEF f
<1>5. d \in BufferedMessages(n) /\ SameRest(m, d) /\ d.order = m.order /\ d.blocks = f
  BY <1>2, <1>4 DEF BufferedMessages, SameRest, f
<1> QED BY <1>3, <1>4, <1>5 DEF k, g

-------------------------------------------------------------------------------
(* The converter, and the client of OpenAI's API behind it.                   *)

ToolCallsMade == Seq([id: Nat, args: Seq(Nat)])

ChatClients ==
  [roles: Nat, text: Seq(Letters), reasoning: BOOLEAN, calls: ToolCallsMade,
   finish: {"none", "stop", "length", "tool_calls"}, done: BOOLEAN, jumbled: BOOLEAN]

\* The message has begun and not ended.
InTime(cl) == cl.roles = 1 /\ cl.finish = "none" /\ cl.done = FALSE /\ cl.jumbled = FALSE

\* What a chunk that is in time leaves alone.
StillInTime(cl, d) == d \in ChatClients /\ InTime(d)

LEMMA ChatRole ==
  ASSUME NEW cl \in ChatClients, cl.roles = 0
  PROVE  LET d == TakeRole(cl) IN
         /\ d \in ChatClients /\ d.roles = 1 /\ d.text = cl.text /\ d.calls = cl.calls
         /\ d.finish = cl.finish /\ d.done = cl.done /\ d.jumbled = cl.jumbled
<1>1. TakeRole(cl) = [cl EXCEPT !.roles = 1]
  BY DEF TakeRole
<1> QED BY <1>1 DEF ChatClients

LEMMA ChatText ==
  ASSUME NEW cl \in ChatClients, InTime(cl), NEW text \in Seq(Letters)
  PROVE  LET d == TakeText(cl, text) IN
         StillInTime(cl, d) /\ d.text = cl.text \o text /\ d.calls = cl.calls
<1> DEFINE x == cl.text \o text
<1>1. x \in Seq(Letters)
  BY DEF ChatClients
<1>2. (cl.jumbled \/ Untimely(cl)) = FALSE
  BY DEF Untimely, InTime
<1>3. TakeText(cl, text) = [cl EXCEPT !.text = x, !.jumbled = FALSE]
  BY <1>2 DEF TakeText
<1> HIDE DEF x
<1>4. LET d == [cl EXCEPT !.text = x, !.jumbled = FALSE] IN
      StillInTime(cl, d) /\ d.text = x /\ d.calls = cl.calls
  BY <1>1 DEF ChatClients, StillInTime, InTime
<1> QED BY <1>3, <1>4 DEF x

LEMMA ChatReasoning ==
  ASSUME NEW cl \in ChatClients, InTime(cl)
  PROVE  LET d == TakeReasoning(cl) IN
         StillInTime(cl, d) /\ d.text = cl.text /\ d.calls = cl.calls
<1>2. (cl.jumbled \/ Untimely(cl)) = FALSE
  BY DEF Untimely, InTime
<1>3. TakeReasoning(cl) = [cl EXCEPT !.reasoning = TRUE, !.jumbled = FALSE]
  BY <1>2 DEF TakeReasoning
<1> QED BY <1>3 DEF ChatClients, StillInTime, InTime

LEMMA ChatCall ==
  ASSUME NEW cl \in ChatClients, InTime(cl), NEW id \in Nat
  PROVE  LET d == TakeCall(cl, Len(cl.calls), id) IN
         /\ StillInTime(cl, d) /\ d.text = cl.text
         /\ d.calls = Append(cl.calls, [id |-> id, args |-> <<>>])
<1> DEFINE x == Append(cl.calls, [id |-> id, args |-> <<>>])
<1>1. x \in ToolCallsMade
  <2> DEFINE C == [id: Nat, args: Seq(Nat)]
             r == [id |-> id, args |-> <<>>]
  <2>1. <<>> \in Seq(Nat)
    OBVIOUS
  <2>2. r \in C /\ cl.calls \in Seq(C)
    BY <2>1 DEF ChatClients, ToolCallsMade
  <2> HIDE DEF C, r
  <2>3. Append(cl.calls, r) \in Seq(C)
    BY <2>2
  <2> QED BY <2>3 DEF ToolCallsMade, C, r
<1>2. (cl.jumbled \/ Untimely(cl) \/ Len(cl.calls) # Len(cl.calls)) = FALSE
  BY DEF Untimely, InTime
<1>3. TakeCall(cl, Len(cl.calls), id) = [cl EXCEPT !.calls = x, !.jumbled = FALSE]
  BY <1>2 DEF TakeCall
<1> HIDE DEF x
<1>4. LET d == [cl EXCEPT !.calls = x, !.jumbled = FALSE] IN
      StillInTime(cl, d) /\ d.text = cl.text /\ d.calls = x
  BY <1>1 DEF ChatClients, StillInTime, InTime
<1> QED BY <1>3, <1>4 DEF x

\* One piece more of one call.
LEMMA OnePiece ==
  ASSUME NEW calls \in ToolCallsMade, NEW k \in 1..Len(calls), NEW piece \in Nat
  PROVE  LET x == [calls EXCEPT ![k].args = Append(@, piece)] IN
         /\ x \in ToolCallsMade /\ Len(x) = Len(calls)
         /\ \A j \in 1..Len(calls) : j # k => x[j] = calls[j]
         /\ x[k] = [id |-> calls[k].id, args |-> Append(calls[k].args, piece)]
<1> DEFINE C == [id: Nat, args: Seq(Nat)]
           x == [calls EXCEPT ![k].args = Append(@, piece)]
           r == calls[k]
           y == Append(r.args, piece)
           v == [r EXCEPT !.args = y]
<1>0. calls \in Seq(C)
  BY DEF ToolCallsMade
<1>1. r \in C
  BY <1>0, ElementOfSeq
<1>2. y \in Seq(Nat)
  BY <1>1
<1>3. v \in C /\ v = [id |-> r.id, args |-> y]
  <2> HIDE DEF y, r
  <2> QED BY <1>1, <1>2
<1>4. x = [calls EXCEPT ![k] = v]
  <2> DEFINE g(a, j, p) == [a EXCEPT ![j].args = Append(@, p)]
  <2>1. ASSUME NEW a, NEW j, NEW p
        PROVE  g(a, j, p) = [a EXCEPT ![j] = [a[j] EXCEPT !.args = Append(a[j].args, p)]]
    OBVIOUS
  <2>2. x = g(calls, k, piece)
    OBVIOUS
  <2> HIDE DEF g, x
  <2> QED BY <2>1, <2>2
<1>5. calls \in [1..Len(calls) -> C] /\ Len(calls) \in Nat
  <2> HIDE DEF C
  <2> QED BY <1>0
<1> DEFINE n == Len(calls)
<1>6. n \in Nat /\ calls \in [1..n -> C] /\ k \in 1..n
  BY <1>5
<1> HIDE DEF v, x, C, r, y, n
<1>7. x \in [1..n -> C] /\ x[k] = v /\ \A j \in 1..n : j # k => x[j] = calls[j]
  BY <1>3, <1>4, <1>6
<1>8. x \in Seq(C) /\ Len(x) = n
  BY <1>6, <1>7
<1> QED BY <1>3, <1>7, <1>8 DEF x, C, n, r, y, ToolCallsMade

LEMMA ChatArguments ==
  ASSUME NEW cl \in ChatClients, InTime(cl), NEW idx \in Nat, idx < Len(cl.calls), NEW piece \in Nat
  PROVE  LET d == TakeArguments(cl, idx, piece) IN
         /\ StillInTime(cl, d) /\ d.text = cl.text /\ Len(d.calls) = Len(cl.calls)
         /\ \A j \in 1..Len(cl.calls) : j # idx + 1 => d.calls[j] = cl.calls[j]
         /\ d.calls[idx + 1] = [id |-> cl.calls[idx + 1].id, args |-> Append(cl.calls[idx + 1].args, piece)]
<1> DEFINE x == [cl.calls EXCEPT ![idx + 1].args = Append(@, piece)]
<1>1. cl.calls \in ToolCallsMade
  BY DEF ChatClients
<1>2. idx + 1 \in 1..Len(cl.calls) /\ DOMAIN cl.calls = 1..Len(cl.calls)
  BY <1>1 DEF ToolCallsMade
<1>3. /\ x \in ToolCallsMade /\ Len(x) = Len(cl.calls)
      /\ \A j \in 1..Len(cl.calls) : j # idx + 1 => x[j] = cl.calls[j]
      /\ x[idx + 1] = [id |-> cl.calls[idx + 1].id, args |-> Append(cl.calls[idx + 1].args, piece)]
  BY <1>1, <1>2, OnePiece
<1>4. (cl.jumbled \/ Untimely(cl)) = FALSE
  BY DEF Untimely, InTime
<1>5. TakeArguments(cl, idx, piece) = [cl EXCEPT !.calls = x, !.jumbled = FALSE]
  <2>1. TakeArguments(cl, idx, piece) =
          [cl EXCEPT !.calls[idx + 1].args = Append(@, piece), !.jumbled = FALSE]
    BY <1>2, <1>4 DEF TakeArguments
  <2>2. cl.calls = [cl EXCEPT !.jumbled = FALSE].calls
    BY DEF ChatClients
  <2> QED BY <2>1 DEF ChatClients
<1> HIDE DEF x
<1>6. LET d == [cl EXCEPT !.calls = x, !.jumbled = FALSE] IN
      StillInTime(cl, d) /\ d.text = cl.text /\ d.calls = x
  BY <1>3 DEF ChatClients, StillInTime, InTime
<1> QED BY <1>3, <1>5, <1>6

LEMMA ChatFinish ==
  ASSUME NEW cl \in ChatClients, InTime(cl), NEW reason
  PROVE  LET d == TakeFinish(cl, FinishReasonOf(reason)) IN
         /\ d \in ChatClients /\ d.roles = 1 /\ d.text = cl.text /\ d.calls = cl.calls
         /\ d.finish # "none" /\ d.done = FALSE /\ d.jumbled = FALSE
<1> DEFINE f == FinishReasonOf(reason)
<1>1. (cl.jumbled \/ Untimely(cl)) = FALSE
  BY DEF Untimely, InTime
<1>2. TakeFinish(cl, f) = [cl EXCEPT !.finish = f, !.jumbled = FALSE]
  BY <1>1 DEF TakeFinish
<1>3. f \in {"stop", "length", "tool_calls"}
  BY DEF FinishReasonOf
<1> HIDE DEF f
<1>4. LET d == [cl EXCEPT !.finish = f, !.jumbled = FALSE] IN
         /\ d \in ChatClients /\ d.roles = 1 /\ d.text = cl.text /\ d.calls = cl.calls
         /\ d.finish = f /\ d.done = FALSE /\ d.jumbled = FALSE
  BY <1>3 DEF ChatClients, InTime
<1> QED BY <1>2, <1>3, <1>4 DEF f

LEMMA ChatDone ==
  ASSUME NEW cl \in ChatClients, cl.done = FALSE, cl.jumbled = FALSE, cl.finish # "none"
  PROVE  LET d == TakeDone(cl) IN
         /\ d \in ChatClients /\ d.roles = cl.roles /\ d.text = cl.text /\ d.calls = cl.calls
         /\ d.finish = cl.finish /\ d.done = TRUE /\ d.jumbled = FALSE
<1>1. (cl.jumbled \/ cl.done \/ cl.finish = "none") = FALSE
  OBVIOUS
<1>2. TakeDone(cl) = [cl EXCEPT !.done = TRUE, !.jumbled = FALSE]
  BY <1>1 DEF TakeDone
<1> QED BY <1>2 DEF ChatClients

-------------------------------------------------------------------------------
(* Both of them, after the same events: the calls are the tool_use blocks.    *)

ToolsIn(n, m) == {b \in 0..n - 1 : m.blocks[b].kind = "tool_use"}

Converters(D) == [emittedRole: BOOLEAN, toolIdx: [D -> Nat], client: ChatClients]

\* The first n blocks of m are blocks of d.
SameUpTo(n, m, d) == \A i \in 0..n - 1 : d.blocks[i] = m.blocks[i]

\* Of the blocks of m, d changes one at most, and of a block one field.
OnlyBlock(n, m, k, d) == \A i \in 0..n - 1 : i # k => d.blocks[i] = m.blocks[i]
SameButText(b, g)     == g.kind = b.kind /\ g.call = b.call /\ g.args = b.args
SameButArgs(b, g)     == g.kind = b.kind /\ g.call = b.call /\ g.text = b.text

\* blockToolIdx leads from each tool_use block to a call of its own with the
\* same pieces, and there are no other calls.
CallsFit(n, m, idx, calls) ==
  /\ Len(calls) = Cardinality(ToolsIn(n, m))
  /\ \A b, d \in ToolsIn(n, m) : idx[b] = idx[d] => b = d
  /\ \A b \in ToolsIn(n, m) :
       /\ idx[b] < Len(calls)
       /\ calls[idx[b] + 1] = [id |-> m.blocks[b].call, args |-> m.blocks[b].args]

Twin(n, m, c) ==
  /\ m \in BufferedMessages(n) /\ c \in Converters(ToolsIn(n, m))
  /\ c.emittedRole = m.started
  /\ c.client.roles = (IF m.started THEN 1 ELSE 0)
  /\ c.client.jumbled = FALSE
  /\ (c.client.finish = "none") = (m.stop_reason = "none")
  /\ CallsFit(n, m, c.toolIdx, c.client.calls)

\* Nothing came, deltas may come, only message_stop may.
Waiting(m, c) == m.started = FALSE /\ m.stop_reason = "none" /\ c.client.done = FALSE
Ready(m, c) == m.started = TRUE /\ m.stop_reason = "none" /\ c.client.done = FALSE
Ending(m, c) == m.started = TRUE /\ m.stop_reason # "none" /\ c.client.done = FALSE

LEMMA TwinInTime ==
  ASSUME NEW n, NEW m, NEW c, Twin(n, m, c), Ready(m, c)
  PROVE  c.client \in ChatClients /\ InTime(c.client)
BY DEF Twin, Ready, Converters, ChatClients, InTime

LEMMA WithClient ==
  ASSUME NEW D, NEW c \in Converters(D), NEW cl \in ChatClients
  PROVE  LET e == [c EXCEPT !.client = cl] IN
         /\ e \in Converters(D) /\ e.emittedRole = c.emittedRole /\ e.toolIdx = c.toolIdx
         /\ e.client = cl
BY DEF Converters

\* A chunk that says nothing of calls, for an event that says nothing of them.
LEMMA TwinKept ==
  ASSUME NEW n \in Nat, NEW m, NEW c, Twin(n, m, c), Ready(m, c),
         NEW d \in BufferedMessages(n), SameRest(m, d),
         \A b \in 0..n - 1 : d.blocks[b].kind = m.blocks[b].kind,
         \A b \in ToolsIn(n, m) : d.blocks[b] = m.blocks[b],
         NEW cl, StillInTime(c.client, cl), cl.calls = c.client.calls
  PROVE  LET e == [c EXCEPT !.client = cl] IN
         Twin(n, d, e) /\ Ready(d, e) /\ e.client = cl
<1> DEFINE e == [c EXCEPT !.client = cl]
           D == ToolsIn(n, m)
<1>1. ToolsIn(n, d) = D
  BY DEF ToolsIn
<1>2. c \in Converters(D) /\ cl \in ChatClients /\ InTime(cl)
  BY DEF Twin, StillInTime
<1>3. e \in Converters(D) /\ e.emittedRole = c.emittedRole /\ e.toolIdx = c.toolIdx /\ e.client = cl
  <2> HIDE DEF D
  <2> QED BY <1>2, WithClient
<1> HIDE DEF e
<1>4. CallsFit(n, m, c.toolIdx, c.client.calls)
  BY DEF Twin
<1>5. CallsFit(n, d, e.toolIdx, e.client.calls)
  <2> HIDE DEF D
  <2>1. \A b \in D : d.blocks[b] = m.blocks[b]
    BY DEF D
  <2> QED BY <1>1, <1>3, <1>4, <2>1 DEF CallsFit, D
<1>6. Ready(d, e) /\ e.client = cl
  BY <1>2, <1>3 DEF Ready, SameRest, InTime
<1>7. Twin(n, d, e)
  <2>1. e.emittedRole = d.started /\ d.started = TRUE /\ d.stop_reason = "none"
    BY <1>3 DEF Twin, Ready, SameRest
  <2>2. cl.roles = 1 /\ cl.jumbled = FALSE /\ cl.finish = "none"
    BY <1>2 DEF InTime
  <2> QED BY <1>1, <1>3, <1>5, <2>1, <2>2 DEF Twin
<1> QED BY <1>6, <1>7 DEF e

\* The blocks that are tool_use, after one block more.
LEMMA ToolsGrow ==
  ASSUME NEW n \in Nat, NEW m, NEW d,
         SameUpTo(n, m, d)
  PROVE  /\ IsFiniteSet(ToolsIn(n, m)) /\ n \notin ToolsIn(n, m)
         /\ d.blocks[n].kind = "tool_use" => ToolsIn(n + 1, d) = ToolsIn(n, m) \cup {n}
         /\ d.blocks[n].kind # "tool_use" => ToolsIn(n + 1, d) = ToolsIn(n, m)
<1>1. 0..(n + 1) - 1 = (0..n - 1) \cup {n} /\ n \notin 0..n - 1
  OBVIOUS
<1>2. ToolsIn(n, m) \subseteq 0..n - 1 /\ IsFiniteSet(0..n - 1)
  BY FS_Interval DEF ToolsIn
<1>3. IsFiniteSet(ToolsIn(n, m))
  BY <1>2, FS_Subset
<1> QED BY <1>1, <1>2, <1>3 DEF ToolsIn, SameUpTo

\* message_start.
LEMMA TwinStart ==
  ASSUME NEW n \in Nat, NEW m, NEW c, Twin(n, m, c), Waiting(m, c), NEW ev \in Events(Letters), ev.type = "message_start"
  PROVE  LET d == Gather(m, ev)
             e == ConvertEvent(c, ev)
         IN  Twin(n, d, e) /\ SameBlocksOf(m, d) /\ e.client.text = c.client.text /\ Ready(d, e)
<1> DEFINE d == Gather(m, ev)
           e == ConvertEvent(c, ev)
           cl == TakeRole(c.client)
           D == ToolsIn(n, m)
<1>1. d \in BufferedMessages(n) /\ SameBlocksOf(m, d) /\ d.started = TRUE /\ d.stop_reason = m.stop_reason
  BY GatherStart DEF Twin
<1>2. c \in Converters(D) /\ c.client \in ChatClients /\ c.client.roles = 0 /\ c.emittedRole = FALSE
  BY DEF Twin, Converters, Waiting
<1>3. /\ cl \in ChatClients /\ cl.roles = 1 /\ cl.text = c.client.text /\ cl.calls = c.client.calls
      /\ cl.finish = c.client.finish /\ cl.done = c.client.done /\ cl.jumbled = c.client.jumbled
  BY <1>2, ChatRole
<1>4. e = [c EXCEPT !.emittedRole = TRUE, !.client = cl]
  BY <1>2 DEF ConvertEvent, OnMessageStart
<1> HIDE DEF cl, e, d
<1>5. e \in Converters(D) /\ e.emittedRole = TRUE /\ e.toolIdx = c.toolIdx /\ e.client = cl
  BY <1>2, <1>3, <1>4 DEF Converters
<1>6. ToolsIn(n, d) = D /\ d.blocks = m.blocks
  BY <1>1 DEF ToolsIn, SameBlocksOf
<1>7. CallsFit(n, d, e.toolIdx, e.client.calls)
  BY <1>3, <1>5, <1>6 DEF CallsFit, Twin
<1>8. Twin(n, d, e)
  BY <1>1, <1>3, <1>5, <1>6, <1>7 DEF Twin
<1>9. Ready(d, e)
  BY <1>1, <1>3, <1>5 DEF Ready, Waiting
<1> QED BY <1>1, <1>3, <1>5, <1>8, <1>9 DEF d, e, cl

\* A block that is no tool call begins.
LEMMA TwinOther ==
  ASSUME NEW n \in Nat, NEW m, NEW c, Twin(n, m, c), Ready(m, c), m.order = [i \in 1..n |-> i - 1],
         NEW ev \in Events(Letters), ev.type = "content_block_start", ev.index = n,
         ev.kind \in Kinds, ev.kind # "tool_use"
  PROVE  LET d == Gather(m, ev)
             e == ConvertEvent(c, ev)
         IN  Twin(n + 1, d, e) /\ Ready(d, e) /\ e.client.text = c.client.text
<1> DEFINE d == Gather(m, ev)
           e == ConvertEvent(c, ev)
<1>1. /\ d \in BufferedMessages(n + 1) /\ SameRest(m, d)
      /\ \A i \in 0..n - 1 : d.blocks[i] = m.blocks[i]
      /\ d.blocks[n].kind = ev.kind
  BY GatherOpening, FirstOfBlock DEF Twin
<1>2. e = c
  BY DEF ConvertEvent, OnBlockStart
<1> HIDE DEF d, e
<1>3. ToolsIn(n + 1, d) = ToolsIn(n, m)
  <2>1. SameUpTo(n, m, d)
    BY <1>1 DEF SameUpTo
  <2> QED BY <1>1, <2>1, ToolsGrow
<1>4. \A b \in ToolsIn(n, m) : d.blocks[b] = m.blocks[b]
  BY <1>1 DEF ToolsIn
<1>5. CallsFit(n + 1, d, c.toolIdx, c.client.calls)
  <2>1. CallsFit(n, m, c.toolIdx, c.client.calls)
    BY DEF Twin
  <2> QED BY <2>1, <1>3, <1>4 DEF CallsFit
<1>6. Twin(n + 1, d, e) /\ Ready(d, e)
  BY <1>1, <1>2, <1>3, <1>5 DEF Twin, Ready, SameRest
<1> QED BY <1>2, <1>6 DEF d, e

\* A tool call begins.
LEMMA TwinCall ==
  ASSUME NEW n \in Nat, NEW m, NEW c, Twin(n, m, c), Ready(m, c), m.order = [i \in 1..n |-> i - 1],
         NEW ev \in Events(Letters), ev.type = "content_block_start", ev.index = n,
         ev.kind = "tool_use"
  PROVE  LET d == Gather(m, ev)
             e == ConvertEvent(c, ev)
         IN  Twin(n + 1, d, e) /\ Ready(d, e) /\ e.client.text = c.client.text
<1> DEFINE d == Gather(m, ev)
           e == ConvertEvent(c, ev)
           D == ToolsIn(n, m)
           k == Len(c.client.calls)
           f == Put(c.toolIdx, n, k)
           cl == TakeCall(c.client, k, ev.call)
           r == [id |-> ev.call, args |-> <<>>]
<1>0. ev.kind \in Kinds /\ ev.call \in Nat
  BY DEF Kinds, Events
<1>1. /\ d \in BufferedMessages(n + 1) /\ SameRest(m, d)
      /\ \A i \in 0..n - 1 : d.blocks[i] = m.blocks[i]
      /\ d.blocks[n].kind = "tool_use" /\ d.blocks[n].call = ev.call /\ d.blocks[n].args = <<>>
  BY <1>0, GatherOpening, FirstOfBlock DEF Twin
<1>2. /\ c \in Converters(D) /\ CallsFit(n, m, c.toolIdx, c.client.calls)
      /\ c.client \in ChatClients /\ InTime(c.client)
  BY TwinInTime DEF Twin
<1>3. /\ IsFiniteSet(D) /\ n \notin D /\ ToolsIn(n + 1, d) = D \cup {n}
  <2> HIDE DEF d
  <2>1. SameUpTo(n, m, d)
    BY <1>1 DEF SameUpTo
  <2> QED BY <1>1, <2>1, ToolsGrow
<1>4. k = Cardinality(D) /\ k \in Nat /\ c.client.calls \in ToolCallsMade
  BY <1>2 DEF CallsFit, ChatClients, ToolCallsMade
<1>5. Cardinality(D \cup {n}) = k + 1
  BY <1>3, <1>4, FS_AddElement
<1>6. c.toolIdx \in [D -> Nat] /\ DOMAIN c.toolIdx = D
  BY <1>2 DEF Converters
<1>7. e = [c EXCEPT !.toolIdx = f, !.client = cl]
  BY <1>4, <1>6 DEF ConvertEvent, OnBlockStart
<1>8. StillInTime(c.client, cl) /\ cl.text = c.client.text /\ cl.calls = Append(c.client.calls, r)
  BY <1>0, <1>2, ChatCall
<1>9. f \in [D \cup {n} -> Nat] /\ \A b \in D \cup {n} : f[b] = IF b = n THEN k ELSE c.toolIdx[b]
  <2> HIDE DEF k, D
  <2> QED BY <1>4, <1>6 DEF Put
<1>c. /\ \A b, x \in D : c.toolIdx[b] = c.toolIdx[x] => b = x
      /\ \A b \in D : /\ c.toolIdx[b] \in Nat /\ c.toolIdx[b] < k
                      /\ c.client.calls[c.toolIdx[b] + 1] = [id |-> m.blocks[b].call, args |-> m.blocks[b].args]
      /\ D \subseteq 0..n - 1
  BY <1>2, <1>6 DEF CallsFit, ToolsIn
<1> HIDE DEF d, e, f, cl, k, r, D
<1>10. e \in Converters(D \cup {n}) /\ e.emittedRole = c.emittedRole /\ e.toolIdx = f /\ e.client = cl
  BY <1>2, <1>7, <1>8, <1>9 DEF Converters, StillInTime
<1>11. /\ Len(cl.calls) = k + 1 /\ cl.calls[k + 1] = r
       /\ \A j \in 1..k : cl.calls[j] = c.client.calls[j]
  <2> DEFINE q == c.client.calls
             C == [id: Nat, args: Seq(Nat)]
  <2>1. q \in Seq(C) /\ Len(q) = k /\ r \in C /\ cl.calls = Append(q, r)
    <3>1. <<>> \in Seq(Nat)
      OBVIOUS
    <3> QED BY <1>0, <1>4, <1>8, <3>1 DEF ToolCallsMade, r, k
  <2> HIDE DEF q, C
  <2>2. Len(Append(q, r)) = k + 1 /\ Append(q, r)[k + 1] = r /\ \A j \in 1..k : Append(q, r)[j] = q[j]
    BY <2>1, <1>4
  <2> QED BY <2>1, <2>2 DEF q
<1>12. ASSUME NEW b \in D \cup {n}
       PROVE  f[b] < k + 1 /\ cl.calls[f[b] + 1] = [id |-> d.blocks[b].call, args |-> d.blocks[b].args]
  <2>1. CASE b = n
    BY <2>1, <1>1, <1>4, <1>9, <1>11 DEF r
  <2>2. CASE b \in D /\ b # n
    <3>1. f[b] = c.toolIdx[b] /\ c.toolIdx[b] \in Nat /\ c.toolIdx[b] < k
      BY <2>2, <1>9, <1>c
    <3>2. f[b] + 1 \in 1..k /\ d.blocks[b] = m.blocks[b]
      BY <2>2, <3>1, <1>4, <1>1, <1>c
    <3>3. cl.calls[f[b] + 1] = c.client.calls[f[b] + 1]
      BY <3>2, <1>11
    <3>4. c.client.calls[c.toolIdx[b] + 1] = [id |-> m.blocks[b].call, args |-> m.blocks[b].args]
      BY <2>2, <1>c
    <3>5. f[b] < k + 1
      BY <3>1, <1>4
    <3> QED BY <3>1, <3>2, <3>3, <3>4, <3>5
  <2> QED BY <2>1, <2>2
<1>13. \A b, x \in D \cup {n} : f[b] = f[x] => b = x
  <2> SUFFICES ASSUME NEW b \in D \cup {n}, NEW x \in D \cup {n}, f[b] = f[x] PROVE b = x
    OBVIOUS
  <2>1. \A y \in D : y # n => f[y] = c.toolIdx[y] /\ f[y] < k
    BY <1>9, <1>c
  <2>2. f[n] = k
    BY <1>9
  <2> QED BY <2>1, <2>2, <1>4, <1>c
<1>14. CallsFit(n + 1, d, f, cl.calls)
  <2> DEFINE E == D \cup {n}
  <2>1. \A b \in E : /\ f[b] < Len(cl.calls)
                    /\ cl.calls[f[b] + 1] = [id |-> d.blocks[b].call, args |-> d.blocks[b].args]
    BY <1>11, <1>12
  <2>2. ToolsIn(n + 1, d) = E /\ Len(cl.calls) = Cardinality(E)
    BY <1>3, <1>5, <1>11
  <2>3. \A b, x \in E : f[b] = f[x] => b = x
    BY <1>13
  <2> HIDE DEF E
  <2> QED BY <2>1, <2>2, <2>3 DEF CallsFit
<1>15. Ready(d, e)
  BY <1>1, <1>8, <1>10 DEF Ready, SameRest, StillInTime, InTime
<1>16. Twin(n + 1, d, e)
  <2>1. e.emittedRole = d.started /\ d.started = TRUE /\ d.stop_reason = "none"
    BY <1>1, <1>10 DEF Twin, Ready, SameRest
  <2>2. cl.roles = 1 /\ cl.jumbled = FALSE /\ cl.finish = "none"
    BY <1>8 DEF StillInTime, InTime
  <2> QED BY <1>1, <1>3, <1>10, <1>14, <2>1, <2>2 DEF Twin
<1> QED BY <1>8, <1>10, <1>15, <1>16 DEF d, e

\* A piece of text, for a block of text.
TextArrives(n, m, c, ev) ==
  LET d == Gather(m, ev)
      e == ConvertEvent(c, ev)
  IN  /\ Twin(n, d, e) /\ Ready(d, e) /\ e.client.text = c.client.text \o ev.text
      /\ d.order = m.order /\ OnlyBlock(n, m, ev.index, d)
      /\ SameButText(m.blocks[ev.index], d.blocks[ev.index])
      /\ d.blocks[ev.index].text = m.blocks[ev.index].text \o ev.text

LEMMA TwinText ==
  ASSUME NEW n \in Nat, NEW m, NEW c, Twin(n, m, c), Ready(m, c),
         NEW ev \in Events(Letters), ev.type = "content_block_delta", ev.kind = "text",
         ev.index \in 0..n - 1, m.blocks[ev.index].kind = "text"
  PROVE  TextArrives(n, m, c, ev)
<1> DEFINE d == Gather(m, ev)
           e == ConvertEvent(c, ev)
           cl == TakeText(c.client, ev.text)
           k == ev.index
<1>1. m.blocks[k] \in MessageBlocks /\ m \in BufferedMessages(n) /\ ev.text \in Seq(Letters)
  BY DEF Twin, BufferedMessages, Events
<1>2. /\ Grow(m.blocks[k], ev) \in MessageBlocks /\ SameButText(m.blocks[k], Grow(m.blocks[k], ev))
      /\ Grow(m.blocks[k], ev).text = m.blocks[k].text \o ev.text
  BY <1>1, MoreText DEF SameButText
<1>3. /\ d \in BufferedMessages(n) /\ SameRest(m, d) /\ d.order = m.order
      /\ OnlyBlock(n, m, k, d) /\ d.blocks[k] = Grow(m.blocks[k], ev)
  BY <1>1, <1>2, GatherGrowing DEF OnlyBlock
<1>4. StillInTime(c.client, cl) /\ cl.text = c.client.text \o ev.text /\ cl.calls = c.client.calls
  BY <1>1, TwinInTime, ChatText
<1>5. e = [c EXCEPT !.client = cl]
  BY DEF ConvertEvent, OnBlockDelta
<1> HIDE DEF d, e, cl, k
<1>6. k \in 0..n - 1 /\ m.blocks[k].kind = "text"
  BY DEF k
<1>7. /\ \A b \in 0..n - 1 : d.blocks[b].kind = m.blocks[b].kind
      /\ \A b \in ToolsIn(n, m) : d.blocks[b] = m.blocks[b]
  BY <1>2, <1>3, <1>6 DEF OnlyBlock, SameButText, ToolsIn
<1>8. Twin(n, d, e) /\ Ready(d, e) /\ e.client = cl
  BY <1>3, <1>4, <1>5, <1>7, TwinKept
<1>9. /\ d.order = m.order /\ OnlyBlock(n, m, k, d) /\ SameButText(m.blocks[k], d.blocks[k])
      /\ d.blocks[k].text = m.blocks[k].text \o ev.text
  BY <1>2, <1>3
<1>10. Twin(n, d, e) /\ Ready(d, e) /\ e.client.text = c.client.text \o ev.text
  BY <1>4, <1>8
<1> QED BY <1>9, <1>10, Zenon DEF TextArrives, d, e, k

\* Of thinking nothing is gathered but that there is some.
LEMMA NoThought ==
  ASSUME NEW b \in MessageBlocks, NEW ev, ev.kind = "thinking", ev.text = <<>>
  PROVE  Grow(b, ev) = b
<1> DEFINE x == b.thinking \o <<>>
<1>1. x = b.thinking
  BY DEF MessageBlocks
<1>2. Grow(b, ev) = [b EXCEPT !.thinking = x]
  BY DEF Grow
<1> HIDE DEF x
<1> QED BY <1>1, <1>2 DEF MessageBlocks

\* A piece of thinking, for a block of it.
LEMMA TwinThinking ==
  ASSUME NEW n \in Nat, NEW m, NEW c, Twin(n, m, c), Ready(m, c),
         NEW ev \in Events(Letters), ev.type = "content_block_delta", ev.kind = "thinking",
         ev.index \in 0..n - 1, ev.text = <<>>
  PROVE  LET d == Gather(m, ev)
             e == ConvertEvent(c, ev)
         IN  /\ Twin(n, d, e) /\ Ready(d, e) /\ e.client.text = c.client.text
             /\ d.order = m.order /\ \A b \in 0..n - 1 : d.blocks[b] = m.blocks[b]
<1> DEFINE d == Gather(m, ev)
           e == ConvertEvent(c, ev)
           cl == TakeReasoning(c.client)
           k == ev.index
<1>1. m.blocks[k] \in MessageBlocks /\ m \in BufferedMessages(n)
  BY DEF Twin, BufferedMessages
<1>2. Grow(m.blocks[k], ev) = m.blocks[k]
  BY <1>1, NoThought
<1>3. /\ d \in BufferedMessages(n) /\ SameRest(m, d) /\ d.order = m.order
      /\ \A i \in 0..n - 1 : i # k => d.blocks[i] = m.blocks[i]
      /\ d.blocks[k] = m.blocks[k]
  BY <1>1, <1>2, GatherGrowing
<1>4. StillInTime(c.client, cl) /\ cl.text = c.client.text /\ cl.calls = c.client.calls
  BY TwinInTime, ChatReasoning
<1>5. e = [c EXCEPT !.client = cl]
  BY DEF ConvertEvent, OnBlockDelta
<1> HIDE DEF d, e, cl, k
<1>7. \A b \in 0..n - 1 : d.blocks[b] = m.blocks[b]
  BY <1>3
<1>8. Twin(n, d, e) /\ Ready(d, e) /\ e.client = cl
  <2>1. /\ \A b \in 0..n - 1 : d.blocks[b].kind = m.blocks[b].kind
        /\ \A b \in ToolsIn(n, m) : d.blocks[b] = m.blocks[b]
    BY <1>7 DEF ToolsIn
  <2> QED BY <2>1, <1>3, <1>4, <1>5, TwinKept
<1>9. Twin(n, d, e) /\ Ready(d, e) /\ e.client.text = c.client.text
  BY <1>4, <1>8
<1> QED BY <1>3, <1>7, <1>9, Zenon DEF d, e

\* A piece of arguments, for the block of a tool call.
PieceArrives(n, m, c, ev) ==
  LET d == Gather(m, ev)
      e == ConvertEvent(c, ev)
  IN  /\ Twin(n, d, e) /\ Ready(d, e) /\ e.client.text = c.client.text
      /\ d.order = m.order /\ OnlyBlock(n, m, ev.index, d)
      /\ SameButArgs(m.blocks[ev.index], d.blocks[ev.index])
      /\ d.blocks[ev.index].args = Append(m.blocks[ev.index].args, ev.call)

LEMMA TwinPiece ==
  ASSUME NEW n \in Nat, NEW m, NEW c, Twin(n, m, c), Ready(m, c),
         NEW ev \in Events(Letters), ev.type = "content_block_delta", ev.kind = "tool_use",
         ev.index \in 0..n - 1, m.blocks[ev.index].kind = "tool_use"
  PROVE  PieceArrives(n, m, c, ev)
<1> DEFINE d == Gather(m, ev)
           e == ConvertEvent(c, ev)
           k == ev.index
           i == c.toolIdx[k]
           D == ToolsIn(n, m)
           calls == c.client.calls
           cl == TakeArguments(c.client, i, ev.call)
<1>1. m.blocks[k] \in MessageBlocks /\ m \in BufferedMessages(n) /\ ev.call \in Nat /\ k \in D
  BY DEF Twin, BufferedMessages, Events, ToolsIn
<1>2. /\ Grow(m.blocks[k], ev) \in MessageBlocks /\ SameButArgs(m.blocks[k], Grow(m.blocks[k], ev))
      /\ Grow(m.blocks[k], ev).args = Append(m.blocks[k].args, ev.call)
  BY <1>1, MoreArguments DEF SameButArgs
<1>3. /\ d \in BufferedMessages(n) /\ SameRest(m, d) /\ d.order = m.order
      /\ OnlyBlock(n, m, k, d) /\ d.blocks[k] = Grow(m.blocks[k], ev)
  BY <1>1, <1>2, GatherGrowing DEF OnlyBlock
<1>4. /\ c \in Converters(D) /\ CallsFit(n, m, c.toolIdx, calls)
      /\ c.client \in ChatClients /\ InTime(c.client)
  BY TwinInTime DEF Twin
<1>5. c.toolIdx \in [D -> Nat] /\ DOMAIN c.toolIdx = D /\ i \in Nat /\ i < Len(calls)
      /\ calls[i + 1] = [id |-> m.blocks[k].call, args |-> m.blocks[k].args]
  BY <1>1, <1>4 DEF Converters, CallsFit
<1>6. /\ StillInTime(c.client, cl) /\ cl.text = c.client.text /\ Len(cl.calls) = Len(calls)
      /\ \A j \in 1..Len(calls) : j # i + 1 => cl.calls[j] = calls[j]
      /\ cl.calls[i + 1] = [id |-> calls[i + 1].id, args |-> Append(calls[i + 1].args, ev.call)]
  BY <1>1, <1>4, <1>5, ChatArguments
<1>7. e = [c EXCEPT !.client = cl]
  BY <1>1, <1>5 DEF ConvertEvent, OnBlockDelta
<1>8. Len(calls) \in Nat
  BY <1>4 DEF ChatClients, ToolCallsMade
<1>9. /\ Len(calls) = Cardinality(D)
      /\ \A b, x \in D : c.toolIdx[b] = c.toolIdx[x] => b = x
      /\ \A b \in D : /\ c.toolIdx[b] \in Nat /\ c.toolIdx[b] < Len(calls)
                      /\ calls[c.toolIdx[b] + 1] = [id |-> m.blocks[b].call, args |-> m.blocks[b].args]
  BY <1>4, <1>5 DEF CallsFit
<1> HIDE DEF d, e, cl, calls, D, i, k
<1>10. e \in Converters(D) /\ e.emittedRole = c.emittedRole /\ e.toolIdx = c.toolIdx /\ e.client = cl
  BY <1>4, <1>6, <1>7, WithClient DEF StillInTime
<1>11. ToolsIn(n, d) = D /\ D \subseteq 0..n - 1
  <2>1. \A b \in 0..n - 1 : d.blocks[b].kind = m.blocks[b].kind
    BY <1>2, <1>3 DEF OnlyBlock, SameButArgs
  <2> QED BY <2>1 DEF ToolsIn, D
<1>12. ASSUME NEW b \in D
       PROVE  cl.calls[c.toolIdx[b] + 1] = [id |-> d.blocks[b].call, args |-> d.blocks[b].args]
  <2>1. CASE b = k
    <3>1. d.blocks[k].call = m.blocks[k].call /\ d.blocks[k].args = Append(m.blocks[k].args, ev.call)
      BY <1>2, <1>3 DEF SameButArgs
    <3>2. calls[i + 1].id = m.blocks[k].call /\ calls[i + 1].args = m.blocks[k].args
      BY <1>5
    <3>3. cl.calls[i + 1] = [id |-> d.blocks[k].call, args |-> d.blocks[k].args]
      BY <1>6, <3>1, <3>2
    <3> QED BY <2>1, <3>3 DEF i
  <2>2. CASE b # k
    <3>1. c.toolIdx[b] # i /\ c.toolIdx[b] \in Nat /\ c.toolIdx[b] < Len(calls)
      BY <2>2, <1>1, <1>9 DEF i
    <3>2. c.toolIdx[b] + 1 \in 1..Len(calls) /\ c.toolIdx[b] + 1 # i + 1
      BY <3>1, <1>5, <1>8
    <3>3. cl.calls[c.toolIdx[b] + 1] = calls[c.toolIdx[b] + 1]
      BY <3>2, <1>6
    <3>4. d.blocks[b] = m.blocks[b]
      BY <2>2, <1>3, <1>11 DEF OnlyBlock
    <3>5. calls[c.toolIdx[b] + 1] = [id |-> m.blocks[b].call, args |-> m.blocks[b].args]
      BY <1>9
    <3> QED BY <3>3, <3>4, <3>5
  <2> QED BY <2>1, <2>2
<1>13. CallsFit(n, d, e.toolIdx, e.client.calls)
  <2>1. \A b \in D : /\ c.toolIdx[b] < Len(cl.calls)
                    /\ cl.calls[c.toolIdx[b] + 1] = [id |-> d.blocks[b].call, args |-> d.blocks[b].args]
    BY <1>6, <1>9, <1>12
  <2>2. \A b, x \in D : c.toolIdx[b] = c.toolIdx[x] => b = x
    BY <1>9
  <2>3. Len(cl.calls) = Cardinality(D)
    BY <1>6, <1>9
  <2> QED BY <1>10, <1>11, <2>1, <2>2, <2>3 DEF CallsFit
<1>14. Ready(d, e)
  BY <1>3, <1>6, <1>10 DEF Ready, SameRest, StillInTime, InTime
<1>15. Twin(n, d, e)
  <2>1. e.emittedRole = d.started /\ d.started = TRUE /\ d.stop_reason = "none"
    BY <1>3, <1>10 DEF Twin, Ready, SameRest
  <2>2. cl.roles = 1 /\ cl.jumbled = FALSE /\ cl.finish = "none"
    BY <1>6 DEF StillInTime, InTime
  <2> QED BY <1>3, <1>10, <1>11, <1>13, <2>1, <2>2 DEF Twin
<1>16. /\ d.order = m.order /\ OnlyBlock(n, m, k, d) /\ SameButArgs(m.blocks[k], d.blocks[k])
       /\ d.blocks[k].args = Append(m.blocks[k].args, ev.call)
  BY <1>2, <1>3
<1>17. Twin(n, d, e) /\ Ready(d, e) /\ e.client.text = c.client.text
  BY <1>6, <1>10, <1>14, <1>15
<1> QED BY <1>16, <1>17, Zenon DEF PieceArrives, d, e, k

\* A block ends.
LEMMA TwinSilent ==
  ASSUME NEW m, NEW c, NEW ev, ev.type = "content_block_stop"
  PROVE  Gather(m, ev) = m /\ ConvertEvent(c, ev) = c
BY GatherSilent DEF ConvertEvent

\* message_delta.
LEMMA TwinEnding ==
  ASSUME NEW n \in Nat, NEW m, NEW c, Twin(n, m, c), Ready(m, c),
         NEW ev \in Events(Letters), ev.type = "message_delta", ev.stop_reason \in StopReasons
  PROVE  LET d == Gather(m, ev)
             e == ConvertEvent(c, ev)
         IN  Twin(n, d, e) /\ SameBlocksOf(m, d) /\ e.client.text = c.client.text /\ Ending(d, e)
<1> DEFINE d == Gather(m, ev)
           e == ConvertEvent(c, ev)
           cl == TakeFinish(c.client, FinishReasonOf(ev.stop_reason))
           D == ToolsIn(n, m)
<1>1. d \in BufferedMessages(n) /\ SameBlocksOf(m, d) /\ d.started = m.started /\ d.stop_reason # "none"
  BY GatherEnding DEF Twin
<1>2. /\ cl \in ChatClients /\ cl.roles = 1 /\ cl.text = c.client.text /\ cl.calls = c.client.calls
      /\ cl.finish # "none" /\ cl.done = FALSE /\ cl.jumbled = FALSE
  BY TwinInTime, ChatFinish
<1>3. e = [c EXCEPT !.client = cl]
  BY DEF ConvertEvent
<1>4. c \in Converters(D) /\ CallsFit(n, m, c.toolIdx, c.client.calls)
  BY DEF Twin
<1> HIDE DEF d, e, cl, D
<1>5. e \in Converters(D) /\ e.emittedRole = c.emittedRole /\ e.toolIdx = c.toolIdx /\ e.client = cl
  BY <1>2, <1>3, <1>4, WithClient
<1>6. ToolsIn(n, d) = D
  BY <1>1 DEF SameBlocksOf, ToolsIn, D
<1>7. CallsFit(n, d, e.toolIdx, e.client.calls)
  <2>1. d.blocks = m.blocks /\ e.client.calls = c.client.calls /\ e.toolIdx = c.toolIdx
    BY <1>1, <1>2, <1>5 DEF SameBlocksOf
  <2> QED BY <2>1, <1>4, <1>6 DEF CallsFit, D
<1>8. e.emittedRole = d.started /\ d.started = TRUE
  BY <1>1, <1>5 DEF Twin, Ready
<1>9. Twin(n, d, e)
  BY <1>1, <1>2, <1>5, <1>6, <1>7, <1>8 DEF Twin
<1>10. Ending(d, e)
  BY <1>1, <1>2, <1>5, <1>8 DEF Ending
<1> QED BY <1>1, <1>2, <1>5, <1>9, <1>10 DEF d, e

\* message_stop.
LEMMA TwinDone ==
  ASSUME NEW n \in Nat, NEW m, NEW c, Twin(n, m, c), Ending(m, c),
         NEW ev \in Events(Letters), ev.type = "message_stop"
  PROVE  LET e == ConvertEvent(c, ev) IN
         /\ Gather(m, ev) = m /\ Twin(n, m, e)
         /\ e.client.text = c.client.text /\ e.client.done = TRUE
<1> DEFINE e == ConvertEvent(c, ev)
           cl == TakeDone(c.client)
           D == ToolsIn(n, m)
<1>1. c \in Converters(D) /\ c.client \in ChatClients /\ c.client.jumbled = FALSE
      /\ c.client.finish # "none" /\ c.client.done = FALSE
  BY DEF Twin, Converters, Ending
<1>2. /\ cl \in ChatClients /\ cl.roles = c.client.roles /\ cl.text = c.client.text
      /\ cl.calls = c.client.calls /\ cl.finish = c.client.finish /\ cl.done = TRUE /\ cl.jumbled = FALSE
  BY <1>1, ChatDone
<1>3. e = [c EXCEPT !.client = cl]
  BY DEF ConvertEvent
<1> HIDE DEF e, cl, D
<1>4. e \in Converters(D) /\ e.emittedRole = c.emittedRole /\ e.toolIdx = c.toolIdx /\ e.client = cl
  BY <1>1, <1>2, <1>3, WithClient
<1>5. Twin(n, m, e)
  BY <1>2, <1>4 DEF Twin, D
<1>6. Gather(m, ev) = m
  BY GatherSilent
<1> QED BY <1>2, <1>4, <1>5, <1>6 DEF e

-------------------------------------------------------------------------------
(* stream's own variables, and the message that comes of what it wrote.       *)

TextsIn(n, m) == {b \in 0..n - 1 : m.blocks[b].kind = "text"}

\* The pieces of a call's arguments, as the client puts them together.
PiecesFor(i, n) == [k \in 1..n |-> i]

\* All of the text is in the one block of it.
SpeechFits(s, m) ==
  /\ s.thinking >= 0 => s.thinking \in 0..s.next - 1
  /\ s.text = NotOpened => s.told = <<>> /\ TextsIn(s.next, m) = {}
  /\ s.text # NotOpened =>
       \E b \in 0..s.next - 1 : TextsIn(s.next, m) = {b} /\ m.blocks[b].text = s.told
  /\ s.text >= 0 => TextsIn(s.next, m) = {s.text}

\* The slots lead from the calls that were made to the tool_use blocks.
ToolsFit(s, m, made, pieces) ==
  /\ made \subseteq Nat /\ pieces \in [Nat -> Nat]
  /\ \A i \in made : /\ i + 1 \in DOMAIN s.slots /\ s.slots[i + 1] \in ToolsIn(s.next, m)
                     /\ m.blocks[s.slots[i + 1]].call = i
                     /\ m.blocks[s.slots[i + 1]].args = PiecesFor(i, pieces[i])
  /\ \A b \in ToolsIn(s.next, m) : m.blocks[b].call \in made /\ s.slots[m.blocks[b].call + 1] = b
  /\ \A i \in Nat \ made :
       pieces[i] = 0 /\ (i + 1 \in DOMAIN s.slots => s.slots[i + 1] = NotOpened)

Mirrors(s, m, c, made, pieces) ==
  /\ s.client.next = s.next /\ s.next \in Nat
  /\ m.order = [i \in 1..s.next |-> i - 1]
  /\ SpeechFits(s, m) /\ ToolsFit(s, m, made, pieces)
  /\ Twin(s.next, m, c) /\ c.client.text = s.told

\* The blocks of text, after one block more.
LEMMA TextsGrow ==
  ASSUME NEW n \in Nat, NEW m, NEW d, SameUpTo(n, m, d)
  PROVE  /\ d.blocks[n].kind = "text" => TextsIn(n + 1, d) = TextsIn(n, m) \cup {n}
         /\ d.blocks[n].kind # "text" => TextsIn(n + 1, d) = TextsIn(n, m)
<1>1. 0..(n + 1) - 1 = (0..n - 1) \cup {n} /\ n \notin 0..n - 1
  OBVIOUS
<1> QED BY <1>1 DEF TextsIn, SameUpTo

\* Nothing that the calls are told by has changed.
LEMMA SameToolsFit ==
  ASSUME NEW s, NEW m, NEW made, NEW pieces, ToolsFit(s, m, made, pieces),
         NEW t, NEW d, t.slots = s.slots, ToolsIn(t.next, d) = ToolsIn(s.next, m),
         \A b \in ToolsIn(s.next, m) : d.blocks[b] = m.blocks[b]
  PROVE  ToolsFit(t, d, made, pieces)
<1> DEFINE D == ToolsIn(s.next, m)
<1>1. ASSUME NEW i \in made
      PROVE  /\ i + 1 \in DOMAIN t.slots /\ t.slots[i + 1] \in D
             /\ d.blocks[t.slots[i + 1]].call = i
             /\ d.blocks[t.slots[i + 1]].args = PiecesFor(i, pieces[i])
  <2> DEFINE b == s.slots[i + 1]
  <2>1. /\ i + 1 \in DOMAIN s.slots /\ b \in D
        /\ m.blocks[b].call = i /\ m.blocks[b].args = PiecesFor(i, pieces[i])
    BY DEF ToolsFit
  <2>2. d.blocks[b] = m.blocks[b]
    BY <2>1
  <2> HIDE DEF b, D
  <2> QED BY <2>1, <2>2 DEF b
<1>2. ASSUME NEW b \in D
      PROVE  d.blocks[b].call \in made /\ t.slots[d.blocks[b].call + 1] = b
  BY DEF ToolsFit
<1>3. \A i \in Nat \ made :
        pieces[i] = 0 /\ (i + 1 \in DOMAIN t.slots => t.slots[i + 1] = NotOpened)
  BY DEF ToolsFit
<1>4. made \subseteq Nat /\ pieces \in [Nat -> Nat]
  BY DEF ToolsFit
<1> QED BY <1>1, <1>2, <1>3, <1>4 DEF ToolsFit

\* A block ends, or nothing is written.
LEMMA MirrorsSilent ==
  ASSUME NEW s, NEW m, NEW c, NEW made, NEW pieces, Mirrors(s, m, c, made, pieces),
         NEW t, t.client.next = s.client.next, t.next = s.next, t.slots = s.slots, t.told = s.told,
         t.thinking = s.thinking \/ t.thinking = Closed,
         t.text = s.text \/ (s.text >= 0 /\ t.text = Closed)
  PROVE  Mirrors(t, m, c, made, pieces)
<1>1. SpeechFits(t, m)
  BY DEF SpeechFits, Mirrors, Closed, NotOpened
<1>2. ToolsFit(t, m, made, pieces)
  BY SameToolsFit DEF Mirrors
<1> QED BY <1>1, <1>2 DEF Mirrors

\* A block of thinking begins.
LEMMA MirrorsThinking ==
  ASSUME NEW s, NEW m, NEW c, NEW made, NEW pieces, Mirrors(s, m, c, made, pieces), Ready(m, c),
         NEW t, t.client.next = s.client.next + 1, t.next = s.next + 1, t.slots = s.slots,
         t.told = s.told, t.text = s.text, t.thinking = s.next,
         NEW ev \in Events(Letters), ev.type = "content_block_start", ev.index = s.next,
         ev.kind = "thinking"
  PROVE  Mirrors(t, Gather(m, ev), ConvertEvent(c, ev), made, pieces)
         /\ Ready(Gather(m, ev), ConvertEvent(c, ev))
<1> DEFINE d == Gather(m, ev)
           e == ConvertEvent(c, ev)
           n == s.next
<1>1. n \in Nat /\ Twin(n, m, c) /\ m.order = [i \in 1..n |-> i - 1] /\ ev.kind \in Kinds
  BY DEF Mirrors, Kinds
<1>2. d.order = [i \in 1..n + 1 |-> i - 1] /\ SameUpTo(n, m, d) /\ d.blocks[n].kind = "thinking"
  <2>1. m \in BufferedMessages(n)
    BY <1>1 DEF Twin
  <2> QED BY <1>1, <2>1, GatherOpening, FirstOfBlock DEF SameUpTo
<1>3. Twin(n + 1, d, e) /\ Ready(d, e) /\ e.client.text = c.client.text
  BY <1>1, TwinOther
<1> HIDE DEF d, e
<1>4. TextsIn(n + 1, d) = TextsIn(n, m) /\ ToolsIn(n + 1, d) = ToolsIn(n, m)
      /\ \A b \in 0..n - 1 : d.blocks[b] = m.blocks[b]
  <2>1. \A b \in 0..n - 1 : d.blocks[b] = m.blocks[b]
    BY <1>2 DEF SameUpTo
  <2> QED BY <1>1, <1>2, <2>1, TextsGrow, ToolsGrow
<1>5. SpeechFits(t, d)
  <2>1. SpeechFits(s, m)
    BY DEF Mirrors
  <2> QED BY <1>1, <1>4, <2>1 DEF SpeechFits
<1>6. ToolsFit(t, d, made, pieces)
  <2>1. \A b \in ToolsIn(n, m) : d.blocks[b] = m.blocks[b]
    BY <1>4 DEF ToolsIn
  <2> QED BY <1>4, <2>1, SameToolsFit DEF Mirrors
<1> QED BY <1>1, <1>2, <1>3, <1>5, <1>6 DEF Mirrors, d, e

\* A piece of thinking.
LEMMA MirrorsThought ==
  ASSUME NEW s, NEW m, NEW c, NEW made, NEW pieces, Mirrors(s, m, c, made, pieces), Ready(m, c),
         NEW t, t.client.next = s.client.next, t.next = s.next, t.slots = s.slots,
         t.told = s.told, t.text = s.text, t.thinking = s.thinking,
         NEW ev \in Events(Letters), ev.type = "content_block_delta", ev.index = s.thinking,
         ev.kind = "thinking", ev.text = <<>>
  PROVE  Mirrors(t, Gather(m, ev), ConvertEvent(c, ev), made, pieces)
         /\ Ready(Gather(m, ev), ConvertEvent(c, ev))
<1> DEFINE d == Gather(m, ev)
           e == ConvertEvent(c, ev)
           n == s.next
<1>1. n \in Nat /\ Twin(n, m, c) /\ ev.index \in 0..n - 1
  BY DEF Mirrors, SpeechFits, Events
<1>2. /\ Twin(n, d, e) /\ Ready(d, e) /\ e.client.text = c.client.text
      /\ d.order = m.order /\ \A b \in 0..n - 1 : d.blocks[b] = m.blocks[b]
  BY <1>1, TwinThinking
<1> HIDE DEF d, e
<1>4. TextsIn(n, d) = TextsIn(n, m) /\ ToolsIn(n, d) = ToolsIn(n, m)
  BY <1>2 DEF TextsIn, ToolsIn
<1>5. SpeechFits(t, d)
  <2>1. SpeechFits(s, m)
    BY DEF Mirrors
  <2> QED BY <1>1, <1>2, <1>4, <2>1 DEF SpeechFits
<1>6. ToolsFit(t, d, made, pieces)
  <2>1. \A b \in ToolsIn(n, m) : d.blocks[b] = m.blocks[b]
    BY <1>2 DEF ToolsIn
  <2> QED BY <1>4, <2>1, SameToolsFit DEF Mirrors
<1> QED BY <1>1, <1>2, <1>5, <1>6 DEF Mirrors, d, e

\* The block of text begins.
LEMMA MirrorsSpeech ==
  ASSUME NEW s, NEW m, NEW c, NEW made, NEW pieces, Mirrors(s, m, c, made, pieces), Ready(m, c),
         s.text = NotOpened,
         NEW t, t.client.next = s.client.next + 1, t.next = s.next + 1, t.slots = s.slots,
         t.told = s.told, t.text = s.next, t.thinking = s.thinking,
         NEW ev \in Events(Letters), ev.type = "content_block_start", ev.index = s.next,
         ev.kind = "text"
  PROVE  Mirrors(t, Gather(m, ev), ConvertEvent(c, ev), made, pieces)
         /\ Ready(Gather(m, ev), ConvertEvent(c, ev))
<1> DEFINE d == Gather(m, ev)
           e == ConvertEvent(c, ev)
           n == s.next
<1>1. n \in Nat /\ Twin(n, m, c) /\ m.order = [i \in 1..n |-> i - 1] /\ ev.kind \in Kinds
  BY DEF Mirrors, Kinds
<1>2. /\ d.order = [i \in 1..n + 1 |-> i - 1] /\ SameUpTo(n, m, d)
      /\ d.blocks[n].kind = "text" /\ d.blocks[n].text = <<>>
  <2>1. m \in BufferedMessages(n)
    BY <1>1 DEF Twin
  <2> QED BY <1>1, <2>1, GatherOpening, FirstOfBlock DEF SameUpTo
<1>3. Twin(n + 1, d, e) /\ Ready(d, e) /\ e.client.text = c.client.text
  BY <1>1, TwinOther
<1> HIDE DEF d, e
<1>4. TextsIn(n + 1, d) = TextsIn(n, m) \cup {n} /\ ToolsIn(n + 1, d) = ToolsIn(n, m)
  <2>1. TextsIn(n + 1, d) = TextsIn(n, m) \cup {n}
    BY <1>1, <1>2, TextsGrow
  <2>2. ToolsIn(n + 1, d) = ToolsIn(n, m)
    BY <1>1, <1>2, ToolsGrow
  <2> QED BY <2>1, <2>2
<1>5. SpeechFits(t, d)
  <2>1. SpeechFits(s, m)
    BY DEF Mirrors
  <2>2. TextsIn(n + 1, d) = {n} /\ t.told = <<>> /\ n \in 0..(n + 1) - 1
    BY <1>1, <1>4, <2>1 DEF SpeechFits
  <2>3. t.thinking >= 0 => t.thinking \in 0..t.next - 1
    BY <1>1, <2>1 DEF SpeechFits
  <2> QED BY <1>1, <1>2, <2>2, <2>3 DEF SpeechFits, NotOpened
<1>6. ToolsFit(t, d, made, pieces)
  <2>1. \A b \in ToolsIn(n, m) : d.blocks[b] = m.blocks[b]
    BY <1>2 DEF ToolsIn, SameUpTo
  <2> QED BY <1>4, <2>1, SameToolsFit DEF Mirrors
<1> QED BY <1>1, <1>2, <1>3, <1>5, <1>6 DEF Mirrors, d, e

\* A piece of text.
LEMMA MirrorsSaid ==
  ASSUME NEW s, NEW m, NEW c, NEW made, NEW pieces, Mirrors(s, m, c, made, pieces), Ready(m, c),
         s.text >= 0,
         NEW ev \in Events(Letters), ev.type = "content_block_delta", ev.index = s.text,
         ev.kind = "text",
         NEW t, t.client.next = s.client.next, t.next = s.next, t.slots = s.slots,
         t.told = s.told \o ev.text, t.text = s.text, t.thinking = s.thinking
  PROVE  Mirrors(t, Gather(m, ev), ConvertEvent(c, ev), made, pieces)
         /\ Ready(Gather(m, ev), ConvertEvent(c, ev))
<1> DEFINE d == Gather(m, ev)
           e == ConvertEvent(c, ev)
           n == s.next
           k == ev.index
<1>1. n \in Nat /\ Twin(n, m, c) /\ k \in 0..n - 1 /\ TextsIn(n, m) = {k} /\ m.blocks[k].kind = "text"
      /\ m.blocks[k].text = s.told
  <2>1. n \in Nat /\ Twin(n, m, c) /\ SpeechFits(s, m) /\ s.text # NotOpened
    BY DEF Mirrors, NotOpened
  <2>2. PICK b \in 0..n - 1 : TextsIn(n, m) = {b} /\ m.blocks[b].text = s.told
    BY <2>1 DEF SpeechFits
  <2>3. b = k
    BY <2>1, <2>2 DEF SpeechFits
  <2>4. m.blocks[b].kind = "text"
    BY <2>2 DEF TextsIn
  <2> QED BY <2>1, <2>2, <2>3, <2>4
<1>2. /\ Twin(n, d, e) /\ Ready(d, e) /\ e.client.text = c.client.text \o ev.text
      /\ d.order = m.order /\ OnlyBlock(n, m, k, d) /\ SameButText(m.blocks[k], d.blocks[k])
      /\ d.blocks[k].text = m.blocks[k].text \o ev.text
  <2>1. n \in Nat /\ Twin(n, m, c) /\ Ready(m, c) /\ ev.index \in 0..n - 1 /\ m.blocks[ev.index].kind = "text"
    BY <1>1
  <2> HIDE DEF n
  <2>2. TextArrives(n, m, c, ev)
    BY <2>1, TwinText
  <2> QED BY <2>2, Zenon DEF TextArrives, d, e, k
<1> HIDE DEF d, e, k
<1>3. \A b \in 0..n - 1 : d.blocks[b].kind = m.blocks[b].kind
  BY <1>2 DEF OnlyBlock, SameButText
<1>4. TextsIn(n, d) = {k} /\ ToolsIn(n, d) = ToolsIn(n, m)
  <2>1. TextsIn(n, d) = TextsIn(n, m)
    BY <1>3 DEF TextsIn
  <2> QED BY <1>1, <1>3, <2>1 DEF ToolsIn
<1>5. SpeechFits(t, d)
  <2>1. s.thinking >= 0 => s.thinking \in 0..s.next - 1
    BY DEF Mirrors, SpeechFits
  <2>2. d.blocks[k].text = t.told /\ t.text = k /\ t.next = n
    BY <1>1, <1>2 DEF k
  <2>3. t.text # NotOpened
    BY <1>1, <2>2 DEF NotOpened
  <2> QED BY <1>1, <1>4, <2>1, <2>2, <2>3 DEF SpeechFits
<1>6. ToolsFit(t, d, made, pieces)
  <2>1. \A b \in ToolsIn(n, m) : d.blocks[b] = m.blocks[b]
    BY <1>1, <1>2 DEF ToolsIn, OnlyBlock
  <2> QED BY <1>4, <2>1, SameToolsFit DEF Mirrors
<1>7. e.client.text = t.told /\ t.next = n /\ t.client.next = n
  BY <1>2 DEF Mirrors
<1>8. d.order = [i \in 1..n |-> i - 1]
  BY <1>2 DEF Mirrors
<1> QED BY <1>1, <1>2, <1>5, <1>6, <1>7, <1>8 DEF Mirrors, d, e

\* The pieces of a call: none at first, and one more.
LEMMA PiecesAre ==
  ASSUME NEW i \in Nat, NEW n \in Nat
  PROVE  PiecesFor(i, 0) = <<>> /\ Append(PiecesFor(i, n), i) = PiecesFor(i, n + 1)
<1>1. PiecesFor(i, 0) = <<>>
  <2>1. PiecesFor(i, 0) \in Seq(Nat) /\ Len(PiecesFor(i, 0)) = 0
    BY DEF PiecesFor
  <2> QED BY <2>1
<1> DEFINE p == PiecesFor(i, n)
           q == PiecesFor(i, n + 1)
           r == Append(p, i)
<1>2. /\ p \in Seq(Nat) /\ Len(p) = n /\ \A k \in 1..n : p[k] = i
      /\ q \in Seq(Nat) /\ Len(q) = n + 1 /\ \A k \in 1..n + 1 : q[k] = i
  BY DEF PiecesFor
<1> HIDE DEF p, q
<1>3. r \in Seq(Nat) /\ Len(r) = n + 1 /\ \A k \in 1..n + 1 : r[k] = i
  BY <1>2
<1> HIDE DEF r
<1>4. r = q
  BY <1>2, <1>3, EqualSeqs
<1> QED BY <1>1, <1>4 DEF p, q, r

GrownFrom(slots, q) ==
  /\ DOMAIN slots \subseteq DOMAIN q
  /\ \A k \in DOMAIN slots : q[k] = slots[k]
  /\ \A k \in DOMAIN q : k \notin DOMAIN slots => q[k] = NotOpened

\* The slots grow, with no block in them.
LEMMA MirrorsGrown ==
  ASSUME NEW s, NEW m, NEW c, NEW made, NEW pieces, Mirrors(s, m, c, made, pieces),
         NEW t, t.client.next = s.client.next, t.next = s.next, t.told = s.told,
         t.thinking = s.thinking, t.text = s.text, GrownFrom(s.slots, t.slots)
  PROVE  Mirrors(t, m, c, made, pieces)
<1> DEFINE D == ToolsIn(s.next, m)
<1>1. SpeechFits(t, m)
  BY DEF SpeechFits, Mirrors
<1>2. ToolsFit(s, m, made, pieces)
  BY DEF Mirrors
<1>3. made \subseteq Nat /\ pieces \in [Nat -> Nat]
  BY <1>2 DEF ToolsFit
<1>4. ASSUME NEW i \in made
      PROVE  /\ i + 1 \in DOMAIN t.slots /\ t.slots[i + 1] \in D
             /\ m.blocks[t.slots[i + 1]].call = i
             /\ m.blocks[t.slots[i + 1]].args = PiecesFor(i, pieces[i])
  <2>1. /\ i + 1 \in DOMAIN s.slots /\ s.slots[i + 1] \in D
        /\ m.blocks[s.slots[i + 1]].call = i
        /\ m.blocks[s.slots[i + 1]].args = PiecesFor(i, pieces[i])
    BY <1>2 DEF ToolsFit
  <2>2. i + 1 \in DOMAIN t.slots /\ t.slots[i + 1] = s.slots[i + 1]
    BY <2>1 DEF GrownFrom
  <2> QED BY <2>1, <2>2
<1>5. ASSUME NEW b \in D
      PROVE  m.blocks[b].call \in made /\ t.slots[m.blocks[b].call + 1] = b
  <2>1. m.blocks[b].call \in made /\ s.slots[m.blocks[b].call + 1] = b
    BY <1>2 DEF ToolsFit
  <2>2. m.blocks[b].call + 1 \in DOMAIN s.slots
    BY <1>2, <2>1 DEF ToolsFit
  <2> QED BY <2>1, <2>2 DEF GrownFrom
<1>6. ASSUME NEW i \in Nat \ made
      PROVE  pieces[i] = 0 /\ (i + 1 \in DOMAIN t.slots => t.slots[i + 1] = NotOpened)
  <2>1. pieces[i] = 0 /\ (i + 1 \in DOMAIN s.slots => s.slots[i + 1] = NotOpened)
    BY <1>2 DEF ToolsFit
  <2> QED BY <2>1 DEF GrownFrom
<1>7. ToolsFit(t, m, made, pieces)
  BY <1>3, <1>4, <1>5, <1>6 DEF ToolsFit
<1> QED BY <1>1, <1>7 DEF Mirrors

\* A slot that has a block is a call's that was made.
LEMMA SlotTaken ==
  ASSUME NEW s, NEW m, NEW c, NEW made, NEW pieces, Mirrors(s, m, c, made, pieces),
         NEW i \in Nat, i + 1 \in DOMAIN s.slots
  PROVE  (i \in made) <=> (s.slots[i + 1] # NotOpened)
<1>1. ASSUME i \in made PROVE s.slots[i + 1] # NotOpened
  <2>1. s.slots[i + 1] \in ToolsIn(s.next, m) /\ s.next \in Nat
    BY <1>1 DEF Mirrors, ToolsFit
  <2>2. s.slots[i + 1] \in 0..s.next - 1
    BY <2>1 DEF ToolsIn
  <2> QED BY <2>1, <2>2 DEF NotOpened
<1>2. ASSUME i \notin made PROVE s.slots[i + 1] = NotOpened
  BY <1>2 DEF Mirrors, ToolsFit
<1> QED BY <1>1, <1>2

\* A tool call begins.
LEMMA MirrorsCall ==
  ASSUME NEW s, NEW m, NEW c, NEW made, NEW pieces, Mirrors(s, m, c, made, pieces), Ready(m, c),
         NEW i \in Nat, i + 1 \in DOMAIN s.slots, s.slots[i + 1] = NotOpened,
         NEW t, t.client.next = s.client.next + 1, t.next = s.next + 1, t.told = s.told,
         t.text = s.text, t.thinking = s.thinking,
         DOMAIN t.slots = DOMAIN s.slots, t.slots[i + 1] = s.next,
         \A k \in DOMAIN s.slots : k # i + 1 => t.slots[k] = s.slots[k],
         NEW ev \in Events(Letters), ev.type = "content_block_start", ev.index = s.next,
         ev.kind = "tool_use", ev.call = i
  PROVE  Mirrors(t, Gather(m, ev), ConvertEvent(c, ev), made \cup {i}, pieces)
         /\ Ready(Gather(m, ev), ConvertEvent(c, ev))
<1> DEFINE d == Gather(m, ev)
           e == ConvertEvent(c, ev)
           n == s.next
           D == ToolsIn(n, m)
<1>1. n \in Nat /\ Twin(n, m, c) /\ m.order = [k \in 1..n |-> k - 1] /\ ev.kind \in Kinds
  BY DEF Mirrors, Kinds
<1>2. /\ d.order = [k \in 1..n + 1 |-> k - 1] /\ SameUpTo(n, m, d)
      /\ d.blocks[n].kind = "tool_use" /\ d.blocks[n].call = i /\ d.blocks[n].args = <<>>
  <2>1. m \in BufferedMessages(n)
    BY <1>1 DEF Twin
  <2>2. d.order = [k \in 1..n + 1 |-> k - 1] /\ SameUpTo(n, m, d) /\ d.blocks[n] = BlockOf(ev)
    BY <1>1, <2>1, GatherOpening DEF SameUpTo
  <2> HIDE DEF d, n
  <2> QED BY <1>1, <2>2, FirstOfBlock
<1>3. Twin(n + 1, d, e) /\ Ready(d, e) /\ e.client.text = c.client.text
  BY <1>1, TwinCall
<1> HIDE DEF d, e
<1>4. TextsIn(n + 1, d) = TextsIn(n, m) /\ ToolsIn(n + 1, d) = D \cup {n}
  <2>1. TextsIn(n + 1, d) = TextsIn(n, m)
    BY <1>1, <1>2, TextsGrow
  <2>2. ToolsIn(n + 1, d) = D \cup {n}
    BY <1>1, <1>2, ToolsGrow
  <2> QED BY <2>1, <2>2
<1>5. \A b \in 0..n - 1 : d.blocks[b] = m.blocks[b]
  BY <1>2 DEF SameUpTo
<1>6. SpeechFits(t, d)
  <2>1. SpeechFits(s, m)
    BY DEF Mirrors
  <2>2. t.thinking >= 0 => t.thinking \in 0..t.next - 1
    BY <1>1, <2>1 DEF SpeechFits
  <2>3. /\ t.text = NotOpened => t.told = <<>> /\ TextsIn(t.next, d) = {}
        /\ t.text >= 0 => TextsIn(t.next, d) = {t.text}
    BY <1>4, <2>1 DEF SpeechFits
  <2>4. ASSUME t.text # NotOpened
        PROVE  \E b \in 0..t.next - 1 : TextsIn(t.next, d) = {b} /\ d.blocks[b].text = t.told
    <3>1. PICK b \in 0..n - 1 : TextsIn(n, m) = {b} /\ m.blocks[b].text = s.told
      BY <2>1, <2>4 DEF SpeechFits
    <3>2. b \in 0..t.next - 1 /\ d.blocks[b].text = t.told /\ TextsIn(t.next, d) = {b}
      BY <1>1, <1>4, <1>5, <3>1
    <3> QED BY <3>2
  <2> QED BY <2>2, <2>3, <2>4 DEF SpeechFits
<1>7. i \notin made
  BY SlotTaken
<1>8. ToolsFit(s, m, made, pieces) /\ D \subseteq 0..n - 1
  BY DEF Mirrors, ToolsIn
<1>9. made \subseteq Nat /\ pieces \in [Nat -> Nat] /\ pieces[i] = 0
  BY <1>7, <1>8 DEF ToolsFit
<1> HIDE DEF D, n
<1>10. ASSUME NEW j \in made
       PROVE  /\ j + 1 \in DOMAIN t.slots /\ t.slots[j + 1] \in D
              /\ d.blocks[t.slots[j + 1]].call = j
              /\ d.blocks[t.slots[j + 1]].args = PiecesFor(j, pieces[j])
  <2> DEFINE b == s.slots[j + 1]
  <2>1. /\ j + 1 \in DOMAIN s.slots /\ b \in D
        /\ m.blocks[b].call = j /\ m.blocks[b].args = PiecesFor(j, pieces[j])
    BY <1>8 DEF ToolsFit, D, n
  <2>2. j + 1 # i + 1 /\ j + 1 \in DOMAIN t.slots
    BY <1>7, <1>9, <2>1
  <2>3. t.slots[j + 1] = b /\ d.blocks[b] = m.blocks[b]
    BY <1>5, <1>8, <2>1, <2>2
  <2> HIDE DEF b
  <2> QED BY <2>1, <2>2, <2>3
<1>11. /\ i + 1 \in DOMAIN t.slots /\ t.slots[i + 1] = n
       /\ d.blocks[n].call = i /\ d.blocks[n].args = PiecesFor(i, pieces[i])
  BY <1>2, <1>9, PiecesAre DEF n
<1>12. ASSUME NEW b \in D
       PROVE  d.blocks[b].call \in made /\ t.slots[d.blocks[b].call + 1] = b
  <2> DEFINE j == m.blocks[b].call
  <2>1. j \in made /\ s.slots[j + 1] = b /\ d.blocks[b] = m.blocks[b]
    BY <1>5, <1>8 DEF ToolsFit, D, n
  <2>2. j + 1 \in DOMAIN s.slots
    BY <1>8, <2>1 DEF ToolsFit
  <2> HIDE DEF j
  <2>3. j + 1 # i + 1
    <3>1. j \in Nat /\ j # i
      BY <1>7, <1>9, <2>1
    <3> QED BY <3>1
  <2>4. t.slots[j + 1] = b
    BY <2>1, <2>2, <2>3
  <2> QED BY <2>1, <2>4 DEF j
<1>13. ASSUME NEW j \in Nat \ (made \cup {i})
       PROVE  pieces[j] = 0 /\ (j + 1 \in DOMAIN t.slots => t.slots[j + 1] = NotOpened)
  <2>1. pieces[j] = 0 /\ (j + 1 \in DOMAIN s.slots => s.slots[j + 1] = NotOpened)
    BY <1>8 DEF ToolsFit
  <2> QED BY <2>1
<1>14. ToolsFit(t, d, made \cup {i}, pieces)
  <2> DEFINE made1 == made \cup {i}
             E == D \cup {n}
  <2>1. \A j \in made1 : /\ j + 1 \in DOMAIN t.slots /\ t.slots[j + 1] \in E
                        /\ d.blocks[t.slots[j + 1]].call = j
                        /\ d.blocks[t.slots[j + 1]].args = PiecesFor(j, pieces[j])
    BY <1>10, <1>11
  <2>2. \A b \in E : d.blocks[b].call \in made1 /\ t.slots[d.blocks[b].call + 1] = b
    BY <1>11, <1>12
  <2>3. made1 \subseteq Nat /\ pieces \in [Nat -> Nat]
    BY <1>9
  <2>4. ToolsIn(t.next, d) = E
    BY <1>4 DEF n
  <2>5. \A j \in Nat \ made1 :
          pieces[j] = 0 /\ (j + 1 \in DOMAIN t.slots => t.slots[j + 1] = NotOpened)
    BY <1>13
  <2> HIDE DEF made1, E
  <2>6. ToolsFit(t, d, made1, pieces)
    BY <2>1, <2>2, <2>3, <2>4, <2>5 DEF ToolsFit
  <2> QED BY <2>6 DEF made1
<1> QED BY <1>1, <1>2, <1>3, <1>6, <1>14 DEF Mirrors, d, e, n

\* A piece of the arguments of a call that was made.
LEMMA MirrorsPiece ==
  ASSUME NEW s, NEW m, NEW c, NEW made, NEW pieces, Mirrors(s, m, c, made, pieces), Ready(m, c),
         NEW i \in made,
         NEW t, t.client.next = s.client.next, t.next = s.next, t.told = s.told,
         t.text = s.text, t.thinking = s.thinking, t.slots = s.slots,
         NEW ev \in Events(Letters), ev.type = "content_block_delta",
         ev.index = s.slots[i + 1], ev.kind = "tool_use", ev.call = i
  PROVE  Mirrors(t, Gather(m, ev), ConvertEvent(c, ev), made, [pieces EXCEPT ![i] = @ + 1])
         /\ Ready(Gather(m, ev), ConvertEvent(c, ev))
<1> DEFINE d == Gather(m, ev)
           e == ConvertEvent(c, ev)
           n == s.next
           k == ev.index
           D == ToolsIn(n, m)
           p == [pieces EXCEPT ![i] = @ + 1]
<1>1. n \in Nat /\ Twin(n, m, c) /\ ToolsFit(s, m, made, pieces) /\ m.order = [j \in 1..n |-> j - 1]
  BY DEF Mirrors
<1>2. made \subseteq Nat /\ pieces \in [Nat -> Nat] /\ i \in Nat
  BY <1>1 DEF ToolsFit
<1>3. k \in D /\ m.blocks[k].call = i /\ m.blocks[k].args = PiecesFor(i, pieces[i])
  BY <1>1 DEF ToolsFit
<1>4. D \subseteq 0..n - 1 /\ m.blocks[k].kind = "tool_use"
  BY <1>3 DEF ToolsIn
<1>5. PieceArrives(n, m, c, ev)
  BY <1>1, <1>3, <1>4, TwinPiece
<1>6. /\ Twin(n, d, e) /\ Ready(d, e) /\ e.client.text = c.client.text
      /\ d.order = m.order /\ OnlyBlock(n, m, k, d) /\ SameButArgs(m.blocks[k], d.blocks[k])
      /\ d.blocks[k].args = Append(m.blocks[k].args, i)
  BY <1>5, Zenon DEF PieceArrives
<1>7. p \in [Nat -> Nat] /\ p[i] = pieces[i] + 1 /\ \A j \in Nat : j # i => p[j] = pieces[j]
  BY <1>2
<1> HIDE DEF d, e, n, k, D, p
<1>8. \A b \in 0..n - 1 : d.blocks[b].kind = m.blocks[b].kind
  BY <1>6 DEF OnlyBlock, SameButArgs
<1>9. TextsIn(n, d) = TextsIn(n, m) /\ ToolsIn(n, d) = D
  BY <1>8 DEF TextsIn, ToolsIn, D
<1>10. SpeechFits(t, d)
  <2>1. SpeechFits(s, m)
    BY DEF Mirrors
  <2>2. \A b \in 0..n - 1 : d.blocks[b].text = m.blocks[b].text
    BY <1>6 DEF OnlyBlock, SameButArgs
  <2> QED BY <1>1, <1>9, <2>1, <2>2 DEF SpeechFits, n
<1>11. \A b \in D : d.blocks[b].call = m.blocks[b].call /\ (b # k => d.blocks[b] = m.blocks[b])
  BY <1>4, <1>6 DEF OnlyBlock, SameButArgs
<1>12. ASSUME NEW j \in made
       PROVE  /\ j + 1 \in DOMAIN s.slots /\ s.slots[j + 1] \in D
              /\ d.blocks[s.slots[j + 1]].call = j
              /\ d.blocks[s.slots[j + 1]].args = PiecesFor(j, p[j])
  <2> DEFINE b == s.slots[j + 1]
  <2>1. /\ j + 1 \in DOMAIN s.slots /\ b \in D
        /\ m.blocks[b].call = j /\ m.blocks[b].args = PiecesFor(j, pieces[j])
    BY <1>1 DEF ToolsFit, D, n
  <2>2. CASE j = i
    <3>1. b = k
      BY <2>2 DEF k
    <3>2. d.blocks[k].args = PiecesFor(i, pieces[i] + 1)
      BY <1>2, <1>3, <1>6, PiecesAre
    <3> QED BY <1>7, <1>11, <2>1, <2>2, <3>1, <3>2
  <2>3. CASE j # i
    <3>1. b # k
      BY <1>3, <2>1, <2>3
    <3> QED BY <1>2, <1>7, <1>11, <2>1, <2>3, <3>1
  <2> QED BY <2>2, <2>3
<1>13. ASSUME NEW b \in D
       PROVE  d.blocks[b].call \in made /\ s.slots[d.blocks[b].call + 1] = b
  <2>1. m.blocks[b].call \in made /\ s.slots[m.blocks[b].call + 1] = b
    BY <1>1 DEF ToolsFit, D, n
  <2> QED BY <1>11, <2>1
<1>14. ASSUME NEW j \in Nat \ made
       PROVE  p[j] = 0 /\ (j + 1 \in DOMAIN s.slots => s.slots[j + 1] = NotOpened)
  <2>1. pieces[j] = 0 /\ (j + 1 \in DOMAIN s.slots => s.slots[j + 1] = NotOpened)
    BY <1>1 DEF ToolsFit
  <2> QED BY <1>7, <2>1
<1>15. ToolsFit(t, d, made, p)
  <2>1. ToolsIn(t.next, d) = D
    BY <1>9 DEF n
  <2> QED BY <1>2, <1>7, <1>12, <1>13, <1>14, <2>1 DEF ToolsFit
<1> QED BY <1>1, <1>6, <1>10, <1>15 DEF Mirrors, d, e, n, p

\* The message begins, ends and is over.
LEMMA MirrorsStart ==
  ASSUME NEW s, NEW m, NEW c, NEW made, NEW pieces, Mirrors(s, m, c, made, pieces),
         Waiting(m, c),
         NEW t, t.client.next = s.client.next, t.next = s.next, t.told = s.told,
         t.text = s.text, t.thinking = s.thinking, t.slots = s.slots,
         NEW ev \in Events(Letters), ev.type = "message_start"
  PROVE  Mirrors(t, Gather(m, ev), ConvertEvent(c, ev), made, pieces)
         /\ Ready(Gather(m, ev), ConvertEvent(c, ev))
<1> DEFINE d == Gather(m, ev)
           e == ConvertEvent(c, ev)
           n == s.next
<1>1. n \in Nat /\ Twin(n, m, c)
  BY DEF Mirrors
<1>2. Twin(n, d, e) /\ SameBlocksOf(m, d) /\ e.client.text = c.client.text /\ Ready(d, e)
  BY <1>1, TwinStart
<1> HIDE DEF d, e
<1>3. d.blocks = m.blocks /\ d.order = m.order
  BY <1>2 DEF SameBlocksOf
<1>4. SpeechFits(t, d) /\ ToolsFit(t, d, made, pieces)
  BY <1>3, SameToolsFit DEF Mirrors, SpeechFits, TextsIn, ToolsIn
<1> QED BY <1>2, <1>3, <1>4 DEF Mirrors, d, e

LEMMA MirrorsEnding ==
  ASSUME NEW s, NEW m, NEW c, NEW made, NEW pieces, Mirrors(s, m, c, made, pieces), Ready(m, c),
         NEW t, t.client.next = s.client.next, t.next = s.next, t.told = s.told,
         t.text = s.text, t.thinking = s.thinking, t.slots = s.slots,
         NEW ev \in Events(Letters), ev.type = "message_delta", ev.stop_reason \in StopReasons
  PROVE  Mirrors(t, Gather(m, ev), ConvertEvent(c, ev), made, pieces)
         /\ Ending(Gather(m, ev), ConvertEvent(c, ev))
<1> DEFINE d == Gather(m, ev)
           e == ConvertEvent(c, ev)
           n == s.next
<1>1. n \in Nat /\ Twin(n, m, c)
  BY DEF Mirrors
<1>2. Twin(n, d, e) /\ SameBlocksOf(m, d) /\ e.client.text = c.client.text /\ Ending(d, e)
  BY <1>1, TwinEnding
<1> HIDE DEF d, e
<1>3. d.blocks = m.blocks /\ d.order = m.order
  BY <1>2 DEF SameBlocksOf
<1>4. SpeechFits(t, d) /\ ToolsFit(t, d, made, pieces)
  BY <1>3, SameToolsFit DEF Mirrors, SpeechFits, TextsIn, ToolsIn
<1> QED BY <1>2, <1>3, <1>4 DEF Mirrors, d, e

LEMMA MirrorsDone ==
  ASSUME NEW s, NEW m, NEW c, NEW made, NEW pieces, Mirrors(s, m, c, made, pieces),
         Ending(m, c),
         NEW t, t.client.next = s.client.next, t.next = s.next, t.told = s.told,
         t.text = s.text, t.thinking = s.thinking, t.slots = s.slots,
         NEW ev \in Events(Letters), ev.type = "message_stop"
  PROVE  /\ Gather(m, ev) = m
         /\ Mirrors(t, m, ConvertEvent(c, ev), made, pieces)
         /\ ConvertEvent(c, ev).client.done = TRUE
<1> DEFINE e == ConvertEvent(c, ev)
           n == s.next
<1>1. n \in Nat /\ Twin(n, m, c)
  BY DEF Mirrors
<1>2. /\ Gather(m, ev) = m /\ Twin(n, m, e)
      /\ e.client.text = c.client.text /\ e.client.done = TRUE
  BY <1>1, TwinDone
<1> HIDE DEF e
<1>4. SpeechFits(t, m) /\ ToolsFit(t, m, made, pieces)
  BY SameToolsFit DEF Mirrors, SpeechFits
<1> QED BY <1>2, <1>4 DEF Mirrors, e

-------------------------------------------------------------------------------
(* From one state of stream's variables to another, within a turn.            *)

\* What the events of the turn so far made of the clients that were there.
Live(s, c0, m0, made, pieces) ==
  LET c == ConvertAll(c0, s.wrote)
      m == GatherAll(m0, s.wrote)
  IN  Mirrors(s, m, c, made, pieces) /\ Ready(m, c)

\* A block of text is begun for some text.
Spoken(s) == s.text # NotOpened => s.told # <<>>

\* The clients keep up, and no call is made.
Keeps(s, t) ==
  /\ t \in States
  /\ \A c0, m0, made, pieces : Live(s, c0, m0, made, pieces) => Live(t, c0, m0, made, pieces)

Stays(s, t) == Keeps(s, t) /\ (Spoken(s) => Spoken(t))

LEMMA KeepsOn ==
  ASSUME NEW s, NEW t, NEW u, Keeps(s, t), Keeps(t, u)
  PROVE  Keeps(s, u)
BY DEF Keeps

LEMMA StaysOn ==
  ASSUME NEW s, NEW t, NEW u, Stays(s, t), Stays(t, u)
  PROVE  Stays(s, u)
BY KeepsOn DEF Stays

LEMMA StaysSelf == ASSUME NEW s \in States PROVE Stays(s, s)
BY DEF Stays, Keeps

\* An event more, and none.
LEMMA AllMore ==
  ASSUME NEW events \in Seq(Events(Letters)), NEW ev \in Events(Letters), NEW c0, NEW m0
  PROVE  /\ ConvertAll(c0, Append(events, ev)) = ConvertEvent(ConvertAll(c0, events), ev)
         /\ GatherAll(m0, Append(events, ev)) = Gather(GatherAll(m0, events), ev)
<1>1. \A q : ConvertAll(c0, q) = ConvertLoop!Run(c0, q)
  BY DEF ConvertAll, ConvertLoop!Run, FoldLeft, ConvertLoop!FoldLeft, MapThenFoldSet, ConvertLoop!MapThenFoldSet,
         Max, ConvertLoop!Max
<1>2. \A q : GatherAll(m0, q) = GatherLoop!Run(m0, q)
  BY DEF GatherAll, GatherLoop!Run, FoldLeft, GatherLoop!FoldLeft, MapThenFoldSet, GatherLoop!MapThenFoldSet,
         Max, GatherLoop!Max
<1>3. ConvertLoop!Run(c0, Append(events, ev)) = ConvertEvent(ConvertLoop!Run(c0, events), ev)
  BY ConvertLoop!RunAppend
<1>4. GatherLoop!Run(m0, Append(events, ev)) = Gather(GatherLoop!Run(m0, events), ev)
  BY GatherLoop!RunAppend
<1> QED BY <1>1, <1>2, <1>3, <1>4, Zenon

LEMMA AllOfNone ==
  ASSUME NEW c0, NEW m0
  PROVE  ConvertAll(c0, <<>>) = c0 /\ GatherAll(m0, <<>>) = m0
<1>1. ConvertAll(c0, <<>>) = ConvertLoop!Run(c0, <<>>)
  BY DEF ConvertAll, ConvertLoop!Run, FoldLeft, ConvertLoop!FoldLeft, MapThenFoldSet, ConvertLoop!MapThenFoldSet,
         Max, ConvertLoop!Max
<1>2. GatherAll(m0, <<>>) = GatherLoop!Run(m0, <<>>)
  BY DEF GatherAll, GatherLoop!Run, FoldLeft, GatherLoop!FoldLeft, MapThenFoldSet, GatherLoop!MapThenFoldSet,
         Max, GatherLoop!Max
<1> QED BY <1>1, <1>2, ConvertLoop!RunEmpty, GatherLoop!RunEmpty

\* A state and one event of it more.
LEMMA EmitGives ==
  ASSUME NEW s \in States, NEW ev \in Events(Letters)
  PROVE  LET t == Emit(s, ev) IN
         /\ t \in States /\ t.wrote = Append(s.wrote, ev)
         /\ t.next = s.next /\ t.thinking = s.thinking /\ t.text = s.text /\ t.slots = s.slots
         /\ t.told = s.told /\ Flow(t) = Flow(s)
         /\ t.client.next = IF ev.type = "content_block_start" THEN s.client.next + 1 ELSE s.client.next
<1> DEFINE t == Emit(s, ev)
           w == Append(s.wrote, ev)
           z == See(s.client, ev)
<1>1. /\ t \in States /\ t.client = z /\ t.told = s.told /\ Flow(t) = Flow(s) /\ Blocks(t) = Blocks(s)
  BY EmitIs
<1>2. t = [s EXCEPT !.client = z, !.wrote = w]
  BY DEF Emit
<1>3. z.next = IF ev.type = "content_block_start" THEN s.client.next + 1 ELSE s.client.next
  BY DEF See
<1> HIDE DEF t, w, z
<1>4. t.wrote = w
  BY <1>2 DEF States
<1> QED BY <1>1, <1>3, <1>4, BlocksFields DEF t, w

\* One event more for the clients, too.
OneMore(s, t, ev) ==
  \A c0, m0 : /\ ConvertAll(c0, t.wrote) = ConvertEvent(ConvertAll(c0, s.wrote), ev)
              /\ GatherAll(m0, t.wrote) = Gather(GatherAll(m0, s.wrote), ev)

LEMMA LiveEmit ==
  ASSUME NEW s \in States, NEW t, NEW ev \in Events(Letters), t.wrote = Append(s.wrote, ev)
  PROVE  OneMore(s, t, ev)
<1> DEFINE w == s.wrote
<1>1. w \in Seq(Events(Letters))
  BY StateFields
<1> HIDE DEF w
<1>2. ASSUME NEW c0, NEW m0
      PROVE  /\ ConvertAll(c0, Append(w, ev)) = ConvertEvent(ConvertAll(c0, w), ev)
             /\ GatherAll(m0, Append(w, ev)) = Gather(GatherAll(m0, w), ev)
  BY <1>1, AllMore
<1> QED BY <1>2 DEF OneMore, w

\* The clients are as good after the event, for a state as it is after it.
Tells(s, t, ev) ==
  \A m, c, made, pieces :
    Mirrors(s, m, c, made, pieces) /\ Ready(m, c) =>
      Mirrors(t, Gather(m, ev), ConvertEvent(c, ev), made, pieces)
      /\ Ready(Gather(m, ev), ConvertEvent(c, ev))

LEMMA KeepsEvent ==
  ASSUME NEW s \in States, NEW t \in States, NEW ev \in Events(Letters),
         t.wrote = Append(s.wrote, ev), Tells(s, t, ev)
  PROVE  Keeps(s, t)
<1>1. ASSUME NEW c0, NEW m0, NEW made, NEW pieces, Live(s, c0, m0, made, pieces)
      PROVE  Live(t, c0, m0, made, pieces)
  <2> DEFINE c == ConvertAll(c0, s.wrote)
             m == GatherAll(m0, s.wrote)
  <2>1. Mirrors(s, m, c, made, pieces) /\ Ready(m, c)
    BY <1>1 DEF Live
  <2>2. OneMore(s, t, ev)
    BY LiveEmit
  <2>3. ConvertAll(c0, t.wrote) = ConvertEvent(c, ev) /\ GatherAll(m0, t.wrote) = Gather(m, ev)
    BY <2>2 DEF OneMore
  <2> HIDE DEF c, m
  <2>4. Mirrors(t, Gather(m, ev), ConvertEvent(c, ev), made, pieces)
        /\ Ready(Gather(m, ev), ConvertEvent(c, ev))
    BY <2>1 DEF Tells
  <2> QED BY <2>3, <2>4 DEF Live
<1> QED BY <1>1 DEF Keeps

LEMMA KeepsSilent ==
  ASSUME NEW s \in States, NEW t \in States, t.wrote = s.wrote,
         t.client.next = s.client.next, t.next = s.next, t.slots = s.slots, t.told = s.told,
         t.thinking = s.thinking \/ t.thinking = Closed,
         t.text = s.text \/ (s.text >= 0 /\ t.text = Closed)
  PROVE  Keeps(s, t)
<1>1. ASSUME NEW c0, NEW m0, NEW made, NEW pieces, Live(s, c0, m0, made, pieces)
      PROVE  Live(t, c0, m0, made, pieces)
  <2> DEFINE c == ConvertAll(c0, s.wrote)
             m == GatherAll(m0, s.wrote)
  <2>1. Mirrors(s, m, c, made, pieces) /\ Ready(m, c)
    BY <1>1 DEF Live
  <2> HIDE DEF c, m
  <2>2. Mirrors(t, m, c, made, pieces)
    BY <2>1, MirrorsSilent
  <2> QED BY <2>1, <2>2 DEF Live, c, m
<1> QED BY <1>1 DEF Keeps

LEMMA KeepsStop ==
  ASSUME NEW s \in States, NEW t \in States, NEW ev \in Events(Letters),
         ev.type = "content_block_stop", t.wrote = Append(s.wrote, ev),
         t.client.next = s.client.next, t.next = s.next, t.slots = s.slots, t.told = s.told,
         t.thinking = s.thinking \/ t.thinking = Closed,
         t.text = s.text \/ (s.text >= 0 /\ t.text = Closed)
  PROVE  Keeps(s, t)
<1>1. ASSUME NEW m, NEW c, NEW made, NEW pieces, Mirrors(s, m, c, made, pieces), Ready(m, c)
      PROVE  Mirrors(t, Gather(m, ev), ConvertEvent(c, ev), made, pieces)
             /\ Ready(Gather(m, ev), ConvertEvent(c, ev))
  <2>1. Gather(m, ev) = m /\ ConvertEvent(c, ev) = c
    BY TwinSilent
  <2>2. Mirrors(t, m, c, made, pieces)
    BY <1>1, MirrorsSilent
  <2> QED BY <1>1, <2>1, <2>2
<1>2. Tells(s, t, ev)
  BY <1>1 DEF Tells
<1> QED BY <1>2, KeepsEvent

\* A block of thinking ends.
LEMMA CloseThinkingStays ==
  ASSUME NEW s \in States
  PROVE  LET t == CloseThinkingBlock(s) IN
         Stays(s, t) /\ t.next = s.next /\ t.text = s.text /\ t.slots = s.slots /\ t.told = s.told
<1> DEFINE u == [s EXCEPT !.thinking = Closed]
           ev == Block("content_block_stop", s.thinking, "thinking")
           t == CloseThinkingBlock(s)
<1>1. CASE s.thinking >= 0
  <2>1. s.thinking \in Nat /\ Closed \in BlockState /\ "content_block_stop" \in EventTypes
        /\ "thinking" \in Kinds
    BY <1>1, StateFields DEF BlockState, NotOpened, Closed, EventTypes, Kinds
  <2>2. /\ u \in States /\ u.client = s.client /\ u.told = s.told
        /\ Blocks(u) = <<s.next, Closed, s.text, s.slots>>
    BY <2>1, ThinkingEdit
  <2>3. u.wrote = s.wrote
    BY DEF States
  <2>4. ev \in Events(Letters) /\ ev.type = "content_block_stop"
    BY <2>1, BlockEvent
  <2>5. t = Emit(u, ev)
    BY <1>1 DEF CloseThinkingBlock
  <2> HIDE DEF u, t, ev
  <2>6. u.next = s.next /\ u.thinking = Closed /\ u.text = s.text /\ u.slots = s.slots
    BY <2>2 DEF Blocks
  <2>7. /\ t \in States /\ t.wrote = Append(u.wrote, ev)
        /\ t.next = u.next /\ t.thinking = u.thinking /\ t.text = u.text /\ t.slots = u.slots
        /\ t.told = u.told /\ t.client.next = u.client.next
    BY <2>2, <2>4, <2>5, EmitGives
  <2>8. Keeps(s, t)
    BY <2>2, <2>3, <2>4, <2>6, <2>7, KeepsStop
  <2> QED BY <2>2, <2>6, <2>7, <2>8 DEF Stays, Spoken, t
<1>2. CASE ~(s.thinking >= 0)
  <2>1. t = s
    BY <1>2 DEF CloseThinkingBlock
  <2> QED BY <2>1, StaysSelf
<1> QED BY <1>1, <1>2

\* The block of text ends.
LEMMA CloseTextStays ==
  ASSUME NEW s \in States
  PROVE  Stays(s, CloseTextBlock(s))
<1> DEFINE u == [s EXCEPT !.text = Closed]
           ev == Block("content_block_stop", s.text, "text")
           t == CloseTextBlock(s)
<1>1. CASE s.text >= 0
  <2>1. s.text \in Nat /\ Closed \in BlockState /\ "content_block_stop" \in EventTypes
        /\ "text" \in Kinds
    BY <1>1, StateFields DEF BlockState, NotOpened, Closed, EventTypes, Kinds
  <2>2. /\ u \in States /\ u.client = s.client /\ u.told = s.told
        /\ Blocks(u) = <<s.next, s.thinking, Closed, s.slots>>
    BY <2>1, SpeechEdit
  <2>3. u.wrote = s.wrote
    BY DEF States
  <2>4. ev \in Events(Letters) /\ ev.type = "content_block_stop"
    BY <2>1, BlockEvent
  <2>5. t = Emit(u, ev)
    BY <1>1 DEF CloseTextBlock
  <2> HIDE DEF u, t, ev
  <2>6. u.next = s.next /\ u.thinking = s.thinking /\ u.text = Closed /\ u.slots = s.slots
    BY <2>2 DEF Blocks
  <2>7. /\ t \in States /\ t.wrote = Append(u.wrote, ev)
        /\ t.next = u.next /\ t.thinking = u.thinking /\ t.text = u.text /\ t.slots = u.slots
        /\ t.told = u.told /\ t.client.next = u.client.next
    BY <2>2, <2>4, <2>5, EmitGives
  <2>8. Keeps(s, t)
    BY <1>1, <2>2, <2>3, <2>4, <2>6, <2>7, KeepsStop
  <2>9. s.text # NotOpened
    BY <2>1 DEF NotOpened
  <2> QED BY <2>2, <2>6, <2>7, <2>8, <2>9 DEF Stays, Spoken, t
<1>2. CASE ~(s.text >= 0)
  <2>1. t = s
    BY <1>2 DEF CloseTextBlock
  <2> QED BY <2>1, StaysSelf
<1> QED BY <1>1, <1>2

LEMMA CloseSlotStays ==
  ASSUME NEW s \in States, NEW b \in Nat \cup {NotOpened}
  PROVE  Stays(s, CloseSlot(s, b))
<1> DEFINE ev == Block("content_block_stop", b, "tool_use")
           t == CloseSlot(s, b)
<1>1. CASE b >= 0
  <2>1. b \in Nat /\ "content_block_stop" \in EventTypes /\ "tool_use" \in Kinds
    BY <1>1 DEF NotOpened, EventTypes, Kinds
  <2>2. ev \in Events(Letters) /\ ev.type = "content_block_stop"
    BY <2>1, BlockEvent
  <2>3. t = Emit(s, ev)
    BY <1>1 DEF CloseSlot
  <2> HIDE DEF t, ev
  <2>4. /\ t \in States /\ t.wrote = Append(s.wrote, ev)
        /\ t.next = s.next /\ t.thinking = s.thinking /\ t.text = s.text /\ t.slots = s.slots
        /\ t.told = s.told /\ t.client.next = s.client.next
    BY <2>2, <2>3, EmitGives
  <2>5. Keeps(s, t)
    BY <2>2, <2>4, KeepsStop
  <2> QED BY <2>4, <2>5 DEF Stays, Spoken, t
<1>2. CASE ~(b >= 0)
  <2>1. t = s
    BY <1>2 DEF CloseSlot
  <2> QED BY <2>1, StaysSelf
<1> QED BY <1>1, <1>2

\* A block that begins, before it has its place among the variables.
LEMMA OpeningGives ==
  ASSUME NEW s \in States, NEW kind \in Kinds
  PROVE  LET o  == OpenBlock(s, kind)
             ev == Block("content_block_start", s.next, kind) IN
         /\ ev \in Events(Letters) /\ ev.type = "content_block_start" /\ ev.index = s.next /\ ev.kind = kind
         /\ o \in States /\ o.wrote = Append(s.wrote, ev)
         /\ o.next = s.next + 1 /\ o.client.next = s.client.next + 1
         /\ o.thinking = s.thinking /\ o.text = s.text /\ o.slots = s.slots /\ o.told = s.told
<1> DEFINE o  == OpenBlock(s, kind)
           ev == Block("content_block_start", s.next, kind)
           n  == s.next + 1
           u  == [s EXCEPT !.next = n]
<1>1. s.next \in Nat /\ n \in Nat
  BY StateFields
<1>2. ev \in Events(Letters) /\ ev.type = "content_block_start" /\ ev.index = s.next
  <2>1. "content_block_start" \in EventTypes
    BY DEF EventTypes
  <2> QED BY <1>1, <2>1, BlockEvent
<1>3. ev.kind = kind
  BY BlockIs
<1>4. o = Emit(u, ev)
  BY DEF OpenBlock
<1> HIDE DEF n
<1>5. u \in States /\ u.client = s.client /\ u.told = s.told /\ Blocks(u) = <<n, s.thinking, s.text, s.slots>>
  BY <1>1, NextEdit
<1>6. u.wrote = s.wrote
  BY DEF States
<1> HIDE DEF o, u, ev
<1>7. u.next = n /\ u.thinking = s.thinking /\ u.text = s.text /\ u.slots = s.slots
  BY <1>5 DEF Blocks
<1>8. /\ o \in States /\ o.wrote = Append(u.wrote, ev)
      /\ o.next = u.next /\ o.thinking = u.thinking /\ o.text = u.text /\ o.slots = u.slots
      /\ o.told = u.told /\ o.client.next = u.client.next + 1
  BY <1>2, <1>4, <1>5, EmitGives
<1> QED BY <1>2, <1>3, <1>5, <1>6, <1>7, <1>8 DEF o, ev, n

LEMMA OpenThinkingStays ==
  ASSUME NEW s \in States
  PROVE  LET t == [OpenBlock(s, "thinking") EXCEPT !.thinking = s.next] IN
         /\ Stays(s, t) /\ t.thinking = s.next
<1> DEFINE o  == OpenBlock(s, "thinking")
           ev == Block("content_block_start", s.next, "thinking")
           n  == s.next
           t  == [o EXCEPT !.thinking = n]
<1>1. "thinking" \in Kinds /\ n \in BlockState
  BY StateFields DEF Kinds, BlockState
<1>2. /\ ev \in Events(Letters) /\ ev.type = "content_block_start" /\ ev.index = n /\ ev.kind = "thinking"
      /\ o \in States /\ o.wrote = Append(s.wrote, ev)
      /\ o.next = n + 1 /\ o.client.next = s.client.next + 1
      /\ o.thinking = s.thinking /\ o.text = s.text /\ o.slots = s.slots /\ o.told = s.told
  BY <1>1, OpeningGives
<1> HIDE DEF o, ev
<1>3. t \in States /\ t.client = o.client /\ t.told = o.told /\ Blocks(t) = <<o.next, n, o.text, o.slots>>
  BY <1>1, <1>2, ThinkingEdit
<1>4. t.wrote = o.wrote
  BY <1>2 DEF States
<1> HIDE DEF t
<1>5. t.next = s.next + 1 /\ t.thinking = s.next /\ t.text = s.text /\ t.slots = s.slots /\ t.told = s.told
      /\ t.client.next = s.client.next + 1 /\ t.wrote = Append(s.wrote, ev)
  BY <1>2, <1>3, <1>4 DEF Blocks, n
<1>6. Tells(s, t, ev)
  <2>1. ASSUME NEW m, NEW c, NEW made, NEW pieces, Mirrors(s, m, c, made, pieces), Ready(m, c)
        PROVE  Mirrors(t, Gather(m, ev), ConvertEvent(c, ev), made, pieces)
               /\ Ready(Gather(m, ev), ConvertEvent(c, ev))
    BY <1>2, <1>5, <2>1, MirrorsThinking DEF n
  <2> QED BY <2>1 DEF Tells
<1>7. Keeps(s, t)
  BY <1>2, <1>3, <1>5, <1>6, KeepsEvent
<1> QED BY <1>5, <1>7 DEF Stays, Spoken, t, o, n

LEMMA ThoughtStays ==
  ASSUME NEW s \in States, s.thinking >= 0
  PROVE  Stays(s, Emit(s, Block("content_block_delta", s.thinking, "thinking")))
<1> DEFINE ev == Block("content_block_delta", s.thinking, "thinking")
           t  == Emit(s, ev)
<1>1. s.thinking \in Nat /\ "content_block_delta" \in EventTypes /\ "thinking" \in Kinds
  BY StateFields DEF BlockState, NotOpened, Closed, EventTypes, Kinds
<1>2. ev \in Events(Letters) /\ ev.type = "content_block_delta" /\ ev.index = s.thinking
  BY <1>1, BlockEvent
<1>3. ev.kind = "thinking" /\ ev.text = <<>>
  BY BlockIs
<1> HIDE DEF ev
<1>4. /\ t \in States /\ t.wrote = Append(s.wrote, ev)
      /\ t.next = s.next /\ t.thinking = s.thinking /\ t.text = s.text /\ t.slots = s.slots
      /\ t.told = s.told /\ t.client.next = s.client.next
  BY <1>2, EmitGives
<1> HIDE DEF t
<1>5. Tells(s, t, ev)
  <2>1. ASSUME NEW m, NEW c, NEW made, NEW pieces, Mirrors(s, m, c, made, pieces), Ready(m, c)
        PROVE  Mirrors(t, Gather(m, ev), ConvertEvent(c, ev), made, pieces)
               /\ Ready(Gather(m, ev), ConvertEvent(c, ev))
    BY <1>2, <1>3, <1>4, <2>1, MirrorsThought
  <2> QED BY <2>1 DEF Tells
<1>6. Keeps(s, t)
  BY <1>2, <1>4, <1>5, KeepsEvent
<1> QED BY <1>4, <1>6 DEF Stays, Spoken, t, ev

LEMMA EmitThinkingStays ==
  ASSUME NEW s \in States, NEW some \in BOOLEAN
  PROVE  Stays(s, EmitThinkingDelta(s, some))
<1> DEFINE w == [OpenBlock(s, "thinking") EXCEPT !.thinking = s.next]
           t == IF some /\ s.thinking = NotOpened THEN w ELSE s
           r == EmitThinkingDelta(s, some)
<1>1. r = IF some /\ t.thinking >= 0
          THEN Emit(t, Block("content_block_delta", t.thinking, "thinking")) ELSE t
  BY DEF EmitThinkingDelta
<1>2. Stays(s, w)
  BY OpenThinkingStays
<1>3. Stays(s, s)
  BY StaysSelf
<1> HIDE DEF w, r
<1>4. Stays(s, t)
  BY <1>2, <1>3
<1> HIDE DEF t
<1>5. t \in States
  BY <1>4 DEF Stays, Keeps
<1>6. CASE some /\ t.thinking >= 0
  <2>1. Stays(t, r)
    BY <1>1, <1>5, <1>6, ThoughtStays
  <2> QED BY <1>4, <2>1, StaysOn DEF r
<1>7. CASE ~(some /\ t.thinking >= 0)
  BY <1>1, <1>4, <1>7 DEF r
<1> QED BY <1>6, <1>7

\* The block of text begins, and text comes.
LEMMA OpenTextStays ==
  ASSUME NEW s \in States, s.text = NotOpened
  PROVE  LET t == [OpenBlock(s, "text") EXCEPT !.text = s.next] IN
         /\ Keeps(s, t) /\ t.text = s.next
<1> DEFINE o  == OpenBlock(s, "text")
           ev == Block("content_block_start", s.next, "text")
           n  == s.next
           t  == [o EXCEPT !.text = n]
<1>1. "text" \in Kinds /\ n \in BlockState
  BY StateFields DEF Kinds, BlockState
<1>2. /\ ev \in Events(Letters) /\ ev.type = "content_block_start" /\ ev.index = n /\ ev.kind = "text"
      /\ o \in States /\ o.wrote = Append(s.wrote, ev)
      /\ o.next = n + 1 /\ o.client.next = s.client.next + 1
      /\ o.thinking = s.thinking /\ o.text = s.text /\ o.slots = s.slots /\ o.told = s.told
  BY <1>1, OpeningGives
<1> HIDE DEF o, ev
<1>3. t \in States /\ t.client = o.client /\ t.told = o.told /\ Blocks(t) = <<o.next, o.thinking, n, o.slots>>
  BY <1>1, <1>2, SpeechEdit
<1>4. t.wrote = o.wrote
  BY <1>2 DEF States
<1> HIDE DEF t
<1>5. t.next = s.next + 1 /\ t.thinking = s.thinking /\ t.text = s.next /\ t.slots = s.slots /\ t.told = s.told
      /\ t.client.next = s.client.next + 1 /\ t.wrote = Append(s.wrote, ev)
  BY <1>2, <1>3, <1>4 DEF Blocks, n
<1>6. Tells(s, t, ev)
  <2>1. ASSUME NEW m, NEW c, NEW made, NEW pieces, Mirrors(s, m, c, made, pieces), Ready(m, c)
        PROVE  Mirrors(t, Gather(m, ev), ConvertEvent(c, ev), made, pieces)
               /\ Ready(Gather(m, ev), ConvertEvent(c, ev))
    BY <1>2, <1>5, <2>1, MirrorsSpeech DEF n
  <2> QED BY <2>1 DEF Tells
<1>7. Keeps(s, t)
  BY <1>2, <1>3, <1>5, <1>6, KeepsEvent
<1> QED BY <1>5, <1>7 DEF t, o, n

LEMMA TextDeltaIs ==
  ASSUME NEW n, NEW text
  PROVE  TextDelta(n, text) = [type |-> "content_block_delta", index |-> n, kind |-> "text",
                               text |-> text, call |-> 0, stop_reason |-> "none"]
<1>1. TextDelta(n, text) = [[type |-> "content_block_delta", index |-> n, kind |-> "text", text |-> <<>>,
                             call |-> 0, stop_reason |-> "none"] EXCEPT !.text = text]
  BY BlockIs DEF TextDelta
<1> QED BY <1>1, TextEdit

LEMMA SaidStays ==
  ASSUME NEW s \in States, s.text >= 0, NEW content \in Seq(Letters), content # <<>>
  PROVE  LET t == Emit([s EXCEPT !.told = @ \o content], TextDelta(s.text, content)) IN
         Keeps(s, t) /\ Spoken(t)
<1> DEFINE x  == s.told \o content
           u  == [s EXCEPT !.told = x]
           ev == TextDelta(s.text, content)
           t  == Emit(u, ev)
<1>1. s.text \in Nat /\ s.told \in Seq(Letters)
  BY StateFields DEF BlockState, NotOpened, Closed
<1>2. ev \in Events(Letters) /\ ev.type = "content_block_delta" /\ ev.index = s.text
  BY <1>1, DeltaEvent
<1>3. ev.kind = "text" /\ ev.text = content
  BY TextDeltaIs
<1>4. x \in Seq(Letters) /\ x # <<>>
  <2>1. x \in Seq(Letters) /\ Len(x) = Len(s.told) + Len(content)
    BY <1>1, ConcatIs
  <2>2. Len(content) \in Nat /\ Len(s.told) \in Nat /\ Len(content) # 0
    BY <1>1
  <2> QED BY <2>1, <2>2
<1>5. x = s.told \o ev.text
  BY <1>3
<1> HIDE DEF ev, x
<1>6. u \in States /\ u.client = s.client /\ u.told = x /\ Blocks(u) = Blocks(s)
  BY <1>4, ToldEdit
<1>7. u.wrote = s.wrote
  BY DEF States
<1> HIDE DEF u
<1>8. u.next = s.next /\ u.thinking = s.thinking /\ u.text = s.text /\ u.slots = s.slots
  BY <1>6, BlocksFields
<1>9. /\ t \in States /\ t.wrote = Append(u.wrote, ev)
      /\ t.next = u.next /\ t.thinking = u.thinking /\ t.text = u.text /\ t.slots = u.slots
      /\ t.told = u.told /\ t.client.next = u.client.next
  BY <1>2, <1>6, EmitGives
<1> HIDE DEF t
<1>10. Tells(s, t, ev)
  <2>1. ASSUME NEW m, NEW c, NEW made, NEW pieces, Mirrors(s, m, c, made, pieces), Ready(m, c)
        PROVE  Mirrors(t, Gather(m, ev), ConvertEvent(c, ev), made, pieces)
               /\ Ready(Gather(m, ev), ConvertEvent(c, ev))
    BY <1>2, <1>3, <1>5, <1>6, <1>8, <1>9, <2>1, MirrorsSaid
  <2> QED BY <2>1 DEF Tells
<1>11. Keeps(s, t)
  BY <1>2, <1>6, <1>7, <1>9, <1>10, KeepsEvent
<1>12. Spoken(t)
  BY <1>4, <1>6, <1>9 DEF Spoken
<1> QED BY <1>11, <1>12 DEF t, u, ev, x

LEMMA EmitTextStays ==
  ASSUME NEW s \in States, NEW content \in Seq(Letters)
  PROVE  Stays(s, EmitTextDelta(s, content))
<1> DEFINE r == EmitTextDelta(s, content)
           c == CloseThinkingBlock(s)
           w == [OpenBlock(c, "text") EXCEPT !.text = c.next]
           t == IF s.text = NotOpened THEN w ELSE s
<1>1. CASE content = <<>> \/ s.text = Closed
  <2>1. r = s
    BY <1>1 DEF EmitTextDelta
  <2> QED BY <2>1, StaysSelf
<1>2. CASE ~(content = <<>> \/ s.text = Closed)
  <2>1. r = Emit([t EXCEPT !.told = @ \o content], TextDelta(t.text, content))
    BY <1>2 DEF EmitTextDelta
  <2>2. Keeps(s, t) /\ t.text >= 0
    <3>1. CASE s.text = NotOpened
      <4>1. Keeps(s, c) /\ c.text = s.text
        BY CloseThinkingStays DEF Stays
      <4> HIDE DEF c
      <4>2. c \in States
        BY <4>1 DEF Keeps
      <4>3. Keeps(c, w) /\ w.text = c.next
        BY <3>1, <4>1, <4>2, OpenTextStays
      <4>4. c.next \in Nat
        BY <4>2, StateFields
      <4> HIDE DEF w
      <4>5. Keeps(s, w)
        BY <4>1, <4>3, KeepsOn
      <4> QED BY <3>1, <4>3, <4>4, <4>5
    <3>2. CASE s.text # NotOpened
      <4>1. s.text \in Nat /\ t = s
        BY <1>2, <3>2, StateFields DEF BlockState
      <4>2. Keeps(s, s)
        BY StaysSelf DEF Stays
      <4> HIDE DEF t
      <4> QED BY <4>1, <4>2
    <3> QED BY <3>1, <3>2
  <2> HIDE DEF t, r
  <2>3. t \in States
    BY <2>2 DEF Keeps
  <2>4. Keeps(t, r) /\ Spoken(r)
    BY <1>2, <2>1, <2>2, <2>3, SaidStays
  <2>5. Keeps(s, r)
    BY <2>2, <2>4, KeepsOn
  <2> QED BY <2>4, <2>5 DEF Stays, r
<1> QED BY <1>1, <1>2

-------------------------------------------------------------------------------
(* Tool calls: which were made, and with how many pieces.                      *)

\* From s to t call i is made, if it was not.
Makes(s, t, i) ==
  /\ t \in States
  /\ \A c0, m0, made, pieces : Live(s, c0, m0, made, pieces) => Live(t, c0, m0, made \cup {i}, pieces)

LEMMA SlotOfMakes ==
  ASSUME NEW s \in States, NEW call \in Pieces
  PROVE  LET t == SlotOf(s, call) IN Makes(s, t, call.index) /\ (Spoken(s) => Spoken(t))
<1> DEFINE i == call.index + 1
           q == Grown(s.slots, call)
           c == CloseThinkingBlock(s)
           n == c.next
           f == [q EXCEPT ![i] = n]
           u == [c EXCEPT !.next = n + 1, !.slots = f]
           v == [s EXCEPT !.slots = q]
           w == [c EXCEPT !.slots = q]
           ev == ToolUse("content_block_start", n, call.index)
           t == SlotOf(s, call)
<1>0. s.slots \in Slots /\ call.index \in Nat /\ i \in Nat
  BY StateFields DEF Pieces
<1>1. q \in Slots /\ i \in DOMAIN q /\ GrownFrom(s.slots, q)
  BY <1>0, GrownIs DEF GrownFrom
<1>2. t = IF q[i] # NotOpened THEN v ELSE Emit(u, ev)
  BY DEF SlotOf, Grown
<1>3. /\ Stays(s, c) /\ c.next = s.next /\ c.text = s.text /\ c.slots = s.slots /\ c.told = s.told
  BY CloseThinkingStays
<1> HIDE DEF q, c, t
<1>4. c \in States /\ n \in Nat /\ n + 1 \in Nat
  <2>1. c \in States
    BY <1>3 DEF Stays, Keeps
  <2> QED BY <2>1, StateFields
<1>5. CASE q[i] # NotOpened
  <2>1. /\ v \in States /\ v.client = s.client /\ v.told = s.told
        /\ Blocks(v) = <<s.next, s.thinking, s.text, q>>
    BY <1>1, SlotsEdit
  <2>2. v.wrote = s.wrote
    BY DEF States
  <2>3. t = v
    BY <1>2, <1>5
  <2> HIDE DEF v
  <2>4. v.next = s.next /\ v.thinking = s.thinking /\ v.text = s.text /\ v.slots = q
    BY <2>1 DEF Blocks
  <2>5. ASSUME NEW c0, NEW m0, NEW made, NEW pieces, Live(s, c0, m0, made, pieces)
        PROVE  Live(v, c0, m0, made \cup {call.index}, pieces)
    <3> DEFINE d == ConvertAll(c0, s.wrote)
               m == GatherAll(m0, s.wrote)
    <3>1. Mirrors(s, m, d, made, pieces) /\ Ready(m, d)
      BY <2>5 DEF Live
    <3> HIDE DEF d, m
    <3>2. Mirrors(v, m, d, made, pieces)
      BY <1>1, <2>1, <2>4, <3>1, MirrorsGrown
    <3>3. call.index \in made
      BY <1>0, <1>1, <1>5, <2>4, <3>2, SlotTaken
    <3>4. made \cup {call.index} = made
      BY <3>3
    <3> QED BY <2>2, <3>1, <3>2, <3>4 DEF Live, d, m
  <2>6. Makes(s, v, call.index)
    BY <2>1, <2>5 DEF Makes
  <2>7. Spoken(s) => Spoken(v)
    BY <2>1, <2>4 DEF Spoken
  <2> QED BY <2>3, <2>6, <2>7 DEF t
<1>6. CASE q[i] = NotOpened
  <2>0. f \in Slots /\ DOMAIN f = DOMAIN q /\ f[i] = n /\ \A k \in DOMAIN q : k # i => f[k] = q[k]
    <3>1. n \in Nat \cup {NotOpened}
      BY <1>4
    <3> HIDE DEF n, i
    <3> QED BY <1>1, <3>1 DEF Slots
  <2> HIDE DEF f
  <2>1. /\ w \in States /\ w.client = c.client /\ w.told = c.told
        /\ Blocks(w) = <<c.next, c.thinking, c.text, q>>
    BY <1>1, <1>4, SlotsEdit
  <2>2. w.wrote = c.wrote
    BY <1>4 DEF States
  <2> HIDE DEF n
  <2>3. /\ u \in States /\ u.client = c.client /\ u.told = c.told /\ Flow(u) = Flow(c)
        /\ Blocks(u) = <<n + 1, c.thinking, c.text, f>>
    BY <1>4, <2>0, NextSlotsEdit
  <2>4. u.wrote = c.wrote
    BY <1>4 DEF States
  <2>5. t = Emit(u, ev)
    BY <1>2, <1>6
  <2>6. ev \in Events(Letters) /\ ev.type = "content_block_start" /\ ev.index = n
    <3>1. "content_block_start" \in EventTypes
      BY DEF EventTypes
    <3> QED BY <1>0, <1>4, <3>1, ToolEvent
  <2>7. ev.kind = "tool_use" /\ ev.call = call.index
    BY ToolUseIs
  <2> HIDE DEF u, w, ev
  <2>8. w.next = n /\ w.thinking = c.thinking /\ w.text = c.text /\ w.slots = q
        /\ u.next = n + 1 /\ u.thinking = c.thinking /\ u.text = c.text /\ u.slots = f
    BY <2>1, <2>3 DEF Blocks, n
  <2>9. /\ t \in States /\ t.wrote = Append(u.wrote, ev)
        /\ t.next = u.next /\ t.thinking = u.thinking /\ t.text = u.text /\ t.slots = u.slots
        /\ t.told = u.told /\ t.client.next = u.client.next + 1
    BY <2>3, <2>5, <2>6, EmitGives
  <2>10. ASSUME NEW c0, NEW m0, NEW made, NEW pieces, Live(s, c0, m0, made, pieces)
         PROVE  Live(t, c0, m0, made \cup {call.index}, pieces)
    <3>1. Live(c, c0, m0, made, pieces)
      BY <1>3, <2>10 DEF Stays, Keeps
    <3> DEFINE d == ConvertAll(c0, c.wrote)
               m == GatherAll(m0, c.wrote)
    <3>2. Mirrors(c, m, d, made, pieces) /\ Ready(m, d)
      BY <3>1 DEF Live
    <3>3. t.wrote = Append(c.wrote, ev)
      BY <2>4, <2>9
    <3>4. OneMore(c, t, ev)
      BY <1>4, <2>6, <3>3, LiveEmit
    <3>5. ConvertAll(c0, t.wrote) = ConvertEvent(d, ev) /\ GatherAll(m0, t.wrote) = Gather(m, ev)
      BY <3>4 DEF OneMore
    <3> HIDE DEF d, m
    <3>6. Mirrors(w, m, d, made, pieces)
      <4>1. GrownFrom(c.slots, w.slots)
        BY <1>1, <1>3, <2>8
      <4> QED BY <2>1, <2>8, <3>2, <4>1, MirrorsGrown DEF n
    <3>7. /\ call.index + 1 \in DOMAIN w.slots /\ w.slots[call.index + 1] = NotOpened
          /\ DOMAIN t.slots = DOMAIN w.slots /\ t.slots[call.index + 1] = w.next
          /\ \A k \in DOMAIN w.slots : k # call.index + 1 => t.slots[k] = w.slots[k]
      BY <1>1, <1>6, <2>0, <2>8, <2>9
    <3>8. t.client.next = w.client.next + 1 /\ t.next = w.next + 1 /\ t.told = w.told
          /\ t.text = w.text /\ t.thinking = w.thinking
      BY <2>1, <2>3, <2>8, <2>9
    <3>9. ev.index = w.next
      BY <2>6, <2>8
    <3>10. Mirrors(t, Gather(m, ev), ConvertEvent(d, ev), made \cup {call.index}, pieces)
           /\ Ready(Gather(m, ev), ConvertEvent(d, ev))
      BY <1>0, <2>6, <2>7, <3>2, <3>6, <3>7, <3>8, <3>9, MirrorsCall
    <3> QED BY <3>5, <3>10 DEF Live
  <2>11. Makes(s, t, call.index)
    BY <2>9, <2>10 DEF Makes
  <2>12. Spoken(s) => Spoken(t)
    BY <1>3, <2>3, <2>8, <2>9 DEF Spoken
  <2> QED BY <2>11, <2>12 DEF t
<1> QED BY <1>5, <1>6

\* One piece more, or none.
MoreOf(pieces, call) == IF call.args THEN [pieces EXCEPT ![call.index] = @ + 1] ELSE pieces

\* From s to t the clients get the piece.
Gets(s, t, call) ==
  /\ t \in States
  /\ \A c0, m0, made, pieces :
       Live(s, c0, m0, made, pieces) => Live(t, c0, m0, made \cup {call.index}, MoreOf(pieces, call))

LEMMA ToolCallGets ==
  ASSUME NEW s \in States, NEW call \in Pieces
  PROVE  LET t == ToolCall(s, call) IN Gets(s, t, call) /\ (Spoken(s) => Spoken(t))
<1> DEFINE t == SlotOf(s, call)
           b == t.slots[call.index + 1]
           ev == ToolUse("content_block_delta", b, call.index)
           r == ToolCall(s, call)
<1>1. call.index + 1 \in DOMAIN t.slots /\ b \in Nat
  BY SlotOfIs
<1>2. r = IF call.args THEN Emit(t, ev) ELSE t
  BY DEF ToolCall
<1>3. Makes(s, t, call.index) /\ (Spoken(s) => Spoken(t))
  BY SlotOfMakes
<1> HIDE DEF t, r
<1>4. t \in States /\ call.index \in Nat
  BY <1>3 DEF Makes, Pieces
<1>5. CASE call.args
  <2>1. ev \in Events(Letters) /\ ev.type = "content_block_delta" /\ ev.index = b
    <3>1. "content_block_delta" \in EventTypes
      BY DEF EventTypes
    <3> QED BY <1>1, <1>4, <3>1, ToolEvent
  <2>2. ev.kind = "tool_use" /\ ev.call = call.index
    BY ToolUseIs
  <2>3. r = Emit(t, ev)
    BY <1>2, <1>5
  <2> HIDE DEF ev
  <2>4. /\ r \in States /\ r.wrote = Append(t.wrote, ev)
        /\ r.next = t.next /\ r.thinking = t.thinking /\ r.text = t.text /\ r.slots = t.slots
        /\ r.told = t.told /\ r.client.next = t.client.next
    BY <1>4, <2>1, <2>3, EmitGives
  <2>5. ASSUME NEW c0, NEW m0, NEW made, NEW pieces, Live(s, c0, m0, made, pieces)
        PROVE  Live(r, c0, m0, made \cup {call.index}, MoreOf(pieces, call))
    <3> DEFINE d == ConvertAll(c0, t.wrote)
               m == GatherAll(m0, t.wrote)
               had == made \cup {call.index}
               more == [pieces EXCEPT ![call.index] = @ + 1]
    <3>1. Live(t, c0, m0, had, pieces)
      BY <1>3, <2>5 DEF Makes
    <3>2. Mirrors(t, m, d, had, pieces) /\ Ready(m, d)
      BY <3>1 DEF Live
    <3>3. OneMore(t, r, ev)
      BY <1>4, <2>1, <2>4, LiveEmit
    <3>4. ConvertAll(c0, r.wrote) = ConvertEvent(d, ev) /\ GatherAll(m0, r.wrote) = Gather(m, ev)
      BY <3>3 DEF OneMore
    <3>5. call.index \in had
      OBVIOUS
    <3> HIDE DEF d, m, had
    <3>6. ev.index = t.slots[call.index + 1]
      BY <2>1
    <3>7. Mirrors(r, Gather(m, ev), ConvertEvent(d, ev), had, more)
          /\ Ready(Gather(m, ev), ConvertEvent(d, ev))
      BY <2>1, <2>2, <2>4, <3>2, <3>5, <3>6, MirrorsPiece
    <3>8. MoreOf(pieces, call) = more
      BY <1>5 DEF MoreOf
    <3> HIDE DEF more
    <3> QED BY <3>4, <3>7, <3>8 DEF Live, had
  <2>6. Gets(s, r, call)
    BY <2>4, <2>5 DEF Gets
  <2>7. Spoken(t) => Spoken(r)
    BY <2>4 DEF Spoken
  <2> QED BY <1>3, <2>6, <2>7 DEF r
<1>6. CASE ~call.args
  <2>1. r = t
    BY <1>2, <1>6
  <2>2. Gets(s, t, call)
    BY <1>3, <1>6 DEF Gets, Makes, MoreOf
  <2> QED BY <1>3, <2>1, <2>2 DEF r
<1> QED BY <1>5, <1>6

\* What a list of pieces amounts to.
MadeBy(q) == {q[k].index : k \in DOMAIN q}
CountOf(q, i) == Cardinality({k \in DOMAIN q : q[k].index = i /\ q[k].args})
PiecesBy(q) == [i \in Nat |-> CountOf(q, i)]

\* And with a piece more.
LEMMA OneCallMore ==
  ASSUME NEW q \in Seq(Pieces), NEW call \in Pieces
  PROVE  /\ MadeBy(Append(q, call)) = MadeBy(q) \cup {call.index}
         /\ PiecesBy(Append(q, call)) = MoreOf(PiecesBy(q), call)
<1> DEFINE n == Len(q)
           r == Append(q, call)
           Has(p, i) == {k \in DOMAIN p : p[k].index = i /\ p[k].args}
<1>1. n \in Nat /\ DOMAIN q = 1..n /\ DOMAIN r = (1..n) \cup {n + 1} /\ n + 1 \notin 1..n
      /\ (\A k \in 1..n : r[k] = q[k]) /\ r[n + 1] = call
  OBVIOUS
<1> HIDE DEF r, n
<1>2. MadeBy(r) = MadeBy(q) \cup {call.index}
  BY <1>1 DEF MadeBy
<1>3. ASSUME NEW i \in Nat
      PROVE  CountOf(r, i) = IF call.args /\ i = call.index THEN CountOf(q, i) + 1 ELSE CountOf(q, i)
  <2>1. IsFiniteSet(Has(q, i)) /\ n + 1 \notin Has(q, i)
    <3>1. Has(q, i) \subseteq 1..n /\ IsFiniteSet(1..n)
      BY <1>1, FS_Interval
    <3> QED BY <1>1, <3>1, FS_Subset
  <2>2. CASE call.args /\ i = call.index
    <3>1. Has(r, i) = Has(q, i) \cup {n + 1}
      BY <1>1, <2>2
    <3>2. Cardinality(Has(q, i) \cup {n + 1}) = Cardinality(Has(q, i)) + 1
      <4> HIDE DEF Has
      <4> QED BY <2>1, FS_AddElement
    <3> QED BY <2>2, <3>1, <3>2 DEF CountOf
  <2>3. CASE ~(call.args /\ i = call.index)
    <3>1. Has(r, i) = Has(q, i)
      BY <1>1, <2>3
    <3> QED BY <2>3, <3>1 DEF CountOf
  <2> QED BY <2>2, <2>3
<1>4. PiecesBy(r) = MoreOf(PiecesBy(q), call)
  <2>1. call.index \in Nat
    BY DEF Pieces
  <2>2. CASE call.args
    <3>1. \A i \in Nat : CountOf(r, i) = IF i = call.index THEN CountOf(q, i) + 1 ELSE CountOf(q, i)
      BY <1>3, <2>2
    <3> QED BY <2>1, <2>2, <3>1 DEF PiecesBy, MoreOf
  <2>3. CASE ~call.args
    <3>1. \A i \in Nat : CountOf(r, i) = CountOf(q, i)
      BY <1>3, <2>3
    <3> QED BY <2>3, <3>1 DEF PiecesBy, MoreOf
  <2> QED BY <2>2, <2>3
<1> QED BY <1>2, <1>4 DEF r

\* The clients have the calls of p, and with a turn those of q too.
LiveWith(s, c0, m0, p) == Live(s, c0, m0, MadeBy(p), PiecesBy(p))

Adds(s, t, q) ==
  /\ t \in States /\ (Spoken(s) => Spoken(t))
  /\ \A c0, m0 : \A p \in Seq(Pieces) : LiveWith(s, c0, m0, p) => LiveWith(t, c0, m0, p \o q)

LEMMA StaysThenAdds ==
  ASSUME NEW s, NEW t, NEW u, NEW q, Stays(s, t), Adds(t, u, q)
  PROVE  Adds(s, u, q)
BY DEF Stays, Keeps, Adds, LiveWith

LEMMA AddsThenStays ==
  ASSUME NEW s, NEW t, NEW u, NEW q, Adds(s, t, q), Stays(t, u)
  PROVE  Adds(s, u, q)
BY DEF Stays, Keeps, Adds, LiveWith

LEMMA AddsNone == ASSUME NEW s \in States PROVE Adds(s, s, <<>>)
<1>1. ASSUME NEW p \in Seq(Pieces) PROVE p \o <<>> = p
  <2> HIDE DEF Pieces
  <2> QED OBVIOUS
<1> QED BY <1>1 DEF Adds

LEMMA AddsOne ==
  ASSUME NEW s, NEW t, NEW q \in Seq(Pieces), Adds(s, t, q), NEW call \in Pieces
  PROVE  Adds(s, ToolCall(t, call), Append(q, call))
<1> DEFINE u == ToolCall(t, call)
<1>1. t \in States
  BY DEF Adds
<1>2. Gets(t, u, call) /\ (Spoken(t) => Spoken(u))
  BY <1>1, ToolCallGets
<1> HIDE DEF u
<1>3. ASSUME NEW c0, NEW m0, NEW p \in Seq(Pieces), LiveWith(s, c0, m0, p)
      PROVE  LiveWith(u, c0, m0, p \o Append(q, call))
  <2> DEFINE r == p \o q
  <2>1. r \in Seq(Pieces)
    BY ConcatIs
  <2>2. LiveWith(t, c0, m0, r)
    BY <1>3 DEF Adds
  <2>3. p \o Append(q, call) = Append(r, call)
    <3> HIDE DEF Pieces
    <3> QED OBVIOUS
  <2> HIDE DEF r
  <2>4. Live(u, c0, m0, MadeBy(r) \cup {call.index}, MoreOf(PiecesBy(r), call))
    BY <1>2, <2>2 DEF Gets, LiveWith
  <2>5. MadeBy(Append(r, call)) = MadeBy(r) \cup {call.index}
        /\ PiecesBy(Append(r, call)) = MoreOf(PiecesBy(r), call)
    BY <2>1, OneCallMore
  <2> QED BY <2>3, <2>4, <2>5 DEF LiveWith
<1>4. u \in States /\ (Spoken(s) => Spoken(u))
  BY <1>2 DEF Adds, Gets
<1> QED BY <1>3, <1>4 DEF Adds, u

\* What holds after i turns of the loop over the tool calls.
CallsAdd(s, q, i, t) == Adds(s, t, SubSeq(q, 1, i))
AddLoop == INSTANCE FoldTheorems WITH Step <- ToolCall, Good <- CallsAdd

LEMMA ToolCallsAdd ==
  ASSUME NEW s \in States, NEW calls \in Seq(Pieces)
  PROVE  Adds(s, ToolCalls(s, calls), calls)
<1>1. ToolCalls(s, calls) = AddLoop!Run(s, calls)
  BY DEF ToolCalls, AddLoop!Run, FoldLeft, AddLoop!FoldLeft, MapThenFoldSet,
         AddLoop!MapThenFoldSet, Max, AddLoop!Max
<1>2. CallsAdd(s, calls, 0, s)
  <2>1. SubSeq(calls, 1, 0) = <<>>
    <3> HIDE DEF Pieces
    <3> QED OBVIOUS
  <2> QED BY <2>1, AddsNone DEF CallsAdd
<1>3. ASSUME NEW i \in 0..Len(calls) - 1, NEW t, CallsAdd(s, calls, i, t)
      PROVE  CallsAdd(s, calls, i + 1, ToolCall(t, calls[i + 1]))
  <2> DEFINE q == SubSeq(calls, 1, i)
             call == calls[i + 1]
  <2>1. q \in Seq(Pieces) /\ call \in Pieces /\ SubSeq(calls, 1, i + 1) = Append(q, call)
    <3> HIDE DEF Pieces
    <3>1. q \in Seq(Pieces) /\ call \in Pieces
      OBVIOUS
    <3>2. SubSeq(calls, 1, i + 1) = Append(q, call)
      OBVIOUS
    <3> QED BY <3>1, <3>2
  <2>2. Adds(s, t, q)
    BY <1>3 DEF CallsAdd
  <2> HIDE DEF q, call
  <2>3. Adds(s, ToolCall(t, call), Append(q, call))
    BY <2>1, <2>2, AddsOne
  <2> QED BY <2>1, <2>3 DEF CallsAdd, call
<1>4. CallsAdd(s, calls, Len(calls), AddLoop!Run(s, calls))
  BY <1>2, <1>3, AddLoop!LoopInvariant
<1>5. SubSeq(calls, 1, Len(calls)) = calls
  <2> HIDE DEF Pieces
  <2> QED OBVIOUS
<1> QED BY <1>1, <1>4, <1>5 DEF CallsAdd

-------------------------------------------------------------------------------
(* The rest of a turn.                                                         *)

\* Only variables that the clients do not see change.
LEMMA EditStays ==
  ASSUME NEW s \in States, NEW t \in States, t.wrote = s.wrote, t.client = s.client,
         t.told = s.told, Blocks(t) = Blocks(s)
  PROVE  Stays(s, t)
<1>1. t.next = s.next /\ t.thinking = s.thinking /\ t.text = s.text /\ t.slots = s.slots
  BY BlocksFields
<1>2. Keeps(s, t)
  BY <1>1, KeepsSilent
<1> QED BY <1>1, <1>2 DEF Stays, Spoken

LEMMA ContentStays ==
  ASSUME NEW s \in States, NEW content \in Seq(Letters)
  PROVE  Stays(s, Content(s, content))
<1> DEFINE p == Process[s.partial \o content][s.inThink]
           u == [s EXCEPT !.inThink = p.inThink, !.partial = p.partial]
           v == EmitThinkingDelta(u, p.think # <<>>)
           r == EmitTextDelta(v, p.text)
           t == Content(s, content)
<1>1. CASE content = <<>>
  <2>1. t = s
    BY <1>1 DEF Content
  <2> QED BY <2>1, StaysSelf
<1>2. CASE content # <<>>
  <2>1. t = r
    BY <1>2 DEF Content
  <2>2. p \in Filtered
    <3>1. s.partial \o content \in Seq(Letters) /\ s.inThink \in BOOLEAN
      BY StateFields, ConcatIs
    <3> QED BY <3>1, MeaningType
  <2>3. p.inThink \in BOOLEAN /\ p.partial \in Seq(Letters) /\ p.text \in Seq(Letters)
    BY <2>2 DEF Filtered
  <2> HIDE DEF p, t
  <2>4. u \in States /\ u.client = s.client /\ u.told = s.told /\ Blocks(u) = Blocks(s) /\ u.wrote = s.wrote
    BY <2>3 DEF States, Blocks
  <2> HIDE DEF u
  <2>5. Stays(s, u)
    BY <2>4, EditStays
  <2>6. Stays(u, v)
    <3>1. (p.think # <<>>) \in BOOLEAN
      OBVIOUS
    <3> QED BY <2>4, <3>1, EmitThinkingStays
  <2> HIDE DEF v
  <2>7. Stays(v, r)
    <3>1. v \in States
      BY <2>6 DEF Stays, Keeps
    <3> QED BY <2>3, <3>1, EmitTextStays
  <2> HIDE DEF r
  <2>8. Stays(s, r)
    BY <2>5, <2>6, <2>7, StaysOn
  <2> QED BY <2>1, <2>8 DEF t
<1> QED BY <1>1, <1>2

LEMMA FlushStays ==
  ASSUME NEW s \in States
  PROVE  Stays(s, Flush(s))
<1> DEFINE u == [s EXCEPT !.partial = <<>>]
           v == EmitThinkingDelta(u, s.partial # <<>>)
           w == EmitTextDelta(u, s.partial)
<1>0. s.partial \in Seq(Letters)
  BY StateFields
<1>1. Flush(s) = IF s.inThink THEN v ELSE w
  BY DEF Flush
<1>2. u \in States /\ u.client = s.client /\ u.told = s.told /\ Blocks(u) = Blocks(s)
  BY PartialEdit
<1>3. u.wrote = s.wrote
  BY DEF States
<1> HIDE DEF u
<1>4. Stays(s, u)
  BY <1>2, <1>3, EditStays
<1>5. Stays(u, v)
  <2>1. (s.partial # <<>>) \in BOOLEAN
    OBVIOUS
  <2> QED BY <1>2, <2>1, EmitThinkingStays
<1>6. Stays(u, w)
  BY <1>0, <1>2, EmitTextStays
<1> HIDE DEF v, w
<1>7. Stays(s, v) /\ Stays(s, w)
  BY <1>4, <1>5, <1>6, StaysOn
<1> QED BY <1>1, <1>7

\* The slots that are closed after i turns.
SlotsStay(s, q, i, t) == Stays(s, t)
StayLoop == INSTANCE FoldTheorems WITH Step <- CloseSlot, Good <- SlotsStay

LEMMA CloseSlotsStays ==
  ASSUME NEW s \in States
  PROVE  Stays(s, CloseSlots(s))
<1> DEFINE q == s.slots
           B == Nat \cup {NotOpened}
<1>0. q \in Seq(B) /\ Len(q) \in Nat /\ DOMAIN q = 1..Len(q)
  BY StateFields DEF Slots
<1>1. CloseSlots(s) = StayLoop!Run(s, q)
  BY DEF CloseSlots, StayLoop!Run, FoldLeft, StayLoop!FoldLeft, MapThenFoldSet,
         StayLoop!MapThenFoldSet, Max, StayLoop!Max
<1>2. SlotsStay(s, q, 0, s)
  BY StaysSelf DEF SlotsStay
<1>3. ASSUME NEW i \in 0..Len(q) - 1, NEW t, SlotsStay(s, q, i, t)
      PROVE  SlotsStay(s, q, i + 1, CloseSlot(t, q[i + 1]))
  <2> DEFINE b == q[i + 1]
  <2>1. b \in B
    <3> HIDE DEF B, q
    <3> QED BY <1>0
  <2> HIDE DEF b
  <2>2. Stays(s, t) /\ t \in States
    BY <1>3 DEF SlotsStay, Stays, Keeps
  <2>3. Stays(t, CloseSlot(t, b))
    BY <2>1, <2>2, CloseSlotStays
  <2>4. Stays(s, CloseSlot(t, b))
    BY <2>2, <2>3, StaysOn
  <2> QED BY <2>4 DEF SlotsStay, b
<1>4. SlotsStay(s, q, Len(q), StayLoop!Run(s, q))
  <2> HIDE DEF q, B
  <2> QED BY <1>0, <1>2, <1>3, StayLoop!LoopInvariant
<1> QED BY <1>1, <1>4 DEF SlotsStay

\* What a finish_reason closes, before it ends the message.
ClosingUp(s) == CloseTextBlock(CloseSlots(CloseThinkingBlock(Flush([s EXCEPT !.ended = TRUE]))))

LEMMA ClosingStays ==
  ASSUME NEW s \in States
  PROVE  Stays(s, ClosingUp(s))
<1> DEFINE a == [s EXCEPT !.ended = TRUE]
           b == Flush(a)
           c == CloseThinkingBlock(b)
           d == CloseSlots(c)
           e == CloseTextBlock(d)
<1>1. a \in States /\ a.client = s.client /\ a.told = s.told /\ Blocks(a) = Blocks(s)
  BY EndedEdit
<1>2. a.wrote = s.wrote
  BY DEF States
<1>3. ClosingUp(s) = e
  BY DEF ClosingUp
<1> HIDE DEF a
<1>4. Stays(s, a)
  BY <1>1, <1>2, EditStays
<1>5. Stays(a, b) /\ b \in States
  BY <1>1, FlushStays DEF Stays, Keeps
<1> HIDE DEF b
<1>6. Stays(b, c) /\ c \in States
  BY <1>5, CloseThinkingStays DEF Stays, Keeps
<1> HIDE DEF c
<1>7. Stays(c, d) /\ d \in States
  BY <1>6, CloseSlotsStays DEF Stays, Keeps
<1> HIDE DEF d
<1>8. Stays(d, e)
  BY <1>7, CloseTextStays
<1> HIDE DEF e
<1> QED BY <1>3, <1>4, <1>5, <1>6, <1>7, <1>8, StaysOn

\* The clients have what the stream has written, and the calls of p.
Was(s, c, m, p) == Mirrors(s, m, c, MadeBy(p), PiecesBy(p))

\* Where the message is, for both of them.
At(s, m, c) ==
  /\ s.started = FALSE => Waiting(m, c)
  /\ s.started = TRUE /\ s.ended = FALSE => Ready(m, c)
  /\ s.started = TRUE /\ s.ended = TRUE => Ending(m, c)

\* message_start, unless it was written before.
LEMMA StartServes ==
  ASSUME NEW s \in States, s.wrote = <<>>, s.ended = FALSE,
         NEW c0, NEW m0, NEW p, Was(s, c0, m0, p), At(s, m0, c0), Spoken(s)
  PROVE  LET t == StartMessage(s) IN t \in States /\ LiveWith(t, c0, m0, p) /\ Spoken(t)
<1> DEFINE t == StartMessage(s)
           u == [s EXCEPT !.started = TRUE]
           ev == Plain("message_start")
<1>0. s.started \in BOOLEAN /\ ConvertAll(c0, s.wrote) = c0 /\ GatherAll(m0, s.wrote) = m0
  BY StateFields, AllOfNone
<1>1. CASE s.started = TRUE
  <2>1. t = s
    BY <1>1 DEF StartMessage
  <2>2. Ready(m0, c0)
    BY <1>1 DEF At
  <2>3. Live(s, c0, m0, MadeBy(p), PiecesBy(p))
    BY <1>0, <2>2 DEF Live, Was
  <2> QED BY <2>1, <2>3 DEF LiveWith
<1>2. CASE s.started = FALSE
  <2>1. t = Emit(u, ev)
    BY <1>2 DEF StartMessage
  <2>2. u \in States /\ u.client = s.client /\ u.told = s.told /\ Blocks(u) = Blocks(s)
    BY StartedEdit
  <2>3. u.wrote = s.wrote
    BY DEF States
  <2>4. ev \in Events(Letters) /\ ev.type = "message_start"
    <3>1. "message_start" \in EventTypes
      BY DEF EventTypes
    <3> QED BY <3>1, PlainEvent
  <2> HIDE DEF u, ev, t
  <2>5. u.next = s.next /\ u.thinking = s.thinking /\ u.text = s.text /\ u.slots = s.slots
    BY <2>2, BlocksFields
  <2>6. /\ t \in States /\ t.wrote = Append(u.wrote, ev)
        /\ t.next = u.next /\ t.thinking = u.thinking /\ t.text = u.text /\ t.slots = u.slots
        /\ t.told = u.told /\ t.client.next = u.client.next
    BY <2>1, <2>2, <2>4, EmitGives
  <2>7. OneMore(s, t, ev)
    BY <2>3, <2>4, <2>6, LiveEmit
  <2>8. ConvertAll(c0, t.wrote) = ConvertEvent(c0, ev) /\ GatherAll(m0, t.wrote) = Gather(m0, ev)
    BY <1>0, <2>7 DEF OneMore
  <2>9. Waiting(m0, c0)
    BY <1>2 DEF At
  <2> DEFINE made == MadeBy(p)
             pieces == PiecesBy(p)
  <2>10. Mirrors(s, m0, c0, made, pieces)
    BY DEF Was
  <2> HIDE DEF made, pieces
  <2>11. Mirrors(t, Gather(m0, ev), ConvertEvent(c0, ev), made, pieces)
         /\ Ready(Gather(m0, ev), ConvertEvent(c0, ev))
    BY <2>2, <2>4, <2>5, <2>6, <2>9, <2>10, MirrorsStart
  <2>12. Live(t, c0, m0, made, pieces)
    BY <2>8, <2>11 DEF Live
  <2>13. Spoken(t)
    BY <2>2, <2>5, <2>6 DEF Spoken
  <2> QED BY <2>6, <2>12, <2>13 DEF LiveWith, made, pieces, t
<1> QED BY <1>0, <1>1, <1>2

LEMMA DeltaServes ==
  ASSUME NEW s \in States, s.wrote = <<>>, s.ended = FALSE, NEW c \in PlacedChunks,
         NEW c0, NEW m0, NEW p \in Seq(Pieces), Was(s, c0, m0, p), At(s, m0, c0), Spoken(s)
  PROVE  LET t == Delta(s, c) IN
         t \in States /\ LiveWith(t, c0, m0, p \o c.tools) /\ Spoken(t)
<1> DEFINE a == StartMessage(s)
           b == EmitThinkingDelta(a, c.reasoning)
           d == ToolCalls(b, c.tools)
           t == Content(d, c.content)
<1>0. c.reasoning \in BOOLEAN /\ c.tools \in Seq(Pieces) /\ c.content \in Seq(Letters)
  BY DEF PlacedChunks
<1>1. Delta(s, c) = t
  BY DEF Delta
<1>2. a \in States /\ LiveWith(a, c0, m0, p) /\ Spoken(a)
  BY StartServes
<1> HIDE DEF a
<1>3. Stays(a, b) /\ b \in States
  BY <1>0, <1>2, EmitThinkingStays DEF Stays, Keeps
<1> HIDE DEF b
<1>4. Adds(b, d, c.tools) /\ d \in States
  BY <1>0, <1>3, ToolCallsAdd DEF Adds
<1> HIDE DEF d
<1>5. Stays(d, t)
  BY <1>0, <1>4, ContentStays
<1> HIDE DEF t
<1>6. Adds(a, t, c.tools)
  BY <1>3, <1>4, <1>5, StaysThenAdds, AddsThenStays
<1>7. LiveWith(t, c0, m0, p \o c.tools)
  BY <1>2, <1>6 DEF Adds
<1>8. t \in States /\ Spoken(t)
  BY <1>2, <1>6 DEF Adds
<1> QED BY <1>1, <1>7, <1>8

\* What a turn makes of it, for the clients.
Serves(t, c0, m0, p) ==
  LET c == ConvertAll(c0, t.wrote)
      m == GatherAll(m0, t.wrote)
  IN  Was(t, c, m, p) /\ At(t, m, c) /\ Spoken(t)

\* The end, whatever its reason.
LEMMA FinishServes ==
  ASSUME NEW s \in States, s.ended = FALSE, s.started = TRUE, NEW reason \in FinishReasons,
         NEW c0, NEW m0, NEW p, LiveWith(s, c0, m0, p), Spoken(s)
  PROVE  Serves(Finish(s, reason), c0, m0, p)
<1> DEFINE e == ClosingUp(s)
           ev == MessageDelta(MapFinishReason(reason))
           t == Finish(s, reason)
<1>1. Stays(s, e) /\ e \in States
  BY ClosingStays DEF Stays, Keeps
<1>2. t = Emit(e, ev)
  BY DEF Finish, ClosingUp
<1>3. t.started = TRUE /\ t.ended = TRUE
  BY FinishIs
<1>4. ev \in Events(Letters) /\ ev.type = "message_delta" /\ ev.stop_reason \in StopReasons
  <2>1. MapFinishReason(reason) \in StopReasons
    BY DEF MapFinishReason, FinishReasons, StopReasons
  <2>2. ev.stop_reason = MapFinishReason(reason)
    BY MessageDeltaIs
  <2> QED BY <2>1, <2>2, EndingEvent
<1> HIDE DEF e, ev, t
<1>5. /\ t \in States /\ t.wrote = Append(e.wrote, ev)
      /\ t.next = e.next /\ t.thinking = e.thinking /\ t.text = e.text /\ t.slots = e.slots
      /\ t.told = e.told /\ t.client.next = e.client.next
  BY <1>1, <1>2, <1>4, EmitGives
<1> DEFINE c == ConvertAll(c0, e.wrote)
           m == GatherAll(m0, e.wrote)
           made == MadeBy(p)
           pieces == PiecesBy(p)
<1>6. Mirrors(e, m, c, made, pieces) /\ Ready(m, c)
  <2>1. Live(e, c0, m0, made, pieces)
    BY <1>1 DEF Stays, Keeps, LiveWith
  <2> QED BY <2>1 DEF Live
<1>7. OneMore(e, t, ev)
  BY <1>1, <1>4, <1>5, LiveEmit
<1>8. ConvertAll(c0, t.wrote) = ConvertEvent(c, ev) /\ GatherAll(m0, t.wrote) = Gather(m, ev)
  BY <1>7 DEF OneMore
<1> HIDE DEF c, m, made, pieces
<1>9. Mirrors(t, Gather(m, ev), ConvertEvent(c, ev), made, pieces)
      /\ Ending(Gather(m, ev), ConvertEvent(c, ev))
  BY <1>4, <1>5, <1>6, MirrorsEnding
<1>10. Was(t, ConvertEvent(c, ev), Gather(m, ev), p)
  BY <1>9 DEF Was, made, pieces
<1>11. At(t, Gather(m, ev), ConvertEvent(c, ev))
  BY <1>3, <1>9 DEF At
<1>12. Spoken(t)
  BY <1>1, <1>5 DEF Stays, Spoken
<1> QED BY <1>8, <1>10, <1>11, <1>12 DEF Serves, t

LEMMA TurnServes ==
  ASSUME NEW s \in States, s.wrote = <<>>, s.ended = FALSE, NEW c \in PlacedChunks,
         NEW c0, NEW m0, NEW p \in Seq(Pieces), Was(s, c0, m0, p), At(s, m0, c0), Spoken(s)
  PROVE  Serves(Turn(s, c), c0, m0, p \o c.tools)
<1> DEFINE d == Delta(s, c)
           t == Turn(s, c)
           q == p \o c.tools
<1>1. t = IF c.finish # "none" THEN Finish(d, c.finish) ELSE d
  BY DEF Turn, Delta
<1>2. d \in States /\ LiveWith(d, c0, m0, q) /\ Spoken(d)
  BY DeltaServes
<1>3. d.started /\ d.ended = s.ended
  BY DeltaStateIs
<1> HIDE DEF d, t, q
<1>4. d.started = TRUE /\ d.ended = FALSE
  BY <1>2, <1>3, StateFields
<1>5. CASE c.finish # "none"
  <2>1. c.finish \in FinishReasons
    BY <1>5 DEF PlacedChunks
  <2>2. t = Finish(d, c.finish)
    BY <1>1, <1>5
  <2>3. Serves(Finish(d, c.finish), c0, m0, q)
    <3> DEFINE f == c.finish
    <3>1. f \in FinishReasons
      BY <2>1
    <3> HIDE DEF f
    <3>2. Serves(Finish(d, f), c0, m0, q)
      BY <1>2, <1>4, <3>1, FinishServes
    <3> QED BY <3>2 DEF f
  <2> QED BY <2>2, <2>3 DEF t, q
<1>6. CASE c.finish = "none"
  <2>1. t = d
    BY <1>1, <1>6
  <2> DEFINE cv == ConvertAll(c0, d.wrote)
             m == GatherAll(m0, d.wrote)
  <2>2. Mirrors(d, m, cv, MadeBy(q), PiecesBy(q)) /\ Ready(m, cv)
    BY <1>2 DEF LiveWith, Live
  <2> HIDE DEF cv, m
  <2>3. Was(d, cv, m, q) /\ At(d, m, cv)
    BY <1>4, <2>2 DEF Was, At
  <2>4. Serves(d, c0, m0, q)
    BY <1>2, <2>3 DEF Serves, cv, m
  <2> QED BY <2>1, <2>4 DEF t, q
<1> QED BY <1>5, <1>6

-------------------------------------------------------------------------------
(* The invariant.                                                             *)

\* The client of the converter and the message have what stream wrote, of an
\* upstream that ends as OpenAI's API does; once Stream returns nil, all of it.
ServedInv ==
  /\ called \in Seq(Pieces)
  /\ ~rude =>
       /\ Was(st, conv, message, called) /\ Spoken(st)
       /\ result = "running" => At(st, message, conv)
       /\ result = "nil" /\ st.started =>
            st.ended /\ message.stop_reason # "none" /\ conv.client.done

LEMMA ServedInvInit == ServedInit => ServedInv
<1> SUFFICES ASSUME ServedInit PROVE ServedInv
  OBVIOUS
<1>1. /\ st.started = FALSE /\ st.next = 0 /\ st.thinking = NotOpened /\ st.text = NotOpened
      /\ st.slots = <<>> /\ st.told = <<>> /\ st.client = Fresh
      /\ result = "running" /\ rude = FALSE
      /\ conv = NewConverter /\ message = NoMessage /\ called = <<>>
  BY DEF ServedInit, Init
<1>2. called \in Seq(Pieces)
  BY <1>1
<1>3. MadeBy(called) = {}
  BY <1>1 DEF MadeBy
<1>4. PiecesBy(called) \in [Nat -> Nat] /\ \A i \in Nat : PiecesBy(called)[i] = 0
  <2>1. ASSUME NEW i \in Nat PROVE CountOf(called, i) = 0
    <3>1. {k \in DOMAIN called : called[k].index = i /\ called[k].args} = {}
      BY <1>1
    <3> QED BY <3>1, FS_EmptySet DEF CountOf
  <2> QED BY <2>1 DEF PiecesBy
<1>5. /\ message.started = FALSE /\ message.stop_reason = "none" /\ message.order = <<>>
      /\ message \in BufferedMessages(0)
  <2>1. message = [started |-> FALSE, blocks |-> [b \in {} |-> 0], order |-> <<>>, stop_reason |-> "none"]
    BY <1>1 DEF NoMessage
  <2>2. 0..0 - 1 = {} /\ [b \in {} |-> 0] \in [{} -> MessageBlocks] /\ <<>> \in Seq(Nat)
    OBVIOUS
  <2> QED BY <2>1, <2>2 DEF BufferedMessages
<1>6. ToolsIn(0, message) = {} /\ TextsIn(0, message) = {}
  <2>1. 0..0 - 1 = {}
    OBVIOUS
  <2> QED BY <2>1 DEF ToolsIn, TextsIn
<1>7. /\ conv \in Converters({}) /\ conv.emittedRole = FALSE
      /\ conv.client.roles = 0 /\ conv.client.jumbled = FALSE /\ conv.client.finish = "none"
      /\ conv.client.done = FALSE /\ conv.client.text = <<>> /\ Len(conv.client.calls) = 0
  <2>1. conv = [emittedRole |-> FALSE, toolIdx |-> [b \in {} |-> 0], client |-> NewClient]
    BY <1>1 DEF NewConverter
  <2>2. NewClient = [roles |-> 0, text |-> <<>>, reasoning |-> FALSE, calls |-> <<>>, finish |-> "none",
                     done |-> FALSE, jumbled |-> FALSE]
    BY DEF NewClient
  <2>3. <<>> \in Seq(Letters) /\ <<>> \in ToolCallsMade
    BY DEF ToolCallsMade
  <2>4. NewClient \in ChatClients
    BY <2>2, <2>3 DEF ChatClients
  <2>5. [b \in {} |-> 0] \in [{} -> Nat]
    OBVIOUS
  <2> QED BY <2>1, <2>2, <2>4, <2>5 DEF Converters
<1>8. Twin(0, message, conv)
  <2>1. CallsFit(0, message, conv.toolIdx, conv.client.calls)
    BY <1>6, <1>7, FS_EmptySet DEF CallsFit
  <2> QED BY <1>5, <1>6, <1>7, <2>1 DEF Twin
<1>9. SpeechFits(st, message)
  BY <1>1, <1>6 DEF SpeechFits, NotOpened
<1>10. ToolsFit(st, message, MadeBy(called), PiecesBy(called))
  BY <1>1, <1>3, <1>4, <1>6 DEF ToolsFit
<1>11. message.order = [i \in 1..0 |-> i - 1]
  BY <1>5
<1>12. Was(st, conv, message, called)
  BY <1>1, <1>7, <1>8, <1>9, <1>10, <1>11 DEF Was, Mirrors, Fresh
<1>13. At(st, message, conv)
  BY <1>1, <1>5, <1>7 DEF At, Waiting
<1>14. Spoken(st)
  BY <1>1 DEF Spoken
<1> QED BY <1>1, <1>2, <1>12, <1>13, <1>14 DEF ServedInv

\* A turn begins with nothing written.
LEMMA QuietServes ==
  ASSUME NEW s \in States, NEW c, NEW m, NEW p
  PROVE  LET t == Quiet(s) IN
         /\ t \in States /\ t.wrote = <<>> /\ t.started = s.started /\ t.ended = s.ended /\ t.told = s.told
         /\ Was(s, c, m, p) => Was(t, c, m, p)
         /\ At(s, m, c) => At(t, m, c)
         /\ Spoken(s) => Spoken(t)
<1> DEFINE t == Quiet(s)
<1>1. /\ t \in States /\ t.client = s.client /\ t.told = s.told /\ Flow(t) = Flow(s) /\ Blocks(t) = Blocks(s)
  BY QuietIs
<1>2. t.wrote = <<>>
  BY DEF Quiet, States
<1> HIDE DEF t
<1>3. t.next = s.next /\ t.thinking = s.thinking /\ t.text = s.text /\ t.slots = s.slots
  BY <1>1, BlocksFields
<1>4. t.started = s.started /\ t.ended = s.ended
  BY <1>1, FlowFields
<1>5. Was(s, c, m, p) => Was(t, c, m, p)
  BY <1>1, <1>3, MirrorsSilent DEF Was
<1>6. (At(s, m, c) => At(t, m, c)) /\ (Spoken(s) => Spoken(t))
  BY <1>1, <1>3, <1>4 DEF At, Spoken
<1> QED BY <1>1, <1>2, <1>4, <1>5, <1>6 DEF t

\* message_stop, which makes the converter write [DONE].
LEMMA StopServes ==
  ASSUME NEW s \in States, s.wrote = <<>>, NEW c0, NEW m0, NEW p, Was(s, c0, m0, p),
         Ending(m0, c0), Spoken(s)
  PROVE  LET t == Emit(s, Plain("message_stop"))
             c == ConvertAll(c0, t.wrote)
             m == GatherAll(m0, t.wrote)
         IN  Was(t, c, m, p) /\ Spoken(t) /\ m.stop_reason # "none" /\ c.client.done
<1> DEFINE ev == Plain("message_stop")
           t == Emit(s, ev)
<1>0. ConvertAll(c0, s.wrote) = c0 /\ GatherAll(m0, s.wrote) = m0
  BY AllOfNone
<1>1. ev \in Events(Letters) /\ ev.type = "message_stop"
  <2>1. "message_stop" \in EventTypes
    BY DEF EventTypes
  <2> QED BY <2>1, PlainEvent
<1> HIDE DEF ev
<1>2. /\ t \in States /\ t.wrote = Append(s.wrote, ev)
      /\ t.next = s.next /\ t.thinking = s.thinking /\ t.text = s.text /\ t.slots = s.slots
      /\ t.told = s.told /\ t.client.next = s.client.next
  BY <1>1, EmitGives
<1> HIDE DEF t
<1>3. OneMore(s, t, ev)
  BY <1>1, <1>2, LiveEmit
<1>4. ConvertAll(c0, t.wrote) = ConvertEvent(c0, ev) /\ GatherAll(m0, t.wrote) = Gather(m0, ev)
  BY <1>0, <1>3 DEF OneMore
<1> DEFINE made == MadeBy(p)
           pieces == PiecesBy(p)
<1>5. Mirrors(s, m0, c0, made, pieces)
  BY DEF Was
<1> HIDE DEF made, pieces
<1>6. /\ Gather(m0, ev) = m0
      /\ Mirrors(t, m0, ConvertEvent(c0, ev), made, pieces)
      /\ ConvertEvent(c0, ev).client.done = TRUE
  BY <1>1, <1>2, <1>5, MirrorsDone
<1>7. m0.stop_reason # "none"
  BY DEF Ending
<1>8. Spoken(t)
  BY <1>2 DEF Spoken
<1> QED BY <1>4, <1>6, <1>7, <1>8 DEF Was, made, pieces, t, ev

LEMMA ServedInvStep ==
  ASSUME StreamInv, ServedInv, [ServedNext]_servedVars
  PROVE  ServedInv'
<1>0. st \in States /\ EndInv
  BY DEF StreamInv, TypeOK, States
<1> DEFINE q == Quiet(st)
           e == Emit(q, Plain("message_stop"))
<1>1. /\ q \in States /\ q.wrote = <<>> /\ q.started = st.started /\ q.ended = st.ended /\ q.told = st.told
      /\ Was(st, conv, message, called) => Was(q, conv, message, called)
      /\ At(st, message, conv) => At(q, message, conv)
      /\ Spoken(st) => Spoken(q)
  BY <1>0, QuietServes
<1>2. st.started \in BOOLEAN /\ st.ended \in BOOLEAN /\ (st.ended => st.started)
  BY <1>0, StateFields DEF EndInv
<1>3. ConvertAll(conv, <<>>) = conv /\ GatherAll(message, <<>>) = message
  BY AllOfNone
<1>4. ASSUME NEW x \in Chunks, ServeChunk(x) PROVE ServedInv'
  <2> DEFINE c == Handled(x)
             t == Turn(q, c)
  <2>1. c \in PlacedChunks /\ c.tools \in Seq(Pieces) /\ (HasDelta(c) => HasDelta(x))
    BY HandledIs DEF PlacedChunks
  <2>2. /\ st' = t /\ result = "running" /\ result' # "nil"
        /\ ~rude' => ~rude /\ ~(st.ended /\ HasDelta(x))
        /\ conv' = ConvertAll(conv, st'.wrote) /\ message' = GatherAll(message, st'.wrote)
        /\ called' = IF st.ended THEN called ELSE called \o c.tools
    BY <1>4 DEF ServeChunk, Chunk, Consume, ConvertAll, GatherAll
  <2> HIDE DEF c
  <2>3. TurnsTo(q, c, t)
    BY <1>1, <2>1, TurnIs
  <2>4. called' \in Seq(Pieces)
    BY <2>1, <2>2, ConcatIs DEF ServedInv
  <2>5. ASSUME ~rude'
        PROVE  Was(st', conv', message', called') /\ Spoken(st') /\ At(st', message', conv')
    <3>1. Was(q, conv, message, called) /\ At(q, message, conv) /\ Spoken(q)
      BY <1>1, <2>2, <2>5 DEF ServedInv
    <3>2. CASE st.ended
      <4>1. q.started /\ q.ended /\ ~HasDelta(c)
        BY <1>1, <1>2, <2>1, <2>2, <2>5, <3>2
      <4>2. t = q
        BY <2>3, <4>1 DEF TurnsTo
      <4> HIDE DEF t, q
      <4>3. conv' = conv /\ message' = message /\ called' = called /\ st' = q
        BY <1>1, <1>3, <2>2, <3>2, <4>2
      <4> QED BY <3>1, <4>3
    <3>3. CASE ~st.ended
      <4>1. q.ended = FALSE /\ called \in Seq(Pieces)
        BY <1>1, <1>2, <3>3 DEF ServedInv
      <4>2. Serves(t, conv, message, called \o c.tools)
        <5> HIDE DEF q
        <5> QED BY <1>1, <2>1, <3>1, <4>1, TurnServes
      <4> HIDE DEF t
      <4>3. /\ Was(t, ConvertAll(conv, t.wrote), GatherAll(message, t.wrote), called \o c.tools)
            /\ At(t, GatherAll(message, t.wrote), ConvertAll(conv, t.wrote)) /\ Spoken(t)
        BY <4>2 DEF Serves
      <4> QED BY <2>2, <3>3, <4>3
    <3> QED BY <3>2, <3>3
  <2> QED BY <2>2, <2>4, <2>5 DEF ServedInv
<1>5. ASSUME ServeEnd PROVE ServedInv'
  <2>1. /\ conv' = ConvertAll(conv, st'.wrote) /\ message' = GatherAll(message, st'.wrote)
        /\ called' = called /\ (Done \/ CloseWithoutDone \/ Break)
    BY <1>5 DEF ServeEnd, Consume, ConvertAll, GatherAll
  <2>2. result = "running" /\ result' # "running" /\ (~rude' => ~rude)
    <3>1. CASE Done
      BY <3>1 DEF Done
    <3>2. CASE CloseWithoutDone
      <4>1. result = "running" /\ result' = IF st.started /\ ~st.ended THEN "error" ELSE "nil"
        BY <3>2 DEF CloseWithoutDone
      <4>2. rude' = rude
        BY <3>2 DEF CloseWithoutDone
      <4> QED BY <4>1, <4>2
    <3>3. CASE Break
      BY <3>3 DEF Break
    <3> QED BY <2>1, <3>1, <3>2, <3>3
  <2>3. \/ st' = e /\ (~rude' => st.ended)
        \/ st' = q /\ (result' = "nil" => ~st.started \/ st.ended) /\ ~(st.ended /\ result' = "nil")
    BY <2>1 DEF Done, CloseWithoutDone, Break, q, e
  <2> HIDE DEF e
  <2>4. ASSUME ~rude'
        PROVE  /\ Was(st', conv', message', called') /\ Spoken(st')
               /\ result' = "nil" /\ st'.started =>
                    st'.ended /\ message'.stop_reason # "none" /\ conv'.client.done
    <3>1. Was(q, conv, message, called) /\ At(q, message, conv) /\ Spoken(q)
      BY <1>1, <2>2, <2>4 DEF ServedInv
    <3>2. CASE st' = e /\ st.ended
      <4>1. Ending(message, conv)
        BY <1>1, <1>2, <3>1, <3>2 DEF At
      <4>2. /\ Was(e, ConvertAll(conv, e.wrote), GatherAll(message, e.wrote), called) /\ Spoken(e)
            /\ GatherAll(message, e.wrote).stop_reason # "none" /\ ConvertAll(conv, e.wrote).client.done
        <5> HIDE DEF q
        <5> QED BY <1>1, <3>1, <4>1, StopServes DEF e
      <4>3. e.ended
        BY <1>0, <3>2, StopIs DEF e, q
      <4> QED BY <2>1, <3>2, <4>2, <4>3
    <3>3. CASE st' = q /\ (result' = "nil" => ~st.started \/ st.ended) /\ ~(st.ended /\ result' = "nil")
      <4> HIDE DEF q
      <4>1. conv' = conv /\ message' = message /\ called' = called /\ st' = q
        BY <1>1, <1>3, <2>1, <3>3
      <4>2. result' = "nil" => ~q.started
        BY <1>1, <3>3
      <4> QED BY <3>1, <4>1, <4>2
    <3> QED BY <2>3, <2>4, <3>2, <3>3
  <2>5. called' \in Seq(Pieces)
    BY <2>1 DEF ServedInv
  <2> QED BY <2>2, <2>4, <2>5 DEF ServedInv
<1>6. CASE UNCHANGED servedVars
  BY <1>6 DEF servedVars, vars, ServedInv
<1> QED BY <1>4, <1>5, <1>6 DEF ServedNext

\* Of an upstream that serves openai, every step is one of this stream's.
LEMMA StreamServes == [Stream /\ UNCHANGED style]_streamVars => [ServedNext]_servedVars
<1>1. CASE UNCHANGED streamVars
  BY <1>1 DEF streamVars
<1>2. CASE Stream
  BY <1>2 DEF Stream
<1> QED BY <1>1, <1>2

(***************************************************************************)
(* The invariant of the OpenAI-style stream behind the router: whatever    *)
(* the chunks are, the blocks of the message and the tool calls of the     *)
(* converter's client are the blocks that stream has written.              *)
(* openai.go:523-770, convert.go:436-614, sse.go:19-199.                   *)
(***************************************************************************)
THEOREM ServedInvariant == StreamsSpec => []ServedInv
<1>1. StreamsInit => ServedInv
  BY ServedInvInit DEF StreamsInit
<1>2. StreamInv /\ ServedInv /\ [Stream /\ UNCHANGED style]_streamVars => ServedInv'
  BY ServedInvStep, StreamServes
<1> QED BY <1>1, <1>2, StreamInvariant, PTL DEF StreamsSpec

\* As many calls as were made.
LEMMA OneBlockEach ==
  ASSUME NEW s, NEW m, NEW made, NEW pieces, ToolsFit(s, m, made, pieces), NEW n \in Nat, s.next = n
  PROVE  Cardinality(ToolsIn(n, m)) = Cardinality(made)
<1> DEFINE D == ToolsIn(n, m)
           f == [b \in D |-> m.blocks[b].call]
<1>1. /\ \A i \in made : s.slots[i + 1] \in D /\ m.blocks[s.slots[i + 1]].call = i
      /\ \A b \in D : m.blocks[b].call \in made /\ s.slots[m.blocks[b].call + 1] = b
  BY DEF ToolsFit
<1>2. IsFiniteSet(D)
  <2>1. D \subseteq 0..n - 1 /\ IsFiniteSet(0..n - 1)
    BY FS_Interval DEF ToolsIn
  <2> QED BY <2>1, FS_Subset
<1> HIDE DEF D
<1>3. f \in [D -> made] /\ \A b \in D : f[b] = m.blocks[b].call
  BY <1>1
<1> HIDE DEF f
<1>4. \A a, b \in D : f[a] = f[b] => a = b
  BY <1>1, <1>3
<1>5. \A i \in made : \E b \in D : f[b] = i
  BY <1>1, <1>3
<1>6. f \in Injection(D, made)
  BY <1>3, <1>4 DEF Injection, IsInjective
<1>7. f \in Surjection(D, made)
  BY <1>3, <1>5 DEF Surjection
<1>8. Cardinality(made) = Cardinality(D)
  BY <1>2, <1>6, <1>7, FS_Surjection
<1> QED BY <1>8 DEF D

\* A call that was made, and its block.
LEMMA BlockOfCall ==
  ASSUME ServedInv, ~rude, NEW i \in CallsMade
  PROVE  LET b == st.slots[i + 1] IN
         /\ b \in ToolsIn(st.next, message)
         /\ message.blocks[b].call = i /\ message.blocks[b].args = Arguments(i)
<1>1. ToolsFit(st, message, MadeBy(called), PiecesBy(called))
  BY DEF ServedInv, Was, Mirrors
<1>2. i \in MadeBy(called)
  BY DEF CallsMade, MadeBy
<1>3. i \in Nat
  BY <1>1, <1>2 DEF ToolsFit
<1>4. PiecesFor(i, PiecesBy(called)[i]) = Arguments(i)
  <2>1. PiecesBy(called)[i] = PiecesOf(i)
    BY <1>3 DEF PiecesBy, CountOf, PiecesOf
  <2> QED BY <2>1 DEF PiecesFor, Arguments
<1> QED BY <1>1, <1>2, <1>4 DEF ToolsFit

\* As many blocks of tool calls as calls.
LEMMA BlocksForCalls ==
  ASSUME ServedInv, ~rude
  PROVE  Cardinality(ToolsIn(st.next, message)) = Cardinality(CallsMade)
<1>1. ToolsFit(st, message, MadeBy(called), PiecesBy(called)) /\ st.next \in Nat
  BY DEF ServedInv, Was, Mirrors
<1>2. CallsMade = MadeBy(called)
  BY DEF CallsMade, MadeBy
<1> DEFINE n == st.next
<1>3. n \in Nat /\ st.next = n
  BY <1>1
<1> HIDE DEF n
<1>4. Cardinality(ToolsIn(n, message)) = Cardinality(MadeBy(called))
  BY <1>1, <1>3, OneBlockEach
<1> QED BY <1>2, <1>3, <1>4

(***************************************************************************)
(* However an upstream interleaves the pieces of parallel tool calls,      *)
(* whatever indexes it begins with, the client of the converter has each   *)
(* call once, with the pieces that belong to it, at every moment.          *)
(* openai.go:674-704, convert.go:480-575.                                  *)
(***************************************************************************)
THEOREM ToolCallsAlwaysIntact == StreamsSpec => []ToolCallsIntact
<1>1. ASSUME ServedInv PROVE ToolCallsIntact
  <2> DEFINE calls == conv.client.calls
             D == ToolsIn(st.next, message)
  <2> SUFFICES ASSUME ~rude
               PROVE  /\ Len(calls) = Cardinality(CallsMade)
                      /\ \A i \in CallsMade : \E j \in DOMAIN calls :
                           calls[j] = [id |-> i, args |-> Arguments(i)]
    BY DEF ToolCallsIntact
  <2>1. Twin(st.next, message, conv)
    BY <1>1 DEF ServedInv, Was, Mirrors
  <2>2. /\ Len(calls) = Cardinality(D)
        /\ \A b \in D : conv.toolIdx[b] < Len(calls)
             /\ calls[conv.toolIdx[b] + 1] = [id |-> message.blocks[b].call, args |-> message.blocks[b].args]
    BY <2>1 DEF Twin, CallsFit
  <2>3. conv.toolIdx \in [D -> Nat] /\ calls \in ToolCallsMade
    BY <2>1 DEF Twin, Converters, ChatClients
  <2>4. DOMAIN calls = 1..Len(calls) /\ Len(calls) \in Nat
    BY <2>3 DEF ToolCallsMade
  <2> HIDE DEF calls, D
  <2>5. ASSUME NEW i \in CallsMade
        PROVE  \E j \in DOMAIN calls : calls[j] = [id |-> i, args |-> Arguments(i)]
    <3> DEFINE b == st.slots[i + 1]
               j == conv.toolIdx[b] + 1
    <3>1. b \in D /\ message.blocks[b].call = i /\ message.blocks[b].args = Arguments(i)
      BY <1>1, BlockOfCall DEF D
    <3> HIDE DEF b
    <3>2. conv.toolIdx[b] \in Nat /\ conv.toolIdx[b] < Len(calls)
      BY <2>2, <2>3, <3>1
    <3>3. \A k \in Nat, n \in Nat : k < n => k + 1 \in 1..n
      OBVIOUS
    <3>4. j \in DOMAIN calls
      BY <2>4, <3>2, <3>3
    <3>5. calls[j] = [id |-> i, args |-> Arguments(i)]
      BY <2>2, <3>1
    <3> QED BY <3>4, <3>5
  <2>6. Len(calls) = Cardinality(CallsMade)
    BY <1>1, <2>2, BlocksForCalls DEF D
  <2> QED BY <2>5, <2>6 DEF calls
<1> QED BY <1>1, ServedInvariant, PTL

\* All of the text is told, once Stream has returned nil.
LEMMA AllTold ==
  ASSUME StreamInv, ServedInv, ~rude, result = "nil", st.started
  PROVE  st.told = WholeText
BY DEF ServedInv, StreamInv, TextInv, Accounted, WholeText

(***************************************************************************)
(* A client of /v1/chat/completions can follow its stream, and when Stream *)
(* reports success after any chunk, it has all of the text, a finish and   *)
(* [DONE].  convert.go:447-617.                                            *)
(***************************************************************************)
THEOREM ConvertedAlwaysWhole == StreamsSpec => []ConvertedWhole
<1>1. ASSUME StreamInv, ServedInv PROVE ConvertedWhole
  <2> DEFINE cl == conv.client
  <2> SUFFICES ASSUME ~rude
               PROVE  /\ ~cl.jumbled /\ cl.roles <= 1
                      /\ result = "nil" /\ st.started =>
                           cl.text = WholeText /\ cl.finish # "none" /\ cl.done
    BY DEF ConvertedWhole
  <2>1. Twin(st.next, message, conv) /\ cl.text = st.told
    BY <1>1 DEF ServedInv, Was, Mirrors
  <2>2. /\ cl.jumbled = FALSE /\ cl.roles = (IF message.started THEN 1 ELSE 0)
        /\ (cl.finish = "none") = (message.stop_reason = "none")
    BY <2>1 DEF Twin
  <2>3. ASSUME result = "nil", st.started
        PROVE  cl.text = WholeText /\ cl.finish # "none" /\ cl.done
    <3>1. message.stop_reason # "none" /\ cl.done
      BY <1>1, <2>3 DEF ServedInv
    <3>2. cl.finish # "none"
      BY <2>2, <3>1
    <3> QED BY <1>1, <2>1, <2>3, <3>1, <3>2, AllTold
  <2>4. cl.roles <= 1
    BY <2>2
  <2> QED BY <2>2, <2>3, <2>4
<1> QED BY <1>1, StreamInvariant, ServedInvariant, PTL

\* Of a sequence of blocks of known types, none is left out.
LEMMA AllAreKnown ==
  ASSUME NEW q \in Seq(MessageBlocks)
  PROVE  LET t == FoldLeft(AddContent, <<>>, q) IN
         Len(t) = Len(q) /\ \A b \in 1..Len(q) : t[b] = ContentOf(q[b])
<1> DEFINE n == Len(q)
           t == FoldLeft(AddContent, <<>>, q)
<1>1. n \in Nat /\ \A k \in 1..n : q[k].kind \in Kinds
  <2>1. \A k \in 1..n : q[k] \in MessageBlocks
    BY ElementOfSeq
  <2>2. \A b \in MessageBlocks : b.kind \in Kinds
    BY DEF MessageBlocks
  <2> QED BY <2>1, <2>2
<1>2. Len(t) = Cardinality(KnownUpTo(q, n))
      /\ \A b \in KnownUpTo(q, n) : t[Cardinality(KnownUpTo(q, b))] = ContentOf(q[b])
  BY ContentIsAll
<1> HIDE DEF t, n
<1>3. ASSUME NEW b \in 0..n PROVE KnownUpTo(q, b) = 1..b /\ Cardinality(KnownUpTo(q, b)) = b
  <2>1. b \in Nat /\ \A k \in 1..b : k \in 1..n
    BY <1>1
  <2>2. KnownUpTo(q, b) = 1..b
    BY <1>1, <2>1 DEF KnownUpTo
  <2>3. Cardinality(1..b) = b
    <3>1. 1 \in Int /\ b \in Int /\ (1 > b => b = 0) /\ b - 1 + 1 = b
      BY <2>1
    <3>2. Cardinality(1..b) = IF 1 > b THEN 0 ELSE b - 1 + 1
      BY <3>1, FS_Interval
    <3> QED BY <3>1, <3>2
  <2> QED BY <2>2, <2>3
<1>4. n \in 0..n /\ \A b \in 1..n : b \in 0..n
  BY <1>1
<1>5. Len(t) = n /\ KnownUpTo(q, n) = 1..n
  BY <1>2, <1>3, <1>4
<1>6. ASSUME NEW b \in 1..n PROVE t[b] = ContentOf(q[b])
  BY <1>2, <1>3, <1>4, <1>5
<1> QED BY <1>5, <1>6 DEF t, n

\* The content of the message is its blocks, in order.
LEMMA ContentIsBlocks ==
  ASSUME ServedInv, ~rude
  PROVE  LET c == ContentBlocks(message) IN
         /\ st.next \in Nat /\ DOMAIN c = 1..st.next /\ Len(c) = st.next
         /\ \A b \in 1..st.next : c[b] = ContentOf(message.blocks[b - 1])
<1> DEFINE n == st.next
           c == ContentBlocks(message)
           o == [b \in 1..n |-> b - 1]
           q == [b \in 1..n |-> message.blocks[b - 1]]
<1>1. n \in Nat /\ message.order = o /\ message.blocks \in [0..n - 1 -> MessageBlocks]
  BY DEF ServedInv, Was, Mirrors, Twin, BufferedMessages
<1> HIDE DEF n
<1>2. Ascending(message.order) = o
  BY <1>1, InOrder
<1>3. c = FoldLeft(AddContent, <<>>, q)
  <2>1. [i \in DOMAIN o |-> message.blocks[o[i]]] = q
    OBVIOUS
  <2> HIDE DEF o, q
  <2> QED BY <1>2, <2>1 DEF ContentBlocks
<1>4. q \in Seq(MessageBlocks) /\ Len(q) = n /\ \A b \in 1..n : q[b] = message.blocks[b - 1]
  <2>1. \A b \in 1..n : b - 1 \in 0..n - 1
    BY <1>1
  <2>2. q \in [1..n -> MessageBlocks]
    BY <1>1, <2>1
  <2> HIDE DEF q
  <2>3. q \in Seq(MessageBlocks) /\ Len(q) = n
    BY <1>1, <2>2
  <2> QED BY <2>3 DEF q
<1>5. Len(c) = n /\ \A b \in 1..n : c[b] = ContentOf(message.blocks[b - 1])
  <2> HIDE DEF q, c
  <2>1. Len(c) = n /\ \A b \in 1..n : c[b] = ContentOf(q[b])
    BY <1>3, <1>4, AllAreKnown
  <2> QED BY <1>4, <2>1
<1>6. DOMAIN c = 1..n
  <2>1. c \in Seq(Contents(q))
    BY <1>3, <1>4, ContentIsAll
  <2> HIDE DEF c, q
  <2> QED BY <1>5, <2>1
<1> QED BY <1>1, <1>5, <1>6 DEF n

\* What becomes of a block of each kind.
LEMMA ContentOfKinds ==
  ASSUME NEW b
  PROVE  /\ ContentOf(b).kind = b.kind /\ ContentOf(b).call = b.call
         /\ b.kind = "text" => ContentOf(b).parts = b.text
         /\ b.kind = "tool_use" => ContentOf(b).parts = b.args
BY DEF ContentOf

\* The blocks of a kind, counted from 0 and from 1.
LEMMA BlocksShift ==
  ASSUME NEW n \in Nat, NEW D \in SUBSET (0..n - 1), NEW E \in SUBSET (1..n),
         \A b \in 1..n : b \in E <=> b - 1 \in D
  PROVE  Cardinality(E) = Cardinality(D)
<1> DEFINE f == [b \in E |-> b - 1]
<1>1. IsFiniteSet(E)
  <2>1. 1 \in Int /\ n \in Int
    OBVIOUS
  <2>2. IsFiniteSet(1..n)
    BY <2>1, FS_Interval
  <2> QED BY <2>2, FS_Subset
<1>2. f \in [E -> D] /\ \A b \in E : f[b] = b - 1
  OBVIOUS
<1> HIDE DEF f
<1>3. \A a, b \in E : f[a] = f[b] => a = b
  BY <1>2
<1>4. ASSUME NEW i \in D PROVE \E b \in E : f[b] = i
  <2>1. i + 1 \in 1..n /\ (i + 1) - 1 = i
    OBVIOUS
  <2>2. i + 1 \in E
    BY <2>1
  <2> QED BY <1>2, <2>1, <2>2
<1>5. f \in Injection(E, D)
  BY <1>2, <1>3 DEF Injection, IsInjective
<1>6. f \in Surjection(E, D)
  BY <1>2, <1>4 DEF Surjection
<1> QED BY <1>1, <1>5, <1>6, FS_Surjection

(***************************************************************************)
(* The message that is put together from the buffer says what the stream   *)
(* said: the text in one block, every tool call in one block with its own  *)
(* arguments, as many blocks as were begun, and why it stopped.            *)
(* sse.go:19-199, router.go:186.                                           *)
(***************************************************************************)
THEOREM MessageAlwaysWhole == StreamsSpec => []MessageWhole
<1>1. ASSUME StreamInv, ServedInv PROVE MessageWhole
  <2> DEFINE blocks == ContentBlocks(message)
             n == st.next
  <2> SUFFICES ASSUME result = "nil", st.started, ~rude
               PROVE  /\ BlocksOf("text") = {} <=> WholeText = <<>>
                      /\ \A b \in BlocksOf("text") : BlocksOf("text") = {b} /\ blocks[b].parts = WholeText
                      /\ Cardinality(BlocksOf("tool_use")) = Cardinality(CallsMade)
                      /\ \A i \in CallsMade : \E b \in BlocksOf("tool_use") :
                           blocks[b].call = i /\ blocks[b].parts = Arguments(i)
                      /\ Len(blocks) = st.client.next
                      /\ message.stop_reason # "none"
    BY DEF MessageWhole
  <2>1. n \in Nat /\ DOMAIN blocks = 1..n /\ Len(blocks) = n
        /\ \A b \in 1..n : blocks[b] = ContentOf(message.blocks[b - 1])
    BY <1>1, ContentIsBlocks
  <2>2. st.client.next = n /\ SpeechFits(st, message) /\ Spoken(st)
    BY <1>1 DEF ServedInv, Was, Mirrors
  <2>3. message.stop_reason # "none" /\ st.told = WholeText
    BY <1>1, AllTold DEF ServedInv
  <2>4. \A k : BlocksOf(k) = {b \in 1..n : message.blocks[b - 1].kind = k}
    BY <2>1, ContentOfKinds DEF BlocksOf
  <2>5. /\ BlocksOf("text") \subseteq 1..n /\ TextsIn(n, message) \subseteq 0..n - 1
        /\ \A b \in 1..n : b \in BlocksOf("text") <=> b - 1 \in TextsIn(n, message)
    BY <2>1, <2>4 DEF TextsIn
  <2>6. /\ BlocksOf("tool_use") \in SUBSET (1..n) /\ ToolsIn(n, message) \in SUBSET (0..n - 1)
        /\ \A b \in 1..n : b \in BlocksOf("tool_use") <=> b - 1 \in ToolsIn(n, message)
    BY <2>1, <2>4 DEF ToolsIn
  <2>7. Cardinality(BlocksOf("tool_use")) = Cardinality(CallsMade)
    <3> HIDE DEF n
    <3>1. Cardinality(BlocksOf("tool_use")) = Cardinality(ToolsIn(n, message))
      BY <2>1, <2>6, BlocksShift
    <3> QED BY <1>1, <3>1, BlocksForCalls DEF n
  <2>8. ASSUME NEW i \in CallsMade
        PROVE  \E b \in BlocksOf("tool_use") : blocks[b].call = i /\ blocks[b].parts = Arguments(i)
    <3> DEFINE k == st.slots[i + 1]
    <3>1. k \in ToolsIn(n, message) /\ message.blocks[k].kind = "tool_use" /\ message.blocks[k].call = i /\ message.blocks[k].args = Arguments(i)
      BY <1>1, BlockOfCall DEF ToolsIn
    <3> HIDE DEF k, n, blocks
    <3>2. k \in 0..n - 1
      BY <2>6, <3>1
    <3>3. k + 1 \in 1..n /\ (k + 1) - 1 = k
      BY <2>1, <3>2
    <3>4. k + 1 \in BlocksOf("tool_use") /\ blocks[k + 1] = ContentOf(message.blocks[k])
      BY <2>1, <2>6, <3>1, <3>3
    <3> QED BY <3>1, <3>4, ContentOfKinds
  <2>9. /\ BlocksOf("text") = {} <=> WholeText = <<>>
        /\ \A b \in BlocksOf("text") : BlocksOf("text") = {b} /\ blocks[b].parts = WholeText
    <3> HIDE DEF n, blocks
    <3>1. CASE st.text = NotOpened
      <4>1. WholeText = <<>> /\ TextsIn(n, message) = {}
        BY <2>2, <2>3, <3>1 DEF SpeechFits, n
      <4>2. BlocksOf("text") = {}
        BY <2>5, <4>1
      <4> QED BY <4>1, <4>2
    <3>2. CASE st.text # NotOpened
      <4>1. PICK k \in 0..n - 1 : TextsIn(n, message) = {k} /\ message.blocks[k].text = WholeText
        BY <2>2, <2>3, <3>2 DEF SpeechFits, n
      <4>2. WholeText # <<>>
        BY <2>2, <2>3, <3>2 DEF Spoken
      <4>3. k + 1 \in 1..n /\ (k + 1) - 1 = k
        BY <2>1
      <4>4. BlocksOf("text") = {k + 1}
        <5>1. k + 1 \in BlocksOf("text")
          BY <2>5, <4>1, <4>3
        <5>2. ASSUME NEW b \in BlocksOf("text") PROVE b = k + 1
          <6>1. b \in 1..n /\ b - 1 = k
            BY <2>5, <4>1
          <6> QED BY <2>1, <6>1
        <5> QED BY <5>1, <5>2
      <4>5. blocks[k + 1].parts = WholeText
        <5>1. message.blocks[k].kind = "text"
          BY <4>1 DEF TextsIn
        <5>2. blocks[k + 1] = ContentOf(message.blocks[k])
          BY <2>1, <4>3
        <5> QED BY <4>1, <5>1, <5>2, ContentOfKinds
      <4> QED BY <4>2, <4>4, <4>5
    <3> QED BY <3>1, <3>2
  <2> QED BY <2>1, <2>2, <2>3, <2>7, <2>8, <2>9
<1> QED BY <1>1, StreamInvariant, ServedInvariant, PTL
==============================================================================

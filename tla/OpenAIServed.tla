----------------------------- MODULE OpenAIServed ------------------------------
(***************************************************************************)
(* OpenAIStream with what the router puts between it and its other two     *)
(* kinds of client (proxy, src/router/router.go:139-234): the converter    *)
(* for a client of /v1/chat/completions, the buffer for a client that did  *)
(* not ask for a stream.  They take every event as it is written.          *)
(***************************************************************************)
EXTENDS OpenAIStream, StreamConverter, BufferedMessage

VARIABLES
  conv,             \* the converter, with the client behind it
  message,          \* what sseBytesToMessage makes of the buffer
  called            \* ghost: the pieces of tool calls that came before the finish

servedVars == <<vars, conv, message, called>>

ServedInit ==
  /\ Init
  /\ conv = NewConverter
  /\ message = NoMessage
  /\ called = <<>>

\* Both follow what the turn of the stream writes.
Consume ==
  /\ conv' = FoldLeft(ConvertEvent, conv, st'.wrote)
  /\ message' = FoldLeft(Gather, message, st'.wrote)

ServeChunk(c) ==
  /\ Chunk(c)
  /\ Consume
  /\ called' = IF st.ended THEN called ELSE called \o Handled(c).tools

ServeEnd ==
  /\ Done \/ CloseWithoutDone \/ Break
  /\ Consume
  /\ UNCHANGED called

ServedNext == (\E c \in Chunks : ServeChunk(c)) \/ ServeEnd

ServedSpec == ServedInit /\ [][ServedNext]_servedVars

-------------------------------------------------------------------------------
\* The upstream's tool calls, and the pieces of the arguments of one.
CallsMade     == {called[k].index : k \in DOMAIN called}
PiecesOf(i)   == Cardinality({k \in DOMAIN called : called[k].index = i /\ called[k].args})
Arguments(i)  == [n \in 1..PiecesOf(i) |-> i]

WholeText     == Meaning[fed][FALSE].text
BlocksOf(k)   == {b \in DOMAIN ContentBlocks(message) : ContentBlocks(message)[b].kind = k}

(***************************************************************************)
(* However an upstream interleaves the pieces of parallel tool calls,      *)
(* whatever indexes it begins with, and with text in between: the client   *)
(* of the converter has at every moment each call once, with the pieces    *)
(* that belong to it and no other's, after two translations of indexes,    *)
(* from the upstream's to block numbers (openai.go:674-704) and on to      *)
(* positions in tool_calls (convert.go:480-516, 554-575).                  *)
(***************************************************************************)
ToolCallsIntact ==
  ~rude => LET calls == conv.client.calls
           IN  /\ Len(calls) = Cardinality(CallsMade)
               /\ \A i \in CallsMade : \E j \in DOMAIN calls :
                    calls[j] = [id |-> i, args |-> Arguments(i)]

(***************************************************************************)
(* A client of /v1/chat/completions can follow its stream: the role before *)
(* all else and once, tool calls numbered as they begin, nothing after the *)
(* finish but [DONE]; and when Stream reports success after any chunk, the *)
(* answer is whole: all of the text, finish and [DONE].                    *)
(* convert.go:447-617.                                                     *)
(***************************************************************************)
ConvertedWhole ==
  ~rude => LET cl == conv.client
           IN  /\ ~cl.jumbled /\ cl.roles <= 1
               /\ result = "nil" /\ st.started =>
                    cl.text = WholeText /\ cl.finish # "none" /\ cl.done

(***************************************************************************)
(* The message that is put together from the buffer says what the stream   *)
(* said: all of the text in one block, every tool call in one block with   *)
(* its own arguments, as many blocks as were begun, and why it stopped.    *)
(* sse.go:19-199, used when Stream reports success (router.go:186).        *)
(***************************************************************************)
MessageWhole ==
  result = "nil" /\ st.started /\ ~rude =>
    LET blocks == ContentBlocks(message)
    IN  /\ BlocksOf("text") = {} <=> WholeText = <<>>
        /\ \A b \in BlocksOf("text") : BlocksOf("text") = {b} /\ blocks[b].parts = WholeText
        /\ Cardinality(BlocksOf("tool_use")) = Cardinality(CallsMade)
        /\ \A i \in CallsMade : \E b \in BlocksOf("tool_use") :
             blocks[b].call = i /\ blocks[b].parts = Arguments(i)
        /\ Len(blocks) = st.client.next
        /\ message.stop_reason # "none"
================================================================================

----------------------------- MODULE ClientRequest -----------------------------
(***************************************************************************)
(* A client's request from the door to a provider: ClientKeys lets it in,  *)
(* a handler of src/router/router.go reads its body and converts it        *)
(* (RequestConversion), and the router may offer it to providers of both   *)
(* kinds (Router has that part).                                           *)
(***************************************************************************)
EXTENDS ClientKeys, RequestConversion, FiniteSets

CONSTANTS
  AnthropicDocs, OpenAIDocs,     \* the bodies of POST /v1/messages, /v1/chat/completions
  Listing,                       \* the requests that are GET /v1/models
  TextIn                         \* what the text parts of an array say together

-------------------------------------------------------------------------------
(* What clients send: the forms of the two formats that can be read.           *)

Texts == Seq(Words)
ToolList == Seq([name: Atoms, description: Nat, schema: Schemas])
ToolChoices == {Absent} \cup [type: STRING] \cup [type: STRING, name: Atoms]
Limits == Nat \cup {Absent}

ToolCalls == Seq([id: Atoms, args: Atoms])

OpenAIContents == Texts \cup NotStrings

OpenAIMessages ==
  [role: {"system", "user", "assistant"}, content: OpenAIContents,
   tool_calls: {NoCalls}, tool_call_id: Atoms]
  \cup [role: {"assistant"}, content: OpenAIContents, tool_calls: ToolCalls,
        tool_call_id: Atoms]
  \cup [role: {"tool"}, content: OpenAIContents, tool_calls: {NoCalls},
        tool_call_id: Atoms]

OpenAIBodies ==
  [messages: Seq(OpenAIMessages), max_tokens: Limits, stream: BOOLEAN, tools: ToolList,
   tool_choice: ToolChoices]

\* A block's text may be absent.
TextBlocks == [type: {"text"}, text: Texts] \cup [type: {"text"}]
Media == [type: {"image", "document"}, source: Atoms]
Thoughts == [type: {"thinking", "redacted_thinking"}]
Contents(blocks) == [form: {"string"}, text: Texts] \cup [form: {"blocks"}, blocks: Seq(blocks)]

UserBlocks ==
  TextBlocks \cup Media
  \cup [type: {"tool_result"}, tool_use_id: Atoms, content: Contents(TextBlocks \cup Media)]
AssistantBlocks ==
  TextBlocks \cup Thoughts \cup [type: {"tool_use"}, id: Atoms, input: Atoms]

AnthropicBodies ==
  [messages: Seq([role: {"user"}, content: Contents(UserBlocks)]
                 \cup [role: {"assistant"}, content: Contents(AssistantBlocks)]),
   system: {Absent} \cup Contents(TextBlocks), max_tokens: Limits, stream: BOOLEAN,
   tools: ToolList, tool_choice: ToolChoices]

ASSUME RequestAssumption ==
  /\ TextIn \in [Arrays -> Texts]
  /\ OpenAIDocs \ {Malformed} \subseteq OpenAIBodies
  /\ AnthropicDocs \ {Malformed} \subseteq AnthropicBodies
  /\ AnthropicBodies \cap {Absent, NoBody} = {}
  /\ NoBody \notin {EncodedBody(OpenAIToAnthropic(doc)) : doc \in OpenAIDocs \ {Malformed}}

-------------------------------------------------------------------------------
VARIABLE carry                   \* what a handler has of its request's body

vars == <<keyVars, carry>>

Nothing == [at |-> "nothing"]

RequestInit == Init /\ carry = [r \in Requests |-> Nothing]

\* The request in the internal format, and the bodies either kind of provider
\* would be sent for it.
Carry(r, doc, format, req) ==
  /\ request[r].at = "next"
  /\ r \notin Listing
  /\ carry[r] = Nothing
  /\ carry' = [carry EXCEPT ![r] =
       [at |-> "proxy", doc |-> doc, format |-> format, streams |-> ~req.non_streaming,
        openai |-> convertToOpenAI(req), anthropic |-> AnthropicBody(req)]]
  /\ UNCHANGED keyVars

HandleMessages(r) ==
  \E doc \in AnthropicDocs \ {Malformed} :
    Carry(r, doc, "anthropic", AnthropicBodyToRequest(doc))

HandleChatCompletions(r) ==
  \E doc \in OpenAIDocs \ {Malformed} : Carry(r, doc, "openai", OpenAIToAnthropic(doc))

\* A body that cannot be read or parsed ends the request; nothing is routed.
BadRequest(r) ==
  /\ r \notin Listing /\ carry[r] = Nothing
  /\ Malformed \in AnthropicDocs \cup OpenAIDocs
  /\ Finish(r)
  /\ UNCHANGED carry

\* The router is done with it, or it was a list of models.
Leave(r) ==
  /\ r \in Listing \/ carry[r] # Nothing
  /\ Finish(r)
  /\ carry' = [carry EXCEPT ![r] = Nothing]

RequestNext ==
  \/ \E r \in Requests : \/ HandleMessages(r) \/ HandleChatCompletions(r)
                         \/ BadRequest(r) \/ Leave(r)
  \/ \E r \in Requests : (AuthStep(r) \/ TouchStep(r)) /\ UNCHANGED carry
  \/ \E a \in Admins : AdminStep(a) /\ UNCHANGED carry
  \/ Restart /\ carry' = [r \in Requests |-> Nothing]

RequestSpec == RequestInit /\ [][RequestNext]_vars

-------------------------------------------------------------------------------
(* What a conversation says, in either format.                                 *)

Filled(args) == IF args \in {Absent, Null} THEN EmptyObject ELSE args

\* OpenAI's: everything a role wrote, in strings and in parts, the calls, and
\* the results.
TextSent(content) == IF content \in Arrays THEN TextIn[content] ELSE StringOr(content)

OpenAIText(role, m) == IF m.role = role THEN TextSent(m.content) ELSE <<>>

CallsMade(m) ==
  LET call(c) == <<c.id, Filled(c.args)>>
  IN  IF m.tool_calls = NoCalls THEN <<>> ELSE Each(call, m.tool_calls)

ResultGiven(m) ==
  IF m.role = "tool" THEN <<<<m.tool_call_id, TextSent(m.content)>>>> ELSE <<>>

OpenAISays(messages) ==
  LET asked(m) == OpenAIText("user", m)
      said(m)  == OpenAIText("assistant", m)
  IN  [user |-> Sum(asked, messages), assistant |-> Sum(said, messages),
       calls |-> Sum(CallsMade, messages), results |-> Sum(ResultGiven, messages)]

\* Anthropic's, decoded.
AnthropicText(role, m) == IF m.role = role THEN JoinedText(m.content) ELSE <<>>

CallsIn(m) ==
  LET call(b) == IF b.type = "tool_use" THEN <<<<b.id, Filled(b.input)>>>> ELSE <<>>
  IN  Sum(call, m.content)

ResultsIn(m) ==
  LET result(b) == IF b.type = "tool_result" THEN <<<<b.tool_use_id, JoinedText(b.content)>>>>
                   ELSE <<>>
  IN  Sum(result, m.content)

AnthropicSays(messages) ==
  LET asked(m) == AnthropicText("user", m)
      said(m)  == AnthropicText("assistant", m)
  IN  [user |-> Sum(asked, messages), assistant |-> Sum(said, messages),
       calls |-> Sum(CallsIn, messages), results |-> Sum(ResultsIn, messages)]

Wire(messages) == [i \in DOMAIN messages |-> DecodeMessage(messages[i])]

DocSays(c) == IF c.format = "openai" THEN OpenAISays(c.doc.messages)
              ELSE AnthropicSays(Wire(c.doc.messages))

\* The system prompt: what all messages of the system say.
Prompt(messages) == LET told(m) == OpenAIText("system", m) IN Sum(told, messages)

DocPrompt(c) == IF c.format = "openai" THEN Prompt(c.doc.messages) ELSE SystemText(c.doc.system)

Routed == {carry[r] : r \in {q \in Requests : carry[q] # Nothing}}

\* Both bodies say this, whichever provider gets its own.  There is no body for
\* an Anthropic-style provider only if some arguments are no JSON.
Arrives(c, says, prompt) ==
  /\ OpenAISays(c.openai.messages) = says
  /\ Prompt(c.openai.messages) = prompt
  /\ c.anthropic # NoBody => SystemText(c.anthropic.system) = prompt
  /\ IF c.anthropic = NoBody
     THEN \E i \in DOMAIN says.calls : says.calls[i][2] = Broken
     ELSE AnthropicSays(Wire(c.anthropic.messages)) = says

\* No content is an array, and no more than one message is the system's.
Plain(messages) ==
  /\ \A i \in DOMAIN messages : messages[i].content \notin Arrays
  /\ \A i, j \in DOMAIN messages :
       messages[i].role = "system" /\ messages[j].role = "system" => i = j

(***************************************************************************)
(* Whatever kind of client meets whatever kind of provider: each side's    *)
(* texts, the calls with their arguments and the results arrive complete   *)
(* and in order, results in whatever messages they were, an empty argument *)
(* as {}, and so does the system prompt: all that an Anthropic client      *)
(* says, and all of an OpenAI client whose contents are strings and whose  *)
(* system prompt is one message.  Only arguments that are no JSON keep a   *)
(* request of an OpenAI client from an Anthropic-style provider.           *)
(* convert.go:63-158, openai.go:213-290.                                   *)
(***************************************************************************)
NothingSaidIsLost ==
  \A c \in Routed :
    (c.format = "openai" => Plain(c.doc.messages)) => Arrives(c, DocSays(c), DocPrompt(c))

\* What is lost of the others: an array (convert.go:85-86, 99-103, 109), and what
\* the system said before its last string (convert.go:102).
SystemString(m) == m.role = "system" /\ m.content \notin NotStrings

Unread(messages) ==
  {i \in DOMAIN messages :
     \/ messages[i].content \in Arrays
     \/ messages[i].role = "system" /\ \E j \in DOMAIN messages : j > i /\ SystemString(messages[j])}

Read(messages) ==
  [i \in DOMAIN messages |->
     IF i \in Unread(messages) THEN [messages[i] EXCEPT !.content = NoString] ELSE messages[i]]

(***************************************************************************)
(* A content that cannot be read takes no other with it: with arrays in    *)
(* any messages, and any number of the system's, an OpenAI client's        *)
(* strings, calls and results arrive as if nothing stood in the arrays and *)
(* in the system's earlier messages.  convert.go:82-144.                   *)
(***************************************************************************)
OnlyUnreadIsLost ==
  \A c \in Routed :
    c.format = "openai" =>
      Arrives(c, OpenAISays(Read(c.doc.messages)), Prompt(Read(c.doc.messages)))

-------------------------------------------------------------------------------
Ids(s) == {s[i][1] : i \in DOMAIN s}

\* Anthropic's rule: the message after one with calls has all of their results,
\* each once, and no other message has results.
AnswersInAnthropic(messages) ==
  \A i \in DOMAIN messages :
    LET calls(k) == Ids(CallsIn(messages[k]))
        results == ResultsIn(messages[i])
    IN  /\ calls(i) # {} => i + 1 \in DOMAIN messages /\ ResultsIn(messages[i + 1]) # <<>>
        /\ results # <<>> => /\ i > 1
                            /\ Ids(results) = calls(i - 1)
                            /\ Len(results) = Cardinality(calls(i - 1))

\* OpenAI's: the results follow their calls one by one, each once, with nothing
\* in between.
AnswersInOpenAI(messages) ==
  LET calls(k) == Ids(CallsMade(messages[k]))
      count(k) == Cardinality(calls(k))
  IN  \A i \in DOMAIN messages :
        /\ i + count(i) \in DOMAIN messages
        /\ \A j \in i + 1 .. i + count(i) : messages[j].role = "tool"
        /\ {messages[j].tool_call_id : j \in i + 1 .. i + count(i)} = calls(i)
        /\ messages[i].role = "tool" => \E k \in 1 .. i - 1 : i <= k + count(k)

(***************************************************************************)
(* Each format has its own rule of where a call's results must be.  A      *)
(* conversation that keeps the rule of its client's format keeps that of   *)
(* the provider's, however many calls are made at once and in whatever     *)
(* order they are answered.  convert.go:65-95, openai.go:217-291.          *)
(***************************************************************************)
CallsAnswered ==
  \A c \in Routed :
    (IF c.format = "openai" THEN AnswersInOpenAI(c.doc.messages)
     ELSE AnswersInAnthropic(Wire(c.doc.messages))) =>
      /\ AnswersInOpenAI(c.openai.messages)
      /\ c.anthropic # NoBody => AnswersInAnthropic(Wire(c.anthropic.messages))

-------------------------------------------------------------------------------
\* Every path to a schema inside a schema, and to what it requires of its
\* properties.
Under(key, paths) == {key \o p : p \in paths}

Paths(schema) ==
  LET f[s \in Schemas] ==
        IF s = Absent THEN {}
        ELSE IF s = Boolean THEN {<<>>}
        ELSE {<<>>}
             \cup (UNION {Under(<<"properties", n>>, f[s.properties[n]]) : n \in Properties})
             \cup Under(<<"items">>, f[s.items])
             \cup Under(<<"additionalProperties">>, f[s.additionalProperties])
             \cup {<<"required", n>> : n \in s.required \cap Has(s)}
  IN  f[schema]

\* No property on the way is called "type".
Clean(path) == "type" \notin {path[i] : i \in DOMAIN path}

(***************************************************************************)
(* "recursively removes property names that conflict with JSON Schema      *)
(* keywords", in "nested object schemas, array item schemas, and           *)
(* additionalProperties schemas" (openai.go:122-126), and nothing else: of *)
(* the paths through each tool's schema those remain on which nothing is   *)
(* called "type", for every tool and either kind of client.                *)
(***************************************************************************)
SchemasClean ==
  \A c \in Routed :
    /\ Len(c.openai.tools) = Len(c.doc.tools)
    /\ \A i \in DOMAIN c.doc.tools :
         c.doc.tools[i].schema # Absent =>
           Paths(c.openai.tools[i].schema) = {p \in Paths(c.doc.tools[i].schema) : Clean(p)}

(***************************************************************************)
(* "preserving all fields (tools, cache_control, etc.)" (anthropic.go:46), *)
(* "so no fields are silently dropped" (base.go:151-153): an               *)
(* Anthropic-style provider gets an Anthropic client's body with nothing   *)
(* changed but the model, stream and an absent max_tokens, and the client  *)
(* is streamed to if it asked for that.                                    *)
(***************************************************************************)
PassedThrough ==
  \A c \in Routed :
    c.format = "anthropic" =>
      /\ c.anthropic.stream /\ c.openai.stream
      /\ c.streams = c.doc.stream
      /\ c.anthropic.max_tokens = (IF c.doc.max_tokens = Absent THEN DefaultMaxTokens
                                   ELSE c.doc.max_tokens)
      /\ [c.anthropic EXCEPT !.stream = c.doc.stream, !.max_tokens = c.doc.max_tokens] = c.doc
===============================================================================

--------------------------- MODULE RequestConversion ---------------------------
(***************************************************************************)
(* The conversion of a client's request: from OpenAI's format into the     *)
(* internal one, which is Anthropic's (OpenAIToAnthropic,                  *)
(* AnthropicBodyToRequest of src/router/convert.go; src/providers/base.go),*)
(* and from there into the body that a provider is sent (convertToOpenAI   *)
(* of src/providers/openai.go, patchAnthropicBody of anthropic.go).        *)
(*                                                                         *)
(* A text is a sequence of words, <<>> the empty string.  NoString stands  *)
(* for an OpenAI message's content that is absent, Arrays are those that   *)
(* are lists of parts: neither can be unmarshalled into a string.  Null is *)
(* read like the empty string.                                             *)
(* Names, ids, the arguments of a call and the leaves of a schema are      *)
(* copied, and are model values.  Sampling parameters, which are copied    *)
(* one by one, are left out.                                               *)
(***************************************************************************)
EXTENDS Naturals, Sequences, SequencesExt

CONSTANTS NoString, Arrays, NoCalls, NoChoice,
          Absent,             \* a field that is not in the body
          Malformed,          \* a body that is no JSON
          NoBody,             \* marshalling failed
          EmptyObject,        \* {}
          Broken,             \* arguments that are no JSON
          Null,
          Boolean,            \* a schema that is no object
          Words,
          Atoms,              \* what is copied
          Properties,         \* names of a tool's parameters
          MaxDepth            \* of a schema

Join(texts) == FlattenSeq(texts)

\* The parts that the elements of s have, one after the other.
Sum(Part(_), s) == FlattenSeq([i \in DOMAIN s |-> Part(s[i])])

-------------------------------------------------------------------------------
(* Blocks and messages of the internal format.                                 *)

Text(t) == [type |-> "text", text |-> t]
ToolUse(id, input) == [type |-> "tool_use", id |-> id, input |-> input]
ToolResult(id, content) == [type |-> "tool_result", tool_use_id |-> id, content |-> content]
Message(role, content) == [role |-> role, content |-> content]

Of(type, blocks) == LET own(b) == IF b.type = type THEN <<b>> ELSE <<>> IN Sum(own, blocks)

Each(Op(_), s) == [i \in DOMAIN s |-> Op(s[i])]

TextOf(b) == IF "text" \in DOMAIN b THEN b.text ELSE <<>>

\* The texts of the text blocks, in one.
JoinedText(blocks) == Join(Each(TextOf, Of("text", blocks)))

\* A client may write a string for a list of one text block.
Blocks(content) == IF content.form = "string" THEN <<Text(content.text)>> ELSE content.blocks

DecodeBlock(b) ==
  CASE b.type = "tool_result" -> ToolResult(b.tool_use_id, Blocks(b.content))
    [] b.type \in {"text", "tool_use"} -> b
    [] OTHER -> [type |-> b.type]        \* fields that no struct has are lost

DecodeMessage(m) == Message(m.role, Each(DecodeBlock, Blocks(m.content)))

SystemText(system) ==
  CASE system = Absent -> <<>>
    [] system # Absent /\ system.form = "string" -> system.text
    [] OTHER -> LET said(b) == IF TextOf(b) = <<>> THEN <<>> ELSE <<TextOf(b)>>
                IN  Join(Sum(said, system.blocks))

-------------------------------------------------------------------------------
(* OpenAIToAnthropic.                                                          *)

NotStrings == {NoString} \cup Arrays

StringOr(content) == IF content \in NotStrings THEN <<>> ELSE content

FlushToolResults(s) ==
  IF s.pending = <<>> THEN s
  ELSE [s EXCEPT !.msgs = Append(@, Message("user", s.pending)), !.pending = <<>>]

InputOf(args) == IF args = Absent THEN EmptyObject ELSE args

CallBlocks(m) ==
  LET use(c) == ToolUse(c.id, InputOf(c.args))
  IN  (IF StringOr(m.content) = <<>> THEN <<>> ELSE <<Text(m.content)>>) \o Each(use, m.tool_calls)

\* Mutant of ToolMessage: every result becomes a message of its own.
ToolMessageAlone(s, m) ==
  [s EXCEPT !.msgs = Append(@, Message("user", <<ToolResult(m.tool_call_id, <<Text(StringOr(m.content))>>)>>))]

\* Consecutive results are gathered.
ToolMessage(s, m) ==
  [s EXCEPT !.pending = Append(@, ToolResult(m.tool_call_id, <<Text(StringOr(m.content))>>))]

\* Mutant of SystemMessage: that the content is no string goes unnoticed.
SystemMessageUnseen(s, m) == [s EXCEPT !.system = [form |-> "string", text |-> StringOr(m.content)]]

SystemMessage(s, m) ==
  IF m.content \in NotStrings THEN s ELSE [s EXCEPT !.system = [form |-> "string", text |-> m.content]]

OtherMessage(s, m) ==
  LET calls == m.role = "assistant" /\ m.tool_calls # NoCalls
      say(content) == [s EXCEPT !.msgs = Append(@, Message(m.role, content))]
  IN  CASE m.role = "system" -> SystemMessage(s, m)
        [] calls -> say(CallBlocks(m))
        [] m.role # "system" /\ ~calls ->
             IF StringOr(m.content) = <<>> THEN s ELSE say(<<Text(m.content)>>)

ConvertMessage(s, m) ==
  IF m.role = "tool" THEN ToolMessage(s, m) ELSE OtherMessage(FlushToolResults(s), m)

ConvertedMessages(messages) ==
  FlushToolResults(
    FoldLeft(ConvertMessage, [msgs |-> <<>>, pending |-> <<>>, system |-> Absent], messages))

\* A schema is what sanitizeParameterSchema looks into, and the rest of it; a
\* property that is not there is Absent.
Schema(props, required) ==
  [properties |-> props, required |-> required, items |-> Absent,
   additionalProperties |-> Absent, rest |-> Absent]
NoProperties == [n \in Properties |-> Absent]
Has(s) == {n \in Properties : s.properties[n] # Absent}

\* Those that look into schemas of a set only, and those of a depth.
ObjectSchemas(inner) ==
  [properties: [Properties -> inner], required: SUBSET Properties, items: inner,
   additionalProperties: inner, rest: Atoms]

SchemasOf[d \in Nat] ==
  {Absent, Boolean} \cup (IF d = 0 THEN {} ELSE ObjectSchemas(SchemasOf[d - 1]))

Schemas == SchemasOf[MaxDepth]

\* What stands for a value that is not there is no such value.
ASSUME ConversionAssumption ==
  /\ MaxDepth \in Nat \ {0}
  /\ {Absent, EmptyObject} \subseteq Atoms /\ Broken \notin {Absent, Null}
  /\ {Absent, Boolean} \cap ObjectSchemas(Schemas) = {}
  /\ NotStrings \cap Seq(Words) = {} /\ NoString \notin Arrays
  /\ Absent \notin [form: {"string"}, text: Seq(Words)]
  /\ NoCalls \notin Seq([id: Atoms, args: Atoms])

ConvertTool(t) ==
  [t EXCEPT !.schema = IF @ = Absent THEN Schema(NoProperties, {}) ELSE @]

\* "none" becomes auto; what is not known is left out.
ConvertChoice(c) ==
  CASE c = Absent -> NoChoice
    [] c # Absent /\ c.type \in {"auto", "none"} -> [type |-> "auto"]
    [] c # Absent /\ c.type = "required" -> [type |-> "any"]
    [] c # Absent /\ c.type = "function" -> [type |-> "tool", name |-> c.name]
    [] OTHER -> NoChoice

DefaultMaxTokens == 8192
MaxTokens(n) == IF n \in {Absent, 0} THEN DefaultMaxTokens ELSE n

OpenAIToAnthropic(doc) ==
  LET s == ConvertedMessages(doc.messages)
  IN  [messages |-> s.msgs, system |-> s.system, max_tokens |-> MaxTokens(doc.max_tokens),
       tools |-> Each(ConvertTool, doc.tools), tool_choice |-> ConvertChoice(doc.tool_choice),
       raw |-> Absent, non_streaming |-> FALSE]

Decoded(doc, raw) ==
  [messages |-> Each(DecodeMessage, doc.messages), system |-> doc.system,
   max_tokens |-> MaxTokens(doc.max_tokens), tools |-> doc.tools,
   tool_choice |-> doc.tool_choice, raw |-> raw, non_streaming |-> ~doc.stream]

\* Mutant of AnthropicBodyToRequest: the body is not kept.
ForgetRawBody(doc) == Decoded(doc, Absent)

AnthropicBodyToRequest(doc) == Decoded(doc, doc)

-------------------------------------------------------------------------------
(* sanitizeParameterSchema: NIM takes a property named "type" for the keyword.   *)

Conflicting == {"type"}

\* Mutant of Sanitize: "the shallow fix only caught top-level conflicts".
SanitizeShallow(schema) ==
  IF schema \in {Boolean, Absent} THEN schema
  ELSE [schema EXCEPT !.properties = [n \in Properties |->
                                         IF n \in Conflicting THEN Absent ELSE @[n]],
                      !.required = @ \ (Conflicting \cap Has(schema))]

Sanitize(schema) ==
  LET f[s \in Schemas] ==
        IF s \in {Boolean, Absent} THEN s
        ELSE [s EXCEPT !.properties = [n \in Properties |->
                                         IF n \in Conflicting THEN Absent ELSE f[@[n]]],
                       !.required = @ \ (Conflicting \cap Has(s)),
                       !.items = f[@],
                       !.additionalProperties = f[@]]
  IN  f[schema]

-------------------------------------------------------------------------------
(* convertToOpenAI.                                                            *)

OpenAIMessage(role, content) ==
  [role |-> role, content |-> content, tool_calls |-> NoCalls, tool_call_id |-> Absent]

CallOf(b) == [id |-> b.id, args |-> IF b.input \in {Absent, Null} THEN EmptyObject ELSE b.input]

ResultOf(b) ==
  [OpenAIMessage("tool", JoinedText(b.content)) EXCEPT !.tool_call_id = b.tool_use_id]

ContentOf(blocks) == IF Of("text", blocks) = <<>> THEN NoString ELSE JoinedText(blocks)

FromAssistant(m) ==
  LET calls == Each(CallOf, Of("tool_use", m.content))
  IN  <<[OpenAIMessage("assistant", ContentOf(m.content)) EXCEPT
           !.tool_calls = IF calls = <<>> THEN NoCalls ELSE calls]>>

\* Mutant of FromUser: with results there is no text.
FromUserResultsOnly(m) ==
  LET results == Each(ResultOf, Of("tool_result", m.content))
  IN  IF results # <<>> THEN results
      ELSE IF Of("text", m.content) = <<>> THEN <<>>
      ELSE <<OpenAIMessage(m.role, ContentOf(m.content))>>

\* Results first, then the text.
FromUser(m) ==
  Each(ResultOf, Of("tool_result", m.content)) \o
    (IF Of("text", m.content) = <<>> THEN <<>>
     ELSE <<OpenAIMessage(m.role, ContentOf(m.content))>>)

FromMessage(m) == IF m.role = "assistant" THEN FromAssistant(m) ELSE FromUser(m)

DescriptionCap(count) == IF count > 100 THEN 160 ELSE IF count > 40 THEN 280 ELSE 480

\* A description is its length; three dots follow what is cut.
ShortTool(t, cap) ==
  [name |-> t.name, description |-> IF t.description > cap THEN cap + 3 ELSE t.description,
   schema |-> Sanitize(t.schema)]

OpenAIChoice(c) ==
  CASE c \in {NoChoice, Absent} -> Absent
    [] c \notin {NoChoice, Absent} /\ c.type = "any" -> [type |-> "required"]
    [] c \notin {NoChoice, Absent} /\ c.type = "tool" -> [type |-> "function", name |-> c.name]
    [] OTHER -> [type |-> "auto"]

convertToOpenAI(req) ==
  LET system == SystemText(req.system)
      short(t) == ShortTool(t, DescriptionCap(Len(req.tools)))
  IN  [messages |-> (IF system = <<>> THEN <<>> ELSE <<OpenAIMessage("system", system)>>)
                    \o FlattenSeq(Each(FromMessage, req.messages)),
       max_tokens |-> req.max_tokens, stream |-> TRUE,
       tools |-> Each(short, req.tools), tool_choice |-> OpenAIChoice(req.tool_choice)]

-------------------------------------------------------------------------------
(* The body for an Anthropic-style provider.                                   *)

patchAnthropicBody(raw, defaultMaxTokens) ==
  [raw EXCEPT !.stream = TRUE, !.max_tokens = IF @ = Absent THEN defaultMaxTokens ELSE @]

\* A RawMessage that is no JSON cannot be marshalled.
Marshals(req) ==
  \A i \in DOMAIN req.messages : \A j \in DOMAIN req.messages[i].content :
    LET b == req.messages[i].content[j] IN b.type = "tool_use" => b.input # Broken

\* A list has but one form on the wire; an empty text has none (omitempty).
List(blocks) == [form |-> "blocks", blocks |-> blocks]

EncodeBlock(b) ==
  LET text(t) == IF t = Text(<<>>) THEN [type |-> "text"] ELSE t
  IN  CASE b.type = "tool_result" -> [b EXCEPT !.content = List(Each(text, @))]
        [] b.type = "text" -> text(b)
        [] OTHER -> b

EncodeMessage(m) == Message(m.role, List(Each(EncodeBlock, m.content)))

EncodedBody(req) ==
  [messages |-> Each(EncodeMessage, req.messages), system |-> req.system, max_tokens |-> req.max_tokens,
   tools |-> req.tools, tool_choice |-> req.tool_choice, stream |-> TRUE]

AnthropicBody(req) ==
  IF req.raw # Absent THEN patchAnthropicBody(req.raw, req.max_tokens)
  ELSE IF ~Marshals(req) THEN NoBody
  ELSE EncodedBody(req)
===============================================================================

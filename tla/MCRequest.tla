------------------------------ MODULE MCRequest -------------------------------
(* An instance of ClientRequest for TLC: the bodies of its clients. *)
EXTENDS ClientRequest

CONSTANTS k1, r1, r2, a1, id1, id2, args, tool, word, other, rest, parts

MCWords == {word, other}
MCAtoms == {id1, id2, args, tool, rest, Absent, Null, Broken, EmptyObject}
MCProperties == {"type", "path"}
MCTextIn == [a \in {parts} |-> <<other, word>>]

-------------------------------------------------------------------------------
(* OpenAI's format.                                                            *)

Says(role, content) ==
  [role |-> role, content |-> content, tool_calls |-> NoCalls, tool_call_id |-> Absent]
Calls(content, calls) == [Says("assistant", content) EXCEPT !.tool_calls = calls]
Answers(id, content) == [Says("tool", content) EXCEPT !.tool_call_id = id]
Call(id, a) == [id |-> id, args |-> a]

TwoCalls == Calls(NoString, <<Call(id1, Absent), Call(id2, args)>>)

OpenAITurns == {
  <<Says("system", <<other>>)>>,
  <<Says("user", <<word>>)>>,
  <<Says("user", NoString)>>,
  <<Says("user", parts)>>,
  <<Says("system", parts)>>,
  <<Calls(parts, <<Call(id1, args)>>), Answers(id1, parts)>>,
  <<Says("assistant", <<other, word>>)>>,
  <<Calls(<<>>, <<>>)>>,
  <<Calls(<<word>>, <<Call(id1, Null)>>), Answers(id1, NoString)>>,
  <<TwoCalls, Answers(id2, <<other>>), Answers(id1, <<word>>)>>,
  <<TwoCalls, Answers(id1, <<word>>), Says("system", <<word>>), Answers(id2, <<>>)>>,
  <<Calls(NoString, <<Call(id1, Broken)>>), Answers(id1, <<word>>)>>}

UpTo2(turns) == {<<t>> : t \in turns} \cup {<<t, u>> : t \in turns, u \in turns}

OpenAIDoc(messages) ==
  [messages |-> messages, max_tokens |-> Absent, stream |-> TRUE, tools |-> <<>>,
   tool_choice |-> Absent]

-------------------------------------------------------------------------------
(* Anthropic's format.                                                         *)

String(t) == [form |-> "string", text |-> t]
Result(id, content) == [type |-> "tool_result", tool_use_id |-> id, content |-> content]
Image == [type |-> "image", source |-> rest]

AnthropicTurns == {
  <<Message("user", String(<<word>>))>>,
  <<Message("user", List(<<Text(<<word>>), Image>>))>>,
  <<Message("assistant", List(<<[type |-> "thinking"], Text(<<other>>)>>))>>,
  <<Message("assistant", List(<<ToolUse(id1, Null), Text(<<word>>), ToolUse(id2, args)>>)),
    Message("user", List(<<Result(id2, String(<<other>>)),
                           Result(id1, List(<<Text(<<word>>), Image, Text(<<other>>)>>))>>))>>,
  <<Message("assistant", List(<<Text(<<word>>), ToolUse(id1, args)>>)),
    Message("user", List(<<Text(<<word>>), Result(id1, List(<<>>)), Text(<<other>>)>>))>>}

AnthropicDoc(messages) ==
  [messages |-> messages, system |-> Absent, max_tokens |-> Absent, stream |-> TRUE,
   tools |-> <<>>, tool_choice |-> Absent]

-------------------------------------------------------------------------------
(* Tools.                                                                      *)

Leaf == Schema(NoProperties, {})
Only(names, s) == [n \in Properties |-> IF n \in names THEN s ELSE Absent]
Props(names) == Only(names, Leaf)
Typed == Schema(Props({"type", "path"}), {"type", "path"})

MCSchemas == {
  Absent, Leaf, Typed,
  Schema(Props({"path"}), {"path", "type"}),
  Schema(Only({"path"}, Typed), {"path"}),
  Schema(Only({"type"}, Typed), {}),
  [Leaf EXCEPT !.items = Typed, !.additionalProperties = Boolean],
  [Leaf EXCEPT !.additionalProperties = [Leaf EXCEPT !.items = Typed], !.rest = rest],
  Schema(Only({"path"}, [Leaf EXCEPT !.items = Schema(Only({"path"}, Typed), {})]), {})}

Tools(schema, count, length) ==
  [i \in 1..count |-> [name |-> tool, description |-> length, schema |-> schema]]

Toolsets == {Tools(s, 1, 481) : s \in MCSchemas} \cup {Tools(Leaf, 41, 280), Tools(Leaf, 101, 161)}

OpenAIChoices == {[type |-> t] : t \in {"auto", "none", "required", "unknown"}}
                   \cup {[type |-> "function", name |-> tool]}
AnthropicChoices == {[type |-> t] : t \in {"auto", "none", "any"}} \cup {[type |-> "tool", name |-> tool]}

Asks == OpenAIDoc(<<Says("user", <<word>>)>>)
Wants == AnthropicDoc(<<Message("user", String(<<word>>))>>)

MCOpenAIDocs ==
  {Malformed}
  \cup {OpenAIDoc(FlattenSeq(turns)) : turns \in UpTo2(OpenAITurns)}
  \cup {[Asks EXCEPT !.tools = t] : t \in Toolsets}
  \cup {[Asks EXCEPT !.tool_choice = c] : c \in OpenAIChoices}
  \cup {[Asks EXCEPT !.max_tokens = n] : n \in {0, 5}}

MCAnthropicDocs ==
  {Malformed}
  \cup {AnthropicDoc(FlattenSeq(turns)) : turns \in UpTo2(AnthropicTurns)}
  \cup {[Wants EXCEPT !.tools = t] : t \in Toolsets}
  \cup {[Wants EXCEPT !.tool_choice = c] : c \in AnthropicChoices}
  \cup {[Wants EXCEPT !.max_tokens = n, !.stream = FALSE] : n \in {0, 5}}
  \cup {[Wants EXCEPT !.system = s] :
          s \in {String(<<other>>), List(<<Text(<<word>>), Text(<<>>), Text(<<other>>)>>)}}
===============================================================================

------------------------------- MODULE MCStreams -------------------------------
(* A small instance of ProviderStreams: the tags are <t> and </t>. *)
EXTENDS ProviderStreams

MCLetters  == {"<", "/", "t", ">", "x"}
MCOpenTag  == <<"<", "t", ">">>
MCCloseTag == <<"<", "/", "t", ">">>

Nothing == [reasoning |-> FALSE, tools |-> <<>>, content |-> <<>>, finish |-> "none"]

Says(content)  == [Nothing EXCEPT !.content = content]
Calls(tools)   == [Nothing EXCEPT !.tools = tools]
Ending(chunk, reason) == [chunk EXCEPT !.finish = reason]
Tool(i, args)  == [index |-> i, args |-> args]

MCChunks ==
  {[Nothing EXCEPT !.reasoning = TRUE], Ending(Nothing, "stop")}
  \cup {Says(s) : s \in {<<"x">>, <<"<">>, <<"t", ">">>, <<"/", "t">>, <<">", "x", "<">>,
                         MCOpenTag, MCCloseTag, MCOpenTag \o <<"x">> \o MCCloseTag}}
  \cup {Calls(calls) : calls \in {<<Tool(0, FALSE)>>, <<Tool(1, TRUE)>>,
                                  <<Tool(1, TRUE), Tool(0, TRUE)>>}}
  \cup {[Calls(<<Tool(0, FALSE), Tool(-1, TRUE)>>) EXCEPT !.reasoning = TRUE, !.content = <<"x">>]}
  \cup {Ending(Says(<<"x">>), "length"), Ending(Calls(<<Tool(0, TRUE)>>), "tool_calls")}
===============================================================================

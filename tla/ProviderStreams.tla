---------------------------- MODULE ProviderStreams ----------------------------
(***************************************************************************)
(* The two implementations of Provider.Stream that newProvider             *)
(* (src/router/router.go) chooses from, each with the router's clients     *)
(* behind it: one attempt that got its 200 is served by one of them.       *)
(***************************************************************************)
EXTENDS OpenAIServed, AnthropicServed

VARIABLE style      \* of the provider that answers: "openai" or "anthropic"

streamVars == <<style, servedVars, copyVars>>

StreamsInit ==
  /\ style \in {"openai", "anthropic"}
  /\ ServedInit
  /\ CopyInit

Stream ==
  \/ style = "openai" /\ ServedNext /\ UNCHANGED copyVars
  \/ style = "anthropic" /\ CopyNext /\ UNCHANGED servedVars

StreamsSpec == StreamsInit /\ [][Stream /\ UNCHANGED style]_streamVars
================================================================================

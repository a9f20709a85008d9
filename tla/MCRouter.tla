------------------------------- MODULE MCRouter -------------------------------
(* Instances of Router for TLC. *)
EXTENDS RouterProperties, TLC

CONSTANTS r1, r2, nim, ant, old, none

At(p) == [provider |-> p, model_id |-> "m"]

\* "big" has a context-window annotation; "ghost" is no alias.
MCNames == {"big", "big[1m]", "small", "ghost"}
MCBare  == [n \in MCNames |-> IF n = "big[1m]" THEN "big" ELSE n]

\* An OpenAI-style provider with a budget of its own, an Anthropic-style one,
\* and one of a convention newProvider does not know.
MCProviders == (nim :> [convention |-> "openai", timeout |-> 1]) @@
               (ant :> [convention |-> "anthropic", timeout |-> 0]) @@
               (old :> [convention |-> "unknown", timeout |-> 0])

\* Two providers and a fallback model behind the same OpenAI-style provider.
Failover ==
  [models |-> ("big" :> [fallback_to |-> "small", providers |-> <<At(nim), At(old), At(ant)>>]) @@
              ("small" :> [fallback_to |-> none, providers |-> <<At(nim)>>]),
   providers |-> MCProviders]

\* After an edit: nim takes the default time-out, "ant" is not configured, and
\* the fallback is no alias.
Edited ==
  [models |-> ("big" :> [fallback_to |-> "ghost", providers |-> <<At(ant), At(nim)>>]),
   providers |-> (nim :> [convention |-> "openai", timeout |-> 0])]

\* A fallback_to cycle, in which "big" comes twice.
Cycle ==
  [models |-> ("big" :> [fallback_to |-> "small", providers |-> <<At(ant), At(old)>>]) @@
              ("small" :> [fallback_to |-> "big[1m]", providers |-> <<At(old)>>]),
   providers |-> MCProviders]

\* One provider, without a header time-out, for requests that contend for its
\* keys.
Single ==
  [models |-> ("big" :> [fallback_to |-> none, providers |-> <<At(ant)>>]),
   providers |-> ant :> MCProviders[ant]]

FailoverEditedOrCycle == {Failover, Edited, Cycle}
FailoverOrEdited == {Failover, Edited}
SingleOnly == {Single}

\* The same key value may be stored for two providers.
KeysBoth == (nim :> <<"k1", "k2">>) @@ (ant :> <<"k1">>) @@ (old :> <<>>)
KeysAnt  == ant :> <<"k1", "k2">>
KeysFew  == (nim :> <<"k1">>) @@ (ant :> <<"k1">>) @@ (old :> <<>>)

RequestSymmetry == Permutations({r1, r2})
===============================================================================

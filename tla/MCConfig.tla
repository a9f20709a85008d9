------------------------------- MODULE MCConfig -------------------------------
(* Small instances of ConfigManager. *)
EXTENDS ConfigManager

CONSTANTS fast, smart, nim, v1, v2

Model(a, v) == [alias |-> a, value |-> v]
Doc(models, providers) == [models |-> models, providers |-> providers]
NoProviders == [p \in {} |-> p]

\* A file that lists an alias twice, and has a provider.
First == Doc(<<Model(fast, v1), Model(fast, v2)>>, [p \in {nim} |-> v1])

\* Files that are written by hand.
Other == Doc(<<Model(smart, v1)>>, NoProviders)

MCBodies == {Other, Unreadable}

Request(kind, name, value) == [kind |-> kind, name |-> name, value |-> value]

\* Of a listed alias, and of one that is not listed any more.
AllKinds == {Request("UpsertModel", fast, v2), Request("DeleteModel", fast, v1),
             Request("UpsertProvider", nim, v2), Request("DeleteProvider", nim, v1)}

OneModel == {Request("UpsertModel", smart, v2)}
===============================================================================

----------------------------- MODULE ConfigStore ------------------------------
(***************************************************************************)
(* What the saved configuration is for those who edit it: one value, that  *)
(* the dashboard changes one entry at a time, each edit on top of what is  *)
(* saved, and that somebody who writes the file by hand replaces as a      *)
(* whole (emptying it on the way).  Whatever else the process does, fails  *)
(* at, or dies of, leaves it alone.                                        *)
(***************************************************************************)
CONSTANTS
  Entries,          \* model aliases and provider ids
  Values,           \* what can be configured for one
  HandWritten,      \* the files somebody may write
  Unreadable,       \* a file that is no configuration
  Start             \* what is saved at first

VARIABLE saved      \* a function from the entries that there are, or Unreadable

Empty == [e \in {} |-> e]

Put(e, v) ==
  /\ saved # Unreadable
  /\ saved' = [x \in DOMAIN saved \cup {e} |-> IF x = e THEN v ELSE saved[x]]

Drop(e) ==
  /\ saved # Unreadable
  /\ saved' = [x \in DOMAIN saved \ {e} |-> saved[x]]

Write == saved' \in HandWritten \cup {Empty}

Next == \/ \E e \in Entries : Drop(e) \/ \E v \in Values : Put(e, v)
        \/ Write

Init == saved = Start

Spec == Init /\ [][Next]_saved
===============================================================================

------------------------------ MODULE ClientKeys ------------------------------
(***************************************************************************)
(* Client keys: the middleware that lets a request in (Auth of             *)
(* src/middleware/auth.go), the rows of client_keys (src/db/usage.go), and *)
(* the dashboard's handlers that mint and revoke keys (src/admin/api.go).  *)
(*                                                                         *)
(* Nothing is locked and nothing is cached: each function of src/db is one *)
(* SQL statement, which takes effect at once or fails (database busy, disk *)
(* full).  Between two statements anybody may act; the goroutine that      *)
(* dates a key goes on after its request was let in, and after it ended.   *)
(***************************************************************************)
EXTENDS Naturals

CONSTANTS
  Keys,             \* the ids mintKeyID makes
  NoToken,          \* a request without a token
  Requests, Admins, \* who is served: clients and pages of the dashboard
  MaxRestarts

ASSUME KeysAssumption ==
  /\ NoToken \notin Keys
  /\ MaxRestarts \in Nat

VARIABLES
  rows,             \* client_keys, by id; used: last_used is not NULL
  request,          \* a client's request in Auth; issued and late are ghosts:
                    \* when it came, its key had been handed out, was gone
  touch,            \* the goroutine that Auth starts for a request
  admin,            \* a dashboard handler
  issued, gone,     \* ghosts: the keys whose minting, whose revocation was
                    \* answered with success
  restarts

keyVars == <<rows, request, touch, admin, issued, gone, restarts>>

Idle == [at |-> "idle"]

Init ==
  /\ rows = [k \in {} |-> k]
  /\ request = [r \in Requests |-> Idle]
  /\ touch = [r \in Requests |-> Idle]
  /\ admin = [a \in Admins |-> Idle]
  /\ issued = {} /\ gone = {}
  /\ restarts = 0

Go(r, at) == request' = [request EXCEPT ![r].at = at]

-------------------------------------------------------------------------------
(* Auth.                                                                       *)

Arrive(r, key) ==
  /\ request[r] = Idle
  /\ request' = [request EXCEPT ![r] =
       [at |-> IF key = NoToken THEN "unauthorized" ELSE "query", key |-> key,
        issued |-> key \in issued, late |-> key \in gone]]
  /\ UNCHANGED <<rows, touch, admin, issued, gone, restarts>>

\* A row that is there and not revoked lets the request in.
Valid(key) == key \in DOMAIN rows /\ ~rows[key].revoked

GetKey(r) ==
  /\ request[r].at = "query"
  /\ Valid(request[r].key)
  /\ Go(r, "next")
  /\ touch' = [touch EXCEPT ![r] = [at |-> "exec", key |-> request[r].key]]
  /\ UNCHANGED <<rows, admin, issued, gone, restarts>>

GetKeyRefuses(r) ==
  /\ request[r].at = "query"
  /\ ~Valid(request[r].key)
  /\ Go(r, "unauthorized")
  /\ UNCHANGED <<rows, touch, admin, issued, gone, restarts>>

\* A query that fails is answered like a key that is wrong.
GetKeyFails(r) ==
  /\ request[r].at = "query"
  /\ Go(r, "unchecked")
  /\ UNCHANGED <<rows, touch, admin, issued, gone, restarts>>

\* The handler returns.
Finish(r) ==
  /\ request[r].at = "next"
  /\ Go(r, "done")
  /\ UNCHANGED <<rows, touch, admin, issued, gone, restarts>>

-------------------------------------------------------------------------------
(* UpdateLastUsed.  Which time it writes is left out: two of them may write      *)
(* theirs in either order.                                                       *)

EndTouch(r) ==
  /\ touch[r].at = "exec"
  /\ touch' = [touch EXCEPT ![r] = Idle]

\* Mutant of UpdateLastUsed: the row that GetKey read is written back.
WriteBackRow(r) ==
  /\ EndTouch(r)
  /\ rows' = [rows EXCEPT ![touch[r].key] = [used |-> TRUE, revoked |-> FALSE]]
  /\ UNCHANGED <<request, admin, issued, gone, restarts>>

UpdateLastUsed(r) ==
  /\ EndTouch(r)
  /\ rows' = [rows EXCEPT ![touch[r].key].used = TRUE]
  /\ UNCHANGED <<request, admin, issued, gone, restarts>>

UpdateLastUsedFails(r) ==
  /\ EndTouch(r)
  /\ UNCHANGED <<rows, request, admin, issued, gone, restarts>>

-------------------------------------------------------------------------------
(* handleMintKey and handleRevokeKey.                                          *)

Set(a, call) == admin' = [admin EXCEPT ![a] = call]

\* mintKeyID draws an id no row has yet (96 random bits); a key is revoked from
\* the list of those there are.
Ask(a, op, key) ==
  /\ admin[a] = Idle
  /\ op = "mint" => key \notin DOMAIN rows
  /\ op = "revoke" => key \in DOMAIN rows
  /\ Set(a, [at |-> "exec", op |-> op, key |-> key])
  /\ UNCHANGED <<rows, request, touch, issued, gone, restarts>>

CreateKey(a) ==
  /\ admin[a].at = "exec" /\ admin[a].op = "mint"
  /\ LET key == admin[a].key
     IN  /\ key \notin DOMAIN rows
         /\ rows' = [k \in DOMAIN rows \cup {key} |->
              IF k = key THEN [used |-> FALSE, revoked |-> FALSE] ELSE rows[k]]
         /\ Set(a, [at |-> "answer", op |-> "mint", key |-> key])
  /\ UNCHANGED <<request, touch, issued, gone, restarts>>

RevokeKey(a) ==
  /\ admin[a].at = "exec" /\ admin[a].op = "revoke"
  /\ LET key == admin[a].key
     IN  /\ rows' = [rows EXCEPT ![key].revoked = TRUE]
         /\ Set(a, [at |-> "answer", op |-> "revoke", key |-> key])
  /\ UNCHANGED <<request, touch, issued, gone, restarts>>

\* Answered with an error; so is an id that is taken.
StatementFails(a) ==
  /\ admin[a].at = "exec"
  /\ Set(a, Idle)
  /\ UNCHANGED <<rows, request, touch, issued, gone, restarts>>

Answer(a) ==
  /\ admin[a].at = "answer"
  /\ issued' = IF admin[a].op = "mint" THEN issued \cup {admin[a].key} ELSE issued
  /\ gone' = IF admin[a].op = "revoke" THEN gone \cup {admin[a].key} ELSE gone
  /\ Set(a, Idle)
  /\ UNCHANGED <<rows, request, touch, restarts>>

-------------------------------------------------------------------------------
\* The process ends and starts again: goroutines are lost, rows are not.
Restart ==
  /\ restarts < MaxRestarts
  /\ restarts' = restarts + 1
  /\ request' = [r \in Requests |->
       IF request[r].at \in {"query", "next"} THEN [request[r] EXCEPT !.at = "done"] ELSE request[r]]
  /\ touch' = [r \in Requests |-> Idle]
  /\ admin' = [a \in Admins |-> Idle]
  /\ UNCHANGED <<rows, issued, gone>>

AuthStep(r) ==
  \/ \E key \in Keys \cup {NoToken} : Arrive(r, key)
  \/ GetKey(r) \/ GetKeyRefuses(r) \/ GetKeyFails(r)

TouchStep(r) == UpdateLastUsed(r) \/ UpdateLastUsedFails(r)

AdminStep(a) ==
  \/ \E op \in {"mint", "revoke"}, key \in Keys : Ask(a, op, key)
  \/ CreateKey(a) \/ RevokeKey(a) \/ StatementFails(a) \/ Answer(a)

Next ==
  \/ \E r \in Requests : AuthStep(r) \/ Finish(r) \/ TouchStep(r)
  \/ \E a \in Admins : AdminStep(a)
  \/ Restart

Spec == Init /\ [][Next]_keyVars

-------------------------------------------------------------------------------
Rows == [used: BOOLEAN, revoked: BOOLEAN]

\* Every variable has its type; only rows of client_keys are dated or revoked.
TypeOK ==
  /\ DOMAIN rows \subseteq Keys /\ rows \in [DOMAIN rows -> Rows]
  /\ request \in [Requests -> {Idle} \cup
       [at: {"query", "next", "done", "unauthorized", "unchecked"}, key: Keys \cup {NoToken},
        issued: BOOLEAN, late: BOOLEAN]]
  /\ touch \in [Requests -> {Idle} \cup [at: {"exec"}, key: DOMAIN rows]]
  /\ admin \in [Admins -> {Idle} \cup [at: {"exec", "answer"}, op: {"mint", "revoke"}, key: Keys]]
  /\ issued \subseteq Keys /\ gone \subseteq Keys
  /\ restarts \in Nat

(***************************************************************************)
(* "every request made with it is tracked and can be revoked later"        *)
(* (README.md:153): when a revocation has been answered with success, no   *)
(* request that comes later is let in, and none dates the key, whatever    *)
(* goroutines of earlier requests still have to write and wherever the     *)
(* process restarts.  auth.go:27-33, usage.go:230-248.                     *)
(***************************************************************************)
RevokedStaysOut ==
  \A r \in Requests :
    request[r] # Idle /\ request[r].late => request[r].at # "next" /\ touch[r] = Idle

(***************************************************************************)
(* A key that was handed out is turned away, if the query did not fail,    *)
(* only because somebody revoked it.  auth.go:26-30, api.go:112-137.       *)
(***************************************************************************)
IssuedKeyWorks ==
  \A r \in Requests :
    request[r].at = "unauthorized" /\ request[r].issued =>
      request[r].key \in DOMAIN rows /\ rows[request[r].key].revoked
===============================================================================

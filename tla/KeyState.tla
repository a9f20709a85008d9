------------------------------- MODULE KeyState -------------------------------
(***************************************************************************)
(* keyState of src/router/fallback.go: the in-memory cooldown of every     *)
(* provider key that answered 429, and the round-robin cursor of every     *)
(* provider.  Each operation runs under keyState.mu, so each is one step.  *)
(*                                                                         *)
(* The code keeps, per key VALUE, the instant of the last 429 and the      *)
(* length of its cooldown, and compares time.Since with the length.  Here  *)
(* coolLeft[k] is the time left of that cooldown, in units of Tick; it is  *)
(* 0 for a key that was never rate limited.                                *)
(***************************************************************************)
EXTENDS Integers

CONSTANTS
  Providers,        \* provider ids
  Keys,             \* provider key values
  RetryAfters,      \* the Retry-After durations upstreams send, 0 for none
  DefaultCooldown   \* defaultCooldown

ASSUME CooldownAssumption ==
  /\ DefaultCooldown \in Nat \ {0}
  /\ RetryAfters \subseteq Nat

VARIABLES
  nextIdx,          \* [Providers -> Nat]  index of the next key to try first
  coolLeft          \* [Keys -> Nat]       time left of the key's cooldown

KeyStateTypeOK ==
  /\ nextIdx \in [Providers -> Nat]
  /\ coolLeft \in [Keys -> Nat]

\* newKeyState: no key is cooling, every cursor is 0.  nextIdx is absent from
\* the map until the first success; reading an absent entry yields 0.
NewKeyState ==
  /\ nextIdx = [p \in Providers |-> 0]
  /\ coolLeft = [k \in Keys |-> 0]

\* The process is replaced: the state is in memory only.
ForgetKeyState ==
  /\ nextIdx' = [p \in Providers |-> 0]
  /\ coolLeft' = [k \in Keys |-> 0]

IsRateLimited(k) == coolLeft[k] > 0

\* The last 429 wins, even when it asks for less than what is left.
MarkRateLimited(k, retryAfter) ==
  coolLeft' = [coolLeft EXCEPT
                 ![k] = IF retryAfter > 0 THEN retryAfter ELSE DefaultCooldown]

\* Bounded to 0 .. n-1 at the time of use: the key list may have shrunk since
\* the cursor was stored.
StartIdx(p, n) == IF n <= 0 THEN 0 ELSE nextIdx[p] % n

AdvanceIdx(p, usedIdx, n) ==
  nextIdx' = IF n > 0 THEN [nextIdx EXCEPT ![p] = (usedIdx + 1) % n] ELSE nextIdx

\* Mutant of CoolDown: a cooldown that is over goes on counting.
CoolDownUnbounded == coolLeft' = [k \in Keys |-> coolLeft[k] - 1]

\* One unit of time passes.
CoolDown == coolLeft' = [k \in Keys |-> IF coolLeft[k] > 0 THEN coolLeft[k] - 1 ELSE 0]
===============================================================================

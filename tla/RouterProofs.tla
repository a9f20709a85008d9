----------------------------- MODULE RouterProofs -----------------------------
(***************************************************************************)
(* Theorems about Router, for every set of requests, providers, keys and   *)
(* configurations, every time-out and every depth.                         *)
(***************************************************************************)
EXTENDS RouterProperties, SequenceTheorems, FiniteSetTheorems, TLAPS

Chaining == {"chain", "start", "key", "send", "dial", "wait", "body", "err", "stream",
             "won", "reply", "usage"}

\* Where the route at job[r].prov is in use.
Routing == Chaining \ {"chain"}

OnRoute(r) == MoreRoutes(r) /\ Usable(r)

\* The route that a request in flight stands on exists and is usable, and the
\* key at its cursor is in the snapshot.
PlacedAt(r) ==
  /\ pc[r] # "idle" => job[r] \in Jobs
  /\ pc[r] \in Chaining => job[r].model \in DOMAIN job[r].cfg.models
  /\ pc[r] \in Routing => OnRoute(r)
  /\ pc[r] = "event" /\ out[r].ending = "complete" =>
       job[r].model \in DOMAIN job[r].cfg.models /\ OnRoute(r)
  /\ pc[r] \in {"start", "key"} => Keyed(r)
  /\ pc[r] \in {"start", "send", "dial", "wait", "body", "err", "stream", "won"} /\ Keyed(r) =>
       MoreKeys(r)
  /\ pc[r] \in {"idle", "model", "chain", "start", "key", "send", "dial", "wait", "body",
                "err", "stream", "won", "failed", "reply"} => out[r].ending = "none"

Placed == \A r \in Requests : PlacedAt(r)

TypeInv == TypeOK /\ Placed

\* A route that is there is one of the configuration's.
LEMMA RouteType ==
  ASSUME RouterAssumption, NEW r \in Requests, job[r] \in Jobs,
         job[r].model \in DOMAIN job[r].cfg.models, MoreRoutes(r)
  PROVE  Route(r) \in Upstreams
<1>1. job[r].cfg.models[job[r].model] \in ModelConfigs
  BY DEF RouterAssumption, Jobs
<1>2. job[r].cfg.models[job[r].model].providers \in Seq(Upstreams)
  BY <1>1 DEF ModelConfigs
<1>3. job[r].prov \in 1..Len(job[r].cfg.models[job[r].model].providers)
  BY <1>2 DEF Jobs, MoreRoutes, ModelConfig
<1> QED
  BY <1>2, <1>3 DEF Route, ModelConfig

LEMMA ProviderConfigType ==
  ASSUME RouterAssumption, NEW r \in Requests, job[r] \in Jobs, Usable(r)
  PROVE  ProviderConfig(r) \in ProviderConfigs /\ AttemptTimeout(r) \in Nat
<1>1. ProviderConfig(r) \in ProviderConfigs
  BY DEF RouterAssumption, Jobs, Usable, ProviderConfig
<1> QED
  BY <1>1 DEF AttemptTimeout, ProviderConfigs, RouterAssumption

\* An error response: what the provider will make of its status, and whether it
\* reads the body first.
LEMMA ErrorAnswer ==
  ASSUME NEW r, AnsweredError(r)
  PROVE  \E status \in ErrorStatuses, after \in Nat, stage \in {"body", "err"} :
           /\ pc' = [pc EXCEPT ![r] = stage]
           /\ att' = [att EXCEPT ![r].err = StatusError(status, ProviderConfig(r).convention),
                                 ![r].after = after]
<1>1. PICK status \in ErrorStatuses :
        \E after \in IF status = 429 THEN RetryAfters ELSE {0} :
          /\ pc' = [pc EXCEPT ![r] = IF ReadsBody(r, status) THEN "body" ELSE "err"]
          /\ att' = [att EXCEPT ![r].err = StatusError(status, ProviderConfig(r).convention),
                                ![r].after = after]
  BY Zenon DEF AnsweredError
<1> DEFINE stage == IF ReadsBody(r, status) THEN "body" ELSE "err"
           kind == StatusError(status, ProviderConfig(r).convention)
           afters == IF status = 429 THEN RetryAfters ELSE {0}
<1>2. afters \subseteq Nat
  BY CooldownAssumption
<1>3. stage \in {"body", "err"}
  OBVIOUS
<1>4. \E after \in afters : /\ pc' = [pc EXCEPT ![r] = stage]
                           /\ att' = [att EXCEPT ![r].err = kind, ![r].after = after]
  BY <1>1
<1> HIDE DEF stage, kind, afters
<1>5. PICK after \in afters : /\ pc' = [pc EXCEPT ![r] = stage]
                             /\ att' = [att EXCEPT ![r].err = kind, ![r].after = after]
  BY <1>4
<1>6. after \in Nat
  BY <1>2
<1>7. \E a \in Nat, g \in {"body", "err"} :
        /\ pc' = [pc EXCEPT ![r] = g]
        /\ att' = [att EXCEPT ![r].err = kind, ![r].after = a]
  BY <1>3, <1>5, <1>6
<1> QED BY <1>7 DEF kind

\* A step of request r leaves every other request alone.
Local(r) ==
  /\ pc' = [pc EXCEPT ![r] = pc'[r]]
  /\ job' = [job EXCEPT ![r] = job'[r]]
  /\ att' = [att EXCEPT ![r] = att'[r]]
  /\ out' = [out EXCEPT ![r] = out'[r]]
  /\ books' = [books EXCEPT ![r] = books'[r]]
  /\ cancelled' = [cancelled EXCEPT ![r] = cancelled'[r]]

LEMMA LocalSteps ==
  ASSUME TypeOK, NEW r \in Requests, 
         Begin(r) \/ RouterStep(r) \/ TransportStep(r) \/ NetworkStep(r) \/ Cancel(r)
  PROVE  Local(r)
<1> USE DEF TypeOK, Local, Move, keyStateVars, adminVars
<1>Begin. CASE Begin(r)
  BY <1>Begin DEF Begin
<1>Reject. CASE Reject(r)
  BY <1>Reject DEF Reject, Known
<1>Resolve. CASE Resolve(r)
  BY <1>Resolve DEF Resolve, Known
<1>SkipProvider. CASE SkipProvider(r)
  BY <1>SkipProvider DEF SkipProvider
<1>LoadKeys. CASE LoadKeys(r)
  BY <1>LoadKeys DEF LoadKeys
<1>Hop. CASE Hop(r)
  BY <1>Hop DEF Hop
<1>Exhausted. CASE Exhausted(r)
  BY <1>Exhausted DEF Exhausted
<1>ReadStart. CASE ReadStart(r)
  BY <1>ReadStart DEF ReadStart
<1>SkipCooling. CASE SkipCooling(r)
  BY <1>SkipCooling DEF SkipCooling, Pass
<1>PickKey. CASE PickKey(r)
  BY <1>PickKey DEF PickKey
<1>KeysExhausted. CASE KeysExhausted(r)
  BY <1>KeysExhausted DEF KeysExhausted, GiveUp
<1>Refuse. CASE Refuse(r)
  BY <1>Refuse DEF Refuse
<1>SendCancelled. CASE SendCancelled(r)
  BY <1>SendCancelled DEF SendCancelled
<1>Send. CASE Send(r)
  BY <1>Send DEF Send
<1>RateLimited. CASE RateLimited(r)
  BY <1>RateLimited DEF RateLimited, NextKey, Pass
<1>KeyFailed. CASE KeyFailed(r)
  BY <1>KeyFailed DEF KeyFailed, NextKey, Pass
<1>KeylessFailed. CASE KeylessFailed(r)
  BY <1>KeylessFailed DEF KeylessFailed, GiveUp
<1>Abort. CASE Abort(r)
  BY <1>Abort DEF Abort
<1>Advance. CASE Advance(r)
  BY <1>Advance DEF Advance
<1>Reply. CASE Reply(r)
  BY <1>Reply DEF Reply
<1>ReplyError. CASE ReplyError(r)
  BY <1>ReplyError DEF ReplyError
<1>WriteUsage. CASE WriteUsage(r)
  BY <1>WriteUsage DEF WriteUsage
<1>PublishEvent. CASE PublishEvent(r)
  BY <1>PublishEvent DEF PublishEvent
<1>Dialed. CASE Dialed(r)
  BY <1>Dialed DEF Dialed
<1>TransportError. CASE TransportError(r)
  BY <1>TransportError DEF TransportError, Fail
<1>HeaderTimeout. CASE HeaderTimeout(r)
  BY <1>HeaderTimeout DEF HeaderTimeout, Fail
<1>CtxDone. CASE CtxDone(r)
  BY <1>CtxDone DEF CtxDone, Fail
<1>Answered200. CASE Answered200(r)
  BY <1>Answered200 DEF Answered200
<1>AnsweredError. CASE AnsweredError(r)
  <2>1. PICK status \in ErrorStatuses, after \in Nat, stage \in {"body", "err"} :
          /\ pc' = [pc EXCEPT ![r] = stage]
          /\ att' = [att EXCEPT ![r].err = StatusError(status, ProviderConfig(r).convention),
                                ![r].after = after]
    BY <1>AnsweredError, ErrorAnswer
  <2> QED BY <1>AnsweredError, <2>1 DEF AnsweredError
<1>ErrorRead. CASE ErrorRead(r)
  <2>1. PICK kind : Fail(r, kind, 0)
    BY <1>ErrorRead DEF ErrorRead
  <2> QED BY <2>1 DEF Fail
<1>StreamPanics. CASE StreamPanics(r)
  BY <1>StreamPanics DEF StreamPanics
<1>Emit. CASE Emit(r)
  BY <1>Emit DEF Emit
<1>StreamEnds. CASE StreamEnds(r)
  BY <1>StreamEnds DEF StreamEnds
<1>StreamBreaks. CASE StreamBreaks(r)
  BY <1>StreamBreaks DEF StreamBreaks, Fail
<1>Cancel. CASE Cancel(r)
  BY <1>Cancel DEF Cancel
<1> QED BY <1>Begin, <1>Reject, <1>Resolve, <1>SkipProvider, <1>LoadKeys, <1>Hop, <1>Exhausted, <1>ReadStart, <1>SkipCooling, <1>PickKey, <1>KeysExhausted, <1>Refuse, <1>SendCancelled, <1>Send, <1>RateLimited, <1>KeyFailed, <1>KeylessFailed, <1>Abort, <1>Advance, <1>Reply, <1>ReplyError, <1>WriteUsage, <1>PublishEvent, <1>Dialed, <1>TransportError, <1>HeaderTimeout, <1>CtxDone, <1>Answered200, <1>AnsweredError, <1>Emit, <1>StreamEnds, <1>StreamBreaks, <1>ErrorRead, <1>StreamPanics, <1>Cancel DEF RouterStep, TransportStep, NetworkStep


LEMMA PassType ==
  ASSUME NEW a \in Attempts, NEW index \in Nat PROVE Pass(a, index) \in Attempts
<1> DEFINE n == a.i + 1
           S == a.seen \cup {index}
<1>1. n \in Nat /\ S \in SUBSET Nat
  BY DEF Attempts
<1>2. Pass(a, index) = [a EXCEPT !.i = n, !.seen = S]
  BY DEF Pass
<1> HIDE DEF n, S
<1> QED BY <1>1, <1>2 DEF Attempts

LEMMA NextKeyType ==
  ASSUME NEW a \in Attempts, NEW index \in Nat PROVE NextKey(a, index) \in Attempts
<1> DEFINE p == Pass(a, index)
           f == p.fails + 1
<1>1. p \in Attempts
  BY PassType
<1>2. f \in Nat
  BY <1>1 DEF Attempts
<1>3. NextKey(a, index) = [p EXCEPT !.err = "none", !.after = 0, !.fails = f]
  BY DEF NextKey
<1>4. "none" \in ErrorKinds /\ 0 \in Nat
  BY DEF ErrorKinds
<1> HIDE DEF p, f
<1> QED BY <1>1, <1>2, <1>3, <1>4 DEF Attempts

LEMMA NoAttemptType == NoAttempt \in Attempts
BY DEF NoAttempt, Attempts, ErrorKinds

\* Stream's error.
LEMMA ErrType ==
  ASSUME TypeOK, NEW r \in Requests, NEW kind \in ErrorKinds, NEW after \in Nat,
         att' = [att EXCEPT ![r].err = kind, ![r].after = after]
  PROVE  att'[r] \in Attempts
<1>1. att'[r] = [att[r] EXCEPT !.err = kind, !.after = after]
  BY DEF TypeOK, Attempts
<1> QED BY <1>1, ZenonT(60) DEF TypeOK, Attempts

LEMMA FailType ==
  ASSUME TypeOK, NEW r \in Requests, NEW kind \in ErrorKinds, NEW after \in Nat,
         Fail(r, kind, after)
  PROVE  att'[r] \in Attempts
BY ErrType DEF Fail

LEMMA KeyIndexType ==
  ASSUME NEW r \in Requests, att[r] \in Attempts, Keyed(r)
  PROVE  /\ KeyIndex(r) \in Nat
         /\ KeyIndex(r) < Len(att[r].keys)
         /\ APIKey(r) \in Keys
<1>1. Len(att[r].keys) \in Nat \ {0} /\ att[r].keys \in Seq(Keys)
  BY DEF Attempts, Keyed
<1>2. att[r].start + att[r].i \in Nat
  BY DEF Attempts
<1>3. KeyIndex(r) \in 0..Len(att[r].keys) - 1
  BY <1>1, <1>2 DEF KeyIndex
<1> QED BY <1>1, <1>3 DEF APIKey


LEMMA InitTypeInv == ASSUME RouterAssumption, Init PROVE TypeInv
<1>1. /\ att \in [Requests -> Attempts]
      /\ job \in [Requests -> Jobs \cup {NoJob}]
      /\ pc \in [Requests -> Stages]
  BY NoAttemptType DEF Init, Stages
<1>2. out \in [Requests -> Outputs]
  BY DEF Init, Outputs, Written, Endings
<1>3. books \in [Requests -> Books]
  BY DEF Init, Books
<1>4. TypeOK
  BY <1>1, <1>2, <1>3 DEF TypeOK, KeyStateTypeOK, Init, NewKeyState, RouterAssumption
<1>5. Placed
  BY DEF Placed, PlacedAt, Init, Chaining, Routing
<1> QED BY <1>4, <1>5 DEF TypeInv

\* What a step of r does to r's own variables keeps their types.
Typed(r) ==
  /\ pc'[r] \in Stages
  /\ job'[r] \in Jobs
  /\ att'[r] \in Attempts
  /\ out'[r] \in Outputs
  /\ books'[r] \in Books
  /\ cancelled'[r] \in BOOLEAN
  /\ nextIdx' \in [Providers -> Nat]
  /\ coolLeft' \in [Keys -> Nat]
  /\ leaks' \in [Keys -> Nat]
  /\ providerKeys' = providerKeys /\ edits' = edits /\ restarts' = restarts

LEMMA TypedSteps ==
  ASSUME RouterAssumption, CooldownAssumption, TypeInv, NEW r \in Requests,
         Begin(r) \/ RouterStep(r) \/ TransportStep(r) \/ NetworkStep(r) \/ Cancel(r)
  PROVE  Typed(r)
<1> USE DEF TypeInv, TypeOK, KeyStateTypeOK, Typed, Move, Stages, keyStateVars, adminVars
<1>job. pc[r] # "idle" => job[r] \in Jobs
  BY DEF Placed, PlacedAt
<1>att. att[r] \in Attempts
  OBVIOUS
<1>out. out[r] \in Outputs
  OBVIOUS
<1>route. pc[r] \in Routing => Route(r) \in Upstreams
  BY <1>job, RouteType DEF Placed, PlacedAt, Routing, Chaining, OnRoute
<1>index. pc[r] \in {"start", "key"} \/ Keyed(r) => KeyIndex(r) \in Nat /\ APIKey(r) \in Keys
  BY <1>att, KeyIndexType DEF Placed, PlacedAt
<1>Begin. CASE Begin(r)
  <2>1. PICK mode \in ClientModes, cfg \in Configs, name \in Asked :
          job' = [job EXCEPT ![r] = [mode |-> mode, cfg |-> cfg, model |-> name,
                                     depth |-> 0, prov |-> 1, fallbacks |-> 0]]
    BY <1>Begin DEF Begin
  <2>2. job'[r] \in Jobs
    BY <2>1 DEF Jobs, RouterAssumption
  <2> QED BY <1>Begin, <2>2 DEF Begin
<1>Reject. CASE Reject(r)
  BY <1>job, <1>Reject DEF Reject, Known
<1>Resolve. CASE Resolve(r)
  <2> DEFINE m == Bare[job[r].model]
  <2>1. job[r] \in Jobs /\ m \in Names /\ 1 \in Nat \ {0}
    BY <1>job, <1>Resolve DEF Resolve, Jobs, RouterAssumption
  <2>2. job'[r] = [job[r] EXCEPT !.model = m, !.prov = 1]
    BY <1>Resolve DEF Resolve
  <2> HIDE DEF m
  <2>3. job'[r] \in Jobs
    BY <2>1, <2>2, ZenonT(60) DEF Jobs
  <2> QED BY <1>Resolve, <2>3 DEF Resolve
<1>SkipProvider. CASE SkipProvider(r)
  <2> DEFINE p == job[r].prov + 1
  <2>1. job[r] \in Jobs /\ p \in Nat \ {0}
    BY <1>job, <1>SkipProvider DEF SkipProvider, Jobs
  <2>2. job'[r] = [job[r] EXCEPT !.prov = p]
    BY <1>SkipProvider DEF SkipProvider
  <2> HIDE DEF p
  <2>3. job'[r] \in Jobs
    BY <2>1, <2>2 DEF Jobs
  <2> QED BY <1>SkipProvider, <2>3 DEF SkipProvider
<1>LoadKeys. CASE LoadKeys(r)
  <2> DEFINE rows == providerKeys[Route(r).provider]
             budget == IF Timed(r) THEN AttemptTimeout(r) ELSE 0
  <2>1. PICK n \in 0..Len(rows) :
          /\ att' = [att EXCEPT ![r] = [NoAttempt EXCEPT !.keys = SubSeq(rows, 1, n),
                                                         !.budget = budget]]
          /\ pc' = [pc EXCEPT ![r] = IF n = 0 THEN "send" ELSE "start"]
    BY <1>LoadKeys DEF LoadKeys
  <2>2. Route(r) \in Upstreams /\ budget \in Int
    BY <1>job, <1>LoadKeys, RouteType, ProviderConfigType DEF LoadKeys, Placed, PlacedAt, Chaining
  <2>3. rows \in Seq(Keys)
    BY <2>2 DEF Upstreams
  <2>4. SubSeq(rows, 1, n) \in Seq(Keys)
    BY <2>3, SubSeqProperties
  <2> HIDE DEF rows, budget
  <2>5. att'[r] = [NoAttempt EXCEPT !.keys = SubSeq(rows, 1, n), !.budget = budget]
    BY <2>1
  <2>6. att'[r] \in Attempts
    BY <2>2, <2>4, <2>5, NoAttemptType DEF Attempts
  <2> QED BY <1>job, <1>LoadKeys, <2>1, <2>6 DEF LoadKeys
<1>Hop. CASE Hop(r)
  <2> DEFINE m == ModelConfig(r).fallback_to
             d == job[r].depth + 1
             f == job[r].fallbacks + 1
  <2>1. job[r] \in Jobs /\ job[r].model \in DOMAIN job[r].cfg.models
    BY <1>job, <1>Hop DEF Hop, Placed, PlacedAt, Chaining
  <2>2. m \in Names
    BY <1>Hop, <2>1 DEF Hop, ModelConfig, ModelConfigs, RouterAssumption, Jobs
  <2>3. d \in Nat /\ f \in Nat
    BY <2>1 DEF Jobs
  <2>4. job'[r] = [job[r] EXCEPT !.model = m, !.depth = d, !.fallbacks = f]
    BY <1>Hop DEF Hop
  <2> HIDE DEF m, d, f
  <2>5. job'[r] \in Jobs
    BY <2>1, <2>2, <2>3, <2>4, ZenonT(60) DEF Jobs
  <2> QED BY <1>Hop, <2>5 DEF Hop
<1>Exhausted. CASE Exhausted(r)
  BY <1>job, <1>Exhausted DEF Exhausted
<1>GiveUp. ASSUME NEW n \in Nat, pc[r] # "idle", GiveUp(r, n) PROVE Typed(r)
  <2> DEFINE p == job[r].prov + 1
             f == job[r].fallbacks + n + 1
  <2>1. job[r] \in Jobs /\ p \in Nat \ {0} /\ f \in Nat
    BY <1>job, <1>GiveUp DEF Jobs
  <2>2. job'[r] = [job[r] EXCEPT !.prov = p, !.fallbacks = f]
    BY <1>GiveUp DEF GiveUp
  <2> HIDE DEF p, f
  <2>3. job'[r] \in Jobs
    BY <2>1, <2>2, ZenonT(60) DEF Jobs
  <2> QED BY <1>GiveUp, <2>3, NoAttemptType DEF GiveUp
<1>ReadStart. CASE ReadStart(r)
  <2> DEFINE s == StartIdx(Route(r).provider, Len(att[r].keys))
  <2>1. Route(r).provider \in Providers
    BY <1>route, <1>ReadStart DEF ReadStart, Routing, Chaining, Upstreams
  <2>2. s \in Nat
    <3>1. Len(att[r].keys) \in Nat /\ nextIdx[Route(r).provider] \in Nat
      BY <1>att, <2>1 DEF Attempts
    <3> QED BY <3>1 DEF StartIdx
  <2>3. att'[r] = [att[r] EXCEPT !.start = s]
    BY <1>ReadStart DEF ReadStart
  <2> HIDE DEF s
  <2>4. att'[r] \in Attempts
    BY <1>att, <2>2, <2>3 DEF Attempts
  <2> QED BY <1>job, <1>ReadStart, <2>4 DEF ReadStart
<1>SkipCooling. CASE SkipCooling(r)
  <2>1. att'[r] = Pass(att[r], KeyIndex(r))
    BY <1>SkipCooling DEF SkipCooling
  <2>2. att'[r] \in Attempts
    BY <1>att, <1>index, <1>SkipCooling, <2>1, PassType DEF SkipCooling
  <2> QED BY <1>job, <1>SkipCooling, <2>2 DEF SkipCooling
<1>PickKey. CASE PickKey(r)
  BY <1>job, <1>PickKey DEF PickKey
<1>KeysExhausted. CASE KeysExhausted(r)
  BY <1>KeysExhausted, <1>GiveUp, <1>att DEF KeysExhausted, Attempts
<1>Refuse. CASE Refuse(r)
  <2>1. att'[r] = [att[r] EXCEPT !.err = "timeout"]
    BY <1>Refuse DEF Refuse
  <2>2. att'[r] \in Attempts
    BY <1>att, <2>1 DEF Attempts, ErrorKinds, Retryable
  <2> QED BY <1>job, <1>Refuse, <2>2 DEF Refuse
<1>SendCancelled. CASE SendCancelled(r)
  <2>1. att'[r] = [att[r] EXCEPT !.err = "fatal"]
    BY <1>SendCancelled DEF SendCancelled
  <2>2. att'[r] \in Attempts
    BY <1>att, <2>1 DEF Attempts, ErrorKinds, Retryable
  <2> QED BY <1>job, <1>SendCancelled, <2>2 DEF SendCancelled
<1>Send. CASE Send(r)
  <2> DEFINE w == att[r].budget
             a == out[r].attempts + 1
  <2>1. w \in Int /\ a \in Nat
    BY <1>att DEF Attempts, Outputs
  <2>2. att'[r] = [att[r] EXCEPT !.wait = w] /\ out'[r] = [out[r] EXCEPT !.attempts = a]
    BY <1>Send DEF Send
  <2> HIDE DEF w, a
  <2>3. att'[r] \in Attempts
    BY <1>att, <2>1, <2>2 DEF Attempts
  <2>4. out'[r] \in Outputs
    BY <1>out, <2>1, <2>2 DEF Outputs
  <2>5. leaks' \in [Keys -> Nat]
    BY <1>Send, <1>index DEF Send
  <2> QED BY <1>job, <1>Send, <2>3, <2>4, <2>5 DEF Send
<1>RateLimited. CASE RateLimited(r)
  <2>1. att'[r] = NextKey(att[r], KeyIndex(r))
    BY <1>RateLimited DEF RateLimited
  <2>2. att'[r] \in Attempts
    BY <1>att, <1>index, <1>RateLimited, <2>1, NextKeyType DEF RateLimited
  <2>3. coolLeft' \in [Keys -> Nat]
    BY <1>att, <1>RateLimited DEF RateLimited, MarkRateLimited, Attempts, CooldownAssumption
  <2> QED BY <1>job, <1>RateLimited, <2>2, <2>3 DEF RateLimited
<1>KeyFailed. CASE KeyFailed(r)
  <2>1. att'[r] = NextKey(att[r], KeyIndex(r))
    BY <1>KeyFailed DEF KeyFailed
  <2>2. att'[r] \in Attempts
    BY <1>att, <1>index, <1>KeyFailed, <2>1, NextKeyType DEF KeyFailed
  <2> QED BY <1>job, <1>KeyFailed, <2>2 DEF KeyFailed
<1>KeylessFailed. CASE KeylessFailed(r)
  BY <1>KeylessFailed, <1>GiveUp DEF KeylessFailed
<1>Abort. CASE Abort(r)
  BY <1>job, <1>Abort DEF Abort
<1>Advance. CASE Advance(r)
  <2> DEFINE f == job[r].fallbacks + att[r].fails
  <2>1. job[r] \in Jobs /\ f \in Nat
    BY <1>job, <1>att, <1>Advance DEF Advance, Jobs, Attempts
  <2>2. job'[r] = [job[r] EXCEPT !.fallbacks = f]
    BY <1>Advance DEF Advance
  <2> HIDE DEF f
  <2>3. job'[r] \in Jobs
    BY <2>1, <2>2 DEF Jobs
  <2>4. nextIdx' \in [Providers -> Nat]
    <3>1. CASE ~Keyed(r)
      BY <1>Advance, <3>1 DEF Advance
    <3>2. CASE Keyed(r)
      <4>1. Len(att[r].keys) \in Nat \ {0}
        BY <1>att, <3>2 DEF Attempts, Keyed
      <4>2. (KeyIndex(r) + 1) % Len(att[r].keys) \in Nat
        BY <1>index, <3>2, <4>1
      <4> HIDE DEF KeyIndex
      <4> QED BY <1>Advance, <3>2, <4>1, <4>2 DEF Advance, AdvanceIdx
    <3> QED BY <3>1, <3>2
  <2> QED BY <1>Advance, <2>3, <2>4 DEF Advance
<1>Reply. CASE Reply(r)
  <2>1. out'[r] = [out[r] EXCEPT !.ending = "complete"]
    BY <1>Reply DEF Reply
  <2>2. out'[r] \in Outputs
    BY <1>out, <2>1 DEF Outputs, Endings
  <2> QED BY <1>job, <1>Reply, <2>2 DEF Reply
<1>ReplyError. CASE ReplyError(r)
  <2>1. PICK s \in BOOLEAN, e \in Endings :
          out'[r] = [out[r] EXCEPT !.started = s, !.ending = e]
    BY <1>ReplyError DEF ReplyError, Outputs, Endings
  <2>2. out'[r] \in Outputs
    BY <1>out, <2>1 DEF Outputs
  <2> QED BY <1>job, <1>ReplyError, <2>2 DEF ReplyError
<1>WriteUsage. CASE WriteUsage(r)
  <2> DEFINE row == [at |-> Route(r), fallbacks |-> job[r].fallbacks]
  <2>1. row \in Rows
    BY <1>job, <1>route, <1>WriteUsage DEF WriteUsage, Routing, Chaining, Jobs, Rows
  <2> DEFINE usage == Append(books[r].usage, row)
  <2>2. books'[r] = books[r] \/ books'[r] = [books[r] EXCEPT !.usage = usage]
    BY <1>WriteUsage DEF WriteUsage
  <2> HIDE DEF row
  <2>3. usage \in Seq(Rows)
    BY <2>1 DEF Books
  <2> HIDE DEF usage
  <2>4. books'[r] \in Books
    BY <2>2, <2>3 DEF Books
  <2> QED BY <1>job, <1>WriteUsage, <2>4 DEF WriteUsage
<1>PublishEvent. CASE PublishEvent(r)
  <2> DEFINE from == IF out[r].ending = "complete" THEN {Route(r)} ELSE {}
             event == [status |-> Status(out[r].ending), from |-> from]
  <2>1. from \in SUBSET Upstreams
    BY <1>job, <1>PublishEvent, RouteType DEF PublishEvent, Placed, PlacedAt, OnRoute
  <2>2. event \in Events
    BY <2>1 DEF Events, Status
  <2> DEFINE events == Append(books[r].events, event)
  <2>3. books'[r] = [books[r] EXCEPT !.events = events]
    BY <1>PublishEvent DEF PublishEvent
  <2> HIDE DEF from, event
  <2>4. events \in Seq(Events)
    BY <2>2 DEF Books
  <2> HIDE DEF events
  <2>5. books'[r] \in Books
    BY <2>3, <2>4 DEF Books
  <2> QED BY <1>job, <1>PublishEvent, <2>5 DEF PublishEvent
<1>Dialed. CASE Dialed(r)
  BY <1>job, <1>Dialed DEF Dialed
<1>Fail. ASSUME NEW kind \in ErrorKinds, NEW after \in Nat, pc[r] # "idle",
             Fail(r, kind, after)
      PROVE  Typed(r)
  <2>1. att'[r] \in Attempts
    BY <1>Fail, FailType
  <2> QED BY <1>job, <1>Fail, <2>1 DEF Fail
<1>TransportError. CASE TransportError(r)
  <2>1. PICK kind \in {"conn", "timeout"} : Fail(r, kind, 0)
    BY <1>TransportError DEF TransportError
  <2> QED BY <2>1, <1>TransportError, <1>Fail DEF TransportError, ErrorKinds, Retryable
<1>HeaderTimeout. CASE HeaderTimeout(r)
  <2>1. PICK kind \in {"fatal", "timeout"} : Fail(r, kind, 0)
    BY <1>HeaderTimeout DEF HeaderTimeout
  <2>2. pc[r] # "idle"
    BY <1>HeaderTimeout DEF HeaderTimeout
  <2> QED BY <2>1, <2>2, <1>Fail DEF ErrorKinds, Retryable
<1>CtxDone. CASE CtxDone(r)
  BY <1>CtxDone, <1>Fail DEF CtxDone, ErrorKinds, Retryable
<1>Answered200. CASE Answered200(r)
  BY <1>job, <1>Answered200 DEF Answered200
<1>AnsweredError. CASE AnsweredError(r)
  <2>1. PICK status \in ErrorStatuses, after \in Nat, stage \in {"body", "err"} :
          /\ pc' = [pc EXCEPT ![r] = stage]
          /\ att' = [att EXCEPT ![r].err = StatusError(status, ProviderConfig(r).convention),
                                ![r].after = after]
    BY <1>AnsweredError, ErrorAnswer
  <2>2. StatusError(status, ProviderConfig(r).convention) \in ErrorKinds
    BY DEF StatusError, ErrorKinds, Retryable, ErrorStatuses
  <2>3. att'[r] \in Attempts
    BY <2>1, <2>2, ErrType, Zenon
  <2>4. pc'[r] \in {"body", "err"}
    BY <2>1
  <2> QED BY <1>job, <2>3, <2>4, <1>AnsweredError DEF AnsweredError
<1>ErrorRead. CASE ErrorRead(r)
  <2>1. PICK kind \in ErrorKinds : Fail(r, kind, 0)
    BY <1>att, <1>ErrorRead DEF ErrorRead, Attempts, ErrorKinds
  <2>2. pc[r] # "idle"
    BY <1>ErrorRead DEF ErrorRead
  <2> QED BY <2>1, <2>2, <1>Fail
<1>StreamPanics. CASE StreamPanics(r)
  <2>1. out'[r] = [out[r] EXCEPT !.ending = "panicked"]
    BY <1>StreamPanics DEF StreamPanics
  <2>2. out'[r] \in Outputs
    BY <1>out, <2>1 DEF Outputs, Endings
  <2> QED BY <1>job, <1>StreamPanics, <2>2 DEF StreamPanics
<1>Emit. CASE Emit(r)
  <2> DEFINE w == out[r].wrote \cup {[attempt |-> out[r].attempts, at |-> Route(r)]}
  <2>1. PICK s \in BOOLEAN : out'[r] = [out[r] EXCEPT !.wrote = w, !.started = s]
    BY <1>Emit DEF Emit, Outputs
  <2>2. w \in Written
    BY <1>route, <1>Emit DEF Emit, Routing, Chaining, Outputs, Written
  <2> HIDE DEF w
  <2>3. out'[r] \in Outputs
    BY <2>1, <2>2, ZenonT(60) DEF Outputs
  <2> QED BY <1>job, <1>Emit, <2>3 DEF Emit
<1>StreamEnds. CASE StreamEnds(r)
  BY <1>job, <1>StreamEnds DEF StreamEnds
<1>StreamBreaks. CASE StreamBreaks(r)
  BY <1>StreamBreaks, <1>Fail DEF StreamBreaks, ErrorKinds, Retryable
<1>Cancel. CASE Cancel(r)
  BY <1>job, <1>Cancel DEF Cancel, InFlight
<1> QED BY <1>Begin, <1>Reject, <1>Resolve, <1>SkipProvider, <1>LoadKeys, <1>Hop, <1>Exhausted, <1>ReadStart, <1>SkipCooling, <1>PickKey, <1>KeysExhausted, <1>Refuse, <1>SendCancelled, <1>Send, <1>RateLimited, <1>KeyFailed, <1>KeylessFailed, <1>Abort, <1>Advance, <1>Reply, <1>ReplyError, <1>WriteUsage, <1>PublishEvent, <1>Dialed, <1>TransportError, <1>HeaderTimeout, <1>CtxDone, <1>Answered200, <1>AnsweredError, <1>Emit, <1>StreamEnds, <1>StreamBreaks, <1>ErrorRead, <1>StreamPanics, <1>Cancel DEF RouterStep, TransportStep, NetworkStep


\* A request whose variables a step leaves alone stays where it was placed.
LEMMA PlacedSame ==
  ASSUME NEW q, PlacedAt(q), pc'[q] = pc[q], job'[q] = job[q], out'[q] = out[q],
         att'[q].keys = att[q].keys, att'[q].i = att[q].i
  PROVE  PlacedAt(q)'
BY DEF PlacedAt, OnRoute, MoreRoutes, Usable, Keyed, MoreKeys, Route, ModelConfig, ProviderConfig

LEMMA SameRoute ==
  ASSUME NEW r, job'[r].cfg = job[r].cfg, job'[r].model = job[r].model,
         job'[r].prov = job[r].prov
  PROVE  OnRoute(r)' = OnRoute(r) /\ Route(r)' = Route(r)
BY DEF OnRoute, MoreRoutes, Usable, Route, ModelConfig, ProviderConfig

LEMMA PlacedSteps ==
  ASSUME RouterAssumption, TypeInv, NEW r \in Requests, Typed(r),
         Begin(r) \/ RouterStep(r) \/ TransportStep(r) \/ NetworkStep(r) \/ Cancel(r)
  PROVE  PlacedAt(r)'
<1> USE DEF TypeInv, TypeOK, Typed, Move, keyStateVars, adminVars
<1>1. PlacedAt(r)
  BY DEF Placed
<1>att. att[r] \in Attempts /\ att'[r] \in Attempts
  OBVIOUS
<1>Begin. CASE Begin(r)
  BY <1>Begin, <1>1, <1>att, SameRoute DEF Begin, PlacedAt, Chaining, Routing, Keyed, MoreKeys
<1>Reject. CASE Reject(r)
  BY <1>Reject, <1>1, <1>att, SameRoute DEF Reject, Known, PlacedAt, Chaining, Routing, Keyed, MoreKeys
<1>Resolve. CASE Resolve(r)
  BY <1>Resolve, <1>1, <1>att, SameRoute DEF Resolve, Known, PlacedAt, Chaining, Routing, Keyed, MoreKeys
<1>SkipProvider. CASE SkipProvider(r)
  BY <1>SkipProvider, <1>1, <1>att, SameRoute DEF SkipProvider, PlacedAt, Chaining, Routing, Keyed, MoreKeys
<1>LoadKeys. CASE LoadKeys(r)
  <2> DEFINE rows == providerKeys[Route(r).provider]
             budget == IF Timed(r) THEN AttemptTimeout(r) ELSE 0
  <2>1. PICK n \in 0..Len(rows) :
          /\ att' = [att EXCEPT ![r] = [NoAttempt EXCEPT !.keys = SubSeq(rows, 1, n),
                                                         !.budget = budget]]
          /\ pc' = [pc EXCEPT ![r] = IF n = 0 THEN "send" ELSE "start"]
    BY <1>LoadKeys DEF LoadKeys
  <2>2. rows \in Seq(Keys)
    <3>1. Route(r) \in Upstreams
      BY <1>1, <1>LoadKeys, RouteType DEF LoadKeys, PlacedAt, Chaining
    <3> QED BY <3>1 DEF Upstreams
  <2>3. n \in Nat /\ Len(SubSeq(rows, 1, n)) = n
    BY <2>2, SubSeqProperties
  <2>4. att'[r].keys = SubSeq(rows, 1, n) /\ att'[r].i = 0
    BY <2>1 DEF NoAttempt
  <2> HIDE DEF rows, budget
  <2>5. (n # 0 <=> Keyed(r)') /\ (Keyed(r)' => MoreKeys(r)')
    <3>1. att'[r].keys \in Seq(Keys) /\ Len(att'[r].keys) = n /\ n \in Nat
      BY <1>att, <2>3, <2>4 DEF Attempts
    <3>2. n # 0 <=> att'[r].keys # <<>>
      BY <3>1, EmptySeq
    <3> QED BY <2>4, <3>1, <3>2 DEF Keyed, MoreKeys
  <2>6. OnRoute(r)'
    BY <1>LoadKeys, SameRoute DEF LoadKeys, OnRoute
  <2> QED BY <1>1, <1>LoadKeys, <2>1, <2>5, <2>6 DEF LoadKeys, PlacedAt, Chaining, Routing
<1>Hop. CASE Hop(r)
  BY <1>Hop, <1>1, <1>att, SameRoute DEF Hop, PlacedAt, Chaining, Routing, Keyed, MoreKeys
<1>Exhausted. CASE Exhausted(r)
  BY <1>Exhausted, <1>1, <1>att, SameRoute DEF Exhausted, PlacedAt, Chaining, Routing, Keyed, MoreKeys
<1>ReadStart. CASE ReadStart(r)
  BY <1>ReadStart, <1>1, <1>att, SameRoute DEF ReadStart, PlacedAt, Chaining, Routing, Keyed, MoreKeys
<1>SkipCooling. CASE SkipCooling(r)
  BY <1>SkipCooling, <1>1, <1>att, SameRoute DEF SkipCooling, Pass, PlacedAt, Chaining, Routing, Keyed, MoreKeys
<1>PickKey. CASE PickKey(r)
  BY <1>PickKey, <1>1, <1>att, SameRoute DEF PickKey, PlacedAt, Chaining, Routing, Keyed, MoreKeys
<1>KeysExhausted. CASE KeysExhausted(r)
  BY <1>KeysExhausted, <1>1, <1>att, SameRoute DEF KeysExhausted, GiveUp, PlacedAt, Chaining, Routing, Keyed, MoreKeys
<1>Refuse. CASE Refuse(r)
  BY <1>Refuse, <1>1, <1>att, SameRoute DEF Refuse, PlacedAt, Chaining, Routing, Keyed, MoreKeys
<1>SendCancelled. CASE SendCancelled(r)
  BY <1>SendCancelled, <1>1, <1>att, SameRoute DEF SendCancelled, PlacedAt, Chaining, Routing, Keyed, MoreKeys
<1>Send. CASE Send(r)
  BY <1>Send, <1>1, <1>att, SameRoute DEF Send, PlacedAt, Chaining, Routing, Keyed, MoreKeys
<1>RateLimited. CASE RateLimited(r)
  BY <1>RateLimited, <1>1, <1>att, SameRoute DEF RateLimited, NextKey, Pass, PlacedAt, Chaining, Routing, Keyed, MoreKeys
<1>KeyFailed. CASE KeyFailed(r)
  BY <1>KeyFailed, <1>1, <1>att, SameRoute DEF KeyFailed, NextKey, Pass, PlacedAt, Chaining, Routing, Keyed, MoreKeys
<1>KeylessFailed. CASE KeylessFailed(r)
  BY <1>KeylessFailed, <1>1, <1>att, SameRoute DEF KeylessFailed, GiveUp, PlacedAt, Chaining, Routing, Keyed, MoreKeys
<1>Abort. CASE Abort(r)
  BY <1>Abort, <1>1, <1>att, SameRoute DEF Abort, PlacedAt, Chaining, Routing, Keyed, MoreKeys
<1>Advance. CASE Advance(r)
  <2>1. job[r] \in Jobs /\ pc[r] = "won" /\ pc'[r] = "reply"
    BY <1>1, <1>Advance DEF Advance, PlacedAt
  <2>2. /\ job'[r].cfg = job[r].cfg
        /\ job'[r].model = job[r].model
        /\ job'[r].prov = job[r].prov
    BY <1>Advance, <2>1 DEF Advance, Jobs
  <2>3. OnRoute(r)' /\ job'[r].model \in DOMAIN job'[r].cfg.models
    BY <1>1, <2>1, <2>2, SameRoute DEF PlacedAt, Chaining, Routing
  <2>4. out'[r].ending = "none"
    BY <1>1, <1>Advance, <2>1 DEF Advance, PlacedAt
  <2> QED BY <2>1, <2>3, <2>4 DEF PlacedAt
<1>Reply. CASE Reply(r)
  BY <1>Reply, <1>1, <1>att, SameRoute DEF Reply, PlacedAt, Chaining, Routing, Keyed, MoreKeys
<1>ReplyError. CASE ReplyError(r)
  BY <1>ReplyError, <1>1, <1>att, SameRoute DEF ReplyError, PlacedAt, Chaining, Routing, Keyed, MoreKeys
<1>WriteUsage. CASE WriteUsage(r)
  BY <1>WriteUsage, <1>1, <1>att, SameRoute DEF WriteUsage, PlacedAt, Chaining, Routing, Keyed, MoreKeys
<1>PublishEvent. CASE PublishEvent(r)
  BY <1>PublishEvent, <1>1, <1>att, SameRoute DEF PublishEvent, PlacedAt, Chaining, Routing, Keyed, MoreKeys
<1>Dialed. CASE Dialed(r)
  BY <1>Dialed, <1>1, <1>att, SameRoute DEF Dialed, PlacedAt, Chaining, Routing, Keyed, MoreKeys
<1>TransportError. CASE TransportError(r)
  BY <1>TransportError, <1>1, <1>att, SameRoute DEF TransportError, Fail, PlacedAt, Chaining, Routing, Keyed, MoreKeys
<1>HeaderTimeout. CASE HeaderTimeout(r)
  BY <1>HeaderTimeout, <1>1, <1>att, SameRoute DEF HeaderTimeout, Fail, PlacedAt, Chaining, Routing, Keyed, MoreKeys
<1>CtxDone. CASE CtxDone(r)
  BY <1>CtxDone, <1>1, <1>att, SameRoute DEF CtxDone, Fail, PlacedAt, Chaining, Routing, Keyed, MoreKeys
<1>Answered200. CASE Answered200(r)
  BY <1>Answered200, <1>1, <1>att, SameRoute DEF Answered200, PlacedAt, Chaining, Routing, Keyed, MoreKeys
<1>AnsweredError. CASE AnsweredError(r)
  BY <1>AnsweredError, <1>1, <1>att, SameRoute DEF AnsweredError, PlacedAt, Chaining, Routing, Keyed, MoreKeys
<1>ErrorRead. CASE ErrorRead(r)
  BY <1>ErrorRead, <1>1, <1>att, SameRoute DEF ErrorRead, Fail, PlacedAt, Chaining, Routing, Keyed, MoreKeys
<1>StreamPanics. CASE StreamPanics(r)
  BY <1>StreamPanics, <1>1, <1>att, SameRoute DEF StreamPanics, PlacedAt, Chaining, Routing, Keyed, MoreKeys
<1>Emit. CASE Emit(r)
  BY <1>Emit, <1>1, <1>att, SameRoute DEF Emit, PlacedAt, Chaining, Routing, Keyed, MoreKeys
<1>StreamEnds. CASE StreamEnds(r)
  BY <1>StreamEnds, <1>1, <1>att, SameRoute DEF StreamEnds, PlacedAt, Chaining, Routing, Keyed, MoreKeys
<1>StreamBreaks. CASE StreamBreaks(r)
  BY <1>StreamBreaks, <1>1, <1>att, SameRoute DEF StreamBreaks, Fail, PlacedAt, Chaining, Routing, Keyed, MoreKeys
<1>Cancel. CASE Cancel(r)
  BY <1>Cancel, <1>1, <1>att, SameRoute DEF Cancel, PlacedAt, Chaining, Routing, Keyed, MoreKeys
<1> QED BY <1>Begin, <1>Reject, <1>Resolve, <1>SkipProvider, <1>LoadKeys, <1>Hop, <1>Exhausted, <1>ReadStart, <1>SkipCooling, <1>PickKey, <1>KeysExhausted, <1>Refuse, <1>SendCancelled, <1>Send, <1>RateLimited, <1>KeyFailed, <1>KeylessFailed, <1>Abort, <1>Advance, <1>Reply, <1>ReplyError, <1>WriteUsage, <1>PublishEvent, <1>Dialed, <1>TransportError, <1>HeaderTimeout, <1>CtxDone, <1>Answered200, <1>AnsweredError, <1>Emit, <1>StreamEnds, <1>StreamBreaks, <1>ErrorRead, <1>StreamPanics, <1>Cancel DEF RouterStep, TransportStep, NetworkStep


\* The steps that are not of one request.
LEMMA TypeInvWorld ==
  ASSUME TypeInv,
         \/ \E p \in Providers, k \in Keys : AddProviderKey(p, k)
         \/ \E p \in Providers : \E i \in 1..Len(providerKeys[p]) : DeleteProviderKey(p, i)
  PROVE  TypeInv'
<1> USE DEF TypeInv, TypeOK, KeyStateTypeOK, routerVars, keyStateVars
<1>1. ASSUME NEW p \in Providers, NEW k \in Keys, AddProviderKey(p, k) PROVE TypeInv'
  <2> DEFINE rows == Append(providerKeys[p], k)
  <2>1. rows \in Seq(Keys)
    BY AppendProperties
  <2>2. providerKeys' = [providerKeys EXCEPT ![p] = rows] /\ edits' = edits + 1
    BY <1>1 DEF AddProviderKey
  <2>3. UNCHANGED <<routerVars, keyStateVars, restarts>>
    BY <1>1 DEF AddProviderKey
  <2> HIDE DEF rows
  <2>4. TypeOK'
    BY <2>1, <2>2, <2>3
  <2>5. Placed'
    BY <2>3, PlacedSame DEF Placed
  <2> QED BY <2>4, <2>5
<1>2. ASSUME NEW p \in Providers, NEW i \in 1..Len(providerKeys[p]), DeleteProviderKey(p, i)
      PROVE  TypeInv'
  <2> DEFINE rows == providerKeys[p]
             left == SubSeq(rows, 1, i - 1)
             right == SubSeq(rows, i + 1, Len(rows))
  <2>1. rows \in Seq(Keys) /\ Len(rows) \in Nat
    OBVIOUS
  <2>2. left \in Seq(Keys)
    BY <2>1, SubSeqProperties
  <2>3. right \in Seq(Keys)
    BY <2>1, SubSeqProperties
  <2>4. left \o right \in Seq(Keys)
    BY <2>2, <2>3, ConcatProperties
  <2>5. providerKeys' = [providerKeys EXCEPT ![p] = left \o right]
    BY <1>2 DEF DeleteProviderKey
  <2> HIDE DEF left, right
  <2>6. TypeOK'
    BY <1>2, <2>4, <2>5 DEF DeleteProviderKey
  <2>7. Placed'
    BY <1>2, PlacedSame DEF Placed, DeleteProviderKey
  <2> QED BY <2>6, <2>7
<1> QED BY <1>1, <1>2

\* Time changes of an attempt only what is left of its budget and its wait.
LEMMA TickEffect ==
  ASSUME TypeOK, Tick, NEW q \in Requests
  PROVE  /\ att'[q] \in Attempts
         /\ att'[q].keys = att[q].keys
         /\ att'[q].i = att[q].i
         /\ att'[q].err = att[q].err
<1>1. att[q] \in Attempts
  BY DEF TypeOK
<1> DEFINE b == IF att[q].budget >= 0 THEN att[q].budget - 1 ELSE att[q].budget
           w == IF pc[q] = "wait" THEN att[q].wait - 1 ELSE att[q].wait
<1>2. att'[q] = att[q] \/ att'[q] = [att[q] EXCEPT !.budget = b, !.wait = w]
  BY DEF Tick
<1>3. b \in Int /\ w \in Int
  BY <1>1 DEF Attempts
<1> HIDE DEF b, w
<1> QED BY <1>1, <1>2, <1>3 DEF Attempts

LEMMA TypeInvTick == ASSUME TypeInv, Tick PROVE TypeInv'
<1> USE DEF TypeInv, TypeOK, KeyStateTypeOK, adminVars
<1>1. att' \in [Requests -> Attempts]
  <2>1. att' = [r \in Requests |-> att'[r]]
    BY DEF Tick
  <2> QED BY <2>1, TickEffect
<1>2. coolLeft' \in [Keys -> Nat]
  <2>1. ASSUME NEW k \in Keys PROVE (IF coolLeft[k] > 0 THEN coolLeft[k] - 1 ELSE 0) \in Nat
    OBVIOUS
  <2> QED BY <2>1 DEF Tick, CoolDown
<1>3. leaks' \in [Keys -> Nat]
  BY DEF Tick
<1>4. Placed'
  BY TickEffect, PlacedSame DEF Placed, Tick
<1> QED BY <1>1, <1>2, <1>3, <1>4 DEF Tick

LEMMA TypeInvRestart == ASSUME TypeInv, Restart PROVE TypeInv'
<1> USE DEF TypeInv, TypeOK, KeyStateTypeOK
<1>1. TypeOK'
  BY DEF Restart, ForgetKeyState, Stages
<1>2. ASSUME NEW q \in Requests PROVE PlacedAt(q)'
  <2>1. PlacedAt(q)
    BY DEF Placed
  <2>2. CASE pc'[q] = pc[q]
    BY <2>1, <2>2, PlacedSame DEF Restart
  <2>3. CASE pc'[q] # pc[q]
    BY <2>1, <2>3 DEF Restart, InFlight, PlacedAt, Chaining, Routing
  <2> QED BY <2>2, <2>3
<1> QED BY <1>1, <1>2 DEF Placed

LEMMA TypeInvStep ==
  ASSUME RouterAssumption, CooldownAssumption, TypeInv, [Next]_vars
  PROVE  TypeInv'
<1>1. ASSUME NEW r \in Requests,
             Begin(r) \/ RouterStep(r) \/ TransportStep(r) \/ NetworkStep(r) \/ Cancel(r)
      PROVE  TypeInv'
  <2>1. Local(r)
    BY <1>1, LocalSteps DEF TypeInv
  <2>2. Typed(r)
    BY <1>1, TypedSteps
  <2>3. TypeOK'
    BY <2>1, <2>2 DEF TypeInv, TypeOK, KeyStateTypeOK, Local, Typed
  <2>4. PlacedAt(r)'
    BY <1>1, <2>2, PlacedSteps
  <2>5. ASSUME NEW q \in Requests, q # r PROVE PlacedAt(q)'
    BY <2>1, <2>5, PlacedSame DEF TypeInv, TypeOK, Placed, Local
  <2> QED BY <2>3, <2>4, <2>5 DEF TypeInv, Placed
<1>2. CASE UNCHANGED vars
  BY <1>2, PlacedSame DEF vars, routerVars, keyStateVars, adminVars, TypeInv, TypeOK,
                          KeyStateTypeOK, Placed
<1> QED BY <1>1, <1>2, TypeInvWorld, TypeInvTick, TypeInvRestart DEF Next

(***************************************************************************)
(* The types, and where a request can stand: the route in use exists and   *)
(* is usable, and the key at the cursor is in the snapshot, so that no     *)
(* handler indexes beyond a list however the tables are edited meanwhile.  *)
(***************************************************************************)
THEOREM TypeCorrect == Spec => []TypeOK
<1>1. Init => TypeInv
  BY InitTypeInv, RouterAssumption
<1>2. TypeInv /\ [Next]_vars => TypeInv'
  BY TypeInvStep, RouterAssumption, CooldownAssumption
<1>3. TypeInv => TypeOK
  BY DEF TypeInv
<1> QED BY <1>1, <1>2, <1>3, PTL DEF Spec

-------------------------------------------------------------------------------
\* Why no upstream is tried after one has written: until a 200 was answered
\* there is no output, and only the error of a body that was being copied, which
\* is not retryable, can follow output.
OutputAt(r) ==
  /\ FromLastAttempt(r)
  /\ EndingFits(r)
  /\ pc[r] \in {"idle", "model", "chain", "start", "key", "send", "dial", "wait", "body"} =>
       out[r].wrote = {}
  /\ pc[r] \in {"err", "failed"} /\ att[r].err # "broken" => out[r].wrote = {}
  /\ out[r].ending = "none" =>
       /\ out[r].started => out[r].wrote # {}
       /\ job[r].mode = "sse" /\ out[r].wrote # {} => out[r].started

OutputInv == \A r \in Requests : OutputAt(r)

LEMMA OutputSame ==
  ASSUME NEW q, OutputAt(q), pc'[q] = pc[q], job'[q] = job[q], out'[q] = out[q],
         att'[q].err = att[q].err
  PROVE  OutputAt(q)'
BY DEF OutputAt, FromLastAttempt, EndingFits, Route, ModelConfig

\* Without output so far the steps up to the response headers add none.
LEMMA OutputQuiet ==
  ASSUME NEW r, OutputAt(r), out[r].wrote = {}, out[r].ending = "none",
         out'[r].wrote = {}, out'[r].ending = "none", out'[r].started = out[r].started
  PROVE  OutputAt(r)'
BY DEF OutputAt, FromLastAttempt, EndingFits

LEMMA OutputSteps ==
  ASSUME RouterAssumption, TypeInv, NEW r \in Requests, OutputAt(r), Typed(r),
         Begin(r) \/ RouterStep(r) \/ TransportStep(r) \/ NetworkStep(r) \/ Cancel(r)
  PROVE  OutputAt(r)'
<1> USE DEF TypeInv, TypeOK, Typed, Move, keyStateVars, adminVars
<1>1. PlacedAt(r)
  BY DEF Placed
<1>2. ASSUME out'[r] = out[r], out[r].wrote = {}, out[r].ending = "none" PROVE OutputAt(r)'
  BY <1>2, OutputQuiet
<1>Begin. CASE Begin(r)
  BY <1>Begin, <1>1, <1>2 DEF Begin, OutputAt, PlacedAt, Retryable
<1>Reject. CASE Reject(r)
  BY <1>Reject, <1>1, <1>2 DEF Reject, Known, OutputAt, PlacedAt, Retryable
<1>Resolve. CASE Resolve(r)
  BY <1>Resolve, <1>1, <1>2 DEF Resolve, Known, OutputAt, PlacedAt, Retryable
<1>SkipProvider. CASE SkipProvider(r)
  BY <1>SkipProvider, <1>1, <1>2 DEF SkipProvider, OutputAt, PlacedAt, Retryable
<1>LoadKeys. CASE LoadKeys(r)
  BY <1>LoadKeys, <1>1, <1>2 DEF LoadKeys, OutputAt, PlacedAt, Retryable
<1>Hop. CASE Hop(r)
  BY <1>Hop, <1>1, <1>2 DEF Hop, OutputAt, PlacedAt, Retryable
<1>Exhausted. CASE Exhausted(r)
  BY <1>Exhausted, <1>1, <1>2 DEF Exhausted, OutputAt, PlacedAt, Retryable
<1>ReadStart. CASE ReadStart(r)
  BY <1>ReadStart, <1>1, <1>2 DEF ReadStart, OutputAt, PlacedAt, Retryable
<1>SkipCooling. CASE SkipCooling(r)
  BY <1>SkipCooling, <1>1, <1>2 DEF SkipCooling, Pass, OutputAt, PlacedAt, Retryable
<1>PickKey. CASE PickKey(r)
  BY <1>PickKey, <1>1, <1>2 DEF PickKey, OutputAt, PlacedAt, Retryable
<1>KeysExhausted. CASE KeysExhausted(r)
  BY <1>KeysExhausted, <1>1, <1>2 DEF KeysExhausted, GiveUp, OutputAt, PlacedAt, Retryable
<1>Refuse. CASE Refuse(r)
  BY <1>Refuse, <1>1, <1>2 DEF Refuse, OutputAt, PlacedAt, Retryable
<1>SendCancelled. CASE SendCancelled(r)
  BY <1>SendCancelled, <1>1, <1>2 DEF SendCancelled, OutputAt, PlacedAt, Retryable
<1>RateLimited. CASE RateLimited(r)
  BY <1>RateLimited, <1>1, <1>2 DEF RateLimited, NextKey, Pass, OutputAt, PlacedAt, Retryable
<1>KeyFailed. CASE KeyFailed(r)
  BY <1>KeyFailed, <1>1, <1>2 DEF KeyFailed, NextKey, Pass, OutputAt, PlacedAt, Retryable
<1>KeylessFailed. CASE KeylessFailed(r)
  BY <1>KeylessFailed, <1>1, <1>2 DEF KeylessFailed, GiveUp, OutputAt, PlacedAt, Retryable
<1>Dialed. CASE Dialed(r)
  BY <1>Dialed, <1>1, <1>2 DEF Dialed, OutputAt, PlacedAt, Retryable
<1>TransportError. CASE TransportError(r)
  BY <1>TransportError, <1>1, <1>2 DEF TransportError, Fail, OutputAt, PlacedAt, Retryable
<1>HeaderTimeout. CASE HeaderTimeout(r)
  BY <1>HeaderTimeout, <1>1, <1>2 DEF HeaderTimeout, Fail, OutputAt, PlacedAt, Retryable
<1>Answered200. CASE Answered200(r)
  BY <1>Answered200, <1>1, <1>2 DEF Answered200, OutputAt, PlacedAt, Retryable
<1>Send. CASE Send(r)
  <2>1. out[r].wrote = {} /\ out[r].ending = "none"
    BY <1>Send, <1>1 DEF Send, OutputAt, PlacedAt
  <2>2. out'[r] = [out[r] EXCEPT !.attempts = @ + 1]
    BY <1>Send DEF Send
  <2> QED BY <2>1, <2>2, OutputQuiet DEF Outputs
<1>CtxDone. CASE CtxDone(r)
  <2>1. CASE pc[r] \in {"dial", "wait"}
    BY <1>CtxDone, <2>1, <1>1, <1>2 DEF CtxDone, Fail, OutputAt, PlacedAt
  <2>2. CASE pc[r] = "stream"
    BY <1>CtxDone, <2>2 DEF CtxDone, Fail, OutputAt, FromLastAttempt, EndingFits, Route,
                            ModelConfig
  <2> QED BY <1>CtxDone, <2>1, <2>2 DEF CtxDone
<1>AnsweredError. CASE AnsweredError(r)
  BY <1>AnsweredError, <1>1, <1>2 DEF AnsweredError, OutputAt, PlacedAt
<1>ErrorRead. CASE ErrorRead(r)
  <2>1. PICK kind : Fail(r, kind, 0)
    BY <1>ErrorRead DEF ErrorRead
  <2> QED BY <1>ErrorRead, <2>1, <1>1, <1>2 DEF ErrorRead, Fail, OutputAt, PlacedAt
<1>StreamPanics. CASE StreamPanics(r)
  <2>1. /\ out'[r].attempts = out[r].attempts
        /\ out'[r].wrote = out[r].wrote
        /\ out'[r].started = out[r].started
        /\ out'[r].ending = "panicked"
    BY <1>StreamPanics DEF StreamPanics, Outputs
  <2>2. /\ job'[r] = job[r] /\ pc[r] = "stream" /\ pc'[r] = "done" /\ out[r].ending = "none"
        /\ out[r].wrote # {}
    BY <1>StreamPanics, <1>1 DEF StreamPanics, PlacedAt
  <2> QED BY <2>1, <2>2 DEF OutputAt, FromLastAttempt, EndingFits, Route, ModelConfig
<1>Abort. CASE Abort(r)
  BY <1>Abort DEF Abort, OutputAt, FromLastAttempt, EndingFits, Route, ModelConfig
<1>Advance. CASE Advance(r)
  <2>1. job[r] \in Jobs /\ pc[r] = "won" /\ pc'[r] = "reply" /\ out'[r] = out[r]
    BY <1>1, <1>Advance DEF Advance, PlacedAt
  <2>2. job'[r].cfg = job[r].cfg /\ job'[r].model = job[r].model /\ job'[r].mode = job[r].mode
    BY <1>Advance, <2>1 DEF Advance, Jobs
  <2>3. job'[r].prov = job[r].prov
    BY <1>Advance, <2>1 DEF Advance, Jobs
  <2>4. Route(r)' = Route(r)
    BY <2>2, <2>3, SameRoute
  <2> QED BY <2>1, <2>2, <2>4 DEF OutputAt, FromLastAttempt, EndingFits
<1>Reply. CASE Reply(r)
  <2>1. /\ out'[r].attempts = out[r].attempts
        /\ out'[r].wrote = out[r].wrote
        /\ out'[r].started = out[r].started
        /\ out'[r].ending = "complete"
    BY <1>Reply DEF Reply, Outputs
  <2>2. job'[r] = job[r] /\ pc[r] = "reply" /\ pc'[r] = "usage" /\ out[r].ending = "none"
    BY <1>Reply, <1>1 DEF Reply, PlacedAt
  <2> QED BY <2>1, <2>2 DEF OutputAt, FromLastAttempt, EndingFits, Route, ModelConfig
<1>ReplyError. CASE ReplyError(r)
  <2> DEFINE compact == att[r].err = "context" /\ job[r].mode # "openai"
  <2>1. /\ out'[r].attempts = out[r].attempts
        /\ out'[r].wrote = out[r].wrote
        /\ out'[r].started = (out[r].started \/ (compact /\ job[r].mode = "sse"))
        /\ out'[r].ending = IF compact THEN "compact"
                            ELSE IF out[r].started THEN "broken" ELSE "unavailable"
    BY <1>ReplyError DEF ReplyError, Outputs
  <2>2. job'[r] = job[r] /\ pc[r] = "failed" /\ pc'[r] = "event" /\ out[r].ending = "none"
    BY <1>ReplyError, <1>1 DEF ReplyError, PlacedAt
  <2>3. compact => out[r].wrote = {}
    BY <2>2 DEF OutputAt
  <2>4. Route(r)' = Route(r)
    BY <2>2, SameRoute
  <2>5. FromLastAttempt(r)'
    BY <2>1, <2>4 DEF OutputAt, FromLastAttempt
  <2> HIDE DEF compact
  <2>6. EndingFits(r)'
    BY <2>1, <2>2, <2>3, ZenonT(60) DEF OutputAt, EndingFits
  <2>7. out'[r].ending # "none"
    BY <2>1
  <2> QED BY <2>2, <2>5, <2>6, <2>7 DEF OutputAt
<1>WriteUsage. CASE WriteUsage(r)
  BY <1>WriteUsage DEF WriteUsage, OutputAt, FromLastAttempt, EndingFits, Route, ModelConfig
<1>PublishEvent. CASE PublishEvent(r)
  BY <1>PublishEvent DEF PublishEvent, OutputAt, FromLastAttempt, EndingFits, Route, ModelConfig
<1>Emit. CASE Emit(r)
  <2> DEFINE w == [attempt |-> out[r].attempts, at |-> Route(r)]
  <2>1. PICK s \in BOOLEAN :
          /\ out'[r] = [out[r] EXCEPT !.wrote = out[r].wrote \cup {w}, !.started = out[r].started \/ s]
          /\ job[r].mode = "sse" => s
    BY <1>Emit DEF Emit
  <2>2. /\ out'[r].attempts = out[r].attempts
        /\ out'[r].wrote = out[r].wrote \cup {w}
        /\ out'[r].ending = out[r].ending
        /\ out'[r].started = (out[r].started \/ s)
    BY <2>1 DEF Outputs
  <2>3. job'[r] = job[r] /\ pc[r] = "stream" /\ pc'[r] = "stream" /\ out[r].ending = "none"
    BY <1>Emit, <1>1 DEF Emit, PlacedAt
  <2>4. Route(r)' = Route(r)
    BY <2>3, SameRoute
  <2>5. FromLastAttempt(r)'
    BY <2>2, <2>4 DEF OutputAt, FromLastAttempt
  <2>6. out'[r].wrote # {}
    BY <2>2
  <2> QED BY <2>1, <2>2, <2>3, <2>5, <2>6 DEF OutputAt, EndingFits
<1>StreamEnds. CASE StreamEnds(r)
  BY <1>StreamEnds DEF StreamEnds, OutputAt, FromLastAttempt, EndingFits, Route, ModelConfig
<1>StreamBreaks. CASE StreamBreaks(r)
  BY <1>StreamBreaks DEF StreamBreaks, Fail, OutputAt, FromLastAttempt, EndingFits, Route, ModelConfig
<1>Cancel. CASE Cancel(r)
  BY <1>Cancel, OutputSame DEF Cancel
<1> QED BY <1>Begin, <1>Reject, <1>Resolve, <1>SkipProvider, <1>LoadKeys, <1>Hop, <1>Exhausted, <1>ReadStart, <1>SkipCooling, <1>PickKey, <1>KeysExhausted, <1>Refuse, <1>SendCancelled, <1>RateLimited, <1>KeyFailed, <1>KeylessFailed, <1>Dialed, <1>TransportError, <1>HeaderTimeout, <1>Answered200, <1>Send, <1>CtxDone, <1>AnsweredError, <1>Abort, <1>Advance, <1>Reply, <1>ReplyError, <1>WriteUsage, <1>PublishEvent, <1>Emit, <1>StreamEnds, <1>StreamBreaks, <1>ErrorRead, <1>StreamPanics, <1>Cancel DEF RouterStep, TransportStep, NetworkStep

LEMMA OutputStep ==
  ASSUME RouterAssumption, CooldownAssumption, TypeInv, OutputInv, [Next]_vars
  PROVE  OutputInv'
<1> USE DEF OutputInv
<1>1. ASSUME NEW r \in Requests,
             Begin(r) \/ RouterStep(r) \/ TransportStep(r) \/ NetworkStep(r) \/ Cancel(r)
      PROVE  OutputInv'
  <2>1. Local(r) /\ Typed(r)
    BY <1>1, LocalSteps, TypedSteps DEF TypeInv
  <2>2. OutputAt(r)'
    BY <1>1, <2>1, OutputSteps
  <2>3. ASSUME NEW q \in Requests, q # r PROVE OutputAt(q)'
    BY <2>1, <2>3, OutputSame DEF TypeInv, TypeOK, Local
  <2> QED BY <2>2, <2>3
<1>2. ASSUME NEW p \in Providers, NEW k \in Keys, AddProviderKey(p, k) PROVE OutputInv'
  BY <1>2, OutputSame DEF AddProviderKey, routerVars
<1>3. ASSUME NEW p \in Providers, NEW i \in 1..Len(providerKeys[p]), DeleteProviderKey(p, i)
      PROVE  OutputInv'
  BY <1>3, OutputSame DEF DeleteProviderKey, routerVars
<1>4. CASE Tick
  BY <1>4, TickEffect, OutputSame DEF Tick, TypeInv
<1>5. CASE Restart
  <2>1. ASSUME NEW q \in Requests PROVE OutputAt(q)'
    <3>1. OutputAt(q) /\ pc'[q] \in {pc[q], "lost"}
      BY <1>5 DEF Restart, TypeInv, TypeOK
    <3>2. job'[q] = job[q] /\ out'[q] = out[q] /\ att'[q] = att[q] /\ Route(q)' = Route(q)
      BY <1>5, SameRoute DEF Restart
    <3> QED BY <3>1, <3>2 DEF OutputAt, FromLastAttempt, EndingFits
  <2> QED BY <2>1
<1>6. CASE UNCHANGED vars
  BY <1>6, OutputSame DEF vars, routerVars
<1> QED BY <1>1, <1>2, <1>3, <1>4, <1>5, <1>6 DEF Next

LEMMA OutputCorrect == Spec => [](TypeInv /\ OutputInv)
<1>1. Init => TypeInv
  BY InitTypeInv, RouterAssumption
<1>2. Init => OutputInv
  BY DEF Init, OutputInv, OutputAt, FromLastAttempt, EndingFits
<1>3. TypeInv /\ OutputInv /\ [Next]_vars => (TypeInv /\ OutputInv)'
  BY TypeInvStep, OutputStep, RouterAssumption, CooldownAssumption
<1> QED BY <1>1, <1>2, <1>3, PTL DEF Spec

(***************************************************************************)
(* However many keys, providers and fallback models there are, and         *)
(* whatever upstreams, time and other requests do, the output of a request *)
(* comes from its last HTTP request only.                                  *)
(***************************************************************************)
THEOREM SingleSourceHolds == Spec => []SingleSource
<1>1. OutputInv => SingleSource
  BY DEF OutputInv, OutputAt, SingleSource
<1> QED BY <1>1, OutputCorrect, PTL

(***************************************************************************)
(* A 503 is only ever sent where nothing was, the auto-compact message     *)
(* only where no upstream wrote, an error event only on a begun stream.    *)
(***************************************************************************)
THEOREM EndingFitsOutputHolds == Spec => []EndingFitsOutput
<1>1. OutputInv => EndingFitsOutput
  BY DEF OutputInv, OutputAt, EndingFitsOutput
<1> QED BY <1>1, OutputCorrect, PTL

-------------------------------------------------------------------------------
(* One provider attempt: which keys its loop comes by, how long it waits, and  *)
(* how many requests use a key that cools.                                     *)

\* Arithmetic of the cursor: going once around L places from s is to come by
\* each of them.
LEMMA Around ==
  ASSUME NEW L \in Nat \ {0}, NEW s \in Nat, NEW k \in 0..L - 1
  PROVE  \E j \in 0..L - 1 : (s + j) % L = k
<1> DEFINE q == s \div L
           m == s % L
<1>1. q \in Int /\ m \in 0..L - 1
  OBVIOUS
<1>2. s = L * q + m
  OBVIOUS
<1>3. ASSUME NEW d \in Int PROVE (L * d + k) % L = k
  OBVIOUS
<1> HIDE DEF q, m
<1>4. CASE k >= m
  <2>1. k - m \in 0..L - 1 /\ s + (k - m) = L * q + k
    BY <1>1, <1>2, <1>4
  <2> QED BY <1>1, <1>3, <2>1
<1>5. CASE k < m
  <2>1. k - m + L \in 0..L - 1 /\ s + (k - m + L) = L * (q + 1) + k
    BY <1>1, <1>2, <1>5
  <2> QED BY <1>1, <1>3, <2>1, SMTT(30)
<1> QED BY <1>1, <1>4, <1>5

\* The first i places from s.
PlacesFrom(s, i, L) == {(s + j) % L : j \in 0..i - 1}

LEMMA PlacesAll ==
  ASSUME NEW L \in Nat \ {0}, NEW s \in Nat
  PROVE  PlacesFrom(s, L, L) = 0..L - 1
<1>1. ASSUME NEW j \in 0..L - 1 PROVE (s + j) % L \in 0..L - 1
  <2>1. s + j \in Nat
    OBVIOUS
  <2> QED BY <2>1
<1>2. PlacesFrom(s, L, L) \subseteq 0..L - 1
  BY <1>1 DEF PlacesFrom
<1>3. ASSUME NEW k \in 0..L - 1 PROVE k \in PlacesFrom(s, L, L)
  <2>1. PICK j \in 0..L - 1 : (s + j) % L = k
    BY Around
  <2> QED BY <2>1, Zenon DEF PlacesFrom
<1> QED BY <1>2, <1>3

LEMMA PlacesNext ==
  ASSUME NEW L \in Nat, NEW s \in Nat, NEW i \in Nat
  PROVE  PlacesFrom(s, i + 1, L) = PlacesFrom(s, i, L) \cup {(s + i) % L}
<1>1. 0..(i + 1) - 1 = (0..i - 1) \cup {i}
  OBVIOUS
<1> QED BY <1>1 DEF PlacesFrom

LEMMA PlacesNone == ASSUME NEW L, NEW s PROVE PlacesFrom(s, 0, L) = {}
BY DEF PlacesFrom

-------------------------------------------------------------------------------
\* What an attempt of keys a.keys has come by.
SeenFits(a) ==
  /\ a.i <= Len(a.keys)
  /\ a.seen = PlacesFrom(a.start, a.i, Len(a.keys))

\* What is left of the budget of a timed attempt is what is left of the wait.
BudgetFits(r) ==
  /\ pc[r] = "dial" => att[r].wait = att[r].budget /\ att[r].wait > 0
  /\ pc[r] = "wait" => att[r].wait = att[r].budget /\ att[r].wait >= 0

AttemptAt(r) ==
  /\ pc[r] = "start" => att[r].i = 0 /\ att[r].seen = {}
  /\ pc[r] \in {"key", "send", "dial", "wait", "body", "stream", "err"} /\ Keyed(r) =>
       SeenFits(att[r])
  /\ ~SlowDial /\ Timed(r) => BudgetFits(r)

AttemptInv == \A r \in Requests : AttemptAt(r)

LEMMA AttemptSame ==
  ASSUME NEW q, AttemptAt(q), pc'[q] \in {pc[q], "lost"}, job'[q] = job[q], att'[q] = att[q]
  PROVE  AttemptAt(q)'
BY DEF AttemptAt, BudgetFits, Keyed, Timed, ProviderConfig, Route, ModelConfig

\* Where no attempt is under way there is nothing to keep.
LEMMA NoAttemptAt ==
  ASSUME NEW r,
         pc'[r] \notin {"start", "key", "send", "dial", "wait", "body", "stream", "err"}
  PROVE  AttemptAt(r)'
BY DEF AttemptAt, BudgetFits

\* From one place of the loop to another, the keys come by being the same.
LEMMA SeenSame ==
  ASSUME NEW r, AttemptAt(r),
         pc[r] \in {"key", "send", "dial", "wait", "body", "stream", "err"},
         pc'[r] \in {"key", "send", "body", "stream", "err"},
         att'[r].keys = att[r].keys, att'[r].start = att[r].start,
         att'[r].i = att[r].i, att'[r].seen = att[r].seen
  PROVE  AttemptAt(r)'
BY DEF AttemptAt, BudgetFits, SeenFits, Keyed

\* The place at the cursor is come by.
LEMMA SeenNext ==
  ASSUME NEW r \in Requests, AttemptAt(r), att[r] \in Attempts, Keyed(r), MoreKeys(r),
         pc[r] \in {"key", "err"}, pc'[r] = "key",
         att'[r].keys = att[r].keys, att'[r].start = att[r].start,
         att'[r].i = att[r].i + 1,
         att'[r].seen = att[r].seen \cup {KeyIndex(r)}
  PROVE  AttemptAt(r)'
<1>1. SeenFits(att[r])
  BY DEF AttemptAt
<1>2. /\ att[r].i \in Nat /\ att[r].start \in Nat /\ Len(att[r].keys) \in Nat
      /\ att[r].i < Len(att[r].keys)
  BY DEF Attempts, MoreKeys
<1>3. att'[r].seen = PlacesFrom(att[r].start, att[r].i + 1, Len(att[r].keys))
  <2>1. PlacesFrom(att[r].start, att[r].i + 1, Len(att[r].keys)) =
          PlacesFrom(att[r].start, att[r].i, Len(att[r].keys)) \cup {KeyIndex(r)}
    BY <1>2, PlacesNext, Zenon DEF KeyIndex
  <2> QED BY <1>1, <2>1, Zenon DEF SeenFits
<1>4. SeenFits(att'[r])
  BY <1>2, <1>3 DEF SeenFits
<1> QED BY <1>4 DEF AttemptAt, BudgetFits

LEMMA NextKeySeen ==
  ASSUME NEW a \in Attempts, NEW index \in Nat
  PROVE  /\ NextKey(a, index).keys = a.keys /\ NextKey(a, index).start = a.start
         /\ NextKey(a, index).i = a.i + 1
         /\ NextKey(a, index).seen = a.seen \cup {index}
<1> DEFINE n == a.i + 1
           S == a.seen \cup {index}
           f == Pass(a, index).fails + 1
<1>1. Pass(a, index) = [a EXCEPT !.i = n, !.seen = S]
  BY DEF Pass
<1>2. NextKey(a, index) = [Pass(a, index) EXCEPT !.err = "none", !.after = 0, !.fails = f]
  BY DEF NextKey
<1>3. Pass(a, index) \in Attempts
  BY PassType
<1> HIDE DEF n, S, f
<1>4. /\ Pass(a, index).keys = a.keys /\ Pass(a, index).start = a.start
      /\ Pass(a, index).i = n /\ Pass(a, index).seen = S
  BY <1>1 DEF Attempts
<1>5. /\ NextKey(a, index).keys = a.keys /\ NextKey(a, index).start = a.start
      /\ NextKey(a, index).i = n /\ NextKey(a, index).seen = S
  BY <1>2, <1>3, <1>4 DEF Attempts
<1> QED BY <1>5 DEF n, S

LEMMA AttemptSteps ==
  ASSUME RouterAssumption, TypeInv, NEW r \in Requests, AttemptAt(r), Typed(r),
         Begin(r) \/ RouterStep(r) \/ TransportStep(r) \/ NetworkStep(r) \/ Cancel(r)
  PROVE  AttemptAt(r)'
<1> USE DEF TypeInv, TypeOK, Typed, Move, keyStateVars, adminVars
<1>1. PlacedAt(r)
  BY DEF Placed
<1>2. att[r] \in Attempts /\ (Keyed(r) => KeyIndex(r) \in Nat)
  BY KeyIndexType
<1>quiet. CASE \/ Begin(r) \/ Reject(r) \/ Resolve(r) \/ SkipProvider(r) \/ Hop(r)
               \/ Exhausted(r) \/ KeysExhausted(r) \/ KeylessFailed(r) \/ Abort(r)
               \/ StreamEnds(r) \/ StreamPanics(r) \/ Advance(r) \/ Reply(r) \/ ReplyError(r)
               \/ WriteUsage(r) \/ PublishEvent(r)
  <2>1. pc'[r] \notin {"start", "key", "send", "dial", "wait", "body", "stream", "err"}
    BY <1>quiet DEF Begin, Reject, Resolve, SkipProvider, Hop, Exhausted, KeysExhausted,
       KeylessFailed, GiveUp, Abort, StreamEnds, StreamPanics, Advance, Reply, ReplyError,
       WriteUsage, PublishEvent
  <2> QED BY <2>1, NoAttemptAt
<1>LoadKeys. CASE LoadKeys(r)
  <2> DEFINE rows == providerKeys[Route(r).provider]
             budget == IF Timed(r) THEN AttemptTimeout(r) ELSE 0
  <2>1. PICK n \in 0..Len(rows) :
          /\ att' = [att EXCEPT ![r] = [NoAttempt EXCEPT !.keys = SubSeq(rows, 1, n),
                                                         !.budget = budget]]
          /\ pc' = [pc EXCEPT ![r] = IF n = 0 THEN "send" ELSE "start"]
    BY <1>LoadKeys DEF LoadKeys
  <2> HIDE DEF rows, budget
  <2>2. att'[r].i = 0 /\ att'[r].seen = {} /\ att'[r].keys = SubSeq(rows, 1, n)
    BY <2>1 DEF NoAttempt
  <2>3. n = 0 => att'[r].keys = <<>>
    BY <2>2
  <2>4. pc'[r] = IF n = 0 THEN "send" ELSE "start"
    BY <2>1
  <2> QED BY <2>2, <2>3, <2>4 DEF AttemptAt, BudgetFits, Keyed
<1>ReadStart. CASE ReadStart(r)
  <2> DEFINE s == StartIdx(Route(r).provider, Len(att[r].keys))
  <2>1. att'[r] = [att[r] EXCEPT !.start = s]
    BY <1>ReadStart DEF ReadStart
  <2> HIDE DEF s
  <2>2. /\ att'[r].keys = att[r].keys /\ att'[r].i = 0 /\ att'[r].seen = {}
        /\ pc'[r] = "key"
    BY <1>2, <1>ReadStart, <2>1 DEF ReadStart, AttemptAt, Attempts
  <2>3. Len(att[r].keys) \in Nat
    BY <1>2 DEF Attempts
  <2>4. SeenFits(att'[r])
    BY <2>2, <2>3, PlacesNone DEF SeenFits
  <2> QED BY <2>2, <2>4 DEF AttemptAt, BudgetFits
<1>SkipCooling. CASE SkipCooling(r)
  <2> DEFINE n == att[r].i + 1
             S == att[r].seen \cup {KeyIndex(r)}
  <2>1. att'[r] = [att[r] EXCEPT !.i = n, !.seen = S]
    BY <1>SkipCooling DEF SkipCooling, Pass
  <2> HIDE DEF n, S
  <2>2. /\ att'[r].keys = att[r].keys /\ att'[r].start = att[r].start
        /\ att'[r].i = n /\ att'[r].seen = S
    BY <1>2, <2>1 DEF Attempts
  <2>3. pc[r] = "key" /\ pc'[r] = "key" /\ MoreKeys(r) /\ Keyed(r)
    BY <1>1, <1>SkipCooling DEF SkipCooling, PlacedAt
  <2> QED BY <1>2, <2>2, <2>3, SeenNext DEF n, S
<1>PickKey. CASE PickKey(r)
  BY <1>PickKey, SeenSame DEF PickKey
<1>Refuse. CASE Refuse(r)
  BY <1>2, <1>Refuse, SeenSame DEF Refuse, Attempts
<1>SendCancelled. CASE SendCancelled(r)
  BY <1>2, <1>SendCancelled, SeenSame DEF SendCancelled, Attempts
<1>Send. CASE Send(r)
  <2>1. att'[r] = [att[r] EXCEPT !.wait = att[r].budget]
    BY <1>Send DEF Send
  <2>2. /\ att'[r].keys = att[r].keys /\ att'[r].start = att[r].start
        /\ att'[r].i = att[r].i /\ att'[r].seen = att[r].seen
        /\ att'[r].wait = att[r].budget /\ att'[r].budget = att[r].budget
    BY <1>2, <2>1 DEF Attempts
  <2>3. pc[r] = "send" /\ pc'[r] = "dial" /\ Timed(r)' = Timed(r) /\ MaySend(r)
    BY <1>Send DEF Send, Timed, ProviderConfig, Route, ModelConfig
  <2>4. Keyed(r)' => SeenFits(att'[r])
    BY <2>2, <2>3 DEF AttemptAt, SeenFits, Keyed
  <2>5. Timed(r) => att[r].budget > 0
    BY <2>3 DEF MaySend
  <2> QED BY <2>2, <2>3, <2>4, <2>5 DEF AttemptAt, BudgetFits
<1>Dialed. CASE Dialed(r)
  <2>1. pc[r] = "dial" /\ pc'[r] = "wait" /\ att'[r] = att[r] /\ job'[r] = job[r]
    BY <1>Dialed DEF Dialed
  <2>2. Timed(r)' = Timed(r) /\ Keyed(r)' = Keyed(r)
    BY <2>1 DEF Timed, Keyed, ProviderConfig, Route, ModelConfig
  <2> QED BY <1>2, <2>1, <2>2 DEF AttemptAt, BudgetFits, Attempts
<1>Fail. ASSUME NEW kind, NEW after, Fail(r, kind, after), pc[r] \in {"dial", "wait", "body", "stream"}
         PROVE  AttemptAt(r)'
  <2>1. att'[r] = [att[r] EXCEPT !.err = kind, !.after = after] /\ pc'[r] = "err"
    BY <1>Fail DEF Fail
  <2>2. /\ att'[r].keys = att[r].keys /\ att'[r].start = att[r].start
        /\ att'[r].i = att[r].i /\ att'[r].seen = att[r].seen
    BY <1>2, <2>1 DEF Attempts
  <2> QED BY <1>Fail, <2>1, <2>2, SeenSame
<1>NextKey. CASE RateLimited(r) \/ KeyFailed(r)
  <2>1. /\ pc[r] = "err" /\ pc'[r] = "key" /\ Keyed(r)
        /\ att'[r] = NextKey(att[r], KeyIndex(r))
    BY <1>NextKey DEF RateLimited, KeyFailed
  <2>2. MoreKeys(r)
    BY <1>1, <2>1 DEF PlacedAt
  <2>3. /\ att'[r].keys = att[r].keys /\ att'[r].start = att[r].start
        /\ att'[r].i = att[r].i + 1 /\ att'[r].seen = att[r].seen \cup {KeyIndex(r)}
    <3>1. att[r] \in Attempts /\ KeyIndex(r) \in Nat
      BY <1>2, <2>1
    <3> QED BY <2>1, <3>1, NextKeySeen
  <2> QED BY <1>2, <2>1, <2>2, <2>3, SeenNext
<1>TransportError. CASE TransportError(r)
  BY <1>TransportError, <1>Fail DEF TransportError
<1>HeaderTimeout. CASE HeaderTimeout(r)
  BY <1>HeaderTimeout, <1>Fail DEF HeaderTimeout
<1>CtxDone. CASE CtxDone(r)
  BY <1>CtxDone, <1>Fail DEF CtxDone
<1>AnsweredError. CASE AnsweredError(r)
  <2>1. PICK status \in ErrorStatuses, after \in Nat, stage \in {"body", "err"} :
          /\ pc' = [pc EXCEPT ![r] = stage]
          /\ att' = [att EXCEPT ![r].err = StatusError(status, ProviderConfig(r).convention),
                                ![r].after = after]
    BY <1>AnsweredError, ErrorAnswer
  <2>2. /\ att'[r].keys = att[r].keys /\ att'[r].start = att[r].start
        /\ att'[r].i = att[r].i /\ att'[r].seen = att[r].seen
    BY <1>2, <2>1 DEF Attempts
  <2>3. pc[r] = "wait" /\ pc'[r] \in {"body", "err"}
    BY <1>AnsweredError DEF AnsweredError
  <2> QED BY <2>2, <2>3, SeenSame
<1>ErrorRead. CASE ErrorRead(r)
  BY <1>ErrorRead, <1>Fail DEF ErrorRead
<1>StreamBreaks. CASE StreamBreaks(r)
  BY <1>StreamBreaks, <1>Fail DEF StreamBreaks
<1>Answered200. CASE Answered200(r)
  BY <1>Answered200, SeenSame DEF Answered200
<1>Emit. CASE Emit(r)
  BY <1>Emit, SeenSame DEF Emit
<1>Cancel. CASE Cancel(r)
  BY <1>Cancel, AttemptSame DEF Cancel
<1> QED BY <1>quiet, <1>LoadKeys, <1>ReadStart, <1>SkipCooling, <1>PickKey, <1>Refuse, <1>SendCancelled,
           <1>Send, <1>Dialed, <1>NextKey, <1>TransportError, <1>HeaderTimeout, <1>CtxDone,
           <1>AnsweredError, <1>ErrorRead, <1>StreamBreaks, <1>Answered200, <1>Emit, <1>Cancel
           DEF RouterStep, TransportStep, NetworkStep

\* A unit of time is taken from budget and wait alike, and never from the last
\* of a wait, when connecting takes none.
LEMMA AttemptTick ==
  ASSUME TypeInv, AttemptInv, Tick, NEW q \in Requests
  PROVE  AttemptAt(q)'
<1> DEFINE b == IF att[q].budget >= 0 THEN att[q].budget - 1 ELSE att[q].budget
           w == IF pc[q] = "wait" THEN att[q].wait - 1 ELSE att[q].wait
<1>1. AttemptAt(q) /\ att[q] \in Attempts
  BY DEF AttemptInv, TypeInv, TypeOK
<1>2. att'[q] = IF Attempting(q) /\ Timed(q)
                THEN [att[q] EXCEPT !.budget = b, !.wait = w] ELSE att[q]
  BY DEF Tick
<1>3. pc'[q] = pc[q] /\ job'[q] = job[q]
  BY DEF Tick
<1>4. Timed(q)' = Timed(q)
  BY <1>3 DEF Timed, ProviderConfig, Route, ModelConfig
<1>5. CASE ~(Attempting(q) /\ Timed(q))
  BY <1>1, <1>2, <1>3, <1>5, AttemptSame
<1>6. CASE Attempting(q) /\ Timed(q)
  <2>1. b \in Int /\ w \in Int
    BY <1>1 DEF Attempts
  <2>2. /\ att'[q].keys = att[q].keys /\ att'[q].start = att[q].start
        /\ att'[q].i = att[q].i /\ att'[q].seen = att[q].seen
        /\ att'[q].budget = b /\ att'[q].wait = w
    <3> HIDE DEF b, w
    <3> QED BY <1>1, <1>2, <1>6 DEF Attempts
  <2>3. ~SlowDial => pc[q] # "dial"
    BY DEF Tick
  <2>4. pc[q] = "wait" => att[q].wait > 0
    BY <1>6 DEF Tick
  <2>5. ~SlowDial /\ pc[q] = "wait" => w = b /\ w >= 0
    BY <1>1, <1>6, <2>4 DEF AttemptAt, BudgetFits, Attempts
  <2>6. Keyed(q)' = Keyed(q) /\ (Keyed(q) /\ SeenFits(att[q]) => SeenFits(att'[q]))
    BY <2>2 DEF Keyed, SeenFits
  <2> HIDE DEF b, w
  <2>7. ~SlowDial => BudgetFits(q)'
    BY <1>3, <2>2, <2>3, <2>5 DEF BudgetFits
  <2> QED BY <1>1, <1>3, <2>2, <2>6, <2>7 DEF AttemptAt
<1> QED BY <1>5, <1>6

LEMMA AttemptStep ==
  ASSUME RouterAssumption, CooldownAssumption, TypeInv, AttemptInv, [Next]_vars
  PROVE  AttemptInv'
<1> USE DEF AttemptInv
<1>1. ASSUME NEW r \in Requests,
             Begin(r) \/ RouterStep(r) \/ TransportStep(r) \/ NetworkStep(r) \/ Cancel(r)
      PROVE  AttemptInv'
  <2>1. Local(r) /\ Typed(r)
    BY <1>1, LocalSteps, TypedSteps DEF TypeInv
  <2>2. AttemptAt(r)'
    BY <1>1, <2>1, AttemptSteps
  <2>3. ASSUME NEW q \in Requests, q # r PROVE AttemptAt(q)'
    BY <2>1, <2>3, AttemptSame DEF TypeInv, TypeOK, Local
  <2> QED BY <2>2, <2>3
<1>2. ASSUME NEW p \in Providers, NEW k \in Keys, AddProviderKey(p, k) PROVE AttemptInv'
  BY <1>2, AttemptSame DEF AddProviderKey, routerVars
<1>3. ASSUME NEW p \in Providers, NEW i \in 1..Len(providerKeys[p]), DeleteProviderKey(p, i)
      PROVE  AttemptInv'
  BY <1>3, AttemptSame DEF DeleteProviderKey, routerVars
<1>4. CASE Tick
  BY <1>4, AttemptTick
<1>5. CASE Restart
  BY <1>5, AttemptSame DEF Restart, TypeInv, TypeOK
<1>6. CASE UNCHANGED vars
  BY <1>6, AttemptSame DEF vars, routerVars
<1> QED BY <1>1, <1>2, <1>3, <1>4, <1>5, <1>6 DEF Next

LEMMA AttemptCorrect == Spec => [](TypeInv /\ AttemptInv)
<1>1. Init => TypeInv /\ AttemptInv
  <2>1. ASSUME Init, NEW r \in Requests PROVE AttemptAt(r)
    BY <2>1 DEF Init, AttemptAt, BudgetFits
  <2> QED BY <2>1, InitTypeInv, RouterAssumption DEF AttemptInv
<1>2. TypeInv /\ AttemptInv /\ [Next]_vars => (TypeInv /\ AttemptInv)'
  BY TypeInvStep, AttemptStep, RouterAssumption, CooldownAssumption
<1> QED BY <1>1, <1>2, PTL DEF Spec

(***************************************************************************)
(* A provider is given up only after every key of the snapshot was tried   *)
(* or found cooling, wherever the shared cursor stood and whatever other   *)
(* requests did to it: the loop comes by every index once.                 *)
(* router.go:429-473.                                                      *)
(***************************************************************************)
THEOREM EveryKeyConsideredHolds == Spec => []EveryKeyConsidered
<1>1. ASSUME TypeInv, AttemptInv, NEW r \in Requests, pc[r] = "key", ~MoreKeys(r)
      PROVE  att[r].seen = 0..Len(att[r].keys) - 1
  <2>1. att[r] \in Attempts /\ Keyed(r) /\ SeenFits(att[r])
    BY <1>1 DEF TypeInv, TypeOK, Placed, PlacedAt, AttemptInv, AttemptAt
  <2>2. Len(att[r].keys) \in Nat \ {0} /\ att[r].i \in Nat /\ att[r].start \in Nat
    BY <2>1 DEF Attempts, Keyed
  <2>3. att[r].i = Len(att[r].keys)
    BY <1>1, <2>1, <2>2 DEF MoreKeys, SeenFits
  <2> QED BY <2>1, <2>2, <2>3, PlacesAll DEF SeenFits
<1>2. TypeInv /\ AttemptInv => EveryKeyConsidered
  BY <1>1 DEF EveryKeyConsidered
<1> QED BY <1>2, AttemptCorrect, PTL

(***************************************************************************)
(* If connecting takes no time, one provider attempt waits for response    *)
(* headers no longer than its budget, over all of its keys together        *)
(* (src/README.md:137-139, router.go:408-422).                             *)
(***************************************************************************)
THEOREM PreStreamWithinBudgetHolds ==
  ASSUME ~SlowDial PROVE Spec => []PreStreamWithinBudget
<1>1. ASSUME TypeInv, AttemptInv, NEW r \in Requests, pc[r] \in {"dial", "wait"}, Timed(r)
      PROVE  att[r].budget >= 0
  <2>1. BudgetFits(r) /\ att[r] \in Attempts
    BY <1>1 DEF AttemptInv, AttemptAt, TypeInv, TypeOK
  <2> QED BY <1>1, <2>1 DEF BudgetFits, Attempts
<1>2. TypeInv /\ AttemptInv => PreStreamWithinBudget
  BY <1>1 DEF PreStreamWithinBudget
<1> QED BY <1>2, AttemptCorrect, PTL

-------------------------------------------------------------------------------
(* Requests that go out with a key that cools.                                 *)

\* Those that passed the check of key k and have not sent their request yet.
Senders(k) == {r \in Requests : pc[r] = "send" /\ Keyed(r) /\ APIKey(r) = k}

\* While k cools nobody passes its check: every request sent is one sender less.
\* The request whose answer made it cool was not among them.
LeakAt(k) ==
  IF IsRateLimited(k) THEN leaks[k] + Cardinality(Senders(k)) <= Cardinality(Requests) - 1
                      ELSE leaks[k] = 0

LeakInv == \A k \in Keys : LeakAt(k)

FiniteRequests == IsFiniteSet(Requests) /\ Requests # {}

LEMMA FewerRequests ==
  ASSUME FiniteRequests, NEW S \in SUBSET Requests, NEW T \in SUBSET S
  PROVE  /\ Cardinality(S) \in Nat /\ Cardinality(T) \in Nat /\ Cardinality(Requests) \in Nat
         /\ Cardinality(T) <= Cardinality(S)
         /\ \A r \in S \ T : Cardinality(T) <= Cardinality(S) - 1
<1>1. IsFiniteSet(S) /\ IsFiniteSet(T)
  BY FS_Subset DEF FiniteRequests
<1>2. Cardinality(S) \in Nat /\ Cardinality(T) \in Nat /\ Cardinality(Requests) \in Nat
  BY <1>1, FS_CardinalityType DEF FiniteRequests
<1>3. Cardinality(T) <= Cardinality(S)
  BY <1>1, FS_Subset
<1>4. ASSUME NEW r \in S \ T PROVE Cardinality(T) <= Cardinality(S) - 1
  <2>1. IsFiniteSet(S \ {r}) /\ Cardinality(S \ {r}) = Cardinality(S) - 1
    BY <1>1, FS_RemoveElement
  <2>2. T \in SUBSET (S \ {r})
    OBVIOUS
  <2> QED BY <2>1, <2>2, FS_Subset
<1> QED BY <1>2, <1>3, <1>4

\* Nobody else becomes a sender of a key that cools.
LEMMA LeakSame ==
  ASSUME TypeOK, FiniteRequests, NEW k \in Keys, LeakAt(k),
         leaks'[k] = leaks[k], coolLeft'[k] = coolLeft[k],
         IsRateLimited(k) => Senders(k)' \subseteq Senders(k)
  PROVE  LeakAt(k)'
<1>1. CASE IsRateLimited(k)
  <2>1. Senders(k) \in SUBSET Requests /\ Senders(k)' \in SUBSET Senders(k)
    BY <1>1 DEF Senders
  <2>2. /\ Cardinality(Senders(k)) \in Nat /\ Cardinality(Senders(k)') \in Nat
        /\ Cardinality(Requests) \in Nat
        /\ Cardinality(Senders(k)') <= Cardinality(Senders(k))
    BY <2>1, FewerRequests
  <2>3. leaks[k] \in Nat /\ IsRateLimited(k)'
    BY <1>1 DEF TypeOK, IsRateLimited
  <2>4. leaks[k] + Cardinality(Senders(k)) <= Cardinality(Requests) - 1
    BY <1>1 DEF LeakAt
  <2>5. leaks'[k] + Cardinality(Senders(k)') <= Cardinality(Requests) - 1
    BY <2>2, <2>3, <2>4
  <2> QED BY <2>3, <2>5 DEF LeakAt
<1>2. CASE ~IsRateLimited(k)
  BY <1>2 DEF LeakAt, IsRateLimited
<1> QED BY <1>1, <1>2

\* Nothing but PickKey brings a request with a key to "send", nothing but Send
\* and RateLimited counts or cools.
LEMMA AttemptQuiet ==
  ASSUME TypeOK, NEW r \in Requests,
         Begin(r) \/ RouterStep(r) \/ TransportStep(r) \/ NetworkStep(r) \/ Cancel(r),
         ~PickKey(r), ~Send(r), ~RateLimited(r)
  PROVE  /\ leaks' = leaks /\ coolLeft' = coolLeft
         /\ \/ pc'[r] # "send"
            \/ ~Keyed(r)'
            \/ pc'[r] = pc[r] /\ att'[r] = att[r]
<1> USE DEF TypeOK, Move, keyStateVars, adminVars
<1>1. CASE Begin(r)
  BY <1>1 DEF Begin
<1>2. CASE Reject(r) \/ Resolve(r) \/ SkipProvider(r) \/ Hop(r) \/ Exhausted(r) \/ ReadStart(r)
  BY <1>2 DEF Reject, Resolve, SkipProvider, Hop, Exhausted, ReadStart
<1>3. CASE LoadKeys(r)
  <2> DEFINE rows == providerKeys[Route(r).provider]
             budget == IF Timed(r) THEN AttemptTimeout(r) ELSE 0
  <2>1. PICK n \in 0..Len(rows) :
          /\ att' = [att EXCEPT ![r] = [NoAttempt EXCEPT !.keys = SubSeq(rows, 1, n),
                                                         !.budget = budget]]
          /\ pc' = [pc EXCEPT ![r] = IF n = 0 THEN "send" ELSE "start"]
    BY <1>3, Zenon DEF LoadKeys
  <2>2. att'[r].keys = SubSeq(rows, 1, n)
    <3> HIDE DEF rows, budget
    <3> QED BY <2>1 DEF NoAttempt
  <2>3. n = 0 => ~Keyed(r)'
    <3>1. n = 0 => SubSeq(rows, 1, n) = <<>>
      OBVIOUS
    <3> QED BY <2>2, <3>1 DEF Keyed
  <2>4. n # 0 => pc'[r] # "send"
    BY <2>1
  <2> QED BY <1>3, <2>3, <2>4 DEF LoadKeys
<1>4. CASE SkipCooling(r) \/ KeysExhausted(r) \/ Refuse(r) \/ SendCancelled(r)
  BY <1>4 DEF SkipCooling, KeysExhausted, Refuse, SendCancelled, GiveUp
<1>5. CASE KeyFailed(r) \/ KeylessFailed(r) \/ Abort(r)
  BY <1>5 DEF KeyFailed, KeylessFailed, Abort, GiveUp
<1>6. CASE Advance(r) \/ Reply(r) \/ ReplyError(r) \/ WriteUsage(r) \/ PublishEvent(r)
  BY <1>6 DEF Advance, Reply, ReplyError, WriteUsage, PublishEvent
<1>7. CASE TransportStep(r)
  BY <1>7 DEF TransportStep, CtxDone, HeaderTimeout, ErrorRead, Fail
<1>8. CASE NetworkStep(r)
  BY <1>8 DEF NetworkStep, Dialed, TransportError, Answered200, AnsweredError, ErrorRead,
     Emit, StreamEnds, StreamBreaks, StreamPanics, Fail
<1>9. CASE Cancel(r)
  BY <1>9 DEF Cancel
<1> QED BY <1>1, <1>2, <1>3, <1>4, <1>5, <1>6, <1>7, <1>8, <1>9 DEF RouterStep

\* A sender whose variables do not change stays one.
LEMMA SenderSame ==
  ASSUME NEW q, NEW k, pc'[q] = pc[q] \/ pc'[q] # "send", att'[q].keys = att[q].keys,
         att'[q].start = att[q].start, att'[q].i = att[q].i
  PROVE  (pc[q] = "send" /\ Keyed(q) /\ APIKey(q) = k)' =>
           (pc[q] = "send" /\ Keyed(q) /\ APIKey(q) = k)
BY DEF Keyed, APIKey, KeyIndex

LEMMA LeakSteps ==
  ASSUME TypeInv, LeakInv, FiniteRequests, NEW r \in Requests,
         Begin(r) \/ RouterStep(r) \/ TransportStep(r) \/ NetworkStep(r) \/ Cancel(r)
  PROVE  LeakInv'
<1> USE DEF TypeInv
<1>1. Local(r)
  BY LocalSteps
<1>2. ASSUME NEW k, NEW q \in Requests, q # r, q \in Senders(k)' PROVE q \in Senders(k)
  <2>1. pc'[q] = pc[q] /\ att'[q] = att[q]
    BY <1>1, <1>2 DEF Local, TypeOK
  <2> QED BY <1>2, <2>1, SenderSame DEF Senders
<1>3. CASE PickKey(r)
  <2>1. ASSUME NEW k \in Keys, IsRateLimited(k) PROVE r \notin Senders(k)'
    <3>1. ~IsRateLimited(APIKey(r)) /\ att' = att
      BY <1>3 DEF PickKey
    <3> QED BY <2>1, <3>1 DEF Senders, APIKey, KeyIndex
  <2>2. ASSUME NEW k \in Keys, IsRateLimited(k) PROVE Senders(k)' \subseteq Senders(k)
    BY <1>2, <2>1, <2>2 DEF Senders
  <2>3. leaks' = leaks /\ coolLeft' = coolLeft
    BY <1>3 DEF PickKey, keyStateVars
  <2> QED BY <2>2, <2>3, LeakSame DEF LeakInv
<1>4. CASE Send(r)
  <2> SUFFICES ASSUME NEW k \in Keys PROVE LeakAt(k)'
    BY DEF LeakInv
  <2>1. pc[r] = "send" /\ pc'[r] = "dial" /\ coolLeft' = coolLeft
    BY <1>4 DEF Send, Move, keyStateVars, TypeOK
  <2>2. Senders(k)' \subseteq Senders(k) \ {r}
    BY <1>2, <2>1 DEF Senders
  <2>3. CASE Keyed(r) /\ IsRateLimited(k) /\ APIKey(r) = k
    <3>1. r \in Senders(k) /\ Senders(k) \in SUBSET Requests
      BY <2>1, <2>3 DEF Senders
    <3>2. /\ Cardinality(Senders(k)) \in Nat /\ Cardinality(Senders(k)') \in Nat
          /\ Cardinality(Requests) \in Nat
          /\ Cardinality(Senders(k)') <= Cardinality(Senders(k)) - 1
      BY <2>2, <3>1, FewerRequests
    <3>3. leaks'[k] = leaks[k] + 1 /\ leaks[k] \in Nat
      BY <1>4, <2>3 DEF Send, TypeOK
    <3>4. leaks[k] + Cardinality(Senders(k)) <= Cardinality(Requests) - 1
      BY <2>3 DEF LeakInv, LeakAt
    <3>5. leaks'[k] + Cardinality(Senders(k)') <= Cardinality(Requests) - 1
      BY <3>2, <3>3, <3>4
    <3> QED BY <2>1, <2>3, <3>5 DEF LeakAt, IsRateLimited
  <2>4. CASE ~(Keyed(r) /\ IsRateLimited(k) /\ APIKey(r) = k)
    <3>1. leaks'[k] = leaks[k]
      BY <1>4, <2>4 DEF Send, TypeOK
    <3> QED BY <2>1, <2>2, <3>1, LeakSame DEF LeakInv
  <2> QED BY <2>3, <2>4
<1>5. CASE RateLimited(r)
  <2> SUFFICES ASSUME NEW k \in Keys PROVE LeakAt(k)'
    BY DEF LeakInv
  <2>1. pc'[r] = "key" /\ leaks' = leaks
    BY <1>5 DEF RateLimited, Move, TypeOK
  <2>2. Senders(k)' \subseteq Senders(k) \ {r}
    <3>1. r \notin Senders(k)
      BY <1>5 DEF RateLimited, Move, Senders
    <3> QED BY <1>2, <2>1, <3>1 DEF Senders
  <2>3. CASE APIKey(r) # k
    <3>1. coolLeft'[k] = coolLeft[k]
      BY <1>5, <2>3 DEF RateLimited, MarkRateLimited, TypeOK, KeyStateTypeOK
    <3> QED BY <2>1, <2>2, <3>1, LeakSame DEF LeakInv
  <2>4. CASE APIKey(r) = k
    <3>1. IsRateLimited(k)'
      BY <1>5, <2>4, CooldownAssumption
         DEF RateLimited, MarkRateLimited, IsRateLimited, TypeOK, KeyStateTypeOK, Attempts
    <3>2. Senders(k)' \in SUBSET Senders(k) /\ Senders(k) \in SUBSET Requests
          /\ Senders(k)' \in SUBSET Requests /\ r \in Requests \ Senders(k)'
      BY <2>2 DEF Senders
    <3>3. /\ Cardinality(Senders(k)) \in Nat /\ Cardinality(Senders(k)') \in Nat
          /\ Cardinality(Requests) \in Nat
          /\ Cardinality(Senders(k)') <= Cardinality(Senders(k))
          /\ Cardinality(Senders(k)') <= Cardinality(Requests) - 1
      <4>1. Requests \in SUBSET Requests
        OBVIOUS
      <4> QED BY <3>2, <4>1, FewerRequests
    <3>4. leaks[k] \in Nat
      BY DEF TypeOK
    <3>5. leaks[k] + Cardinality(Senders(k)') <= Cardinality(Requests) - 1
      BY <3>3, <3>4 DEF LeakInv, LeakAt
    <3> QED BY <2>1, <3>1, <3>5 DEF LeakAt
  <2> QED BY <2>3, <2>4
<1>6. CASE ~PickKey(r) /\ ~Send(r) /\ ~RateLimited(r)
  <2>1. /\ leaks' = leaks /\ coolLeft' = coolLeft
        /\ \/ pc'[r] # "send"
           \/ ~Keyed(r)'
           \/ pc'[r] = pc[r] /\ att'[r] = att[r]
    BY <1>6, AttemptQuiet
  <2>2. ASSUME NEW k \in Keys, r \in Senders(k)' PROVE r \in Senders(k)
    <3>1. pc'[r] = pc[r] /\ att'[r] = att[r]
      BY <2>1, <2>2 DEF Senders
    <3> QED BY <2>2, <3>1, SenderSame DEF Senders
  <2>3. ASSUME NEW k \in Keys PROVE Senders(k)' \subseteq Senders(k)
    BY <1>2, <2>2 DEF Senders
  <2> QED BY <2>1, <2>3, LeakSame DEF LeakInv
<1> QED BY <1>3, <1>4, <1>5, <1>6

\* What time leaves of a request, and what it does to a key.
LEMMA TickKeeps ==
  ASSUME TypeOK, Tick, NEW q \in Requests
  PROVE  /\ pc'[q] = pc[q] /\ att'[q].keys = att[q].keys
         /\ att'[q].start = att[q].start /\ att'[q].i = att[q].i
<1> DEFINE b == IF att[q].budget >= 0 THEN att[q].budget - 1 ELSE att[q].budget
           w == IF pc[q] = "wait" THEN att[q].wait - 1 ELSE att[q].wait
<1>1. att'[q] = att[q] \/ att'[q] = [att[q] EXCEPT !.budget = b, !.wait = w]
  BY DEF Tick
<1>2. pc' = pc
  BY DEF Tick
<1> HIDE DEF b, w
<1> QED BY <1>1, <1>2 DEF TypeOK, Attempts

LEMMA TickCools ==
  ASSUME TypeOK, Tick, NEW c \in Keys
  PROVE  /\ coolLeft[c] \in Nat /\ coolLeft'[c] \in Nat /\ leaks[c] \in Nat
         /\ coolLeft'[c] > 0 => coolLeft[c] > 0
         /\ leaks'[c] = IF coolLeft'[c] > 0 THEN leaks[c] ELSE 0
<1>1. coolLeft[c] \in Nat /\ leaks[c] \in Nat
  BY DEF TypeOK, KeyStateTypeOK
<1>2. coolLeft'[c] = IF coolLeft[c] > 0 THEN coolLeft[c] - 1 ELSE 0
  BY DEF Tick, CoolDown
<1>3. leaks'[c] = IF coolLeft'[c] > 0 THEN leaks[c] ELSE 0
  BY DEF Tick
<1> QED BY <1>1, <1>2, <1>3

\* Time lets cooldowns end, and forgets what leaked before.
LEMMA LeakTick ==
  ASSUME TypeInv, LeakInv, FiniteRequests, Tick
  PROVE  LeakInv'
<1> SUFFICES ASSUME NEW k \in Keys PROVE LeakAt(k)'
  BY DEF LeakInv
<1>1. Senders(k)' \subseteq Senders(k)
  <2>1. ASSUME NEW q \in Requests
        PROVE  /\ pc'[q] = pc[q] /\ att'[q].keys = att[q].keys
               /\ att'[q].start = att[q].start /\ att'[q].i = att[q].i
    BY TickKeeps DEF TypeInv
  <2> QED BY <2>1, SenderSame DEF Senders
<1>2. leaks'[k] = IF coolLeft'[k] > 0 THEN leaks[k] ELSE 0
  BY TickCools DEF TypeInv
<1>3. coolLeft[k] \in Nat /\ coolLeft'[k] \in Nat /\ leaks[k] \in Nat
  BY TickCools DEF TypeInv
<1>4. coolLeft'[k] > 0 => coolLeft[k] > 0
  BY TickCools DEF TypeInv
<1>5. CASE coolLeft'[k] > 0
  <2>1. Senders(k) \in SUBSET Requests /\ Senders(k)' \in SUBSET Senders(k)
    BY <1>1 DEF Senders
  <2>2. /\ Cardinality(Senders(k)) \in Nat /\ Cardinality(Senders(k)') \in Nat
        /\ Cardinality(Requests) \in Nat
        /\ Cardinality(Senders(k)') <= Cardinality(Senders(k))
    BY <2>1, FewerRequests
  <2>3. leaks[k] + Cardinality(Senders(k)) <= Cardinality(Requests) - 1
    BY <1>4, <1>5 DEF LeakInv, LeakAt, IsRateLimited
  <2>4. leaks'[k] + Cardinality(Senders(k)') <= Cardinality(Requests) - 1
    BY <1>2, <1>3, <1>5, <2>2, <2>3
  <2> QED BY <1>5, <2>4 DEF LeakAt, IsRateLimited
<1>6. CASE ~(coolLeft'[k] > 0)
  BY <1>2, <1>6 DEF LeakAt, IsRateLimited
<1> QED BY <1>5, <1>6

LEMMA LeakStep ==
  ASSUME TypeInv, LeakInv, FiniteRequests, [Next]_vars
  PROVE  LeakInv'
<1>1. ASSUME NEW r \in Requests,
             Begin(r) \/ RouterStep(r) \/ TransportStep(r) \/ NetworkStep(r) \/ Cancel(r)
      PROVE  LeakInv'
  BY <1>1, LeakSteps
<1>2. ASSUME UNCHANGED <<pc, att, leaks, coolLeft>> PROVE LeakInv'
  <2>1. ASSUME NEW k \in Keys PROVE Senders(k)' \subseteq Senders(k)
    BY <1>2 DEF Senders, Keyed, APIKey, KeyIndex
  <2> QED BY <1>2, <2>1, LeakSame DEF LeakInv, TypeInv
<1>3. ASSUME NEW p \in Providers, NEW k \in Keys, AddProviderKey(p, k) PROVE LeakInv'
  BY <1>2, <1>3 DEF AddProviderKey, routerVars, keyStateVars
<1>4. ASSUME NEW p \in Providers, NEW i \in 1..Len(providerKeys[p]), DeleteProviderKey(p, i)
      PROVE  LeakInv'
  BY <1>2, <1>4 DEF DeleteProviderKey, routerVars, keyStateVars
<1>5. CASE Tick
  BY <1>5, LeakTick
<1>6. CASE Restart
  BY <1>6 DEF Restart, ForgetKeyState, LeakInv, LeakAt, IsRateLimited
<1>7. CASE UNCHANGED vars
  BY <1>2, <1>7 DEF vars, routerVars, keyStateVars
<1> QED BY <1>1, <1>3, <1>4, <1>5, <1>6, <1>7 DEF Next

(***************************************************************************)
(* However many requests run at once, and however often a key cools again  *)
(* before it is warm: at most one request per other client request goes    *)
(* out with a cooling key.                                                 *)
(* router.go:438-445, fallback.go:30-55.                                   *)
(***************************************************************************)
THEOREM LeakBoundedHolds == ASSUME FiniteRequests PROVE Spec => []LeakBounded
<1>1. Init => TypeInv /\ LeakInv
  <2>1. Init => LeakInv
    BY DEF Init, NewKeyState, LeakInv, LeakAt, IsRateLimited
  <2> QED BY <2>1, InitTypeInv, RouterAssumption
<1>2. TypeInv /\ LeakInv /\ [Next]_vars => (TypeInv /\ LeakInv)'
  BY TypeInvStep, LeakStep, RouterAssumption, CooldownAssumption
<1>3. ASSUME TypeInv, LeakInv, NEW k \in Keys PROVE leaks[k] <= Cardinality(Requests) - 1
  <2>1. Senders(k) \in SUBSET Requests /\ Requests \in SUBSET Requests /\ {} \in SUBSET Requests
    BY DEF Senders
  <2>2. Cardinality(Senders(k)) \in Nat /\ Cardinality(Requests) \in Nat
    BY <2>1, FewerRequests
  <2>3. Cardinality(Requests) - 1 >= 0
    <3>1. Cardinality(Requests) # 0
      BY FS_EmptySet DEF FiniteRequests
    <3> QED BY <2>2, <3>1
  <2>4. leaks[k] \in Nat
    BY <1>3 DEF TypeInv, TypeOK
  <2> QED BY <1>3, <2>2, <2>3, <2>4 DEF LeakInv, LeakAt
<1>4. TypeInv /\ LeakInv => LeakBounded
  BY <1>3 DEF LeakBounded
<1> QED BY <1>1, <1>2, <1>4, PTL DEF Spec

-------------------------------------------------------------------------------
(* The books, and that Router implements OneAnswer.                            *)


\* Where a request's usage row and event are written, and what they name.
BooksAt(r) ==
  /\ BooksFit(r)
  /\ pc[r] \notin {"event", "done", "lost"} => books[r].usage = <<>>
  /\ pc[r] \notin {"done", "lost"} => books[r].events = <<>>
  /\ books[r].usage # <<>> => books[r].usage[1].at = Route(r)
  /\ pc[r] \in {"event", "done"} => out[r].ending # "none"
  /\ pc[r] = "event" => out[r].ending # "panicked"
  /\ pc[r] = "usage" => out[r].ending = "complete"

BooksInv == \A r \in Requests : BooksAt(r)

LEMMA BooksSame ==
  ASSUME NEW q, BooksAt(q), pc'[q] \in {pc[q], "lost"}, job'[q] = job[q], out'[q] = out[q],
         books'[q] = books[q]
  PROVE  BooksAt(q)'
BY DEF BooksAt, BooksFit, Route, ModelConfig

\* Nothing is written before the answer is decided.
LEMMA BooksEmpty ==
  ASSUME NEW r \in Requests, books[r].usage = <<>>, books[r].events = <<>>,
         books'[r] = books[r], pc'[r] # "done",
         pc'[r] = "event" => out'[r].ending \notin {"none", "panicked"},
         pc'[r] = "usage" => out'[r].ending = "complete"
  PROVE  BooksAt(r)'
BY DEF BooksAt, BooksFit

LEMMA BooksSteps ==
  ASSUME RouterAssumption, TypeInv, NEW r \in Requests, OutputAt(r), BooksAt(r), Typed(r),
         Begin(r) \/ RouterStep(r) \/ TransportStep(r) \/ NetworkStep(r) \/ Cancel(r)
  PROVE  BooksAt(r)'
<1> USE DEF TypeInv, TypeOK, Typed, Move, keyStateVars, adminVars
<1>1. PlacedAt(r)
  BY DEF Placed
<1>StreamPanics. CASE StreamPanics(r)
  <2>1. /\ pc[r] = "stream" /\ pc'[r] = "done" /\ books'[r] = books[r]
        /\ out'[r].ending = "panicked"
    BY <1>StreamPanics DEF StreamPanics, Outputs
  <2>2. books[r].usage = <<>> /\ books[r].events = <<>> /\ Len(<<>>) = 0
    BY <2>1 DEF BooksAt
  <2> QED BY <2>1, <2>2 DEF BooksAt, BooksFit
<1>early. CASE /\ pc[r] \notin {"reply", "failed", "usage", "event"}
               /\ ~Cancel(r) /\ ~StreamPanics(r)
  <2>1. /\ books'[r] = books[r]
        /\ pc'[r] \notin {"usage", "event", "done", "lost"}
        /\ pc[r] \notin {"usage", "event", "done", "lost"}
    BY <1>early, ZenonT(60) DEF Begin, RouterStep, TransportStep, NetworkStep, Reject, Resolve,
       SkipProvider, LoadKeys, Hop, Exhausted, ReadStart, SkipCooling, PickKey, KeysExhausted,
       GiveUp, Refuse, SendCancelled, Send, RateLimited, KeyFailed, KeylessFailed, Abort,
       Advance, Reply, ReplyError, WriteUsage, PublishEvent, CtxDone, HeaderTimeout, Dialed,
       TransportError, Fail, Answered200, AnsweredError, ErrorRead, Emit, StreamEnds, StreamBreaks
  <2> QED BY <2>1, BooksEmpty, SMTT(30) DEF BooksAt
<1>late. CASE pc[r] \in {"reply", "failed", "usage", "event"} /\ ~Cancel(r)
  <2>1. Reply(r) \/ ReplyError(r) \/ WriteUsage(r) \/ PublishEvent(r)
    BY <1>late DEF Begin, RouterStep, TransportStep, NetworkStep, Reject, Resolve,
       SkipProvider, LoadKeys, Hop, Exhausted, ReadStart, SkipCooling, PickKey, KeysExhausted,
       GiveUp, Refuse, SendCancelled, Send, RateLimited, KeyFailed, KeylessFailed, Abort,
       Advance, CtxDone, HeaderTimeout, Dialed, TransportError, Fail, Answered200,
       AnsweredError, ErrorRead, Emit, StreamEnds, StreamBreaks, StreamPanics
  <2>Reply. CASE Reply(r)
    <3>1. out'[r].ending = "complete"
      BY <2>Reply DEF Reply, Outputs
    <3> QED BY <2>Reply, <3>1, BooksEmpty DEF Reply, BooksAt
  <2>ReplyError. CASE ReplyError(r)
    <3>1. out'[r].ending \notin {"none", "panicked"}
      BY <2>ReplyError DEF ReplyError, Outputs
    <3> QED BY <2>ReplyError, <3>1, BooksEmpty DEF ReplyError, BooksAt
  <2>WriteUsage. CASE WriteUsage(r)
    <3> DEFINE row == [at |-> Route(r), fallbacks |-> job[r].fallbacks]
    <3>1. /\ books[r].usage = <<>> /\ books[r].events = <<>>
          /\ out[r].ending = "complete" /\ out'[r] = out[r]
          /\ Route(r)' = Route(r)
      BY <2>WriteUsage, SameRoute DEF WriteUsage, BooksAt
    <3>2. books'[r].usage \in {<<>>, <<row>>} /\ books'[r].events = <<>>
      BY <2>WriteUsage, <3>1 DEF WriteUsage, Books
    <3>3. \A w \in out[r].wrote : w.at = Route(r)
      BY DEF OutputAt, FromLastAttempt
    <3>4. row.at = Route(r) /\ <<row>> # <<>> /\ Len(<<row>>) = 1 /\ <<row>>[1] = row
      OBVIOUS
    <3>5. pc'[r] = "event"
      BY <2>WriteUsage DEF WriteUsage
    <3> HIDE DEF row
    <3>6. BooksFit(r)'
      <4>1. Len(books'[r].usage) <= 1 /\ Len(books'[r].events) <= 1
        <5>1. Len(<<>>) = 0
          OBVIOUS
        <5>2. Len(books'[r].usage) \in {0, 1} /\ Len(books'[r].events) = 0
          BY <3>2, <3>4, <5>1, Zenon
        <5>3. 0 <= 1 /\ 1 <= 1
          OBVIOUS
        <5> QED BY <5>2, <5>3, Zenon
      <4>2. books'[r].usage # <<>> => books'[r].usage[1].at = Route(r)
        BY <3>2, <3>4
      <4> QED BY <3>1, <3>2, <3>3, <3>5, <4>1, <4>2 DEF BooksFit
    <3> QED BY <3>1, <3>2, <3>4, <3>5, <3>6 DEF BooksAt
  <2>PublishEvent. CASE PublishEvent(r)
    <3> DEFINE from == IF out[r].ending = "complete" THEN {Route(r)} ELSE {}
               event == [status |-> Status(out[r].ending), from |-> from]
    <3>1. /\ books[r].events = <<>>
          /\ out[r].ending # "none" /\ out'[r] = out[r]
          /\ Route(r)' = Route(r) /\ out[r].ending # "panicked"
      BY <2>PublishEvent, SameRoute DEF PublishEvent, BooksAt
    <3>2. books'[r].usage = books[r].usage /\ books'[r].events = <<event>>
      <4>1. books'[r] = [books[r] EXCEPT !.events = Append(books[r].events, event)]
        BY <2>PublishEvent DEF PublishEvent
      <4> HIDE DEF event
      <4>2. Append(<<>>, event) = <<event>>
        OBVIOUS
      <4> QED BY <3>1, <4>1, <4>2 DEF Books
    <3>3. \A w \in out[r].wrote : w.at = Route(r)
      BY DEF OutputAt, FromLastAttempt
    <3>4. event.status = 200 <=> out[r].ending \in {"complete", "compact"}
      BY DEF Status
    <3>5. books'[r].usage # <<>> => event.from = {books'[r].usage[1].at}
      BY <3>2 DEF BooksAt, BooksFit
    <3>6. \A w \in out[r].wrote : event.from \in {{}, {w.at}}
      BY <3>3
    <3>7. Len(books'[r].events) = 1 /\ books'[r].events[1] = event /\ books'[r].events # <<>>
      BY <3>2
    <3> HIDE DEF event, from
    <3>8. pc[r] = "event" /\ pc'[r] = "done"
      BY <2>PublishEvent DEF PublishEvent
    <3>9. BooksFit(r)'
      <4>1. Len(books'[r].usage) <= 1 /\ Len(books'[r].events) <= 1
        BY <3>2, <3>7 DEF BooksAt, BooksFit
      <4>2. books'[r].usage # <<>> =>
              /\ out'[r].ending = "complete"
              /\ \A w \in out'[r].wrote : w.at = books'[r].usage[1].at
        BY <3>1, <3>2 DEF BooksAt, BooksFit
      <4>3. books'[r].events[1] = event
        BY <3>7
      <4> QED BY <3>1, <3>4, <3>5, <3>6, <3>7, <3>8, <4>1, <4>2, <4>3, ZenonT(60) DEF BooksFit
    <3> QED BY <3>1, <3>2, <3>7, <3>8, <3>9 DEF BooksAt
  <2> QED BY <2>1, <2>Reply, <2>ReplyError, <2>WriteUsage, <2>PublishEvent
<1>Cancel. CASE Cancel(r)
  BY <1>Cancel, BooksSame DEF Cancel
<1> QED BY <1>StreamPanics, <1>early, <1>late, <1>Cancel

LEMMA BooksStep ==
  ASSUME RouterAssumption, CooldownAssumption, TypeInv, OutputInv, BooksInv, [Next]_vars
  PROVE  BooksInv'
<1> USE DEF BooksInv, OutputInv
<1>1. ASSUME NEW r \in Requests,
             Begin(r) \/ RouterStep(r) \/ TransportStep(r) \/ NetworkStep(r) \/ Cancel(r)
      PROVE  BooksInv'
  <2>1. Local(r) /\ Typed(r)
    BY <1>1, LocalSteps, TypedSteps DEF TypeInv
  <2>2. BooksAt(r)'
    BY <1>1, <2>1, BooksSteps
  <2>3. ASSUME NEW q \in Requests, q # r PROVE BooksAt(q)'
    BY <2>1, <2>3, BooksSame DEF TypeInv, TypeOK, Local
  <2> QED BY <2>2, <2>3
<1>2. ASSUME NEW p \in Providers, NEW k \in Keys, AddProviderKey(p, k) PROVE BooksInv'
  BY <1>2, BooksSame DEF AddProviderKey, routerVars
<1>3. ASSUME NEW p \in Providers, NEW i \in 1..Len(providerKeys[p]), DeleteProviderKey(p, i)
      PROVE  BooksInv'
  BY <1>3, BooksSame DEF DeleteProviderKey, routerVars
<1>4. CASE Tick
  BY <1>4, BooksSame DEF Tick
<1>5. CASE Restart
  BY <1>5, BooksSame DEF Restart, TypeInv, TypeOK
<1>6. CASE UNCHANGED vars
  BY <1>6, BooksSame DEF vars, routerVars
<1> QED BY <1>1, <1>2, <1>3, <1>4, <1>5, <1>6 DEF Next

Inv == TypeInv /\ OutputInv /\ BooksInv

LEMMA InitInv == ASSUME RouterAssumption, Init PROVE Inv
<1>1. OutputInv
  BY DEF Init, OutputInv, OutputAt, FromLastAttempt, EndingFits
<1>2. ASSUME NEW r \in Requests PROVE BooksAt(r)
  <2>1. books[r].usage = <<>> /\ books[r].events = <<>> /\ pc[r] = "idle" /\ Len(<<>>) = 0
    BY DEF Init
  <2> QED BY <2>1 DEF BooksAt, BooksFit
<1> QED BY <1>1, <1>2, InitTypeInv DEF Inv, BooksInv

LEMMA InvCorrect == Spec => []Inv
<1>1. Init => Inv
  BY InitInv, RouterAssumption
<1>2. Inv /\ [Next]_vars => Inv'
  BY TypeInvStep, OutputStep, BooksStep, RouterAssumption, CooldownAssumption DEF Inv
<1> QED BY <1>1, <1>2, PTL DEF Spec

(***************************************************************************)
(* At most one usage row and one event per request, and both say who gave  *)
(* the answer and how it ended.                                            *)
(***************************************************************************)
THEOREM BooksFitAnswerHolds == Spec => []BooksFitAnswer
<1>1. Inv => BooksFitAnswer
  BY DEF Inv, BooksInv, BooksAt, BooksFitAnswer
<1> QED BY <1>1, InvCorrect, PTL

-------------------------------------------------------------------------------
(* The refinement: what each step of a request looks like from outside.        *)

Billed(r) == {books[r].usage[i].at : i \in DOMAIN books[r].usage}
Logged(r) == books[r].events # <<>>

SameBooks(r) == Billed(r)' = Billed(r) /\ Logged(r)' = Logged(r)

LEMMA ViewFields ==
  ASSUME NEW r
  PROVE  /\ View(r).phase = Phase(r)
         /\ View(r).verdict = Verdict(r)
         /\ View(r).sources = Delivered(r)
         /\ View(r).billed = Billed(r)
         /\ View(r).logged = Logged(r)
BY DEF View, Billed, Logged

\* How the view changes, by the fields that do.
LEMMA ViewPhase ==
  ASSUME NEW r, SameBooks(r), Verdict(r)' = Verdict(r), Delivered(r)' = Delivered(r)
  PROVE  View(r)' = [View(r) EXCEPT !.phase = Phase(r)']
<1> DEFINE p == Phase(r)  v == Verdict(r)  s == Delivered(r)  b == Billed(r)  l == Logged(r)
           p2 == Phase(r)'
           w1 == [View(r) EXCEPT !.phase = p2]
<1>1. View(r) = [phase |-> p, verdict |-> v, sources |-> s, billed |-> b, logged |-> l]
  BY DEF View, Billed, Logged
<1>2. View(r)' = [phase |-> p2, verdict |-> v, sources |-> s, billed |-> b, logged |-> l]
  BY DEF View, Billed, Logged, SameBooks
<1> HIDE DEF p, v, s, b, l, p2, w1
<1>3. w1 = [phase |-> p2, verdict |-> v, sources |-> s, billed |-> b, logged |-> l]
  BY <1>1 DEF w1
<1>4. [View(r) EXCEPT !.phase = p2] = w1
  BY DEF w1
<1> QED BY <1>2, <1>3, <1>4 DEF p2

LEMMA ViewPhaseVerdict ==
  ASSUME NEW r, SameBooks(r), Delivered(r)' = Delivered(r)
  PROVE  View(r)' = [View(r) EXCEPT !.phase = Phase(r)', !.verdict = Verdict(r)']
<1> DEFINE p == Phase(r)  v == Verdict(r)  s == Delivered(r)  b == Billed(r)  l == Logged(r)
           p2 == Phase(r)'  v2 == Verdict(r)'
           w1 == [View(r) EXCEPT !.phase = p2]
           w2 == [w1 EXCEPT !.verdict = v2]
<1>1. View(r) = [phase |-> p, verdict |-> v, sources |-> s, billed |-> b, logged |-> l]
  BY DEF View, Billed, Logged
<1>2. View(r)' = [phase |-> p2, verdict |-> v2, sources |-> s, billed |-> b, logged |-> l]
  BY DEF View, Billed, Logged, SameBooks
<1> HIDE DEF p, v, s, b, l, p2, v2, w1, w2
<1>3. w1 = [phase |-> p2, verdict |-> v, sources |-> s, billed |-> b, logged |-> l]
  BY <1>1 DEF w1
<1>4. w2 = [phase |-> p2, verdict |-> v2, sources |-> s, billed |-> b, logged |-> l]
  BY <1>3 DEF w2
<1>5. [View(r) EXCEPT !.phase = p2, !.verdict = v2] = w2
  BY DEF w1, w2
<1> QED BY <1>2, <1>4, <1>5 DEF p2, v2

LEMMA ViewPhaseSources ==
  ASSUME NEW r, SameBooks(r), Verdict(r)' = Verdict(r)
  PROVE  View(r)' = [View(r) EXCEPT !.phase = Phase(r)', !.sources = Delivered(r)']
<1> DEFINE p == Phase(r)  v == Verdict(r)  s == Delivered(r)  b == Billed(r)  l == Logged(r)
           p2 == Phase(r)'  s2 == Delivered(r)'
           w1 == [View(r) EXCEPT !.phase = p2]
           w2 == [w1 EXCEPT !.sources = s2]
<1>1. View(r) = [phase |-> p, verdict |-> v, sources |-> s, billed |-> b, logged |-> l]
  BY DEF View, Billed, Logged
<1>2. View(r)' = [phase |-> p2, verdict |-> v, sources |-> s2, billed |-> b, logged |-> l]
  BY DEF View, Billed, Logged, SameBooks
<1> HIDE DEF p, v, s, b, l, p2, s2, w1, w2
<1>3. w1 = [phase |-> p2, verdict |-> v, sources |-> s, billed |-> b, logged |-> l]
  BY <1>1 DEF w1
<1>4. w2 = [phase |-> p2, verdict |-> v, sources |-> s2, billed |-> b, logged |-> l]
  BY <1>3 DEF w2
<1>5. [View(r) EXCEPT !.phase = p2, !.sources = s2] = w2
  BY DEF w1, w2
<1> QED BY <1>2, <1>4, <1>5 DEF p2, s2

LEMMA ViewAllThree ==
  ASSUME NEW r, SameBooks(r)
  PROVE  View(r)' = [View(r) EXCEPT !.phase = Phase(r)', !.verdict = Verdict(r)', !.sources = Delivered(r)']
<1> DEFINE p == Phase(r)  v == Verdict(r)  s == Delivered(r)  b == Billed(r)  l == Logged(r)
           p2 == Phase(r)'  v2 == Verdict(r)'  s2 == Delivered(r)'
           w1 == [View(r) EXCEPT !.phase = p2]
           w2 == [w1 EXCEPT !.verdict = v2]
           w3 == [w2 EXCEPT !.sources = s2]
<1>1. View(r) = [phase |-> p, verdict |-> v, sources |-> s, billed |-> b, logged |-> l]
  BY DEF View, Billed, Logged
<1>2. View(r)' = [phase |-> p2, verdict |-> v2, sources |-> s2, billed |-> b, logged |-> l]
  BY DEF View, Billed, Logged, SameBooks
<1> HIDE DEF p, v, s, b, l, p2, v2, s2, w1, w2, w3
<1>3. w1 = [phase |-> p2, verdict |-> v, sources |-> s, billed |-> b, logged |-> l]
  BY <1>1 DEF w1
<1>4. w2 = [phase |-> p2, verdict |-> v2, sources |-> s, billed |-> b, logged |-> l]
  BY <1>3 DEF w2
<1>5. w3 = [phase |-> p2, verdict |-> v2, sources |-> s2, billed |-> b, logged |-> l]
  BY <1>4 DEF w3
<1>6. [View(r) EXCEPT !.phase = p2, !.verdict = v2, !.sources = s2] = w3
  BY DEF w1, w2, w3
<1> QED BY <1>2, <1>5, <1>6 DEF p2, v2, s2

LEMMA ViewBilled ==
  ASSUME NEW r, NEW x, Billed(r)' = x,
         Phase(r)' = Phase(r), Verdict(r)' = Verdict(r), Delivered(r)' = Delivered(r), Logged(r)' = Logged(r)
  PROVE  View(r)' = [View(r) EXCEPT !.billed = x]
<1> DEFINE p == Phase(r)  v == Verdict(r)  s == Delivered(r)  b == Billed(r)  l == Logged(r)
<1>1. View(r) = [phase |-> p, verdict |-> v, sources |-> s, billed |-> b, logged |-> l]
  BY DEF View, Billed, Logged
<1>2. View(r)' = [phase |-> p, verdict |-> v, sources |-> s, billed |-> x, logged |-> l]
  BY DEF View, Billed, Logged
<1> HIDE DEF p, v, s, b, l
<1>3. [View(r) EXCEPT !.billed = x] = [phase |-> p, verdict |-> v, sources |-> s, billed |-> x, logged |-> l]
  BY <1>1
<1> QED BY <1>2, <1>3

LEMMA ViewLogged ==
  ASSUME NEW r, NEW x, Logged(r)' = x,
         Phase(r)' = Phase(r), Verdict(r)' = Verdict(r), Delivered(r)' = Delivered(r), Billed(r)' = Billed(r)
  PROVE  View(r)' = [View(r) EXCEPT !.logged = x]
<1> DEFINE p == Phase(r)  v == Verdict(r)  s == Delivered(r)  b == Billed(r)  l == Logged(r)
<1>1. View(r) = [phase |-> p, verdict |-> v, sources |-> s, billed |-> b, logged |-> l]
  BY DEF View, Billed, Logged
<1>2. View(r)' = [phase |-> p, verdict |-> v, sources |-> s, billed |-> b, logged |-> x]
  BY DEF View, Billed, Logged
<1> HIDE DEF p, v, s, b, l
<1>3. [View(r) EXCEPT !.logged = x] = [phase |-> p, verdict |-> v, sources |-> s, billed |-> b, logged |-> x]
  BY <1>1
<1> QED BY <1>2, <1>3

\* Nothing that is seen from outside changes.
LEMMA Unseen ==
  ASSUME NEW q, pc'[q] = pc[q] \/ {pc[q], pc'[q]} \cap {"idle", "lost"} = {},
         out'[q] = out[q], books'[q] = books[q]
  PROVE  View(q)' = View(q)
BY DEF View, Phase, Verdict, Delivered

\* What the client has got so far came from the current route.
LEMMA DeliveredFrom ==
  ASSUME NEW r, OutputAt(r)
  PROVE  Delivered(r) \subseteq {Route(r)}
BY DEF OutputAt, FromLastAttempt, Delivered

\* A step of r is a step of the promise, if its view of r is.
LEMMA OneView ==
  ASSUME NEW r \in Requests, Outside' = [Outside EXCEPT ![r] = View(r)']
  PROVE  View(r)' = View(r) => Outside' = Outside
BY DEF Outside

LEMMA AskSeen ==
  ASSUME TypeInv, NEW r \in Requests, OutputAt(r), BooksAt(r), Typed(r), Begin(r),
         Outside' = [Outside EXCEPT ![r] = View(r)']
  PROVE  Promise!Ask(r)
<1>1. pc[r] = "idle" /\ pc'[r] = "model" /\ out'[r] = out[r] /\ books'[r] = books[r]
  BY DEF Begin, Move, TypeInv, TypeOK
<1>2. out[r].ending = "none" /\ ~out[r].started
  BY <1>1 DEF TypeInv, Placed, PlacedAt, OutputAt, TypeOK, Outputs
<1>3. /\ Phase(r) = "idle" /\ Phase(r)' = "waiting"
      /\ Verdict(r)' = Verdict(r) /\ Delivered(r)' = Delivered(r)
  BY <1>1, <1>2 DEF Phase, Verdict, Delivered
<1>4. View(r).phase = "idle" /\ View(r)' = [View(r) EXCEPT !.phase = "waiting"]
  <2>1. SameBooks(r)
    BY <1>1 DEF SameBooks, Billed, Logged
  <2> QED BY <1>3, <2>1, ViewPhase, ViewFields
<1> QED BY <1>4 DEF Promise!Ask, Outside

LEMMA WriteSeen ==
  ASSUME RouterAssumption, TypeInv, NEW r \in Requests, OutputAt(r), OutputAt(r)', Typed(r),
         Emit(r), Outside' = [Outside EXCEPT ![r] = View(r)']
  PROVE  Promise!Write(r) \/ Outside' = Outside
<1>1. /\ pc[r] = "stream" /\ pc'[r] = "stream" /\ books'[r] = books[r] /\ Route(r)' = Route(r)
      /\ out[r].ending = "none"
  BY SameRoute DEF Emit, TypeInv, TypeOK, Placed, PlacedAt
<1> DEFINE w == [attempt |-> out[r].attempts, at |-> Route(r)]
<1>2. PICK s \in BOOLEAN :
        out'[r] = [out[r] EXCEPT !.wrote = out[r].wrote \cup {w}, !.started = out[r].started \/ s]
  BY DEF Emit, TypeInv, TypeOK
<1>3. /\ out'[r].ending = "none"
      /\ out'[r].started = (out[r].started \/ s)
      /\ out'[r].wrote = out[r].wrote \cup {w}
  BY <1>1, <1>2 DEF TypeInv, TypeOK, Outputs
<1>4. /\ Phase(r) \in {"waiting", "writing"}
      /\ Phase(r)' = (IF out'[r].started THEN "writing" ELSE "waiting")
      /\ Phase(r) = (IF out[r].started THEN "writing" ELSE "waiting")
      /\ Verdict(r)' = Verdict(r)
  BY <1>1, <1>3 DEF Phase, Verdict
<1>5. CASE out'[r].started
  <2>1. Delivered(r)' = {Route(r)}
    BY <1>1, <1>3, <1>5 DEF Delivered, OutputAt, FromLastAttempt
  <2>2. Delivered(r) \subseteq {Route(r)} /\ Route(r) \in Upstreams
    BY <1>1, DeliveredFrom, RouteType DEF TypeInv, Placed, PlacedAt, Chaining, Routing, OnRoute
  <2>3. View(r)' = [View(r) EXCEPT !.phase = "writing", !.sources = {Route(r)}]
    <3>1. SameBooks(r)
      BY <1>1 DEF SameBooks, Billed, Logged
    <3> QED BY <1>4, <1>5, <2>1, <3>1, ViewPhaseSources
  <2>4. View(r).phase \in {"waiting", "writing"} /\ View(r).sources \subseteq {Route(r)}
    BY <1>4, <2>2 DEF View
  <2> QED BY <2>2, <2>3, <2>4, ZenonT(60) DEF Promise!Write, Promise!Open, Outside
<1>6. CASE ~out'[r].started
  <2>1. Delivered(r)' = Delivered(r)
    BY <1>1, <1>3, <1>6 DEF Delivered
  <2>2. View(r)' = View(r)
    <3>1. Phase(r)' = Phase(r)
      BY <1>3, <1>4, <1>6
    <3> QED BY <1>1, <1>4, <2>1, <3>1 DEF View
  <2> QED BY <2>2, OneView
<1> QED BY <1>5, <1>6

LEMMA CompleteSeen ==
  ASSUME RouterAssumption, TypeInv, NEW r \in Requests, OutputAt(r), OutputAt(r)', Typed(r),
         Reply(r), Outside' = [Outside EXCEPT ![r] = View(r)']
  PROVE  Promise!Complete(r)
<1>1. /\ pc[r] = "reply" /\ pc'[r] = "usage" /\ books'[r] = books[r]
      /\ out[r].ending = "none"
  BY DEF Reply, Move, TypeInv, TypeOK, Placed, PlacedAt
<1>2. out'[r].ending = "complete" /\ out'[r].wrote = out[r].wrote
  BY DEF Reply, TypeInv, TypeOK, Outputs
<1>3. Phase(r) \in {"waiting", "writing"} /\ Phase(r)' = "closed" /\ Verdict(r)' = "complete"
  BY <1>1, <1>2 DEF Phase, Verdict
<1> DEFINE given == {u.at : u \in out[r].wrote}
<1>4. Delivered(r) \subseteq given /\ Delivered(r)' = given
  BY <1>1, <1>2 DEF Delivered
<1>5. given \in {{}} \cup {{s} : s \in Upstreams}
  <2>1. Route(r) \in Upstreams
    BY <1>1, RouteType DEF TypeInv, Placed, PlacedAt, Chaining, Routing, OnRoute
  <2>2. given \subseteq {Route(r)}
    BY DEF OutputAt, FromLastAttempt
  <2>3. given = {} \/ given = {Route(r)}
    BY <2>2
  <2> QED BY <2>1, <2>3
<1> HIDE DEF given
<1>6. View(r)' = [View(r) EXCEPT !.phase = "closed", !.verdict = "complete", !.sources = given]
  <2>1. SameBooks(r)
    BY <1>1 DEF SameBooks, Billed, Logged
  <2> QED BY <1>3, <1>4, <2>1, ViewAllThree
<1>7. View(r).phase \in {"waiting", "writing"} /\ View(r).sources \subseteq given
  BY <1>3, <1>4 DEF View
<1>8. Outside[r] = View(r)
  BY DEF Outside
<1>9. Outside' = [Outside EXCEPT ![r].phase = "closed", ![r].verdict = "complete",
                                 ![r].sources = given]
  <2>1. Outside' = [Outside EXCEPT ![r] = [Outside[r] EXCEPT !.phase = "closed",
                                             !.verdict = "complete", !.sources = given]]
    BY <1>6, <1>8
  <2> QED BY <2>1
<1> QED BY <1>5, <1>7, <1>8, <1>9 DEF Promise!Complete, Promise!Open

LEMMA ErrorSeen ==
  ASSUME TypeInv, NEW r \in Requests, OutputAt(r), OutputAt(r)', Typed(r),
         ReplyError(r), Outside' = [Outside EXCEPT ![r] = View(r)']
  PROVE  Promise!Refuse(r) \/ Promise!BreakOff(r)
<1>1. /\ pc[r] = "failed" /\ pc'[r] = "event" /\ books'[r] = books[r] /\ job'[r] = job[r]
      /\ out[r].ending = "none"
  BY DEF ReplyError, Move, TypeInv, TypeOK, Placed, PlacedAt
<1> DEFINE compact == att[r].err = "context" /\ job[r].mode # "openai"
<1>2. /\ out'[r].wrote = out[r].wrote
      /\ out'[r].started = (out[r].started \/ (compact /\ job[r].mode = "sse"))
      /\ out'[r].ending = IF compact THEN "compact"
                          ELSE IF out[r].started THEN "broken" ELSE "unavailable"
  BY DEF ReplyError, TypeInv, TypeOK, Outputs
<1>3. compact => out[r].wrote = {}
  BY <1>1 DEF OutputAt
<1> HIDE DEF compact
<1>4. /\ Phase(r) = (IF out[r].started THEN "writing" ELSE "waiting")
      /\ Phase(r)' = "closed" /\ Verdict(r)' = out'[r].ending
  BY <1>1, <1>2 DEF Phase, Verdict
<1>5. Delivered(r)' = Delivered(r)
  BY <1>1, <1>2, <1>3 DEF Delivered
<1> DEFINE ending == out'[r].ending
<1>6. View(r)' = [View(r) EXCEPT !.phase = "closed", !.verdict = ending]
  <2>1. SameBooks(r)
    BY <1>1 DEF SameBooks, Billed, Logged
  <2> QED BY <1>4, <1>5, <2>1, ViewPhaseVerdict
<1>7. View(r).phase = (IF out[r].started THEN "writing" ELSE "waiting")
  BY <1>4 DEF View
<1>8. out[r].started => out[r].wrote # {}
  BY <1>1 DEF OutputAt
<1>9. \/ ending = "broken" /\ out[r].started
      \/ ending \in {"compact", "unavailable"} /\ ~out[r].started
  BY <1>2, <1>3, <1>8
<1> HIDE DEF ending
<1> QED BY <1>6, <1>7, <1>9 DEF Promise!Refuse, Promise!BreakOff, Outside

\* A step of r that the outside does not see.
LEMMA QuietSteps ==
  ASSUME TypeInv, NEW r \in Requests, Typed(r),
         RouterStep(r) \/ TransportStep(r) \/ NetworkStep(r) \/ Cancel(r),
         ~Emit(r), ~Reply(r), ~ReplyError(r), ~WriteUsage(r), ~PublishEvent(r),
         ~StreamPanics(r)
  PROVE  View(r)' = View(r)
<1> USE DEF TypeInv, TypeOK, Typed, Move, keyStateVars, adminVars
<1>1. CASE Send(r)
  <2>1. /\ pc[r] = "send" /\ pc'[r] = "dial" /\ books'[r] = books[r]
        /\ out'[r] = [out[r] EXCEPT !.attempts = out[r].attempts + 1]
    BY <1>1 DEF Send
  <2>2. /\ out'[r].wrote = out[r].wrote /\ out'[r].started = out[r].started
        /\ out'[r].ending = out[r].ending
    BY <2>1 DEF Outputs
  <2>3. Phase(r)' = Phase(r) /\ Verdict(r)' = Verdict(r) /\ Delivered(r)' = Delivered(r)
    BY <2>1, <2>2 DEF Phase, Verdict, Delivered
  <2> QED BY <2>1, <2>3 DEF View
<1>2. CASE ~Send(r)
  <2>1. /\ out'[r] = out[r] /\ books'[r] = books[r]
        /\ pc'[r] = pc[r] \/ {pc[r], pc'[r]} \cap {"idle", "lost"} = {}
    BY <1>2, ZenonT(60) DEF RouterStep, TransportStep, NetworkStep, Reject, Resolve, Cancel,
       SkipProvider, LoadKeys, Hop, Exhausted, ReadStart, SkipCooling, PickKey, KeysExhausted,
       GiveUp, Refuse, SendCancelled, RateLimited, KeyFailed, KeylessFailed, Abort,
       Advance, CtxDone, HeaderTimeout, Dialed, TransportError, Fail, Answered200,
       AnsweredError, ErrorRead, StreamEnds, StreamBreaks
  <2> QED BY <2>1, Unseen
<1> QED BY <1>1, <1>2

LEMMA BillSeen ==
  ASSUME RouterAssumption, TypeInv, NEW r \in Requests, OutputAt(r), BooksAt(r), Typed(r),
         WriteUsage(r), Outside' = [Outside EXCEPT ![r] = View(r)']
  PROVE  Promise!Bill(r) \/ Outside' = Outside
<1>1. /\ pc[r] = "usage" /\ pc'[r] = "event" /\ out'[r] = out[r]
      /\ out[r].ending = "complete"
      /\ books[r].usage = <<>> /\ books[r].events = <<>>
  BY DEF WriteUsage, Move, TypeInv, TypeOK, BooksAt
<1>2. CASE books'[r] = books[r]
  BY <1>1, <1>2, Unseen, OneView
<1>3. CASE books'[r] # books[r]
  <2> DEFINE row == [at |-> Route(r), fallbacks |-> job[r].fallbacks]
             b == Billed(r)'
  <2>1. books'[r] = [books[r] EXCEPT !.usage = Append(<<>>, row)]
    BY <1>1, <1>3 DEF WriteUsage, TypeInv, TypeOK
  <2>2. row.at = Route(r)
    OBVIOUS
  <2> HIDE DEF row
  <2>3. books'[r].usage = <<row>> /\ books'[r].events = books[r].events
    BY <2>1 DEF TypeInv, TypeOK, Books
  <2>4. DOMAIN <<row>> = {1} /\ <<row>>[1] = row
    OBVIOUS
  <2>5. b = {Route(r)} /\ Billed(r) = {}
    BY <1>1, <2>2, <2>3, <2>4 DEF Billed
  <2>6. Phase(r)' = Phase(r) /\ Verdict(r)' = Verdict(r) /\ Delivered(r)' = Delivered(r)
        /\ Logged(r)' = Logged(r) /\ ~Logged(r) /\ Verdict(r) = "complete"
    BY <1>1, <2>3 DEF Phase, Verdict, Delivered, Logged
  <2>7. View(r)' = [View(r) EXCEPT !.billed = b]
    BY <2>6, ViewBilled
  <2>8. Route(r) \in Upstreams /\ Delivered(r) \subseteq {Route(r)}
    BY <1>1, RouteType, DeliveredFrom DEF TypeInv, Placed, PlacedAt, Chaining, Routing, OnRoute
  <2> HIDE DEF b
  <2>9. Outside[r] = View(r)
    BY DEF Outside
  <2>10. /\ Outside[r].verdict = "complete" /\ Outside[r].billed = {} /\ ~Outside[r].logged
         /\ Outside[r].sources \subseteq {Route(r)}
    BY <2>5, <2>6, <2>8, <2>9, ViewFields
  <2>11. Outside' = [Outside EXCEPT ![r].billed = {Route(r)}]
    BY <2>5, <2>7, <2>9
  <2> QED BY <2>8, <2>10, <2>11 DEF Promise!Bill
<1> QED BY <1>2, <1>3

LEMMA LogSeen ==
  ASSUME TypeInv, NEW r \in Requests, BooksAt(r), Typed(r),
         PublishEvent(r), Outside' = [Outside EXCEPT ![r] = View(r)']
  PROVE  Promise!Log(r)
<1> DEFINE from == IF out[r].ending = "complete" THEN {Route(r)} ELSE {}
           event == [status |-> Status(out[r].ending), from |-> from]
           l == Logged(r)'
<1>1. /\ pc[r] = "event" /\ pc'[r] = "done" /\ out'[r] = out[r]
      /\ out[r].ending \notin {"none", "panicked"} /\ out[r].ending \in Endings
      /\ books[r].events = <<>>
      /\ books'[r] = [books[r] EXCEPT !.events = Append(books[r].events, event)]
  BY DEF PublishEvent, Move, TypeInv, TypeOK, BooksAt, Outputs
<1> HIDE DEF event
<1>2. Append(<<>>, event) = <<event>> /\ <<event>> # <<>>
  OBVIOUS
<1>3. books'[r].usage = books[r].usage /\ books'[r].events = <<event>>
  BY <1>1, <1>2 DEF TypeInv, TypeOK, Books
<1>4. /\ Phase(r)' = Phase(r) /\ Verdict(r)' = Verdict(r) /\ Delivered(r)' = Delivered(r)
      /\ Billed(r)' = Billed(r) /\ Phase(r) = "closed" /\ Verdict(r) # "lost"
  BY <1>1, <1>3 DEF Phase, Verdict, Delivered, Billed, Endings
<1>5. l = TRUE /\ Logged(r) = FALSE
  BY <1>1, <1>2, <1>3 DEF Logged
<1>6. View(r)' = [View(r) EXCEPT !.logged = l]
  BY <1>4, ViewLogged
<1>7. Outside[r] = View(r)
  BY DEF Outside
<1> HIDE DEF l
<1> QED BY <1>4, <1>5, <1>6, <1>7, ViewFields DEF Promise!Log

LEMMA PanicSeen ==
  ASSUME TypeInv, NEW r \in Requests, Typed(r), StreamPanics(r),
         Outside' = [Outside EXCEPT ![r] = View(r)']
  PROVE  Promise!Lose(r)
<1>1. /\ pc[r] = "stream" /\ pc'[r] = "done" /\ books'[r] = books[r]
      /\ out[r].ending = "none"
  BY DEF StreamPanics, Move, TypeInv, TypeOK, Placed, PlacedAt
<1>2. /\ out'[r].wrote = out[r].wrote /\ out'[r].started = out[r].started
      /\ out'[r].ending = "panicked"
  BY DEF StreamPanics, TypeInv, TypeOK, Outputs
<1>3. Phase(r) \in {"waiting", "writing"} /\ Phase(r)' = "closed" /\ Verdict(r)' = "lost"
  BY <1>1, <1>2 DEF Phase, Verdict
<1>4. Delivered(r)' = Delivered(r)
  BY <1>1, <1>2 DEF Delivered
<1>5. View(r)' = [View(r) EXCEPT !.phase = "closed", !.verdict = "lost"]
  <2>1. SameBooks(r)
    BY <1>1 DEF SameBooks, Billed, Logged
  <2> QED BY <1>3, <1>4, <2>1, ViewPhaseVerdict
<1>6. Outside[r] = View(r) /\ View(r).phase = Phase(r)
  BY ViewFields DEF Outside
<1> QED BY <1>3, <1>5, <1>6 DEF Promise!Lose, Promise!Open

LEMMA CrashSeen ==
  ASSUME TypeInv, BooksInv, Restart
  PROVE  Promise!Crash
<1>1. ASSUME NEW r \in Requests
      PROVE  View(r)' = IF Promise!Open(r)
                        THEN [View(r) EXCEPT !.phase = "closed", !.verdict = "lost"]
                        ELSE View(r)
  <2>1. /\ out'[r] = out[r] /\ books'[r] = books[r]
        /\ pc'[r] = IF InFlight(r) THEN "lost" ELSE pc[r]
    BY DEF Restart, TypeInv, TypeOK
  <2>2. Outside[r] = View(r)
    BY DEF Outside
  <2>3. pc[r] = "done" => out[r].ending # "none"
    BY DEF BooksInv, BooksAt
  <2>4. Promise!Open(r) <=> InFlight(r) /\ out[r].ending = "none"
    BY <2>2, <2>3, ViewFields DEF Promise!Open, Phase, InFlight
  <2>5. SameBooks(r) /\ Delivered(r)' = Delivered(r)
    BY <2>1 DEF SameBooks, Billed, Logged, Delivered
  <2>6. CASE Promise!Open(r)
    <3>1. Phase(r)' = "closed" /\ Verdict(r)' = "lost"
      BY <2>1, <2>4, <2>6 DEF Phase, Verdict
    <3> QED BY <2>5, <2>6, <3>1, ViewPhaseVerdict
  <2>7. CASE ~Promise!Open(r)
    <3>1. Phase(r)' = Phase(r) /\ Verdict(r)' = Verdict(r)
      BY <2>1, <2>4, <2>7 DEF Phase, Verdict, InFlight
    <3>2. View(r)' = View(r)
      BY <2>1, <2>5, <3>1 DEF View
    <3> QED BY <2>7, <3>2
  <2> QED BY <2>6, <2>7
<1>2. \A r \in Requests : Outside[r] = View(r)
  BY DEF Outside
<1>3. Outside' = [r \in Requests |-> View(r)']
  BY SMTT(30) DEF Outside
<1> QED BY <1>1, <1>2, <1>3 DEF Promise!Crash

LEMMA StepSeen ==
  ASSUME RouterAssumption, CooldownAssumption, Inv, Inv', [Next]_vars
  PROVE  Promise!Next \/ Outside' = Outside
<1>1. ASSUME NEW r \in Requests,
             Begin(r) \/ RouterStep(r) \/ TransportStep(r) \/ NetworkStep(r) \/ Cancel(r)
      PROVE  Promise!Next \/ Outside' = Outside
  <2>1. Local(r) /\ Typed(r) /\ TypeInv
    BY <1>1, LocalSteps, TypedSteps DEF Inv, TypeInv
  <2>2. OutputAt(r) /\ OutputAt(r)' /\ BooksAt(r)
    BY DEF Inv, OutputInv, BooksInv
  <2>3. ASSUME NEW q \in Requests, q # r PROVE View(q)' = View(q)
    <3>1. pc'[q] = pc[q] /\ out'[q] = out[q] /\ books'[q] = books[q]
      BY <2>1, <2>3 DEF Local, TypeInv, TypeOK
    <3> QED BY <3>1, Unseen
  <2>4. Outside' = [Outside EXCEPT ![r] = View(r)']
    BY <2>3 DEF Outside
  <2>5. CASE Begin(r)
    BY <2>1, <2>2, <2>4, <2>5, AskSeen DEF Promise!Next
  <2>6. CASE Emit(r)
    BY <2>1, <2>2, <2>4, <2>6, WriteSeen DEF Promise!Next
  <2>7. CASE Reply(r)
    BY <2>1, <2>2, <2>4, <2>7, CompleteSeen DEF Promise!Next
  <2>8. CASE ReplyError(r)
    BY <2>1, <2>2, <2>4, <2>8, ErrorSeen DEF Promise!Next
  <2>9. CASE WriteUsage(r)
    BY <2>1, <2>2, <2>4, <2>9, BillSeen DEF Promise!Next
  <2>10. CASE PublishEvent(r)
    BY <2>1, <2>2, <2>4, <2>10, LogSeen DEF Promise!Next
  <2>11. CASE StreamPanics(r)
    BY <2>1, <2>2, <2>4, <2>11, PanicSeen DEF Promise!Next
  <2>12. CASE ~Begin(r) /\ ~Emit(r) /\ ~Reply(r) /\ ~ReplyError(r) /\ ~WriteUsage(r)
              /\ ~PublishEvent(r) /\ ~StreamPanics(r)
    BY <1>1, <2>1, <2>4, <2>12, QuietSteps, OneView
  <2> QED BY <2>5, <2>6, <2>7, <2>8, <2>9, <2>10, <2>11, <2>12
<1>2. ASSUME pc' = pc, out' = out, books' = books PROVE Outside' = Outside
  BY <1>2 DEF Outside, View, Phase, Verdict, Delivered
<1>3. CASE Restart
  BY <1>3, CrashSeen DEF Inv, Promise!Next
<1> QED BY <1>1, <1>2, <1>3 DEF Next, vars, routerVars, AddProviderKey, DeleteProviderKey, Tick

LEMMA InitSeen == ASSUME Init PROVE Promise!Init
<1>1. ASSUME NEW r \in Requests
      PROVE  View(r) = [phase |-> "idle", verdict |-> "none", sources |-> {}, billed |-> {},
                        logged |-> FALSE]
  <2>1. /\ pc[r] = "idle" /\ out[r].ending = "none" /\ ~out[r].started
        /\ books[r].usage = <<>> /\ books[r].events = <<>>
    BY DEF Init
  <2>2. Phase(r) = "idle" /\ Verdict(r) = "none" /\ Delivered(r) = {}
    BY <2>1 DEF Phase, Verdict, Delivered
  <2>3. Billed(r) = {} /\ Logged(r) = FALSE
    BY <2>1 DEF Billed, Logged
  <2> QED BY <2>2, <2>3 DEF View, Billed, Logged
<1> QED BY <1>1 DEF Promise!Init, Outside

(***************************************************************************)
(* Router implements OneAnswer: seen from outside, every request is asked, *)
(* written by one upstream, closed once, billed to that upstream at most   *)
(* once and logged at most once, for every number of requests, every       *)
(* configuration, and whatever upstreams, time and restarts do.            *)
(***************************************************************************)
THEOREM RouterKeepsPromise == Spec => KeepsPromise
<1>1. Init => Promise!Init
  BY InitSeen
<1>2. Inv /\ Inv' /\ [Next]_vars => [Promise!Next]_Outside
  BY StepSeen, RouterAssumption, CooldownAssumption
<1> QED BY <1>1, <1>2, InvCorrect, PTL DEF Spec, KeepsPromise, Promise!Spec

-------------------------------------------------------------------------------
(* What FallbackCount of a usage row accounts for.                             *)

\* HTTP requests and hops that job[r].fallbacks has to account for.
Tries(r) == out[r].attempts + job[r].depth

\* While an attempt runs its failures are counted in att[r].fails only, and the
\* request under way, or the one that got the answer, is counted nowhere.
CountAt(r) ==
  /\ pc[r] = "idle" => out[r].attempts = 0
  /\ pc[r] \in {"model", "chain"} => job[r].fallbacks >= Tries(r)
  /\ pc[r] \in {"start", "key", "send"} => job[r].fallbacks + att[r].fails >= Tries(r)
  /\ pc[r] \in {"dial", "wait", "body", "err", "stream", "won"} =>
       job[r].fallbacks + att[r].fails + 1 >= Tries(r)
  /\ pc[r] \in {"reply", "usage"} => job[r].fallbacks + 1 >= Tries(r)
  /\ pc[r] \in {"send", "dial", "wait", "body", "stream", "err"} /\ ~Keyed(r) => att[r].fails = 0
  /\ books[r].usage # <<>> => books[r].usage[1].fallbacks + 1 >= Tries(r)

CountInv == \A r \in Requests : CountAt(r)

LEMMA CountSame ==
  ASSUME NEW q, CountAt(q), pc'[q] \in {pc[q], "lost"}, job'[q] = job[q],
         out'[q].attempts = out[q].attempts, books'[q].usage = books[q].usage,
         att'[q].keys = att[q].keys, att'[q].fails = att[q].fails
  PROVE  CountAt(q)'
BY DEF CountAt, Tries, Keyed

\* The numbers are numbers.
LEMMA Numbers ==
  ASSUME TypeInv, NEW r \in Requests, Typed(r)
  PROVE  /\ out[r].attempts \in Nat /\ out'[r].attempts \in Nat
         /\ att[r].fails \in Nat /\ att'[r].fails \in Nat
         /\ pc[r] # "idle" => job[r].depth \in Nat /\ job[r].fallbacks \in Nat
BY DEF TypeInv, TypeOK, Typed, Placed, PlacedAt, Outputs, Attempts, Jobs

\* Steps that count nothing and stay between two places with the same bound.
LEMMA CountQuiet ==
  ASSUME TypeInv, NEW r \in Requests, CountAt(r), Typed(r), books[r].usage = <<>>,
         books'[r] = books[r], out'[r].attempts = out[r].attempts,
         job'[r].depth = job[r].depth, job'[r].fallbacks = job[r].fallbacks,
         att'[r].keys = att[r].keys, att'[r].fails = att[r].fails,
         \/ pc[r] \in {"model", "chain"} /\ pc'[r] \in {"model", "chain", "failed"}
         \/ pc[r] \in {"start", "key"} /\ pc'[r] \in {"start", "key"}
         \/ pc[r] = "key" /\ pc'[r] = "send" /\ Keyed(r)
         \/ pc[r] = "send" /\ pc'[r] = "err"
         \/ pc[r] \in {"dial", "wait"} /\ pc'[r] \in {"wait", "body", "err", "stream"}
         \/ pc[r] = "stream" /\ pc'[r] \in {"stream", "won", "done"}
         \/ pc[r] = "err" /\ pc'[r] = "failed"
         \/ pc[r] \in {"reply", "usage"} /\ pc'[r] = "usage"
         \/ pc[r] = "failed" /\ pc'[r] = "event"
  PROVE  CountAt(r)'
BY Numbers DEF CountAt, Tries, Keyed

\* Giving up a provider: its n key failures, and itself.
LEMMA CountGiveUp ==
  ASSUME TypeInv, NEW r \in Requests, CountAt(r), Typed(r), books[r].usage = <<>>,
         NEW n \in Nat, GiveUp(r, n), job[r] \in Jobs,
         job[r].fallbacks + n + 1 >= Tries(r)
  PROVE  CountAt(r)'
<1> DEFINE p == job[r].prov + 1
           f == job[r].fallbacks + n + 1
<1>1. job'[r] = [job[r] EXCEPT !.prov = p, !.fallbacks = f]
  BY DEF GiveUp, TypeInv, TypeOK
<1>2. f >= Tries(r) /\ p \in Nat /\ f \in Nat
  BY DEF Jobs
<1> HIDE DEF p, f
<1>3. job'[r].fallbacks = f /\ job'[r].depth = job[r].depth
  BY <1>1 DEF Jobs
<1>4. pc'[r] = "chain" /\ out'[r] = out[r] /\ books'[r] = books[r]
  BY DEF GiveUp, TypeInv, TypeOK
<1> QED BY <1>2, <1>3, <1>4, Numbers DEF CountAt, Tries

\* The next key: one more failure, one request less under way.
LEMMA CountNextKey ==
  ASSUME TypeInv, NEW r \in Requests, CountAt(r), Typed(r), books[r].usage = <<>>,
         pc[r] = "err", pc'[r] = "key", NEW index \in Nat,
         att'[r] = NextKey(att[r], index),
         job'[r] = job[r], out'[r] = out[r], books'[r] = books[r]
  PROVE  CountAt(r)'
<1> DEFINE f == att[r].fails + 1
           a == Pass(att[r], index)
<1>1. att[r] \in Attempts /\ a \in Attempts
  BY PassType DEF TypeInv, TypeOK
<1>2. a.fails = att[r].fails
  BY <1>1 DEF Pass, Attempts
<1>3. att'[r] = [a EXCEPT !.err = "none", !.after = 0, !.fails = f]
  BY <1>2 DEF NextKey
<1>4. f \in Nat
  BY <1>1, SMTT(30) DEF Attempts
<1> HIDE DEF a
<1>5. att'[r].fails = f
  <2> HIDE DEF f
  <2> QED BY <1>1, <1>3 DEF Attempts
<1> QED BY <1>5, Numbers DEF CountAt, Tries

LEMMA CountSteps ==
  ASSUME RouterAssumption, TypeInv, NEW r \in Requests, BooksAt(r), CountAt(r), Typed(r),
         Begin(r) \/ RouterStep(r) \/ TransportStep(r) \/ NetworkStep(r) \/ Cancel(r)
  PROVE  CountAt(r)'
<1> USE DEF TypeInv, TypeOK, Typed, Move, keyStateVars, adminVars
<1>1. PlacedAt(r)
  BY DEF Placed
<1>2. pc[r] # "idle" => job[r] \in Jobs
  BY <1>1 DEF PlacedAt
<1>3. pc[r] \notin {"event", "done", "lost"} => books[r].usage = <<>>
  BY DEF BooksAt
<1>4. att[r] \in Attempts /\ (Keyed(r) => KeyIndex(r) \in Nat)
  BY KeyIndexType
<1>5. out[r] \in Outputs /\ out'[r] \in Outputs
  OBVIOUS
<1>6. /\ out[r].attempts \in Nat /\ att[r].fails \in Nat
      /\ pc[r] # "idle" => job[r].depth \in Nat /\ job[r].fallbacks \in Nat
  BY Numbers
<1>Begin. CASE Begin(r)
  <2>1. job'[r].depth = 0 /\ job'[r].fallbacks = 0
    BY <1>Begin DEF Begin
  <2> QED BY <1>Begin, <1>3, <2>1, Numbers DEF Begin, CountAt, Tries
<1>Reject. CASE Reject(r)
  BY <1>Reject, <1>3, CountQuiet DEF Reject, Known
<1>Resolve. CASE Resolve(r)
  <2> DEFINE m == Bare[job[r].model]
  <2>1. job'[r] = [job[r] EXCEPT !.model = m, !.prov = 1]
    BY <1>Resolve DEF Resolve
  <2> HIDE DEF m
  <2>2. job'[r].depth = job[r].depth /\ job'[r].fallbacks = job[r].fallbacks
    BY <1>2, <1>Resolve, <2>1 DEF Resolve, Jobs
  <2> QED BY <1>Resolve, <1>3, <2>2, CountQuiet DEF Resolve, Known
<1>SkipProvider. CASE SkipProvider(r)
  BY <1>SkipProvider, <1>2, <1>3, CountQuiet DEF SkipProvider, Jobs
<1>LoadKeys. CASE LoadKeys(r)
  <2> DEFINE rows == providerKeys[Route(r).provider]
             budget == IF Timed(r) THEN AttemptTimeout(r) ELSE 0
  <2>1. PICK n \in 0..Len(rows) :
          /\ att' = [att EXCEPT ![r] = [NoAttempt EXCEPT !.keys = SubSeq(rows, 1, n),
                                                         !.budget = budget]]
          /\ pc' = [pc EXCEPT ![r] = IF n = 0 THEN "send" ELSE "start"]
    BY <1>LoadKeys DEF LoadKeys
  <2> HIDE DEF rows, budget
  <2>2. att'[r].fails = 0
    BY <2>1 DEF NoAttempt
  <2>3. /\ pc[r] = "chain" /\ pc'[r] \in {"send", "start"}
        /\ job'[r] = job[r] /\ out'[r] = out[r] /\ books'[r] = books[r]
    BY <1>LoadKeys, <2>1 DEF LoadKeys
  <2>4. job[r].fallbacks + 0 >= Tries(r)
    BY <1>2, <2>3 DEF CountAt, Jobs
  <2> QED BY <1>3, <2>2, <2>3, <2>4 DEF CountAt, Tries
<1>Hop. CASE Hop(r)
  <2> DEFINE m == ModelConfig(r).fallback_to
             d == job[r].depth + 1
             f == job[r].fallbacks + 1
  <2>1. job'[r] = [job[r] EXCEPT !.model = m, !.depth = d, !.fallbacks = f]
    BY <1>Hop DEF Hop
  <2>2. job[r] \in Jobs
    BY <1>Hop, <1>2 DEF Hop
  <2> HIDE DEF m
  <2>3. job'[r].depth = d /\ job'[r].fallbacks = f
    <3> HIDE DEF d, f
    <3> QED BY <2>1, <2>2 DEF Jobs
  <2>4. /\ pc[r] = "chain" /\ pc'[r] = "model"
        /\ out'[r] = out[r] /\ books'[r] = books[r]
    BY <1>Hop DEF Hop
  <2>5. job[r].fallbacks >= Tries(r)
    BY <2>4 DEF CountAt
  <2>6. f >= out[r].attempts + d
    BY <1>6, <2>4, <2>5 DEF Tries
  <2> HIDE DEF f, d
  <2> QED BY <1>3, <2>3, <2>4, <2>6 DEF CountAt, Tries
<1>Exhausted. CASE Exhausted(r)
  BY <1>Exhausted, <1>3, CountQuiet DEF Exhausted
<1>ReadStart. CASE ReadStart(r)
  <2> DEFINE s == StartIdx(Route(r).provider, Len(att[r].keys))
  <2>1. att'[r] = [att[r] EXCEPT !.start = s]
    BY <1>ReadStart DEF ReadStart
  <2> HIDE DEF s
  <2>2. att'[r].keys = att[r].keys /\ att'[r].fails = att[r].fails
    BY <1>4, <2>1 DEF Attempts
  <2> QED BY <1>ReadStart, <1>3, <2>2, CountQuiet DEF ReadStart
<1>SkipCooling. CASE SkipCooling(r)
  <2> DEFINE n == att[r].i + 1
             S == att[r].seen \cup {KeyIndex(r)}
  <2>1. att'[r] = [att[r] EXCEPT !.i = n, !.seen = S]
    BY <1>SkipCooling DEF SkipCooling, Pass
  <2> HIDE DEF n, S
  <2>2. att'[r].keys = att[r].keys /\ att'[r].fails = att[r].fails
    BY <1>4, <2>1 DEF Attempts
  <2> QED BY <1>SkipCooling, <1>3, <2>2, CountQuiet DEF SkipCooling
<1>PickKey. CASE PickKey(r)
  BY <1>PickKey, <1>1, <1>3, CountQuiet DEF PickKey, PlacedAt
<1>KeysExhausted. CASE KeysExhausted(r)
  <2>1. pc[r] = "key" /\ GiveUp(r, att[r].fails)
    BY <1>KeysExhausted DEF KeysExhausted
  <2>2. job[r].fallbacks + att[r].fails + 1 >= Tries(r)
    BY <1>6, <2>1 DEF CountAt, Tries
  <2> QED BY <1>2, <1>3, <2>1, <2>2, CountGiveUp, Numbers
<1>Refuse. CASE Refuse(r)
  <2>1. att'[r].keys = att[r].keys /\ att'[r].fails = att[r].fails
    BY <1>Refuse, <1>4 DEF Refuse, Attempts
  <2> QED BY <1>Refuse, <1>3, <2>1, CountQuiet DEF Refuse
<1>SendCancelled. CASE SendCancelled(r)
  <2>1. att'[r].keys = att[r].keys /\ att'[r].fails = att[r].fails
    BY <1>SendCancelled, <1>4 DEF SendCancelled, Attempts
  <2> QED BY <1>SendCancelled, <1>3, <2>1, CountQuiet DEF SendCancelled
<1>Send. CASE Send(r)
  <2>1. att'[r].keys = att[r].keys /\ att'[r].fails = att[r].fails
    BY <1>Send, <1>4 DEF Send, Attempts
  <2>2. out'[r].attempts = out[r].attempts + 1
    BY <1>Send, <1>5 DEF Send, Outputs
  <2>3. /\ pc[r] = "send" /\ pc'[r] = "dial"
        /\ job'[r] = job[r] /\ books'[r] = books[r]
    BY <1>Send DEF Send
  <2>4. job[r].fallbacks + att[r].fails >= Tries(r)
    BY <2>3 DEF CountAt
  <2>5. job[r].fallbacks + att[r].fails + 1 >= (out[r].attempts + 1) + job[r].depth
    BY <1>6, <2>3, <2>4 DEF Tries
  <2> QED BY <1>3, <2>1, <2>2, <2>3, <2>5 DEF CountAt, Tries, Keyed
<1>Fail. ASSUME NEW kind, NEW after, Fail(r, kind, after), pc[r] \in {"dial", "wait", "body", "stream"}
         PROVE  CountAt(r)'
  <2>1. att'[r] = [att[r] EXCEPT !.err = kind, !.after = after]
    BY <1>Fail DEF Fail
  <2>2. att'[r].keys = att[r].keys /\ att'[r].fails = att[r].fails
    BY <1>4, <2>1 DEF Attempts
  <2>3. /\ pc'[r] = "err" /\ job'[r] = job[r] /\ out'[r] = out[r] /\ books'[r] = books[r]
    BY <1>Fail DEF Fail
  <2>4. ~Keyed(r) => att[r].fails = 0
    BY <1>Fail DEF CountAt
  <2> QED BY <1>Fail, <1>3, <2>2, <2>3, <2>4 DEF CountAt, Tries, Keyed
<1>RateLimited. CASE RateLimited(r)
  BY <1>RateLimited, <1>3, <1>4, CountNextKey DEF RateLimited
<1>KeyFailed. CASE KeyFailed(r)
  BY <1>KeyFailed, <1>3, <1>4, CountNextKey DEF KeyFailed
<1>KeylessFailed. CASE KeylessFailed(r)
  BY <1>KeylessFailed, <1>2, <1>3, CountGiveUp, Numbers DEF KeylessFailed, CountAt, Tries, Jobs
<1>Abort. CASE Abort(r)
  BY <1>Abort, <1>3, CountQuiet DEF Abort
<1>Dialed. CASE Dialed(r)
  BY <1>Dialed, <1>3, CountQuiet DEF Dialed
<1>TransportError. CASE TransportError(r)
  BY <1>TransportError, <1>Fail DEF TransportError
<1>HeaderTimeout. CASE HeaderTimeout(r)
  BY <1>HeaderTimeout, <1>Fail DEF HeaderTimeout
<1>CtxDone. CASE CtxDone(r)
  BY <1>CtxDone, <1>Fail DEF CtxDone
<1>Answered200. CASE Answered200(r)
  BY <1>Answered200, <1>3, CountQuiet DEF Answered200
<1>AnsweredError. CASE AnsweredError(r)
  <2>1. PICK status \in ErrorStatuses, after \in Nat, stage \in {"body", "err"} :
          /\ pc' = [pc EXCEPT ![r] = stage]
          /\ att' = [att EXCEPT ![r].err = StatusError(status, ProviderConfig(r).convention),
                                ![r].after = after]
    BY <1>AnsweredError, ErrorAnswer
  <2>2. att'[r].keys = att[r].keys /\ att'[r].fails = att[r].fails
    BY <1>4, <2>1 DEF Attempts
  <2>3. /\ pc[r] = "wait" /\ pc'[r] \in {"body", "err"}
        /\ job'[r] = job[r] /\ out'[r] = out[r] /\ books'[r] = books[r]
    BY <1>AnsweredError DEF AnsweredError
  <2> QED BY <1>3, <2>2, <2>3, CountQuiet
<1>ErrorRead. CASE ErrorRead(r)
  BY <1>ErrorRead, <1>Fail DEF ErrorRead
<1>StreamPanics. CASE StreamPanics(r)
  <2>1. out'[r].attempts = out[r].attempts
    BY <1>StreamPanics, <1>5 DEF StreamPanics, Outputs
  <2> QED BY <1>StreamPanics, <1>3, <2>1, CountQuiet DEF StreamPanics
<1>Emit. CASE Emit(r)
  <2>1. PICK starts \in BOOLEAN :
          out'[r] = [out[r] EXCEPT
                       !.wrote = @ \cup {[attempt |-> out[r].attempts, at |-> Route(r)]},
                       !.started = @ \/ starts]
    BY <1>Emit DEF Emit
  <2>2. out'[r].attempts = out[r].attempts
    <3> DEFINE w == out[r].wrote \cup {[attempt |-> out[r].attempts, at |-> Route(r)]}
               s == out[r].started \/ starts
    <3>1. out'[r] = [out[r] EXCEPT !.wrote = w, !.started = s]
      BY <2>1
    <3> HIDE DEF w, s
    <3> QED BY <1>5, <3>1 DEF Outputs
  <2> QED BY <1>Emit, <1>3, <2>2, CountQuiet DEF Emit
<1>StreamEnds. CASE StreamEnds(r)
  BY <1>StreamEnds, <1>3, CountQuiet DEF StreamEnds
<1>StreamBreaks. CASE StreamBreaks(r)
  BY <1>StreamBreaks, <1>Fail DEF StreamBreaks
<1>Advance. CASE Advance(r)
  <2>1. job'[r].fallbacks = job[r].fallbacks + att[r].fails /\ job'[r].depth = job[r].depth
    BY <1>Advance, <1>2 DEF Advance, Jobs
  <2> QED BY <1>Advance, <1>2, <1>3, <2>1, Numbers DEF Advance, CountAt, Tries
<1>Reply. CASE Reply(r)
  <2>1. out'[r].attempts = out[r].attempts
    BY <1>Reply, <1>5 DEF Reply, Outputs
  <2> QED BY <1>Reply, <1>3, <2>1, CountQuiet DEF Reply
<1>ReplyError. CASE ReplyError(r)
  <2>1. out'[r].attempts = out[r].attempts
    BY <1>ReplyError, <1>5 DEF ReplyError, Outputs
  <2> QED BY <1>ReplyError, <1>3, <2>1, CountQuiet DEF ReplyError
<1>WriteUsage. CASE WriteUsage(r)
  <2> DEFINE row == [at |-> Route(r), fallbacks |-> job[r].fallbacks]
  <2>1. books'[r].usage \in {<<>>, <<row>>}
    <3>1. books[r].usage = <<>> /\ books[r] \in Books
      BY <1>WriteUsage, <1>3 DEF WriteUsage
    <3>2. books'[r] = books[r] \/ books'[r] = [books[r] EXCEPT !.usage = Append(@, row)]
      BY <1>WriteUsage DEF WriteUsage
    <3> HIDE DEF row
    <3>3. Append(<<>>, row) = <<row>>
      OBVIOUS
    <3> QED BY <3>1, <3>2, <3>3 DEF Books
  <2>2. <<row>>[1] = row /\ row.fallbacks = job[r].fallbacks
    OBVIOUS
  <2> HIDE DEF row
  <2>3. books'[r].usage # <<>> => books'[r].usage[1].fallbacks = job[r].fallbacks
    BY <2>1, <2>2
  <2> QED BY <1>WriteUsage, <2>3 DEF WriteUsage, CountAt, Tries
<1>PublishEvent. CASE PublishEvent(r)
  <2>1. books'[r].usage = books[r].usage
    BY <1>PublishEvent DEF PublishEvent, Books
  <2> QED BY <1>PublishEvent, <2>1 DEF PublishEvent, CountAt, Tries
<1>Cancel. CASE Cancel(r)
  BY <1>Cancel, CountSame DEF Cancel
<1> QED BY <1>Begin, <1>Reject, <1>Resolve, <1>SkipProvider, <1>LoadKeys, <1>Hop, <1>Exhausted, <1>ReadStart, <1>SkipCooling, <1>PickKey, <1>KeysExhausted, <1>Refuse, <1>SendCancelled, <1>Send, <1>RateLimited, <1>KeyFailed, <1>KeylessFailed, <1>Abort, <1>Advance, <1>Reply, <1>ReplyError, <1>WriteUsage, <1>PublishEvent, <1>Dialed, <1>TransportError, <1>HeaderTimeout, <1>CtxDone, <1>Answered200, <1>AnsweredError, <1>Emit, <1>StreamEnds, <1>StreamBreaks, <1>ErrorRead, <1>StreamPanics, <1>Cancel DEF RouterStep, TransportStep, NetworkStep

\* Time changes no count.
LEMMA TickCounts ==
  ASSUME TypeOK, Tick, NEW q \in Requests
  PROVE  att'[q].fails = att[q].fails
<1> DEFINE b == IF att[q].budget >= 0 THEN att[q].budget - 1 ELSE att[q].budget
           w == IF pc[q] = "wait" THEN att[q].wait - 1 ELSE att[q].wait
<1>1. att'[q] = att[q] \/ att'[q] = [att[q] EXCEPT !.budget = b, !.wait = w]
  BY DEF Tick
<1> HIDE DEF b, w
<1> QED BY <1>1 DEF TypeOK, Attempts

LEMMA CountStep ==
  ASSUME RouterAssumption, CooldownAssumption, Inv, CountInv, [Next]_vars
  PROVE  CountInv'
<1> USE DEF CountInv, Inv, BooksInv
<1>1. ASSUME NEW r \in Requests,
             Begin(r) \/ RouterStep(r) \/ TransportStep(r) \/ NetworkStep(r) \/ Cancel(r)
      PROVE  CountInv'
  <2>1. Local(r) /\ Typed(r)
    BY <1>1, LocalSteps, TypedSteps DEF TypeInv
  <2>2. CountAt(r)'
    BY <1>1, <2>1, CountSteps
  <2>3. ASSUME NEW q \in Requests, q # r PROVE CountAt(q)'
    BY <2>1, <2>3, CountSame DEF TypeInv, TypeOK, Local
  <2> QED BY <2>2, <2>3
<1>2. ASSUME NEW p \in Providers, NEW k \in Keys, AddProviderKey(p, k) PROVE CountInv'
  BY <1>2, CountSame DEF AddProviderKey, routerVars
<1>3. ASSUME NEW p \in Providers, NEW i \in 1..Len(providerKeys[p]), DeleteProviderKey(p, i)
      PROVE  CountInv'
  BY <1>3, CountSame DEF DeleteProviderKey, routerVars
<1>4. CASE Tick
  BY <1>4, CountSame, TickEffect, TickCounts DEF Tick, TypeInv
<1>5. CASE Restart
  BY <1>5, CountSame DEF Restart, TypeInv, TypeOK
<1>6. CASE UNCHANGED vars
  BY <1>6, CountSame DEF vars, routerVars
<1> QED BY <1>1, <1>2, <1>3, <1>4, <1>5, <1>6 DEF Next

(***************************************************************************)
(* A usage row that says n fallbacks was preceded by at most n failed      *)
(* requests and hops to other models, through every mixture of key         *)
(* rotation, providers and levels of recursion, of any depth.              *)
(* router.go:332-389.                                                      *)
(***************************************************************************)
THEOREM FallbacksCoverRetriesHolds == Spec => []FallbacksCoverRetries
<1>1. Init => CountInv
  BY DEF Init, CountInv, CountAt
<1>2. Inv /\ CountInv /\ [Next]_vars => CountInv'
  BY CountStep, RouterAssumption, CooldownAssumption
<1>3. Inv /\ CountInv => FallbacksCoverRetries
  <2>1. ASSUME Inv, CountInv, NEW r \in Requests, books[r].usage # <<>>
        PROVE  books[r].usage[1].fallbacks >= out[r].attempts - 1 + job[r].depth
    <3>1. /\ books[r].usage[1].fallbacks \in Nat
          /\ out[r].attempts \in Nat /\ job[r].depth \in Nat
      <4>1. books[r].usage \in Seq(Rows) /\ out[r] \in Outputs /\ job[r] \in Jobs \cup {NoJob}
        BY <2>1 DEF Inv, TypeInv, TypeOK, Books
      <4>2. books[r].usage[1] \in Rows
        BY <2>1, <4>1
      <4>3. job[r].depth \in Nat
        BY <4>1 DEF Jobs, NoJob
      <4> QED BY <4>1, <4>2, <4>3 DEF Rows, Outputs
    <3> QED BY <2>1, <3>1 DEF CountInv, CountAt, Tries
  <2> QED BY <2>1 DEF FallbacksCoverRetries
<1> QED BY <1>1, <1>2, <1>3, InvCorrect, PTL DEF Spec
===============================================================================

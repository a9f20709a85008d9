-------------------------------- MODULE Router --------------------------------
(***************************************************************************)
(* The routing core: proxy, fallbackChain and tryProvider of               *)
(* src/router/router.go, with the key state of fallback.go (KeyState), the *)
(* provider_keys rows of src/db/usage.go, and what the two providers make  *)
(* of an upstream's behaviour (src/providers/openai.go, anthropic.go).     *)
(*                                                                         *)
(* Every request runs in a goroutine of its own; pc[r] is where it stands: *)
(*                                                                         *)
(*   model   entering fallbackChain           dial    client.Do, no        *)
(*   chain   the loop over model providers            connection yet       *)
(*   start   tryProvider, before startIdx     wait    request sent, no     *)
(*   key     the loop over keys                       response headers yet *)
(*   send    the closure "stream"             stream  copying a 200 body   *)
(*   body    reading the body of an error     won     Stream returned nil  *)
(*   err     Stream returned an error         reply   fallbackChain        *)
(*   failed  fallbackChain returned an error          returned a result    *)
(*   usage   before WriteUsage                event   before publishEvent  *)
(*   done    the handler returned             lost    the process died     *)
(*                                                                         *)
(* A step is what happens between two points where another goroutine, the  *)
(* network, the clock or an administrator can act.                         *)
(***************************************************************************)
EXTENDS KeyState, Sequences, FiniteSets

CONSTANTS
  Requests,         \* client requests; each is served once
  ClientModes,      \* how they ask: "sse", "json" (stream:false) or "openai"
  Names,            \* model names, aliases or not
  Bare,             \* [Names -> Names]: the name up to its first "["
  Asked,            \* the names clients ask for
  ModelIDs,         \* upstream model ids
  Configs,          \* the configurations cfg.Get() can return
  NoModel,          \* fallback_to = ""
  InitKeys,         \* [Providers -> Seq(Keys)]: the provider_keys rows at start
  MaxDepth,         \* the 10 of "depth > 10"
  DefaultTimeout,   \* providers.DefaultResponseHeaderTimeout
  SlowDial,         \* TRUE: connecting and sending the request may take time
  MaxKeys,          \* bound on the rows of one provider
  MaxEdits,         \* bound on the administrator's key edits
  MaxRestarts       \* bound on process restarts

Upstreams == [provider: Providers, model_id: ModelIDs]

ModelConfigs    == [fallback_to: Names \cup {NoModel}, providers: Seq(Upstreams)]
ProviderConfigs == [convention: {"anthropic", "openai", "unknown"}, timeout: Nat]

ASSUME RouterAssumption ==
  /\ ClientModes \subseteq {"sse", "json", "openai"}
  /\ Bare \in [Names -> Names]
  /\ Asked \subseteq Names
  /\ \A c \in Configs :
       /\ c = [models |-> c.models, providers |-> c.providers]
       /\ DOMAIN c.models \subseteq Names
       /\ \A m \in DOMAIN c.models : c.models[m] \in ModelConfigs
       /\ DOMAIN c.providers \subseteq Providers
       /\ \A p \in DOMAIN c.providers : c.providers[p] \in ProviderConfigs
  /\ InitKeys \in [Providers -> Seq(Keys)]
  /\ MaxDepth \in Nat
  /\ DefaultTimeout \in Nat \ {0}
  /\ SlowDial \in BOOLEAN

VARIABLES
  pc,               \* where each request stands
  job,              \* fallbackChain's variables
  att,              \* tryProvider's variables, of the current provider
  out,              \* what was written for the client
  books,            \* usage rows and live-log events
  cancelled,        \* the client went away: the request's context is done
  providerKeys,     \* the provider_keys table: per provider, in order of id
  leaks,            \* ghost: requests sent with a key since it began to cool
  edits, restarts   \* counters behind MaxEdits and MaxRestarts

keyStateVars == <<nextIdx, coolLeft>>
adminVars    == <<providerKeys, edits, restarts>>
routerVars   == <<pc, job, att, out, books, cancelled, leaks>>
vars         == <<routerVars, keyStateVars, adminVars>>

-------------------------------------------------------------------------------
(* Error kinds of src/providers/base.go, as tryProvider tells them apart.     *)
(* "fatal" is every error that is none of the named ones; "broken" is such an *)
(* error from a body that was being copied.                                   *)

Retryable  == {"rate", "upstream", "timeout", "conn", "gone"}
ErrorKinds == Retryable \cup {"none", "context", "fatal", "broken"}

\* What a provider returns for the status of a response.  Only the OpenAI
\* provider knows 410 and the context-length 400.
StatusError(status, convention) ==
  CASE status = 429 -> "rate"
    [] status = 500 -> "upstream"
    [] status = 410 -> IF convention = "openai" THEN "gone" ELSE "fatal"
    [] status = 413 -> IF convention = "openai" THEN "context" ELSE "fatal"
    [] OTHER -> "fatal"

\* 500 stands for 5xx, 413 for the 400 of a context-length error, 400 for the rest.
ErrorStatuses == {429, 500, 410, 413, 400}

-------------------------------------------------------------------------------
ModelConfig(r)    == job[r].cfg.models[job[r].model]
Route(r)          == ModelConfig(r).providers[job[r].prov]
MoreRoutes(r)     == job[r].prov <= Len(ModelConfig(r).providers)
ProviderConfig(r) == job[r].cfg.providers[Route(r).provider]

\* newProvider succeeds for the provider of the current route.
Usable(r) ==
  /\ Route(r).provider \in DOMAIN job[r].cfg.providers
  /\ ProviderConfig(r).convention # "unknown"

\* Only the OpenAI provider implements ResponseHeaderTimeoutProvider.
Timed(r) == ProviderConfig(r).convention = "openai"

AttemptTimeout(r) ==
  IF ProviderConfig(r).timeout > 0 THEN ProviderConfig(r).timeout ELSE DefaultTimeout

Keyed(r)    == att[r].keys # <<>>
KeyIndex(r) == (att[r].start + att[r].i) % Len(att[r].keys)
APIKey(r)   == att[r].keys[KeyIndex(r) + 1]

\* The attempt is running against attemptDeadline.
Attempting(r) == pc[r] \in {"start", "key", "send", "dial", "wait", "body", "err"}

InFlight(r) == pc[r] \notin {"idle", "done", "lost"}

NoJob == [mode |-> "none", prov |-> 1, depth |-> 0, fallbacks |-> 0]

NoAttempt == [keys |-> <<>>, start |-> 0, i |-> 0, budget |-> 0, wait |-> 0,
              err |-> "none", after |-> 0, fails |-> 0, seen |-> {}]

Move(r, from, to) ==
  /\ pc[r] = from
  /\ pc' = [pc EXCEPT ![r] = to]

Init ==
  /\ NewKeyState
  /\ pc = [r \in Requests |-> "idle"]
  /\ job = [r \in Requests |-> NoJob]
  /\ att = [r \in Requests |-> NoAttempt]
  /\ out = [r \in Requests |->
              [attempts |-> 0, wrote |-> {}, started |-> FALSE, ending |-> "none"]]
  /\ books = [r \in Requests |-> [usage |-> <<>>, events |-> <<>>]]
  /\ cancelled = [r \in Requests |-> FALSE]
  /\ providerKeys = InitKeys
  /\ leaks = [k \in Keys |-> 0]
  /\ edits = 0
  /\ restarts = 0

-------------------------------------------------------------------------------
(* fallbackChain.  "fallbacks" runs over the levels of the recursion: on a     *)
(* result each level adds its own count, and one for the hop below it.         *)

\* HandleMessages or HandleChatCompletions parsed a body; proxy takes the
\* configuration it will use to the end.
Begin(r) ==
  /\ Move(r, "idle", "model")
  /\ \E mode \in ClientModes, cfg \in Configs, name \in Asked :
       job' = [job EXCEPT ![r] = [mode |-> mode, cfg |-> cfg, model |-> name,
                                  depth |-> 0, prov |-> 1, fallbacks |-> 0]]
  /\ UNCHANGED <<att, out, books, cancelled, leaks, keyStateVars, adminVars>>

Known(r) == /\ job[r].depth <= MaxDepth
            /\ Bare[job[r].model] \in DOMAIN job[r].cfg.models

\* "depth > 10", or no such alias: nothing below or beside it is tried.
Reject(r) ==
  /\ Move(r, "model", "failed")
  /\ ~Known(r)
  /\ UNCHANGED <<job, att, out, books, cancelled, leaks, keyStateVars, adminVars>>

Resolve(r) ==
  /\ Move(r, "model", "chain")
  /\ Known(r)
  /\ job' = [job EXCEPT ![r].model = Bare[@], ![r].prov = 1]
  /\ UNCHANGED <<att, out, books, cancelled, leaks, keyStateVars, adminVars>>

\* A provider that is not configured, or of an unknown convention.
SkipProvider(r) ==
  /\ pc[r] = "chain"
  /\ MoreRoutes(r)
  /\ ~Usable(r)
  /\ job' = [job EXCEPT ![r].prov = @ + 1]
  /\ UNCHANGED <<pc, att, out, books, cancelled, leaks, keyStateVars, adminVars>>

\* GetProviderKeyValues, then tryProvider up to startIdx.  An error of the query
\* is logged only: the rows read before it are used, or the request goes out
\* without a key when there is none.
LoadKeys(r) ==
  /\ pc[r] = "chain"
  /\ MoreRoutes(r)
  /\ Usable(r)
  /\ \E n \in 0..Len(providerKeys[Route(r).provider]) :
       /\ att' = [att EXCEPT ![r] =
                    [NoAttempt EXCEPT !.keys = SubSeq(providerKeys[Route(r).provider], 1, n),
                                      !.budget = IF Timed(r) THEN AttemptTimeout(r) ELSE 0]]
       /\ pc' = [pc EXCEPT ![r] = IF n = 0 THEN "send" ELSE "start"]
  /\ UNCHANGED <<job, out, books, cancelled, leaks, keyStateVars, adminVars>>

\* Every provider of this model failed; fallback_to names another one.
Hop(r) ==
  /\ Move(r, "chain", "model")
  /\ ~MoreRoutes(r)
  /\ ModelConfig(r).fallback_to # NoModel
  /\ job' = [job EXCEPT ![r].model = ModelConfig(r).fallback_to,
                        ![r].depth = @ + 1, ![r].fallbacks = @ + 1]
  /\ UNCHANGED <<att, out, books, cancelled, leaks, keyStateVars, adminVars>>

\* ErrAllExhausted
Exhausted(r) ==
  /\ Move(r, "chain", "failed")
  /\ ~MoreRoutes(r)
  /\ ModelConfig(r).fallback_to = NoModel
  /\ UNCHANGED <<job, att, out, books, cancelled, leaks, keyStateVars, adminVars>>

\* tryProvider returned a retryable error after counting n key failures.
GiveUp(r, n) ==
  /\ pc' = [pc EXCEPT ![r] = "chain"]
  /\ job' = [job EXCEPT ![r].prov = @ + 1, ![r].fallbacks = @ + n + 1]
  /\ att' = [att EXCEPT ![r] = NoAttempt]
  /\ UNCHANGED <<out, books, cancelled, leaks, keyStateVars, adminVars>>

-------------------------------------------------------------------------------
(* tryProvider: the loop over the snapshot of keys.                            *)

ReadStart(r) ==
  /\ Move(r, "start", "key")
  /\ att' = [att EXCEPT ![r].start = StartIdx(Route(r).provider, Len(att[r].keys))]
  /\ UNCHANGED <<job, out, books, cancelled, leaks, keyStateVars, adminVars>>

\* Mutant of MoreKeys: the loop ends at the end of the list instead of wrapping.
MoreKeysNoWrap(r) == att[r].start + att[r].i < Len(att[r].keys)

MoreKeys(r) == att[r].i < Len(att[r].keys)

\* The loop body is over for the key at KeyIndex(r).
Pass(a, index) == [a EXCEPT !.i = @ + 1, !.seen = @ \cup {index}]

SkipCooling(r) ==
  /\ pc[r] = "key"
  /\ MoreKeys(r)
  /\ IsRateLimited(APIKey(r))
  /\ att' = [att EXCEPT ![r] = Pass(@, KeyIndex(r))]
  /\ UNCHANGED <<pc, job, out, books, cancelled, leaks, keyStateVars, adminVars>>

\* Mutant of PickKey: the cooldown is not asked.
PickAnyKey(r) ==
  /\ Move(r, "key", "send")
  /\ MoreKeys(r)
  /\ UNCHANGED <<job, att, out, books, cancelled, leaks, keyStateVars, adminVars>>

\* The check is over and keyState.mu is released: the key may begin to cool
\* before the request is sent.
PickKey(r) ==
  /\ Move(r, "key", "send")
  /\ MoreKeys(r)
  /\ ~IsRateLimited(APIKey(r))
  /\ UNCHANGED <<job, att, out, books, cancelled, leaks, keyStateVars, adminVars>>

\* Mutant of KeysExhausted: the failures of single keys are not counted.
KeysExhaustedUncounted(r) ==
  /\ pc[r] = "key"
  /\ ~MoreKeys(r)
  /\ GiveUp(r, 0)

\* Whatever lastErr is, it is one fallbackChain goes on after.
KeysExhausted(r) ==
  /\ pc[r] = "key"
  /\ ~MoreKeys(r)
  /\ GiveUp(r, att[r].fails)

\* The budget of the attempt is spent: AttemptTimeoutError, and no request.
Refuse(r) ==
  /\ Move(r, "send", "err")
  /\ Timed(r)
  /\ att[r].budget <= 0
  /\ att' = [att EXCEPT ![r].err = "timeout"]
  /\ UNCHANGED <<job, out, books, cancelled, leaks, keyStateVars, adminVars>>

MaySend(r) == Timed(r) => att[r].budget > 0

\* client.Do under a context that is done already.
SendCancelled(r) ==
  /\ Move(r, "send", "err")
  /\ MaySend(r)
  /\ cancelled[r]
  /\ att' = [att EXCEPT ![r].err = "fatal"]
  /\ UNCHANGED <<job, out, books, cancelled, leaks, keyStateVars, adminVars>>

\* Mutant of Send: every key gets the whole time-out again.
SendFullTimeout(r) ==
  /\ Move(r, "send", "dial")
  /\ MaySend(r)
  /\ ~cancelled[r]
  /\ att' = [att EXCEPT ![r].wait = AttemptTimeout(r)]
  /\ out' = [out EXCEPT ![r].attempts = @ + 1]
  /\ UNCHANGED <<job, books, cancelled, leaks, keyStateVars, adminVars>>

\* One HTTP request.  What is left of the budget becomes the transport's
\* ResponseHeaderTimeout, whose clock starts only when the request is out.
Send(r) ==
  /\ Move(r, "send", "dial")
  /\ MaySend(r)
  /\ ~cancelled[r]
  /\ att' = [att EXCEPT ![r].wait = att[r].budget]
  /\ out' = [out EXCEPT ![r].attempts = @ + 1]
  /\ leaks' = IF Keyed(r) /\ IsRateLimited(APIKey(r))
              THEN [leaks EXCEPT ![APIKey(r)] = @ + 1] ELSE leaks
  /\ UNCHANGED <<job, books, cancelled, keyStateVars, adminVars>>

-------------------------------------------------------------------------------
(* The transport and the upstream.                                             *)

Dialed(r) ==
  /\ Move(r, "dial", "wait")
  /\ UNCHANGED <<job, att, out, books, cancelled, leaks, keyStateVars, adminVars>>

\* Stream returns an error of this kind before it wrote anything.
Fail(r, kind, after) ==
  /\ pc' = [pc EXCEPT ![r] = "err"]
  /\ att' = [att EXCEPT ![r].err = kind, ![r].after = after]
  /\ UNCHANGED <<job, out, books, cancelled, leaks, keyStateVars, adminVars>>

\* client.Do, or a read of the body, fails because the client's context is done.
CtxDone(r) ==
  /\ pc[r] \in {"dial", "wait", "stream"}
  /\ cancelled[r]
  /\ Fail(r, IF pc[r] = "stream" THEN "broken" ELSE "fatal", 0)

\* client.Do fails for a reason of the network's; ctx.Err() is asked first.
TransportError(r) ==
  /\ pc[r] \in {"dial", "wait"}
  /\ ~cancelled[r]
  /\ \E kind \in IF Timed(r) THEN {"conn", "timeout"} ELSE {"conn"} : Fail(r, kind, 0)

\* Mutant of HeaderTimeout: no time-out is set for a key that has others after it.
HeaderTimeoutLastKeyOnly(r) ==
  /\ pc[r] = "wait"
  /\ Timed(r)
  /\ att[r].wait = 0
  /\ att[r].i + 1 >= Len(att[r].keys)
  /\ Fail(r, IF cancelled[r] THEN "fatal" ELSE "timeout", 0)

\* ResponseHeaderTimeout ran out.  Nothing bounds the wait of an untimed provider.
HeaderTimeout(r) ==
  /\ pc[r] = "wait"
  /\ Timed(r)
  /\ att[r].wait = 0
  /\ Fail(r, IF cancelled[r] THEN "fatal" ELSE "timeout", 0)

Answered200(r) ==
  /\ Move(r, "wait", "stream")
  /\ UNCHANGED <<job, att, out, books, cancelled, leaks, keyStateVars, adminVars>>

\* The provider reads the body of such an answer before it returns.  Of a 429
\* neither does; of a 5xx the Anthropic provider does not.
ReadsBody(r, status) == status # 429 /\ (status = 500 => Timed(r))

AnsweredError(r) ==
  /\ pc[r] = "wait"
  /\ \E status \in ErrorStatuses :
       \E after \in IF status = 429 THEN RetryAfters ELSE {0} :
         /\ pc' = [pc EXCEPT ![r] = IF ReadsBody(r, status) THEN "body" ELSE "err"]
         /\ att' = [att EXCEPT ![r].err = StatusError(status, ProviderConfig(r).convention),
                               ![r].after = after]
  /\ UNCHANGED <<job, out, books, cancelled, leaks, keyStateVars, adminVars>>

\* io.ReadAll returned: at the end of the body, or with an error, which is dropped.
\* Nothing bounds how long it takes.  A context-length error is recognised by its
\* body, if that is whole.
ErrorRead(r) ==
  /\ pc[r] = "body"
  /\ \E kind \in {att[r].err} \cup (IF att[r].err = "context" THEN {"fatal"} ELSE {}) :
       Fail(r, kind, 0)

-------------------------------------------------------------------------------
(* tryProvider, after Stream returned an error.                                *)

\* The next key, after one that failed.
NextKey(a, index) == [Pass(a, index) EXCEPT !.err = "none", !.after = 0, !.fails = @ + 1]

\* 429: the key begins to cool, and the next one is tried.
RateLimited(r) ==
  /\ Move(r, "err", "key")
  /\ Keyed(r)
  /\ att[r].err = "rate"
  /\ MarkRateLimited(APIKey(r), att[r].after)
  /\ att' = [att EXCEPT ![r] = NextKey(@, KeyIndex(r))]
  /\ UNCHANGED <<job, out, books, cancelled, leaks, nextIdx, adminVars>>

KeyFailed(r) ==
  /\ Move(r, "err", "key")
  /\ Keyed(r)
  /\ att[r].err \in Retryable \ {"rate"}
  /\ att' = [att EXCEPT ![r] = NextKey(@, KeyIndex(r))]
  /\ UNCHANGED <<job, out, books, cancelled, leaks, keyStateVars, adminVars>>

\* No keys: the error goes straight to fallbackChain, with no key failure.
KeylessFailed(r) ==
  /\ pc[r] = "err"
  /\ ~Keyed(r)
  /\ att[r].err \in Retryable
  /\ GiveUp(r, 0)

\* Any other error ends the whole chain.
Abort(r) ==
  /\ Move(r, "err", "failed")
  /\ att[r].err \notin Retryable
  /\ UNCHANGED <<job, att, out, books, cancelled, leaks, keyStateVars, adminVars>>

-------------------------------------------------------------------------------
(* The answer.                                                                 *)

\* The provider writes events: to lazyStreamWriter, to a buffer, or to the
\* converter, which may have nothing to pass on yet.
Emit(r) ==
  /\ pc[r] = "stream"
  /\ \E starts \in CASE job[r].mode = "sse"  -> {TRUE}
                     [] job[r].mode = "json" -> {FALSE}
                     [] OTHER -> BOOLEAN :
       out' = [out EXCEPT ![r].wrote = @ \cup {[attempt |-> out[r].attempts, at |-> Route(r)]},
                          ![r].started = @ \/ starts]
  /\ UNCHANGED <<pc, job, att, books, cancelled, leaks, keyStateVars, adminVars>>

\* Stream returns nil: at the end of the stream, at a premature end of an
\* Anthropic stream, and for a 200 without a single event.
StreamEnds(r) ==
  /\ Move(r, "stream", "won")
  /\ UNCHANGED <<job, att, out, books, cancelled, leaks, keyStateVars, adminVars>>

\* Mutant of StreamBreaks: the error of a body that was being copied is ErrUpstream.
StreamBreaksRetried(r) ==
  /\ pc[r] = "stream"
  /\ Fail(r, "upstream", 0)

\* A read error, or an OpenAI stream that ends early.
StreamBreaks(r) ==
  /\ pc[r] = "stream"
  /\ Fail(r, "broken", 0)

\* The OpenAI translator panics on a negative index of a tool call, after it wrote
\* message_start.  The Recoverer that main installs ends the handler: with a 500
\* where nothing was sent, or else the response just ends.
StreamPanics(r) ==
  /\ Move(r, "stream", "done")
  /\ Timed(r)
  /\ \E w \in out[r].wrote : w.attempt = out[r].attempts
  /\ out' = [out EXCEPT ![r].ending = "panicked"]
  /\ UNCHANGED <<job, att, books, cancelled, leaks, keyStateVars, adminVars>>

Advance(r) ==
  /\ Move(r, "won", "reply")
  /\ IF Keyed(r) THEN AdvanceIdx(Route(r).provider, KeyIndex(r), Len(att[r].keys))
                 ELSE UNCHANGED nextIdx
  /\ job' = [job EXCEPT ![r].fallbacks = @ + att[r].fails]
  /\ UNCHANGED <<att, out, books, cancelled, leaks, coolLeft, adminVars>>

\* The whole answer is out: the JSON body is written in one piece, a stream
\* has nothing left to write.
Reply(r) ==
  /\ Move(r, "reply", "usage")
  /\ out' = [out EXCEPT ![r].ending = "complete"]
  /\ UNCHANGED <<job, att, books, cancelled, leaks, keyStateVars, adminVars>>

\* Mutant of ReplyError: lw.started is not asked.
ReplyErrorAlways503(r) ==
  /\ Move(r, "failed", "event")
  /\ out' = [out EXCEPT ![r].ending = "unavailable"]
  /\ UNCHANGED <<job, att, books, cancelled, leaks, keyStateVars, adminVars>>

\* proxy, after an error of fallbackChain: the auto-compact answer, a 503, or
\* an error event on a stream that has begun.  Only the first goes through
\* lazyStreamWriter before it has started.
ReplyError(r) ==
  /\ Move(r, "failed", "event")
  /\ LET compact == att[r].err = "context" /\ job[r].mode # "openai"
     IN  out' = [out EXCEPT
                   ![r].started = @ \/ (compact /\ job[r].mode = "sse"),
                   ![r].ending = IF compact THEN "compact"
                                 ELSE IF out[r].started THEN "broken" ELSE "unavailable"]
  /\ UNCHANGED <<job, att, books, cancelled, leaks, keyStateVars, adminVars>>

\* Mutant of WriteUsage: the first provider of the model is billed.
WriteUsageFirstRoute(r) ==
  /\ Move(r, "usage", "event")
  /\ books' = [books EXCEPT ![r].usage =
                 Append(@, [at |-> ModelConfig(r).providers[1],
                            fallbacks |-> job[r].fallbacks])]
  /\ UNCHANGED <<job, att, out, cancelled, leaks, keyStateVars, adminVars>>

\* The error of WriteUsage is dropped.
WriteUsage(r) ==
  /\ Move(r, "usage", "event")
  /\ LET row == [at |-> Route(r), fallbacks |-> job[r].fallbacks]
     IN  \/ books' = [books EXCEPT ![r].usage = Append(@, row)]
         \/ UNCHANGED books
  /\ UNCHANGED <<job, att, out, cancelled, leaks, keyStateVars, adminVars>>

Status(ending) == IF ending \in {"complete", "compact"} THEN 200 ELSE 503

PublishEvent(r) ==
  /\ Move(r, "event", "done")
  /\ LET from == IF out[r].ending = "complete" THEN {Route(r)} ELSE {}
     IN  books' = [books EXCEPT ![r].events =
                     Append(@, [status |-> Status(out[r].ending), from |-> from])]
  /\ UNCHANGED <<job, att, out, cancelled, leaks, keyStateVars, adminVars>>

-------------------------------------------------------------------------------
(* The rest of the world.                                                      *)

Cancel(r) ==
  /\ InFlight(r)
  /\ ~cancelled[r]
  /\ cancelled' = [cancelled EXCEPT ![r] = TRUE]
  /\ UNCHANGED <<pc, job, att, out, books, leaks, keyStateVars, adminVars>>

\* handleAddProviderKey
AddProviderKey(p, k) ==
  /\ edits < MaxEdits
  /\ Len(providerKeys[p]) < MaxKeys
  /\ providerKeys' = [providerKeys EXCEPT ![p] = Append(@, k)]
  /\ edits' = edits + 1
  /\ UNCHANGED <<routerVars, keyStateVars, restarts>>

\* handleDeleteProviderKey, by the row's id: of the i-th row.
DeleteProviderKey(p, i) ==
  /\ edits < MaxEdits
  /\ providerKeys' = [providerKeys EXCEPT
                        ![p] = SubSeq(@, 1, i - 1) \o SubSeq(@, i + 1, Len(@))]
  /\ edits' = edits + 1
  /\ UNCHANGED <<routerVars, keyStateVars, restarts>>

\* Time.  An answer and a time-out due now come before the next unit.
Tick ==
  /\ \A r \in Requests : (pc[r] = "wait" /\ Timed(r)) => att[r].wait > 0
  /\ SlowDial \/ \A r \in Requests : pc[r] # "dial"
  /\ CoolDown
  /\ leaks' = [k \in Keys |-> IF coolLeft'[k] > 0 THEN leaks[k] ELSE 0]
  /\ att' = [r \in Requests |->
       IF Attempting(r) /\ Timed(r)
       THEN [att[r] EXCEPT !.budget = IF @ >= 0 THEN @ - 1 ELSE @,
                           !.wait = IF pc[r] = "wait" THEN @ - 1 ELSE @]
       ELSE att[r]]
  /\ UNCHANGED <<pc, job, out, books, cancelled, nextIdx, adminVars>>

\* handleRestart, handleUpdate or a signal: main exits without waiting for the
\* handlers.  Only the database survives; usage rows are in it, events are not.
Restart ==
  /\ restarts < MaxRestarts
  /\ restarts' = restarts + 1
  /\ pc' = [r \in Requests |-> IF InFlight(r) THEN "lost" ELSE pc[r]]
  /\ ForgetKeyState
  /\ leaks' = [k \in Keys |-> 0]
  /\ UNCHANGED <<job, att, out, books, cancelled, providerKeys, edits>>

-------------------------------------------------------------------------------
\* What the handler's goroutine does by itself.
RouterStep(r) ==
  \/ Reject(r) \/ Resolve(r)
  \/ SkipProvider(r) \/ LoadKeys(r) \/ Hop(r) \/ Exhausted(r)
  \/ ReadStart(r) \/ SkipCooling(r) \/ PickKey(r) \/ KeysExhausted(r)
  \/ Refuse(r) \/ SendCancelled(r) \/ Send(r)
  \/ RateLimited(r) \/ KeyFailed(r) \/ KeylessFailed(r) \/ Abort(r)
  \/ Advance(r) \/ Reply(r) \/ ReplyError(r) \/ WriteUsage(r) \/ PublishEvent(r)

\* What net/http makes of a cancelled context and of the header time-out.
TransportStep(r) == CtxDone(r) \/ HeaderTimeout(r) \/ (cancelled[r] /\ ErrorRead(r))

NetworkStep(r) ==
  \/ Dialed(r) \/ TransportError(r) \/ Answered200(r) \/ AnsweredError(r) \/ ErrorRead(r)
  \/ Emit(r) \/ StreamEnds(r) \/ StreamBreaks(r) \/ StreamPanics(r)

Next ==
  \/ \E r \in Requests : \/ Begin(r) \/ RouterStep(r) \/ TransportStep(r)
                         \/ NetworkStep(r) \/ Cancel(r)
  \/ \E p \in Providers, k \in Keys : AddProviderKey(p, k)
  \/ \E p \in Providers : \E i \in 1..Len(providerKeys[p]) : DeleteProviderKey(p, i)
  \/ Tick
  \/ Restart

Spec == Init /\ [][Next]_vars

\* The scheduler runs every goroutine, the clock runs, and net/http gives up on
\* a request whose context is done or whose header time-out ran out.  Nothing is
\* assumed of upstreams, of connections being made, nor of clients.
Fairness ==
  /\ \A r \in Requests : WF_vars(RouterStep(r)) /\ WF_vars(TransportStep(r))
  /\ WF_vars(Tick)

FairSpec == Spec /\ Fairness

-------------------------------------------------------------------------------
Rows   == [at: Upstreams, fallbacks: Nat]
Events == [status: {200, 503}, from: SUBSET Upstreams]

Jobs == [mode: {"sse", "json", "openai"}, cfg: Configs, model: Names, depth: Nat,
         prov: Nat \ {0}, fallbacks: Nat]

Attempts == [keys: Seq(Keys), start: Nat, i: Nat, budget: Int, wait: Int, err: ErrorKinds,
             after: Nat, fails: Nat, seen: SUBSET Nat]

Stages == {"idle", "model", "chain", "start", "key", "send", "dial", "wait", "stream", "body",
           "err", "won", "failed", "reply", "usage", "event", "done", "lost"}

Written == SUBSET [attempt: Nat, at: Upstreams]
Endings == {"none", "complete", "compact", "unavailable", "broken", "panicked"}
Outputs == [attempts: Nat, wrote: Written, started: BOOLEAN, ending: Endings]

Books == [usage: Seq(Rows), events: Seq(Events)]

\* Every variable has its type.
TypeOK ==
  /\ KeyStateTypeOK
  /\ pc \in [Requests -> Stages]
  /\ job \in [Requests -> Jobs \cup {NoJob}]
  /\ att \in [Requests -> Attempts]
  /\ out \in [Requests -> Outputs]
  /\ books \in [Requests -> Books]
  /\ cancelled \in [Requests -> BOOLEAN]
  /\ providerKeys \in [Providers -> Seq(Keys)]
  /\ leaks \in [Keys -> Nat]
  /\ edits \in Nat
  /\ restarts \in Nat
===============================================================================

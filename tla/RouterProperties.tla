--------------------------- MODULE RouterProperties ---------------------------
(* What must hold of Router, each property with the code it is about. *)
EXTENDS Router

(***************************************************************************)
(* All the output a request ever produced came from its last HTTP request, *)
(* and from the provider and model of the route that is current: once a    *)
(* byte was written (or buffered, for stream:false), no key, provider or   *)
(* fallback model is tried any more.  router.go:306, 354: "we can safely   *)
(* try the next one" rests on it.                                          *)
(***************************************************************************)
FromLastAttempt(r) ==
  \A w \in out[r].wrote : w = [attempt |-> out[r].attempts, at |-> Route(r)]

SingleSource == \A r \in Requests : FromLastAttempt(r)

(***************************************************************************)
(* How an answer ends fits what the client has seen: a 503 only where      *)
(* nothing was sent, the synthesized auto-compact message only where no    *)
(* upstream wrote anything, an error event only on a stream that some      *)
(* upstream began; a panic finds that upstream's events written.           *)
(* router.go:142-271, openai.go:651-681.                                   *)
(***************************************************************************)
EndingFits(r) ==
  /\ out[r].ending = "unavailable" =>
       /\ ~out[r].started
       /\ job[r].mode = "sse" => out[r].wrote = {}
  /\ out[r].ending = "compact" => out[r].wrote = {}
  /\ out[r].ending = "broken" => out[r].started /\ out[r].wrote # {}
  /\ out[r].ending = "panicked" => out[r].wrote # {} /\ (job[r].mode = "sse" => out[r].started)
  /\ out[r].ending = "complete" /\ job[r].mode = "sse" =>
       (out[r].started <=> out[r].wrote # {})

EndingFitsOutput == \A r \in Requests : EndingFits(r)

(***************************************************************************)
(* The books agree with the answer.  Usage is written at most once, only   *)
(* behind a complete answer, and names the upstream that gave it; a served *)
(* request has exactly one event on the live log ("published after every   *)
(* proxied request completes", middleware/logger.go:9), its status and     *)
(* provider are those of the answer.  A restart may lose both; a request   *)
(* whose handler panicked has neither.                                     *)
(***************************************************************************)
BooksFit(r) ==
  LET usage == books[r].usage  events == books[r].events IN
  /\ Len(usage) <= 1 /\ Len(events) <= 1
  /\ pc[r] = "done" => Len(events) = IF out[r].ending = "panicked" THEN 0 ELSE 1
  /\ usage # <<>> =>
       /\ out[r].ending = "complete"
       /\ \A w \in out[r].wrote : w.at = usage[1].at
  /\ events # <<>> =>
       /\ events[1].status = 200 <=> out[r].ending \in {"complete", "compact"}
       /\ usage # <<>> => events[1].from = {usage[1].at}
       /\ \A w \in out[r].wrote : events[1].from \in {{}, {w.at}}

BooksFitAnswer == \A r \in Requests : BooksFit(r)

(***************************************************************************)
(* A provider is given up only after every key of the snapshot was either  *)
(* tried or found cooling, wherever the shared cursor started and whatever *)
(* other requests, or edits of the key table, did to it meanwhile.         *)
(* router.go:429-473.                                                      *)
(***************************************************************************)
EveryKeyConsidered ==
  \A r \in Requests :
    pc[r] = "key" /\ ~MoreKeys(r) => att[r].seen = 0..Len(att[r].keys) - 1

(***************************************************************************)
(* FallbackCount accounts for every retry: a row that says n was preceded  *)
(* by at most n failed HTTP requests and model hops together; in           *)
(* particular a row with 0 is the answer to the first request sent.        *)
(* router.go:332-389.                                                      *)
(***************************************************************************)
FallbacksCoverRetries ==
  \A r \in Requests : books[r].usage # <<>> =>
    books[r].usage[1].fallbacks >= out[r].attempts - 1 + job[r].depth

(***************************************************************************)
(* One provider attempt, key rotation included, waits for response headers *)
(* no longer than its budget.  src/README.md:137-139 calls it "the total   *)
(* pre-stream budget for one provider attempt, including API-key           *)
(* rotation"; router.go:408-422.  It holds as long as connecting and       *)
(* sending take no time (SlowDial = FALSE).                                *)
(***************************************************************************)
PreStreamWithinBudget ==
  \A r \in Requests :
    pc[r] \in {"dial", "wait"} /\ Timed(r) => att[r].budget >= 0

(***************************************************************************)
(* isRateLimited and the request that follows are not one step.  While a   *)
(* key cools, at most one request per OTHER client request goes out with   *)
(* it: those that had passed the check when the 429 arrived.               *)
(* router.go:438-445, fallback.go:30-55.                                   *)
(***************************************************************************)
LeakBounded == \A k \in Keys : leaks[k] <= Cardinality(Requests) - 1

(***************************************************************************)
(* A request is served to its end, through every key, provider and         *)
(* fallback model (a cycle of fallback_to included), unless one upstream   *)
(* keeps it waiting for ever while its client stays: before the connection *)
(* is made, in an open stream, in the body of an error response, which the *)
(* providers read whole and without a deadline (openai.go:499, 504, 508,   *)
(* anthropic.go:112), or, of a provider without a header time-out, before  *)
(* the response headers.                                                   *)
(***************************************************************************)
KeptByUpstream(r) ==
  /\ ~cancelled[r]
  /\ pc[r] \in {"dial", "stream", "body"} \/ (pc[r] = "wait" /\ ~Timed(r))

ServedOrKept ==
  \A r \in Requests :
    <>[](pc[r] \in {"idle", "done", "lost"}) \/ <>[]KeptByUpstream(r)

-------------------------------------------------------------------------------
\* What the outside sees of a request, in the terms of OneAnswer.
Phase(r) ==
  CASE pc[r] = "idle" -> "idle"
    [] pc[r] = "lost" \/ out[r].ending # "none" -> "closed"
    [] OTHER -> IF out[r].started THEN "writing" ELSE "waiting"

Verdict(r) ==
  IF (pc[r] = "lost" /\ out[r].ending = "none") \/ out[r].ending = "panicked"
  THEN "lost" ELSE out[r].ending

\* A buffered answer is seen when it is complete, a streamed one at once.
Delivered(r) ==
  IF out[r].started \/ out[r].ending = "complete" THEN {w.at : w \in out[r].wrote} ELSE {}

View(r) ==
  [phase   |-> Phase(r),
   verdict |-> Verdict(r),
   sources |-> Delivered(r),
   billed  |-> {books[r].usage[i].at : i \in DOMAIN books[r].usage},
   logged  |-> books[r].events # <<>>]

Outside == [r \in Requests |-> View(r)]

Promise == INSTANCE OneAnswer WITH Sources <- Upstreams, answer <- Outside

(***************************************************************************)
(* The router implements OneAnswer: from outside a request is answered     *)
(* once, by one upstream, and billed and logged accordingly.               *)
(***************************************************************************)
KeepsPromise == Promise!Spec
===============================================================================

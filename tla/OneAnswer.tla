------------------------------ MODULE OneAnswer -------------------------------
(***************************************************************************)
(* What the proxy promises a client, whatever upstreams, keys, time-outs   *)
(* and restarts do.  Nothing is said here of how an upstream is found.     *)
(*                                                                         *)
(*  - every byte of an answer comes from ONE upstream;                     *)
(*  - an answer that was begun is completed or openly broken off, unless   *)
(*    its handler or the process dies, and an answer that was not begun    *)
(*    may be refused: it is never begun again;                             *)
(*  - usage is written at most once, after a complete answer, and against  *)
(*    the upstream that gave it;                                           *)
(*  - the live log hears of a request at most once, after it is closed.    *)
(***************************************************************************)
EXTENDS Naturals

CONSTANTS
  Requests,
  Sources           \* the upstreams an answer can come from

VARIABLE answer     \* what the outside sees of each request

Phases   == {"idle", "waiting", "writing", "closed"}
Verdicts == {"none", "complete", "broken", "unavailable", "compact", "lost"}

\* answer[r].sources  upstreams whose output the client has received
\* answer[r].billed   upstreams that usage was written against
\* answer[r].logged   whether the live log got the request's event
AnswerType == [Requests -> [phase: Phases, verdict: Verdicts, sources: SUBSET Sources,
                            billed: SUBSET Sources, logged: BOOLEAN]]

Init == answer = [r \in Requests |->
                    [phase |-> "idle", verdict |-> "none", sources |-> {},
                     billed |-> {}, logged |-> FALSE]]

Open(r) == answer[r].phase \in {"waiting", "writing"}

Ask(r) ==
  /\ answer[r].phase = "idle"
  /\ answer' = [answer EXCEPT ![r].phase = "waiting"]

Write(r) == \E s \in Sources :
  /\ Open(r)
  /\ answer[r].sources \subseteq {s}
  /\ answer' = [answer EXCEPT ![r].phase = "writing", ![r].sources = {s}]

\* A complete answer: of the stream that was being written, or in one piece.
Complete(r) == \E given \in {{}} \cup {{s} : s \in Sources} :
  /\ Open(r)
  /\ answer[r].sources \subseteq given
  /\ answer' = [answer EXCEPT ![r].phase = "closed", ![r].verdict = "complete",
                              ![r].sources = given]

BreakOff(r) ==
  /\ answer[r].phase = "writing"
  /\ answer' = [answer EXCEPT ![r].phase = "closed", ![r].verdict = "broken"]

Refuse(r) == \E verdict \in {"unavailable", "compact"} :
  /\ answer[r].phase = "waiting"
  /\ answer' = [answer EXCEPT ![r].phase = "closed", ![r].verdict = verdict]

Bill(r) == \E s \in Sources :
  /\ answer[r].verdict = "complete"
  /\ answer[r].billed = {}
  /\ ~answer[r].logged
  /\ answer[r].sources \subseteq {s}
  /\ answer' = [answer EXCEPT ![r].billed = {s}]

Log(r) ==
  /\ answer[r].phase = "closed"
  /\ answer[r].verdict # "lost"
  /\ ~answer[r].logged
  /\ answer' = [answer EXCEPT ![r].logged = TRUE]

\* Its handler died.
Lose(r) ==
  /\ Open(r)
  /\ answer' = [answer EXCEPT ![r].phase = "closed", ![r].verdict = "lost"]

\* The process is replaced: every open request is cut off.
Crash ==
  answer' = [r \in Requests |->
               IF Open(r) THEN [answer[r] EXCEPT !.phase = "closed", !.verdict = "lost"]
                          ELSE answer[r]]

Next ==
  \/ \E r \in Requests : \/ Ask(r) \/ Write(r) \/ Complete(r) \/ BreakOff(r)
                         \/ Refuse(r) \/ Bill(r) \/ Log(r) \/ Lose(r)
  \/ Crash

Spec == Init /\ [][Next]_answer
===============================================================================

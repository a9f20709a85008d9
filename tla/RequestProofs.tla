----------------------------- MODULE RequestProofs -----------------------------
(***************************************************************************)
(* Theorems about ClientKeys, for any number of clients, dashboard pages,  *)
(* keys and restarts, and about ClientRequest, for any bodies that the two *)
(* formats allow: conversations of any length with any number of calls and *)
(* of results, any number of tools, schemas of any depth.  What a          *)
(* conversation says is a total over its messages, and a message's over    *)
(* its blocks; that the loops of OpenAIToAnthropic and convertToOpenAI     *)
(* keep the totals, and each format's rule of where results are, is shown  *)
(* message by message.                                                     *)
(***************************************************************************)
EXTENDS ClientRequest, SequenceTheorems, FiniteSetTheorems, TLAPS

\* Who has been told that a key is gone, or there, was told the truth, and it
\* stays true: no statement brings a row back or takes one away.
AnsweredInv ==
  /\ \A k \in gone : k \in DOMAIN rows /\ rows[k].revoked
  /\ issued \subseteq DOMAIN rows
  /\ \A a \in Admins :
       /\ admin[a].at = "answer" => admin[a].key \in DOMAIN rows
       /\ admin[a].at = "answer" /\ admin[a].op = "revoke" => rows[admin[a].key].revoked
       /\ admin[a].at = "exec" /\ admin[a].op = "revoke" => admin[a].key \in DOMAIN rows

\* A request was late, or came with an issued key, only if its key is one.
ArrivedInv ==
  \A r \in Requests : request[r] # Idle =>
    /\ request[r].late => request[r].key \in gone
    /\ request[r].issued => request[r].key \in issued

\* A key is dated for requests only.
DatedInv == \A r \in Requests : touch[r] # Idle => request[r] # Idle

IInv == TypeOK /\ AnsweredInv /\ ArrivedInv /\ DatedInv /\ RevokedStaysOut /\ IssuedKeyWorks

-------------------------------------------------------------------------------
LEMMA InitOK == Init => IInv
  BY KeysAssumption
  DEF Init, IInv, TypeOK, Rows, AnsweredInv, ArrivedInv, DatedInv, RevokedStaysOut, IssuedKeyWorks,
      Idle

LEMMA AuthStepOK ==
  ASSUME IInv, NEW r \in Requests, AuthStep(r) \/ Finish(r)
  PROVE  IInv'
<1>1. ASSUME NEW key \in Keys \cup {NoToken}, Arrive(r, key) PROVE IInv'
  <2> DEFINE at == IF key = NoToken THEN "unauthorized" ELSE "query"
             came == [at |-> at, key |-> key, issued |-> key \in issued, late |-> key \in gone]
  <2>1. /\ at \in {"unauthorized", "query"}
        /\ at = "unauthorized" => key \notin Keys
    BY KeysAssumption
  <2>2. /\ request' = [request EXCEPT ![r] = came]
        /\ request[r] = Idle
        /\ UNCHANGED <<rows, touch, admin, issued, gone, restarts>>
    BY <1>1 DEF Arrive
  <2>3. /\ came.at = at /\ came.key = key
        /\ came.issued => key \in issued
        /\ came.late => key \in gone
        /\ came # Idle
    BY DEF Idle
  <2>4. came \in [at: {"query", "next", "done", "unauthorized", "unchecked"},
                   key: Keys \cup {NoToken}, issued: BOOLEAN, late: BOOLEAN]
    BY <2>1
  <2> HIDE DEF at, came
  <2>5. TypeOK'
    BY <2>2, <2>4 DEF IInv, TypeOK
  <2>6. /\ request'[r] = came
        /\ \A q \in Requests : q # r => request'[q] = request[q]
    BY <2>2 DEF IInv, TypeOK
  <2>7. AnsweredInv' /\ ArrivedInv'
    <3>1. AnsweredInv' BY <2>2 DEF IInv, AnsweredInv
    <3>2. ASSUME NEW q \in Requests, request'[q] # Idle
          PROVE  /\ request'[q].late => request'[q].key \in gone'
                 /\ request'[q].issued => request'[q].key \in issued'
      <4>1. CASE q = r
        <5>1. request'[q] = came /\ gone' = gone /\ issued' = issued BY <4>1, <2>2, <2>6
        <5>2. QED BY <5>1, <2>3, Zenon
      <4>2. CASE q # r
        <5>1. request'[q] = request[q] /\ gone' = gone /\ issued' = issued BY <4>2, <2>2, <2>6
        <5>2. QED BY <5>1, <3>2, Zenon DEF IInv, ArrivedInv
      <4>3. QED BY <4>1, <4>2
    <3>3. QED BY <3>1, <3>2, Zenon DEF ArrivedInv
  <2>8. touch[r] = Idle
    BY <2>2 DEF IInv, DatedInv
  <2>9. RevokedStaysOut' /\ DatedInv'
    BY <2>1, <2>2, <2>3, <2>6, <2>8 DEF IInv, RevokedStaysOut, DatedInv
  <2>10. IssuedKeyWorks'
    BY <2>1, <2>2, <2>3, <2>6 DEF IInv, TypeOK, AnsweredInv, IssuedKeyWorks
  <2>11. QED
    BY <2>5, <2>7, <2>9, <2>10 DEF IInv
<1>2. ASSUME GetKey(r) PROVE IInv'
  BY <1>2, KeysAssumption
  DEF IInv, TypeOK, Rows, AnsweredInv, ArrivedInv, DatedInv, RevokedStaysOut, IssuedKeyWorks,
      Idle, GetKey,
      Valid, Go
<1>3. ASSUME GetKeyRefuses(r) PROVE IInv'
  BY <1>3, KeysAssumption
  DEF IInv, TypeOK, Rows, AnsweredInv, ArrivedInv, DatedInv, RevokedStaysOut, IssuedKeyWorks,
      Idle,
      GetKeyRefuses, Valid, Go
<1>4. ASSUME GetKeyFails(r) PROVE IInv'
  BY <1>4, KeysAssumption
  DEF IInv, TypeOK, Rows, AnsweredInv, ArrivedInv, DatedInv, RevokedStaysOut, IssuedKeyWorks,
      Idle, GetKeyFails, Go
<1>5. ASSUME Finish(r) PROVE IInv'
  BY <1>5, KeysAssumption
  DEF IInv, TypeOK, Rows, AnsweredInv, ArrivedInv, DatedInv, RevokedStaysOut, IssuedKeyWorks,
      Idle, Finish, Go
<1>6. QED
  BY <1>1, <1>2, <1>3, <1>4, <1>5 DEF AuthStep

\* A late goroutine writes a column of its own: revoked keeps its value.
LEMMA TouchStepOK == ASSUME IInv, NEW r \in Requests, TouchStep(r) PROVE IInv'
<1> DEFINE key == touch[r].key
           row == [rows[key] EXCEPT !.used = TRUE]
<1>1. /\ touch' = [touch EXCEPT ![r] = Idle]
      /\ UNCHANGED <<request, admin, issued, gone, restarts>>
      /\ rows' = rows \/ rows' = [rows EXCEPT ![key] = row]
  BY DEF TouchStep, UpdateLastUsed, UpdateLastUsedFails, EndTouch
<1>2. key \in DOMAIN rows
  <2>1. touch[r].at = "exec"
    BY DEF TouchStep, UpdateLastUsed, UpdateLastUsedFails, EndTouch
  <2>2. QED
    BY <2>1 DEF IInv, TypeOK, Idle
<1>3. rows[key] \in Rows
  BY <1>2 DEF IInv, TypeOK
<1>4. row \in Rows /\ row.revoked = rows[key].revoked
  BY <1>3 DEF Rows
<1> HIDE DEF row, key
<1>5. /\ DOMAIN rows' = DOMAIN rows /\ rows' \in [DOMAIN rows -> Rows]
      /\ \A k \in DOMAIN rows : rows'[k].revoked = rows[k].revoked
  BY <1>1, <1>2, <1>4 DEF IInv, TypeOK
<1>6. TypeOK'
  BY <1>1, <1>5 DEF IInv, TypeOK
<1>7. AnsweredInv' /\ ArrivedInv'
  BY <1>1, <1>5 DEF IInv, AnsweredInv, ArrivedInv
<1>8. \A q \in Requests : touch'[q] = IF q = r THEN Idle ELSE touch[q]
  BY <1>1 DEF IInv, TypeOK
<1>9. DatedInv' /\ RevokedStaysOut'
  BY <1>1, <1>8 DEF IInv, DatedInv, RevokedStaysOut
<1>10. IssuedKeyWorks'
  BY <1>1, <1>5 DEF IInv, IssuedKeyWorks
<1>11. QED
  BY <1>6, <1>7, <1>9, <1>10 DEF IInv

LEMMA AdminStepOK == ASSUME IInv, NEW a \in Admins, AdminStep(a) PROVE IInv'
<1>1. ASSUME NEW op \in {"mint", "revoke"}, NEW key \in Keys, Ask(a, op, key) PROVE IInv'
  BY <1>1, KeysAssumption
  DEF IInv, TypeOK, Rows, AnsweredInv, ArrivedInv, DatedInv, RevokedStaysOut, IssuedKeyWorks,
      Idle, Ask, Set
<1>2. ASSUME CreateKey(a) PROVE IInv'
  BY <1>2, KeysAssumption
  DEF IInv, TypeOK, Rows, AnsweredInv, ArrivedInv, DatedInv, RevokedStaysOut, IssuedKeyWorks,
      Idle,
      CreateKey, Set
<1>3. ASSUME RevokeKey(a) PROVE IInv'
  <2> DEFINE key == admin[a].key
             row == [rows[key] EXCEPT !.revoked = TRUE]
             call == [at |-> "answer", op |-> "revoke", key |-> key]
  <2>1. /\ rows' = [rows EXCEPT ![key] = row]
        /\ admin' = [admin EXCEPT ![a] = call]
        /\ UNCHANGED <<request, touch, issued, gone, restarts>>
    BY <1>3 DEF RevokeKey, Set
  <2>2. key \in DOMAIN rows /\ key \in Keys
    BY <1>3 DEF RevokeKey, IInv, TypeOK, AnsweredInv
  <2>3. rows[key] \in Rows
    BY <2>2 DEF IInv, TypeOK
  <2>4. row \in Rows /\ row.revoked
    BY <2>3 DEF Rows
  <2>5. /\ call \in [at: {"exec", "answer"}, op: {"mint", "revoke"}, key: Keys]
        /\ call.at = "answer" /\ call.key = key
    BY <2>2
  <2> HIDE DEF row, key, call
  <2>6. /\ DOMAIN rows' = DOMAIN rows /\ rows' \in [DOMAIN rows -> Rows]
        /\ \A k \in DOMAIN rows : rows'[k].revoked = (k = key \/ rows[k].revoked)
    BY <2>1, <2>2, <2>4 DEF IInv, TypeOK, Rows
  <2>7. TypeOK'
    BY <2>1, <2>5, <2>6 DEF IInv, TypeOK
  <2>8. \A b \in Admins : admin'[b] = IF b = a THEN call ELSE admin[b]
    BY <2>1 DEF IInv, TypeOK
  <2>9. AnsweredInv' /\ ArrivedInv'
    <3>1. ArrivedInv' BY <2>1 DEF IInv, ArrivedInv
    <3>2. \A k \in gone' : k \in DOMAIN rows' /\ rows'[k].revoked
      BY <2>1, <2>6 DEF IInv, AnsweredInv
    <3>3. issued' \subseteq DOMAIN rows'
      BY <2>1, <2>6 DEF IInv, AnsweredInv
    <3>4. ASSUME NEW b \in Admins
          PROVE  /\ admin'[b].at = "answer" => admin'[b].key \in DOMAIN rows'
                 /\ admin'[b].at = "answer" /\ admin'[b].op = "revoke"
                      => rows'[admin'[b].key].revoked
                 /\ admin'[b].at = "exec" /\ admin'[b].op = "revoke"
                      => admin'[b].key \in DOMAIN rows'
      BY <2>2, <2>5, <2>6, <2>8 DEF IInv, AnsweredInv
    <3>5. QED BY <3>1, <3>2, <3>3, <3>4 DEF AnsweredInv
  <2>10. DatedInv' /\ RevokedStaysOut' /\ IssuedKeyWorks'
    BY <2>1, <2>6 DEF IInv, DatedInv, RevokedStaysOut, IssuedKeyWorks
  <2>11. QED
    BY <2>7, <2>9, <2>10 DEF IInv
<1>4. ASSUME StatementFails(a) \/ Answer(a) PROVE IInv'
  BY <1>4, KeysAssumption
  DEF IInv, TypeOK, Rows, AnsweredInv, ArrivedInv, DatedInv, RevokedStaysOut, IssuedKeyWorks,
      Idle,
      StatementFails, Answer, Set
<1>5. QED
  BY <1>1, <1>2, <1>3, <1>4 DEF AdminStep

LEMMA RestartOK == ASSUME IInv, Restart PROVE IInv'
  BY KeysAssumption
  DEF IInv, TypeOK, Rows, AnsweredInv, ArrivedInv, DatedInv, RevokedStaysOut, IssuedKeyWorks,
      Idle, Restart

LEMMA StepOK == IInv /\ [Next]_keyVars => IInv'
<1>1. CASE UNCHANGED keyVars
  BY <1>1 DEF keyVars, IInv, TypeOK, Rows, AnsweredInv, ArrivedInv, DatedInv,
              RevokedStaysOut,               IssuedKeyWorks
<1>2. QED
  BY <1>1, AuthStepOK, TouchStepOK, AdminStepOK, RestartOK DEF Next

LEMMA AlwaysIInv == Spec => []IInv
  BY InitOK, StepOK, PTL DEF Spec

-------------------------------------------------------------------------------
(* Every variable of ClientKeys keeps its type.                                *)
THEOREM TypeCorrect == Spec => []TypeOK
<1>1. IInv => TypeOK BY DEF IInv
<1>2. QED BY <1>1, AlwaysIInv, PTL

(* A revocation that was answered keeps every later request out, and no        *)
(* goroutine of an earlier one undoes it.                                      *)
THEOREM RevokedStaysOutHolds == Spec => []RevokedStaysOut
<1>1. IInv => RevokedStaysOut BY DEF IInv
<1>2. QED BY <1>1, AlwaysIInv, PTL

(* A key that was handed out is refused only when it was revoked.              *)
THEOREM IssuedKeyWorksHolds == Spec => []IssuedKeyWorks
<1>1. IInv => IssuedKeyWorks BY DEF IInv
<1>2. QED BY <1>1, AlwaysIInv, PTL

-------------------------------------------------------------------------------
(* The requests of ClientRequest.                                              *)

\* What a handler makes of a body that it could read.
Carried(doc, format, req) ==
  [at |-> "proxy", doc |-> doc, format |-> format, streams |-> ~req.non_streaming,
   openai |-> convertToOpenAI(req), anthropic |-> AnthropicBody(req)]

FromAnthropic == {Carried(doc, "anthropic", AnthropicBodyToRequest(doc)) : doc \in AnthropicDocs \ {Malformed}}
FromOpenAI    == {Carried(doc, "openai", OpenAIToAnthropic(doc)) : doc \in OpenAIDocs \ {Malformed}}

CarryInv == carry \in [Requests -> {Nothing} \cup FromAnthropic \cup FromOpenAI]

LEMMA CarryInvInit == RequestInit => CarryInv
BY DEF RequestInit, CarryInv

LEMMA CarryStep ==
  ASSUME CarryInv, NEW r \in Requests, HandleMessages(r) \/ HandleChatCompletions(r)
  PROVE  CarryInv' /\ UNCHANGED keyVars
<1>1. CASE HandleMessages(r)
  <2>1. PICK doc \in AnthropicDocs \ {Malformed} : Carry(r, doc, "anthropic", AnthropicBodyToRequest(doc))
    BY <1>1 DEF HandleMessages
  <2> DEFINE c == Carried(doc, "anthropic", AnthropicBodyToRequest(doc))
  <2>2. carry' = [carry EXCEPT ![r] = c] /\ UNCHANGED keyVars
    BY <2>1, Zenon DEF Carry, Carried
  <2>3. c \in FromAnthropic
    BY Zenon DEF FromAnthropic
  <2> HIDE DEF c
  <2> QED BY <2>2, <2>3 DEF CarryInv
<1>2. CASE HandleChatCompletions(r)
  <2>1. PICK doc \in OpenAIDocs \ {Malformed} : Carry(r, doc, "openai", OpenAIToAnthropic(doc))
    BY <1>2 DEF HandleChatCompletions
  <2> DEFINE c == Carried(doc, "openai", OpenAIToAnthropic(doc))
  <2>2. carry' = [carry EXCEPT ![r] = c] /\ UNCHANGED keyVars
    BY <2>1, Zenon DEF Carry, Carried
  <2>3. c \in FromOpenAI
    BY Zenon DEF FromOpenAI
  <2> HIDE DEF c
  <2> QED BY <2>2, <2>3 DEF CarryInv
<1> QED BY <1>1, <1>2

LEMMA RequestStep ==
  ASSUME CarryInv, [RequestNext]_vars
  PROVE  CarryInv' /\ [Next]_keyVars
<1>1. CASE UNCHANGED vars
  BY <1>1 DEF vars, CarryInv
<1>2. ASSUME NEW r \in Requests, HandleMessages(r) \/ HandleChatCompletions(r)
      PROVE  CarryInv' /\ [Next]_keyVars
  BY <1>2, CarryStep
<1>3. ASSUME NEW r \in Requests, BadRequest(r) PROVE CarryInv' /\ [Next]_keyVars
  BY <1>3 DEF BadRequest, CarryInv, Next
<1>4. ASSUME NEW r \in Requests, Leave(r) PROVE CarryInv' /\ [Next]_keyVars
  BY <1>4 DEF Leave, CarryInv, Next
<1>5. ASSUME NEW r \in Requests, AuthStep(r) \/ TouchStep(r), UNCHANGED carry
      PROVE  CarryInv' /\ [Next]_keyVars
  BY <1>5 DEF CarryInv, Next
<1>6. ASSUME NEW a \in Admins, AdminStep(a), UNCHANGED carry PROVE CarryInv' /\ [Next]_keyVars
  BY <1>6 DEF CarryInv, Next
<1>7. ASSUME Restart, carry' = [r \in Requests |-> Nothing] PROVE CarryInv' /\ [Next]_keyVars
  BY <1>7 DEF CarryInv, Next
<1> QED BY <1>1, <1>2, <1>3, <1>4, <1>5, <1>6, <1>7 DEF RequestNext

(* Whatever a handler carries was made from a body that a client sent, by the  *)
(* conversion of its format.                                                   *)
THEOREM CarriesWhatWasSent == RequestSpec => []CarryInv
BY CarryInvInit, RequestStep, PTL DEF RequestSpec

(* What the handlers do with a body changes nothing that ClientKeys knows: to  *)
(* it a request is one that was let in and ends some time later.               *)
THEOREM RequestsKeepToKeys == RequestSpec => Spec
<1>1. RequestInit => Init
  BY DEF RequestInit
<1>2. CarryInv /\ [RequestNext]_vars => [Next]_keyVars
  BY RequestStep
<1> QED BY <1>1, <1>2, CarriesWhatWasSent, PTL DEF RequestSpec, Spec

(* The keys' guarantees for the requests that are converted.                   *)
THEOREM KeysHoldForRequests == RequestSpec => [](RevokedStaysOut /\ IssuedKeyWorks)
BY RequestsKeepToKeys, RevokedStaysOutHolds, IssuedKeyWorksHolds, PTL

-------------------------------------------------------------------------------
(* An Anthropic client's body, for an Anthropic-style provider.                *)

\* A body with its six fields.
IsBody(b, messages, system, limit, s, tools, choice) ==
  b = [messages |-> messages, system |-> system, max_tokens |-> limit, stream |-> s,
       tools |-> tools, tool_choice |-> choice]

LEMMA StreamPut ==
  ASSUME NEW messages, NEW system, NEW limit, NEW s, NEW tools, NEW choice, NEW doc, NEW u,
         IsBody(doc, messages, system, limit, s, tools, choice)
  PROVE  IsBody([doc EXCEPT !.stream = u], messages, system, limit, u, tools, choice)
BY DEF IsBody

LEMMA LimitPut ==
  ASSUME NEW messages, NEW system, NEW limit, NEW s, NEW tools, NEW choice, NEW doc, NEW m,
         IsBody(doc, messages, system, limit, s, tools, choice)
  PROVE  IsBody([doc EXCEPT !.max_tokens = m], messages, system, m, s, tools, choice)
BY DEF IsBody

Patched(body, doc, m) == body = [doc EXCEPT !.stream = TRUE, !.max_tokens = m]

OnlyPatched(body, doc, m) ==
  /\ [body EXCEPT !.stream = doc.stream, !.max_tokens = doc.max_tokens] = doc
  /\ body.stream = TRUE /\ body.max_tokens = m

LEMMA PutBack ==
  ASSUME NEW messages, NEW system, NEW limit, NEW s, NEW tools, NEW choice, NEW doc,
         IsBody(doc, messages, system, limit, s, tools, choice),
         NEW m, NEW body, Patched(body, doc, m)
  PROVE  OnlyPatched(body, doc, m)
<1> DEFINE start == [doc EXCEPT !.stream = TRUE]
           two == [start EXCEPT !.max_tokens = m]
           three == [body EXCEPT !.stream = s]
           four == [three EXCEPT !.max_tokens = limit]
<1>1. IsBody(start, messages, system, limit, TRUE, tools, choice)
  BY StreamPut
<1>2. body = two
  BY DEF Patched
<1>3. IsBody(two, messages, system, m, TRUE, tools, choice)
  <2> HIDE DEF start
  <2> QED BY <1>1, LimitPut
<1>4. IsBody(body, messages, system, m, TRUE, tools, choice)
  BY <1>2, <1>3, Zenon
<1>5. IsBody(three, messages, system, m, s, tools, choice)
  BY <1>4, StreamPut
<1>6. IsBody(four, messages, system, limit, s, tools, choice)
  <2> HIDE DEF three
  <2> QED BY <1>5, LimitPut
<1>7. [body EXCEPT !.stream = s, !.max_tokens = limit] = four
  OBVIOUS
<1>8. doc.stream = s /\ doc.max_tokens = limit
  BY DEF IsBody
<1>9. four = doc
  BY <1>6, Zenon DEF IsBody
<1>10. body.stream = TRUE /\ body.max_tokens = m
  BY <1>4 DEF IsBody
<1> QED BY <1>7, <1>8, <1>9, <1>10, Zenon DEF OnlyPatched

LEMMA PassedOn ==
  ASSUME NEW doc \in AnthropicBodies, NEW c, c = Carried(doc, "anthropic", AnthropicBodyToRequest(doc))
  PROVE  /\ c.anthropic.stream /\ c.openai.stream
         /\ c.streams = c.doc.stream
         /\ c.anthropic.max_tokens = (IF c.doc.max_tokens = Absent THEN DefaultMaxTokens
                                      ELSE c.doc.max_tokens)
         /\ [c.anthropic EXCEPT !.stream = c.doc.stream, !.max_tokens = c.doc.max_tokens] = c.doc
<1> DEFINE req == AnthropicBodyToRequest(doc)
           m == IF doc.max_tokens = Absent THEN req.max_tokens ELSE doc.max_tokens
           body == AnthropicBody(req)
<1>1. doc.stream \in BOOLEAN /\ doc # Absent
  BY RequestAssumption DEF AnthropicBodies
<1>2. /\ req.raw = doc /\ req.non_streaming = ~doc.stream
      /\ req.max_tokens = MaxTokens(doc.max_tokens)
  BY DEF AnthropicBodyToRequest, Decoded
<1>3. m = IF doc.max_tokens = Absent THEN DefaultMaxTokens ELSE doc.max_tokens
  BY <1>2 DEF MaxTokens
<1> HIDE DEF req
<1>4. Patched(body, doc, m)
  BY <1>1, <1>2 DEF AnthropicBody, patchAnthropicBody, Patched
<1> HIDE DEF m, body
<1>5. /\ [body EXCEPT !.stream = doc.stream, !.max_tokens = doc.max_tokens] = doc
      /\ body.stream = TRUE /\ body.max_tokens = m
  <2>1. IsBody(doc, doc.messages, doc.system, doc.max_tokens, doc.stream, doc.tools, doc.tool_choice)
    BY DEF AnthropicBodies, IsBody
  <2>2. OnlyPatched(body, doc, m)
    BY <1>4, <2>1, PutBack
  <2> QED BY <2>2 DEF OnlyPatched
<1>6. c.anthropic = body /\ c.openai.stream = TRUE /\ c.streams = ~req.non_streaming /\ c.doc = doc
  BY DEF Carried, convertToOpenAI, body, req
<1>7. c.streams = c.doc.stream
  BY <1>1, <1>2, <1>6
<1>8. c.anthropic.max_tokens = IF c.doc.max_tokens = Absent THEN DefaultMaxTokens ELSE c.doc.max_tokens
  BY <1>3, <1>5, <1>6, Zenon
<1>9. [c.anthropic EXCEPT !.stream = c.doc.stream, !.max_tokens = c.doc.max_tokens] = c.doc
  BY <1>5, <1>6, Zenon
<1> QED BY <1>5, <1>6, <1>7, <1>8, <1>9, Zenon

LEMMA PassedThroughFromCarry == CarryInv => PassedThrough
<1> SUFFICES ASSUME CarryInv, NEW c \in Routed, c.format = "anthropic"
             PROVE  /\ c.anthropic.stream /\ c.openai.stream
                    /\ c.streams = c.doc.stream
                    /\ c.anthropic.max_tokens = (IF c.doc.max_tokens = Absent THEN DefaultMaxTokens
                                                 ELSE c.doc.max_tokens)
                    /\ [c.anthropic EXCEPT !.stream = c.doc.stream, !.max_tokens = c.doc.max_tokens] = c.doc
  BY DEF PassedThrough
<1>1. c \in FromAnthropic \cup FromOpenAI
  BY DEF CarryInv, Routed
<1>2. c \notin FromOpenAI
  <2> SUFFICES ASSUME c \in FromOpenAI PROVE FALSE
    OBVIOUS
  <2>1. PICK doc \in OpenAIDocs \ {Malformed} : c = Carried(doc, "openai", OpenAIToAnthropic(doc))
    BY DEF FromOpenAI
  <2>2. c.format = "openai"
    BY <2>1 DEF Carried
  <2> QED BY <2>2
<1>3. PICK doc \in AnthropicDocs \ {Malformed} : c = Carried(doc, "anthropic", AnthropicBodyToRequest(doc))
  BY <1>1, <1>2 DEF FromAnthropic
<1>4. doc \in AnthropicBodies
  BY <1>3, RequestAssumption
<1> QED BY <1>3, <1>4, PassedOn

(* An Anthropic-style provider gets an Anthropic client's body with nothing    *)
(* changed but the model, stream and an absent max_tokens.                     *)
THEOREM AlwaysPassedThrough == RequestSpec => []PassedThrough
BY CarriesWhatWasSent, PassedThroughFromCarry, PTL


-------------------------------------------------------------------------------
(* Facts about data, which do not depend on the step of a loop.                *)

Data == INSTANCE FoldTheorems WITH Step <- ConvertMessage, Good <- LAMBDA s, q, i, t : TRUE

-------------------------------------------------------------------------------
(* Schemas.                                                                    *)

Bare == {Absent, Boolean}

\* The right sides of SchemasOf, Sanitize's f and Paths' f.
LevelOf(f, d) == Bare \cup (IF d = 0 THEN {} ELSE ObjectSchemas(f[d - 1]))

SanitizeStep(f, s) ==
  IF s \in {Boolean, Absent} THEN s
  ELSE [s EXCEPT !.properties = [n \in Properties |->
                                   IF n \in Conflicting THEN Absent ELSE f[@[n]]],
                 !.required = @ \ (Conflicting \cap Has(s)),
                 !.items = f[@],
                 !.additionalProperties = f[@]]

PathsStep(f, s) ==
  IF s = Absent THEN {}
  ELSE IF s = Boolean THEN {<<>>}
  ELSE {<<>>}
       \cup (UNION {Under(<<"properties", n>>, f[s.properties[n]]) : n \in Properties})
       \cup Under(<<"items">>, f[s.items])
       \cup Under(<<"additionalProperties">>, f[s.additionalProperties])
       \cup {<<"required", n>> : n \in s.required \cap Has(s)}

Levels     == INSTANCE FoldTheorems WITH Step <- LevelOf, Good <- LAMBDA s, q, i, t : TRUE
Sanitizing == INSTANCE FoldTheorems WITH Step <- SanitizeStep, Good <- LAMBDA s, q, i, t : TRUE
Listed     == INSTANCE FoldTheorems WITH Step <- PathsStep, Good <- LAMBDA s, q, i, t : TRUE

LEMMA SchemaLevels ==
  \A d \in Nat : SchemasOf[d] = Bare \cup (IF d = 0 THEN {} ELSE ObjectSchemas(SchemasOf[d - 1]))
<1> DEFINE size == [d \in Nat |-> d]
<1>1. ASSUME NEW f, NEW g, NEW d \in Nat, \A e \in Nat : size[e] < size[d] => f[e] = g[e]
      PROVE  LevelOf(f, d) = LevelOf(g, d)
  <2>1. d # 0 => d - 1 \in Nat /\ size[d - 1] < size[d]
    OBVIOUS
  <2>2. d # 0 => f[d - 1] = g[d - 1]
    BY <1>1, <2>1
  <2> QED BY <2>2 DEF LevelOf
<1>2. size \in [Nat -> Nat]
  OBVIOUS
<1> HIDE DEF size
<1>3. \E f : f = [d \in Nat |-> LevelOf(f, d)]
  BY <1>1, <1>2, Levels!RecursiveExists
<1>4. SchemasOf = CHOOSE f : f = [d \in Nat |-> LevelOf(f, d)]
  BY Zenon DEF SchemasOf, LevelOf, Bare
<1>5. SchemasOf = [d \in Nat |-> LevelOf(SchemasOf, d)]
  BY <1>3, <1>4
<1>6. \A d \in Nat : SchemasOf[d] = LevelOf(SchemasOf, d)
  BY <1>5
<1> QED BY <1>6 DEF LevelOf

LEMMA ObjectsGrow ==
  ASSUME NEW A, NEW B, A \subseteq B
  PROVE  ObjectSchemas(A) \subseteq ObjectSchemas(B)
BY DEF ObjectSchemas

LEMMA SchemasGrow ==
  \A d \in Nat : SchemasOf[d] \subseteq SchemasOf[d + 1]
<1> DEFINE N == {d \in Nat : SchemasOf[d] \subseteq SchemasOf[d + 1]}
<1>1. 0 \in N
  <2>1. SchemasOf[0] = Bare
    BY SchemaLevels
  <2>2. Bare \subseteq SchemasOf[1]
    BY SchemaLevels
  <2> QED BY <2>1, <2>2
<1>2. ASSUME NEW d \in Nat, d \in N PROVE d + 1 \in N
  <2>1. d + 1 \in Nat /\ (d + 1) + 1 \in Nat /\ (d + 1) - 1 = d /\ ((d + 1) + 1) - 1 = d + 1
        /\ d + 1 # 0 /\ (d + 1) + 1 # 0
    OBVIOUS
  <2>2. SchemasOf[d + 1] = Bare \cup ObjectSchemas(SchemasOf[d])
    BY <2>1, SchemaLevels
  <2>3. SchemasOf[(d + 1) + 1] = Bare \cup ObjectSchemas(SchemasOf[d + 1])
    BY <2>1, SchemaLevels
  <2>4. ObjectSchemas(SchemasOf[d]) \subseteq ObjectSchemas(SchemasOf[d + 1])
    <3>1. SchemasOf[d] \subseteq SchemasOf[d + 1]
      BY <1>2
    <3> QED BY <3>1, ObjectsGrow
  <2> QED BY <2>1, <2>2, <2>3, <2>4
<1> HIDE DEF N
<1>3. \A d \in Nat : d \in N
  BY <1>1, <1>2, Data!NatSetInduction
<1> QED BY <1>3 DEF N

\* A schema of a depth is one of every greater depth.
LEMMA SchemasNested ==
  \A d \in Nat : d <= MaxDepth => SchemasOf[d] \subseteq Schemas
<1> DEFINE N == {k \in Nat : k <= MaxDepth => SchemasOf[MaxDepth - k] \subseteq Schemas}
<1>0. MaxDepth \in Nat
  BY ConversionAssumption
<1>1. 0 \in N
  BY <1>0 DEF Schemas
<1>2. ASSUME NEW k \in Nat, k \in N PROVE k + 1 \in N
  <2> SUFFICES ASSUME k + 1 <= MaxDepth PROVE SchemasOf[MaxDepth - (k + 1)] \subseteq Schemas
    OBVIOUS
  <2>1. MaxDepth - (k + 1) \in Nat /\ (MaxDepth - (k + 1)) + 1 = MaxDepth - k /\ k <= MaxDepth
    BY <1>0
  <2>2. SchemasOf[MaxDepth - (k + 1)] \subseteq SchemasOf[(MaxDepth - (k + 1)) + 1]
    BY <2>1, SchemasGrow
  <2> QED BY <1>2, <2>1, <2>2
<1> HIDE DEF N
<1>3. \A k \in Nat : k \in N
  BY <1>1, <1>2, Data!NatSetInduction
<1> SUFFICES ASSUME NEW d \in Nat, d <= MaxDepth PROVE SchemasOf[d] \subseteq Schemas
  OBVIOUS
<1>4. MaxDepth - d \in Nat /\ MaxDepth - (MaxDepth - d) = d /\ MaxDepth - d <= MaxDepth
  BY <1>0
<1>5. MaxDepth - d \in N
  BY <1>3, <1>4
<1> QED BY <1>4, <1>5 DEF N

\* How deep a schema is, and what it looks into.
Depth(s) == CHOOSE d \in 0..MaxDepth : s \in SchemasOf[d] /\ \A e \in 0..MaxDepth : s \in SchemasOf[e] => d <= e

Depths == [s \in Schemas |-> Depth(s)]

LEMMA DepthIs ==
  ASSUME NEW s \in Schemas
  PROVE  /\ Depths[s] \in 0..MaxDepth /\ s \in SchemasOf[Depths[s]]
         /\ \A e \in 0..MaxDepth : s \in SchemasOf[e] => Depths[s] <= e
<1> DEFINE N == {d \in 0..MaxDepth : s \in SchemasOf[d]}
<1>0. MaxDepth \in Nat /\ MaxDepth \in 0..MaxDepth
  BY ConversionAssumption
<1>1. MaxDepth \in N /\ N \subseteq Nat
  BY <1>0 DEF Schemas
<1>2. \E d \in N : \A e \in N : d <= e
  BY <1>1, Data!LeastOfSet
<1>3. \E d \in 0..MaxDepth : s \in SchemasOf[d] /\ \A e \in 0..MaxDepth : s \in SchemasOf[e] => d <= e
  BY <1>2
<1>4. Depths[s] = Depth(s)
  BY DEF Depths
<1> QED BY <1>3, <1>4 DEF Depth

LEMMA ObjectIs ==
  ASSUME NEW d \in Nat, NEW s \in SchemasOf[d], s \notin Bare
  PROVE  d # 0 /\ s \in ObjectSchemas(SchemasOf[d - 1])
BY SchemaLevels

Smaller(t, s) == t \in Schemas /\ Depths[t] < Depths[s]

LEMMA SmallerParts ==
  ASSUME NEW s \in Schemas, s \notin Bare
  PROVE  /\ \A n \in Properties : Smaller(s.properties[n], s)
         /\ Smaller(s.items, s) /\ Smaller(s.additionalProperties, s)
<1> DEFINE d == Depths[s]
<1>1. d \in 0..MaxDepth /\ s \in SchemasOf[d] /\ MaxDepth \in Nat
  BY DepthIs, ConversionAssumption
<1> HIDE DEF d
<1>2. d \in Nat /\ d # 0 /\ s \in ObjectSchemas(SchemasOf[d - 1])
  BY <1>1, ObjectIs
<1>3. d - 1 \in Nat /\ d - 1 \in 0..MaxDepth /\ d - 1 <= MaxDepth /\ d - 1 < d
  BY <1>1, <1>2
<1>4. ASSUME NEW t \in SchemasOf[d - 1] PROVE Smaller(t, s)
  <2>1. t \in Schemas
    BY <1>3, SchemasNested
  <2>2. Depths[t] <= d - 1 /\ Depths[t] \in 0..MaxDepth
    BY <1>3, <2>1, DepthIs
  <2>3. Depths[t] < d
    BY <1>1, <1>3, <2>2
  <2> QED BY <2>1, <2>3 DEF Smaller, d
<1>5. /\ \A n \in Properties : s.properties[n] \in SchemasOf[d - 1]
      /\ s.items \in SchemasOf[d - 1] /\ s.additionalProperties \in SchemasOf[d - 1]
  BY <1>2 DEF ObjectSchemas
<1> QED BY <1>4, <1>5

LEMMA SchemaInduction ==
  ASSUME NEW T, Bare \subseteq T,
         \A s \in Schemas \ Bare :
           (\A t \in Schemas : Smaller(t, s) => t \in T) => s \in T
  PROVE  Schemas \subseteq T
<1> DEFINE N == {k \in Nat : \A s \in Schemas : Depths[s] < k => s \in T}
<1>0. \A s \in Schemas : Depths[s] \in Nat
  BY DepthIs
<1>1. 0 \in N
  BY <1>0
<1>2. ASSUME NEW k \in Nat, k \in N PROVE k + 1 \in N
  <2> SUFFICES ASSUME NEW s \in Schemas, Depths[s] < k + 1, s \notin Bare PROVE s \in T
    OBVIOUS
  <2>1. \A t \in Schemas : Smaller(t, s) => t \in T
    <3> SUFFICES ASSUME NEW t \in Schemas, Smaller(t, s) PROVE t \in T
      OBVIOUS
    <3>1. Depths[t] \in Nat /\ Depths[s] \in Nat
      BY <1>0
    <3>2. Depths[t] < k
      BY <3>1 DEF Smaller
    <3> QED BY <1>2, <3>2
  <2> QED BY <2>1
<1> HIDE DEF N
<1>3. \A k \in Nat : k \in N
  BY <1>1, <1>2, Data!NatSetInduction
<1> SUFFICES ASSUME NEW s \in Schemas PROVE s \in T
  OBVIOUS
<1>4. Depths[s] + 1 \in Nat /\ Depths[s] < Depths[s] + 1
  BY <1>0
<1> QED BY <1>3, <1>4 DEF N

-------------------------------------------------------------------------------
(* sanitizeParameterSchema.                                                    *)

CleanedOf(f, s) == [n \in Properties |-> IF n \in Conflicting THEN Absent ELSE f[s.properties[n]]]
CleanedWith(f, s) ==
  [properties |-> CleanedOf(f, s), required |-> s.required \ (Conflicting \cap Has(s)),
   items |-> f[s.items], additionalProperties |-> f[s.additionalProperties], rest |-> s.rest]

\* The fields of a schema, one by one.
IsSchema(s, p, r, i, a, t) ==
  s = [properties |-> p, required |-> r, items |-> i, additionalProperties |-> a, rest |-> t]

Changed(s, p, r, i, a) ==
  [s EXCEPT !.properties = p, !.required = r, !.items = i, !.additionalProperties = a]

LEMMA ChangedIs ==
  ASSUME NEW s, NEW p, NEW r, NEW i, NEW a, NEW t, IsSchema(s, p, r, i, a, t),
         NEW q, NEW u, NEW j, NEW b
  PROVE  IsSchema(Changed(s, q, u, j, b), q, u, j, b, t)
<1> DEFINE one == [s EXCEPT !.properties = q]
           two == [one EXCEPT !.required = u]
           three == [two EXCEPT !.items = j]
           four == [three EXCEPT !.additionalProperties = b]
<1>1. IsSchema(one, q, r, i, a, t)
  BY DEF IsSchema
<1> HIDE DEF one
<1>2. IsSchema(two, q, u, i, a, t)
  BY <1>1 DEF IsSchema
<1> HIDE DEF two
<1>3. IsSchema(three, q, u, j, a, t)
  BY <1>2 DEF IsSchema
<1> HIDE DEF three
<1>4. IsSchema(four, q, u, j, b, t)
  BY <1>3 DEF IsSchema
<1>5. Changed(s, q, u, j, b) = four
  BY DEF Changed, one, two, three
<1> QED BY <1>4, <1>5, Zenon

LEMMA SanitizeStepIs ==
  ASSUME NEW f, NEW s \in Schemas
  PROVE  SanitizeStep(f, s) = IF s \in Bare THEN s ELSE CleanedWith(f, s)
<1>1. CASE s \in Bare
  BY <1>1 DEF SanitizeStep, Bare
<1>2. CASE s \notin Bare
  <2>1. PICK d \in Nat : s \in SchemasOf[d]
    BY ConversionAssumption DEF Schemas
  <2>2. s \in ObjectSchemas(SchemasOf[d - 1])
    BY <1>2, <2>1, ObjectIs
  <2>3. s = [properties |-> s.properties, required |-> s.required, items |-> s.items,
             additionalProperties |-> s.additionalProperties, rest |-> s.rest]
    BY <2>2 DEF ObjectSchemas
  <2>4. IsSchema(s, s.properties, s.required, s.items, s.additionalProperties, s.rest)
    BY <2>3 DEF IsSchema
  <2>5. IsSchema(Changed(s, CleanedOf(f, s), s.required \ (Conflicting \cap Has(s)), f[s.items],
                         f[s.additionalProperties]),
                 CleanedOf(f, s), s.required \ (Conflicting \cap Has(s)), f[s.items],
                 f[s.additionalProperties], s.rest)
    BY <2>4, ChangedIs
  <2>6. SanitizeStep(f, s)
          = Changed(s, CleanedOf(f, s), s.required \ (Conflicting \cap Has(s)), f[s.items],
                    f[s.additionalProperties])
    BY <1>2, Zenon DEF SanitizeStep, Bare, Changed, CleanedOf
  <2> QED BY <1>2, <2>5, <2>6 DEF IsSchema, CleanedWith
<1> QED BY <1>1, <1>2

Sanitizer == CHOOSE f : f = [s \in Schemas |-> SanitizeStep(f, s)]

LEMMA CleanedSame ==
  ASSUME NEW s \in Schemas, s \notin Bare, NEW f, NEW g,
         \A t \in Schemas : Depths[t] < Depths[s] => f[t] = g[t]
  PROVE  CleanedWith(f, s) = CleanedWith(g, s)
<1>1. /\ \A n \in Properties : f[s.properties[n]] = g[s.properties[n]]
      /\ f[s.items] = g[s.items] /\ f[s.additionalProperties] = g[s.additionalProperties]
  BY SmallerParts DEF Smaller
<1>2. CleanedOf(f, s) = CleanedOf(g, s)
  BY <1>1 DEF CleanedOf
<1> QED BY <1>1, <1>2 DEF CleanedWith

LEMMA SanitizeIs ==
  \A s \in Schemas : Sanitize(s) = IF s \in Bare THEN s ELSE CleanedWith(Sanitizer, s)
<1>1. Depths \in [Schemas -> Nat]
  BY DepthIs DEF Depths
<1>2. ASSUME NEW f, NEW g, NEW s \in Schemas, \A t \in Schemas : Depths[t] < Depths[s] => f[t] = g[t]
      PROVE  SanitizeStep(f, s) = SanitizeStep(g, s)
  <2>1. CASE s \in Bare
    BY <2>1, SanitizeStepIs
  <2>2. CASE s \notin Bare
    BY <1>2, <2>2, CleanedSame, SanitizeStepIs
  <2> QED BY <2>1, <2>2
<1>3. \E f : f = [s \in Schemas |-> SanitizeStep(f, s)]
  BY <1>1, <1>2, Sanitizing!RecursiveExists
<1>4. Sanitizer = [s \in Schemas |-> SanitizeStep(Sanitizer, s)]
  BY <1>3 DEF Sanitizer
<1> SUFFICES ASSUME NEW s \in Schemas PROVE Sanitize(s) = IF s \in Bare THEN s ELSE CleanedWith(Sanitizer, s)
  OBVIOUS
<1>5. Sanitize(s) = Sanitizer[s]
  BY Zenon DEF Sanitize, Sanitizer, SanitizeStep
<1>6. Sanitizer[s] = SanitizeStep(Sanitizer, s)
  BY <1>4
<1> QED BY <1>5, <1>6, SanitizeStepIs

\* Sanitizer is Sanitize, as a function.
LEMMA SanitizerIs == \A s \in Schemas : Sanitizer[s] = Sanitize(s)
BY Zenon DEF Sanitize, Sanitizer, SanitizeStep

\* A schema stays one, of the same depth.
LEMMA SanitizedDepth ==
  \A s \in Schemas : \A d \in 0..MaxDepth : s \in SchemasOf[d] => Sanitize(s) \in SchemasOf[d]
<1> DEFINE T == {s \in Schemas : \A d \in 0..MaxDepth : s \in SchemasOf[d] => Sanitize(s) \in SchemasOf[d]}
<1>0. MaxDepth \in Nat
  BY ConversionAssumption
<1>1. Bare \subseteq T
  <2>1. Bare \subseteq Schemas
    BY <1>0, SchemaLevels DEF Schemas
  <2>2. \A s \in Bare : Sanitize(s) = s
    BY <2>1, SanitizeIs
  <2> QED BY <2>1, <2>2
<1>2. ASSUME NEW s \in Schemas \ Bare, \A t \in Schemas : Smaller(t, s) => t \in T PROVE s \in T
  <2> SUFFICES ASSUME NEW d \in 0..MaxDepth, s \in SchemasOf[d] PROVE Sanitize(s) \in SchemasOf[d]
    OBVIOUS
  <2>1. d \in Nat /\ d # 0 /\ s \in ObjectSchemas(SchemasOf[d - 1]) /\ d - 1 \in 0..MaxDepth
    BY <1>0, ObjectIs
  <2>2. /\ \A n \in Properties : s.properties[n] \in SchemasOf[d - 1]
        /\ s.items \in SchemasOf[d - 1] /\ s.additionalProperties \in SchemasOf[d - 1]
        /\ s.required \in SUBSET Properties /\ s.rest \in Atoms
    BY <2>1 DEF ObjectSchemas
  <2>3. /\ \A n \in Properties : s.properties[n] \in T
        /\ s.items \in T /\ s.additionalProperties \in T
    BY <1>2, SmallerParts DEF Smaller
  <2>4. \A t \in T : t \in SchemasOf[d - 1] => Sanitizer[t] \in SchemasOf[d - 1]
    BY <2>1, SanitizerIs
  <2> HIDE DEF T
  <2>5. Absent \in SchemasOf[d - 1]
    BY <2>1, SchemaLevels DEF Bare
  <2>6. CleanedOf(Sanitizer, s) \in [Properties -> SchemasOf[d - 1]]
    BY <2>2, <2>3, <2>4, <2>5 DEF CleanedOf
  <2>7. CleanedWith(Sanitizer, s) \in ObjectSchemas(SchemasOf[d - 1])
    BY <2>2, <2>3, <2>4, <2>6 DEF CleanedWith, ObjectSchemas
  <2>8. CleanedWith(Sanitizer, s) \in SchemasOf[d]
    BY <2>1, <2>7, SchemaLevels
  <2> QED BY <2>8, SanitizeIs
<1> HIDE DEF T
<1>3. Schemas \subseteq T
  BY <1>1, <1>2, SchemaInduction
<1> QED BY <1>3 DEF T

LEMMA SanitizedSchema ==
  ASSUME NEW s \in Schemas
  PROVE  /\ Sanitize(s) \in Schemas
         /\ s \in Bare => Sanitize(s) = s
         /\ s \notin Bare => Sanitize(s) \notin Bare
<1>0. MaxDepth \in 0..MaxDepth /\ s \in SchemasOf[MaxDepth]
  BY ConversionAssumption DEF Schemas
<1>1. Sanitize(s) \in Schemas
  BY <1>0, SanitizedDepth DEF Schemas
<1>2. s \in Bare => Sanitize(s) = s
  BY SanitizeIs
<1>3. ASSUME s \notin Bare PROVE Sanitize(s) \notin Bare
  <2> DEFINE c == CleanedWith(Sanitizer, s)
  <2>1. \A t \in Schemas : Sanitizer[t] \in Schemas
    <3>1. \A t \in Schemas : Sanitize(t) \in Schemas
      <4>1. \A t \in SchemasOf[MaxDepth] : Sanitize(t) \in SchemasOf[MaxDepth]
        BY <1>0, SanitizedDepth DEF Schemas
      <4> QED BY <4>1 DEF Schemas
    <3> QED BY <3>1, SanitizerIs
  <2>2. /\ \A n \in Properties : s.properties[n] \in Schemas
        /\ s.items \in Schemas /\ s.additionalProperties \in Schemas
    BY <1>3, SmallerParts DEF Smaller
  <2>3. s.required \in SUBSET Properties /\ s.rest \in Atoms
    <3>1. s \in ObjectSchemas(SchemasOf[MaxDepth - 1])
      BY <1>0, <1>3, ObjectIs
    <3> QED BY <3>1 DEF ObjectSchemas
  <2>4. Absent \in Schemas
    BY <1>0, SchemaLevels DEF Schemas, Bare
  <2>5. CleanedOf(Sanitizer, s) \in [Properties -> Schemas]
    BY <2>1, <2>2, <2>4 DEF CleanedOf
  <2>6. c \in ObjectSchemas(Schemas)
    BY <2>1, <2>2, <2>3, <2>5 DEF CleanedWith, ObjectSchemas
  <2>7. Sanitize(s) = c
    BY <1>3, SanitizeIs
  <2> HIDE DEF c
  <2>8. c \notin {Absent, Boolean}
    BY <2>6, ConversionAssumption
  <2> QED BY <2>7, <2>8 DEF Bare
<1> QED BY <1>1, <1>2, <1>3

-------------------------------------------------------------------------------
(* The paths through a schema.                                                 *)

Lister == CHOOSE f : f = [s \in Schemas |-> PathsStep(f, s)]

ByProperty(f, s, n) == Under(<<"properties", n>>, f[s.properties[n]])
ByProperties(f, s) == UNION {ByProperty(f, s, n) : n \in Properties}
Needed(s) == {<<"required", n>> : n \in s.required \cap Has(s)}

LEMMA PathsSame ==
  ASSUME NEW s \in Schemas, NEW f, NEW g,
         \A t \in Schemas : Depths[t] < Depths[s] => f[t] = g[t]
  PROVE  PathsStep(f, s) = PathsStep(g, s)
<1>1. CASE s \in Bare
  BY <1>1 DEF PathsStep, Bare
<1>2. CASE s \notin Bare
  <2>1. /\ \A n \in Properties : f[s.properties[n]] = g[s.properties[n]]
        /\ f[s.items] = g[s.items] /\ f[s.additionalProperties] = g[s.additionalProperties]
    BY <1>2, SmallerParts DEF Smaller
  <2>2. {Under(<<"properties", n>>, f[s.properties[n]]) : n \in Properties}
          = {Under(<<"properties", n>>, g[s.properties[n]]) : n \in Properties}
    BY <2>1
  <2> QED BY <2>1, <2>2, Zenon DEF PathsStep
<1> QED BY <1>1, <1>2

LEMMA ListerIs ==
  \A s \in Schemas : Paths(s) = Lister[s] /\ Lister[s] = PathsStep(Lister, s)
<1>1. Depths \in [Schemas -> Nat]
  BY DepthIs DEF Depths
<1>2. ASSUME NEW f, NEW g, NEW s \in Schemas, \A t \in Schemas : Depths[t] < Depths[s] => f[t] = g[t]
      PROVE  PathsStep(f, s) = PathsStep(g, s)
  BY <1>2, PathsSame
<1>3. \E f : f = [s \in Schemas |-> PathsStep(f, s)]
  BY <1>1, <1>2, Listed!RecursiveExists
<1>4. Lister = [s \in Schemas |-> PathsStep(Lister, s)]
  BY <1>3 DEF Lister
<1> SUFFICES ASSUME NEW s \in Schemas PROVE Paths(s) = Lister[s] /\ Lister[s] = PathsStep(Lister, s)
  OBVIOUS
<1>5. Paths(s) = Lister[s]
  BY Zenon DEF Paths, Lister, PathsStep
<1>6. Lister[s] = PathsStep(Lister, s)
  BY <1>4
<1> QED BY <1>5, <1>6

LEMMA PathsOfBare ==
  /\ Bare \subseteq Schemas
  /\ Paths(Absent) = {}
  /\ \A s \in Bare : Paths(s) \subseteq {<<>>}
<1>1. Bare \subseteq Schemas
  BY ConversionAssumption, SchemaLevels DEF Schemas
<1>2. PathsStep(Lister, Absent) = {}
  BY DEF PathsStep
<1>3. \A s \in Bare : PathsStep(Lister, s) \subseteq {<<>>}
  BY DEF PathsStep, Bare
<1> QED BY <1>1, <1>2, <1>3, ListerIs DEF Bare

LEMMA PathsOfObject ==
  ASSUME NEW s \in Schemas, s \notin Bare
  PROVE  Paths(s) = {<<>>} \cup ByProperties(Lister, s) \cup Under(<<"items">>, Lister[s.items])
                    \cup Under(<<"additionalProperties">>, Lister[s.additionalProperties])
                    \cup Needed(s)
<1>1. Paths(s) = PathsStep(Lister, s)
  BY ListerIs
<1>2. s # Absent /\ s # Boolean
  BY DEF Bare
<1> QED BY <1>1, <1>2, Zenon DEF PathsStep, ByProperties, ByProperty, Needed

\* A path is a sequence of names.
Names == Properties \cup {"properties", "items", "additionalProperties", "required"}

LEMMA UnderType ==
  ASSUME NEW key \in Seq(Names), NEW P, P \subseteq Seq(Names)
  PROVE  Under(key, P) \subseteq Seq(Names)
<1>1. \A p \in P : key \o p \in Seq(Names)
  OBVIOUS
<1> QED BY <1>1, Zenon DEF Under

LEMMA PathsType == \A s \in Schemas : Lister[s] \subseteq Seq(Names)
<1> DEFINE T == {s \in Schemas : Lister[s] \subseteq Seq(Names)}
<1>1. Bare \subseteq T
  <2>1. <<>> \in Seq(Names)
    OBVIOUS
  <2> QED BY <2>1, PathsOfBare, ListerIs
<1>2. ASSUME NEW s \in Schemas \ Bare, \A t \in Schemas : Smaller(t, s) => t \in T PROVE s \in T
  <2>1. /\ \A n \in Properties : Lister[s.properties[n]] \subseteq Seq(Names)
        /\ Lister[s.items] \subseteq Seq(Names) /\ Lister[s.additionalProperties] \subseteq Seq(Names)
    BY <1>2, SmallerParts DEF Smaller
  <2>2. /\ \A n \in Properties : <<"properties", n>> \in Seq(Names) /\ <<"required", n>> \in Seq(Names)
        /\ <<"items">> \in Seq(Names) /\ <<"additionalProperties">> \in Seq(Names)
        /\ <<>> \in Seq(Names)
    BY DEF Names
  <2>3. \A n \in Properties : ByProperty(Lister, s, n) \subseteq Seq(Names)
    BY <2>1, <2>2, UnderType DEF ByProperty
  <2>4. /\ Under(<<"items">>, Lister[s.items]) \subseteq Seq(Names)
        /\ Under(<<"additionalProperties">>, Lister[s.additionalProperties]) \subseteq Seq(Names)
    BY <2>1, <2>2, UnderType
  <2>5. ByProperties(Lister, s) \subseteq Seq(Names)
    BY <2>3 DEF ByProperties
  <2>6. Needed(s) \subseteq Seq(Names)
    <3>1. \A n \in Has(s) : n \in Properties
      BY DEF Has
    <3> QED BY <2>2, <3>1 DEF Needed
  <2>7. Paths(s) \subseteq Seq(Names)
    BY <2>2, <2>4, <2>5, <2>6, PathsOfObject
  <2> QED BY <2>7, ListerIs
<1> HIDE DEF T
<1>3. Schemas \subseteq T
  BY <1>1, <1>2, SchemaInduction
<1> QED BY <1>3 DEF T

-------------------------------------------------------------------------------
(* Those of a sanitized schema.                                                *)

Kept(P) == {p \in P : Clean(p)}

LEMMA CleanUnder ==
  ASSUME NEW key \in Seq(Names), NEW P, P \subseteq Seq(Names)
  PROVE  /\ Clean(key) => Kept(Under(key, P)) = Under(key, Kept(P))
         /\ ~Clean(key) => Kept(Under(key, P)) = {}
<1>1. ASSUME NEW p \in P PROVE Clean(key \o p) = (Clean(key) /\ Clean(p))
  <2> DEFINE m == Len(key)
             n == Len(p)
             r == key \o p
  <2>1. /\ p \in Seq(Names) /\ m \in Nat /\ n \in Nat /\ DOMAIN key = 1..m /\ DOMAIN p = 1..n
        /\ r \in Seq(Names) /\ Len(r) = m + n /\ DOMAIN r = 1..m + n
    OBVIOUS
  <2>2. \A i \in 1..m + n : r[i] = IF i <= m THEN key[i] ELSE p[i - m]
    BY <2>1
  <2> HIDE DEF m, n, r
  <2>3. ASSUME NEW i \in 1..m, key[i] = "type" PROVE ~Clean(r)
    <3>1. i \in 1..m + n /\ i <= m
      BY <2>1
    <3> QED BY <2>1, <2>2, <2>3, <3>1 DEF Clean
  <2>4. ASSUME NEW i \in 1..n, p[i] = "type" PROVE ~Clean(r)
    <3>1. m + i \in 1..m + n /\ ~(m + i <= m) /\ (m + i) - m = i
      BY <2>1
    <3>2. r[m + i] = "type"
      BY <2>2, <2>4, <3>1
    <3> QED BY <2>1, <3>1, <3>2 DEF Clean
  <2>5. ASSUME NEW i \in 1..m + n, r[i] = "type" PROVE ~(Clean(key) /\ Clean(p))
    <3>1. i <= m => i \in 1..m
      BY <2>1
    <3>2. ~(i <= m) => i - m \in 1..n
      BY <2>1
    <3> QED BY <2>1, <2>2, <2>5, <3>1, <3>2 DEF Clean
  <2>6. (Clean(key) /\ Clean(p)) => Clean(r)
    BY <2>1, <2>5 DEF Clean
  <2>7. Clean(r) => (Clean(key) /\ Clean(p))
    BY <2>1, <2>3, <2>4 DEF Clean
  <2>8. Clean(r) \in BOOLEAN /\ Clean(key) \in BOOLEAN /\ Clean(p) \in BOOLEAN
    BY DEF Clean
  <2> QED BY <2>6, <2>7, <2>8 DEF r
<1>2. ASSUME NEW x \in Kept(Under(key, P)) PROVE Clean(key) /\ x \in Under(key, Kept(P))
  <2>1. PICK p \in P : x = key \o p /\ Clean(x)
    BY DEF Kept, Under
  <2>2. Clean(key) /\ p \in Kept(P)
    BY <1>1, <2>1 DEF Kept
  <2> QED BY <2>1, <2>2 DEF Under
<1>3. ASSUME Clean(key), NEW x \in Under(key, Kept(P)) PROVE x \in Kept(Under(key, P))
  <2>1. PICK p \in Kept(P) : x = key \o p
    BY <1>3 DEF Under
  <2>2. p \in P /\ Clean(p)
    BY DEF Kept
  <2>3. Clean(x)
    BY <1>1, <1>3, <2>1, <2>2
  <2>4. x \in Under(key, P)
    BY <2>1, <2>2 DEF Under
  <2> QED BY <2>3, <2>4 DEF Kept
<1> QED BY <1>2, <1>3

LEMMA CleanKeys ==
  ASSUME NEW n \in Properties
  PROVE  /\ Clean(<<"properties", n>>) = (n # "type") /\ Clean(<<"required", n>>) = (n # "type")
         /\ Clean(<<"items">>) /\ Clean(<<"additionalProperties">>) /\ Clean(<<>>)
BY DEF Clean

AllOf(X, P, Q, R, S, U) == X = P \cup Q \cup R \cup S \cup U

LEMMA KeptUnion ==
  ASSUME NEW X, NEW P, NEW Q, NEW R, NEW S, NEW U, AllOf(X, P, Q, R, S, U)
  PROVE  AllOf(Kept(X), Kept(P), Kept(Q), Kept(R), Kept(S), Kept(U))
BY DEF Kept, AllOf

LEMMA SanitizedFields ==
  ASSUME NEW s \in Schemas, s \notin Bare
  PROVE  /\ \A n \in Properties :
              Sanitize(s).properties[n] = IF n \in Conflicting THEN Absent ELSE Sanitize(s.properties[n])
         /\ Sanitize(s).required = s.required \ (Conflicting \cap Has(s))
         /\ Sanitize(s).items = Sanitize(s.items)
         /\ Sanitize(s).additionalProperties = Sanitize(s.additionalProperties)
<1>1. Sanitize(s) = CleanedWith(Sanitizer, s)
  BY SanitizeIs
<1>2. /\ \A n \in Properties : Sanitizer[s.properties[n]] = Sanitize(s.properties[n])
      /\ Sanitizer[s.items] = Sanitize(s.items)
      /\ Sanitizer[s.additionalProperties] = Sanitize(s.additionalProperties)
  BY SmallerParts, SanitizerIs DEF Smaller
<1>3. \A n \in Properties :
        CleanedOf(Sanitizer, s)[n] = IF n \in Conflicting THEN Absent ELSE Sanitize(s.properties[n])
  BY <1>2 DEF CleanedOf
<1> QED BY <1>1, <1>2, <1>3 DEF CleanedWith

\* A property that remains was there and is not called "type".
LEMMA HasSanitized ==
  ASSUME NEW s \in Schemas, s \notin Bare
  PROVE  Has(Sanitize(s)) = Has(s) \ Conflicting
<1> DEFINE c == Sanitize(s)
<1>1. \A n \in Properties : c.properties[n] = IF n \in Conflicting THEN Absent ELSE Sanitize(s.properties[n])
  BY SanitizedFields
<1> HIDE DEF c
<1>2. ASSUME NEW n \in Properties, n \notin Conflicting
      PROVE  (c.properties[n] # Absent) = (s.properties[n] # Absent)
  <2>1. s.properties[n] \in Schemas
    BY SmallerParts DEF Smaller
  <2>2. /\ s.properties[n] \in Bare => Sanitize(s.properties[n]) = s.properties[n]
        /\ s.properties[n] \notin Bare => Sanitize(s.properties[n]) \notin Bare
    BY <2>1, SanitizedSchema
  <2>3. c.properties[n] = Sanitize(s.properties[n])
    BY <1>1, <1>2
  <2> QED BY <2>2, <2>3 DEF Bare
<1>3. ASSUME NEW n \in Properties, n \in Conflicting PROVE c.properties[n] = Absent
  BY <1>1, <1>3
<1>4. Has(c) = Has(s) \ Conflicting
  BY <1>2, <1>3 DEF Has
<1> QED BY <1>4 DEF c

LEMMA NeededSanitized ==
  ASSUME NEW s \in Schemas, s \notin Bare
  PROVE  Needed(Sanitize(s)) = Kept(Needed(s))
<1> DEFINE c == Sanitize(s)
<1>1. c.required \cap Has(c) = (s.required \cap Has(s)) \ Conflicting
  <2>1. c.required = s.required \ (Conflicting \cap Has(s)) /\ Has(c) = Has(s) \ Conflicting
    BY SanitizedFields, HasSanitized
  <2> HIDE DEF c
  <2> QED BY <2>1
<1> HIDE DEF c
<1>2. \A n \in Has(s) : n \in Properties
  BY DEF Has
<1>3. \A n \in Has(s) : Clean(<<"required", n>>) = (n \notin Conflicting)
  BY <1>2, CleanKeys DEF Conflicting
<1>4. Needed(c) = {<<"required", n>> : n \in (s.required \cap Has(s)) \ Conflicting}
  BY <1>1 DEF Needed
<1>5. Kept(Needed(s)) = {<<"required", n>> : n \in (s.required \cap Has(s)) \ Conflicting}
  BY <1>3 DEF Needed, Kept
<1> QED BY <1>4, <1>5 DEF c

LEMMA SanitizedPaths == \A s \in Schemas : Paths(Sanitize(s)) = Kept(Paths(s))
<1> DEFINE T == {s \in Schemas : Paths(Sanitize(s)) = Kept(Paths(s))}
<1>1. Bare \subseteq T
  <2> SUFFICES ASSUME NEW s \in Bare PROVE s \in T
    OBVIOUS
  <2>1. s \in Schemas /\ Paths(s) \subseteq {<<>>}
    BY PathsOfBare
  <2>2. Sanitize(s) = s
    BY <2>1, SanitizedSchema
  <2>3. Clean(<<>>)
    BY DEF Clean
  <2>4. Kept(Paths(s)) = Paths(s)
    BY <2>1, <2>3 DEF Kept
  <2> QED BY <2>1, <2>2, <2>4
<1>2. ASSUME NEW s \in Schemas \ Bare, \A t \in Schemas : Smaller(t, s) => t \in T PROVE s \in T
  <2> DEFINE c == Sanitize(s)
  <2>1. s \in Schemas /\ s \notin Bare /\ c \in Schemas /\ c \notin Bare
    BY SanitizedSchema
  <2>2. /\ \A n \in Properties : c.properties[n] = IF n \in Conflicting THEN Absent ELSE Sanitize(s.properties[n])
        /\ c.items = Sanitize(s.items) /\ c.additionalProperties = Sanitize(s.additionalProperties)
    BY <2>1, SanitizedFields
  <2>3. ASSUME NEW t \in Schemas, Smaller(t, s) PROVE Lister[Sanitize(t)] = Kept(Lister[t])
    <3>1. Paths(Sanitize(t)) = Kept(Paths(t))
      BY <1>2, <2>3
    <3>2. Sanitize(t) \in Schemas
      BY SanitizedSchema
    <3> QED BY <3>1, <3>2, ListerIs
  <2> HIDE DEF T, c
  <2>4. /\ \A n \in Properties : Smaller(s.properties[n], s)
        /\ Smaller(s.items, s) /\ Smaller(s.additionalProperties, s)
    BY <2>1, SmallerParts
  <2>5. \A n \in Properties : ByProperty(Lister, c, n) = Kept(ByProperty(Lister, s, n))
    <3> SUFFICES ASSUME NEW n \in Properties
                 PROVE  ByProperty(Lister, c, n) = Kept(ByProperty(Lister, s, n))
      OBVIOUS
    <3> DEFINE p == s.properties[n]
    <3>1. p \in Schemas /\ Lister[p] \subseteq Seq(Names) /\ <<"properties", n>> \in Seq(Names)
      BY <2>4, PathsType DEF Smaller, Names
    <3>2. Lister[Sanitize(p)] = Kept(Lister[p])
      BY <2>3, <2>4, <3>1
    <3> HIDE DEF p
    <3>3. CASE n = "type"
      <4>1. c.properties[n] = Absent
        BY <2>2, <3>3 DEF Conflicting
      <4>2. Lister[Absent] = {}
        BY PathsOfBare, ListerIs DEF Bare
      <4>3. ByProperty(Lister, c, n) = {}
        BY <4>1, <4>2 DEF ByProperty, Under
      <4>4. ~Clean(<<"properties", n>>)
        BY <3>3, CleanKeys
      <4>5. Kept(Under(<<"properties", n>>, Lister[p])) = {}
        BY <3>1, <4>4, CleanUnder
      <4> QED BY <4>3, <4>5 DEF ByProperty, p
    <3>4. CASE n # "type"
      <4>1. c.properties[n] = Sanitize(p)
        BY <2>2, <3>4 DEF Conflicting, p
      <4>2. Clean(<<"properties", n>>)
        BY <3>4, CleanKeys
      <4>3. Kept(Under(<<"properties", n>>, Lister[p])) = Under(<<"properties", n>>, Kept(Lister[p]))
        BY <3>1, <4>2, CleanUnder
      <4> QED BY <3>2, <4>1, <4>3 DEF ByProperty, p
    <3> QED BY <3>3, <3>4
  <2>6. ByProperties(Lister, c) = Kept(ByProperties(Lister, s))
    BY <2>5 DEF ByProperties, Kept
  <2>7. ASSUME NEW t \in Schemas, Smaller(t, s), NEW key \in Seq(Names), Clean(key)
        PROVE  Under(key, Lister[Sanitize(t)]) = Kept(Under(key, Lister[t]))
    BY <2>3, <2>7, PathsType, CleanUnder
  <2>8. /\ <<"items">> \in Seq(Names) /\ <<"additionalProperties">> \in Seq(Names)
        /\ Clean(<<"items">>) /\ Clean(<<"additionalProperties">>) /\ Clean(<<>>)
    BY DEF Names, Clean
  <2>9. /\ Under(<<"items">>, Lister[c.items]) = Kept(Under(<<"items">>, Lister[s.items]))
        /\ Under(<<"additionalProperties">>, Lister[c.additionalProperties])
             = Kept(Under(<<"additionalProperties">>, Lister[s.additionalProperties]))
    BY <2>2, <2>4, <2>7, <2>8 DEF Smaller
  <2>10. Needed(c) = Kept(Needed(s))
    BY <2>1, NeededSanitized DEF c
  <2>11. Kept({<<>>}) = {<<>>}
    BY <2>8 DEF Kept
  <2>12. /\ AllOf(Paths(c), {<<>>}, ByProperties(Lister, c), Under(<<"items">>, Lister[c.items]),
                  Under(<<"additionalProperties">>, Lister[c.additionalProperties]), Needed(c))
         /\ AllOf(Paths(s), {<<>>}, ByProperties(Lister, s), Under(<<"items">>, Lister[s.items]),
                  Under(<<"additionalProperties">>, Lister[s.additionalProperties]), Needed(s))
    BY <2>1, PathsOfObject, Zenon DEF AllOf
  <2>13. AllOf(Kept(Paths(s)), Kept({<<>>}), Kept(ByProperties(Lister, s)),
               Kept(Under(<<"items">>, Lister[s.items])),
               Kept(Under(<<"additionalProperties">>, Lister[s.additionalProperties])), Kept(Needed(s)))
    BY <2>12, KeptUnion
  <2>14. AllOf(Kept(Paths(s)), {<<>>}, ByProperties(Lister, c), Under(<<"items">>, Lister[c.items]),
               Under(<<"additionalProperties">>, Lister[c.additionalProperties]), Needed(c))
    BY <2>6, <2>9, <2>10, <2>11, <2>13
  <2>15. Paths(c) = Kept(Paths(s))
    BY <2>12, <2>14, Zenon DEF AllOf
  <2> QED BY <2>15 DEF T, c
<1> HIDE DEF T
<1>3. Schemas \subseteq T
  BY <1>1, <1>2, SchemaInduction
<1> QED BY <1>3 DEF T

-------------------------------------------------------------------------------
(* The tools of a request.                                                     *)

ToolSet == [name: Atoms, description: Nat, schema: Schemas]

\* The tools of an internal request, for an OpenAI-style provider.
LEMMA ToolsShortened ==
  ASSUME NEW req, NEW n \in Nat, Len(req.tools) = n, DOMAIN req.tools = 1..n
  PROVE  /\ Len(convertToOpenAI(req).tools) = n
         /\ \A i \in 1..n : convertToOpenAI(req).tools[i].schema = Sanitize(req.tools[i].schema)
<1> DEFINE short(t) == ShortTool(t, DescriptionCap(Len(req.tools)))
           tools == [i \in 1..n |-> short(req.tools[i])]
<1>1. convertToOpenAI(req).tools = tools
  BY DEF convertToOpenAI, Each
<1>2. Len(tools) = n
  OBVIOUS
<1>3. \A i \in 1..n : tools[i].schema = Sanitize(req.tools[i].schema)
  BY DEF ShortTool
<1> QED BY <1>1, <1>2, <1>3

CleanTools(tools, given) ==
  /\ Len(tools) = Len(given)
  /\ \A i \in DOMAIN given :
       given[i].schema # Absent =>
         Paths(tools[i].schema) = {p \in Paths(given[i].schema) : Clean(p)}

LEMMA ToolsCleaned ==
  ASSUME NEW given \in Seq(ToolSet), NEW req, Len(req.tools) = Len(given), DOMAIN req.tools = DOMAIN given,
         \A i \in DOMAIN given : given[i].schema # Absent => req.tools[i].schema = given[i].schema
  PROVE  CleanTools(convertToOpenAI(req).tools, given)
<1> DEFINE n == Len(given)
           tools == convertToOpenAI(req).tools
<1>1. /\ n \in Nat /\ DOMAIN given = 1..n
      /\ \A i \in 1..n : given[i] \in ToolSet
  OBVIOUS
<1>2. Len(tools) = n /\ \A i \in 1..n : tools[i].schema = Sanitize(req.tools[i].schema)
  BY <1>1, ToolsShortened
<1> HIDE DEF n, tools
<1>3. ASSUME NEW i \in 1..n, given[i].schema # Absent
      PROVE  Paths(tools[i].schema) = {p \in Paths(given[i].schema) : Clean(p)}
  <2>1. given[i].schema \in Schemas
    BY <1>1 DEF ToolSet
  <2>2. tools[i].schema = Sanitize(given[i].schema)
    BY <1>1, <1>2, <1>3
  <2>3. Paths(Sanitize(given[i].schema)) = Kept(Paths(given[i].schema))
    BY <2>1, SanitizedPaths
  <2> QED BY <2>2, <2>3 DEF Kept
<1> QED BY <1>1, <1>2, <1>3 DEF CleanTools, n, tools

CarriedClean(c) ==
  /\ Len(c.openai.tools) = Len(c.doc.tools)
  /\ \A i \in DOMAIN c.doc.tools :
       c.doc.tools[i].schema # Absent =>
         Paths(c.openai.tools[i].schema) = {p \in Paths(c.doc.tools[i].schema) : Clean(p)}

LEMMA CarriedFields ==
  ASSUME NEW doc, NEW format, NEW req
  PROVE  /\ Carried(doc, format, req).doc = doc
         /\ Carried(doc, format, req).format = format
         /\ Carried(doc, format, req).openai = convertToOpenAI(req)
         /\ Carried(doc, format, req).anthropic = AnthropicBody(req)
BY DEF Carried

LEMMA CleanForAnthropic ==
  ASSUME NEW doc \in AnthropicBodies
  PROVE  CarriedClean(Carried(doc, "anthropic", AnthropicBodyToRequest(doc)))
<1> DEFINE req == AnthropicBodyToRequest(doc)
           c == Carried(doc, "anthropic", req)
<1>1. doc.tools \in Seq(ToolSet)
  BY DEF AnthropicBodies, ToolList, ToolSet
<1>2. req.tools = doc.tools
  BY DEF AnthropicBodyToRequest, Decoded
<1> HIDE DEF req
<1>3. CleanTools(convertToOpenAI(req).tools, doc.tools)
  BY <1>1, <1>2, ToolsCleaned
<1>4. c.doc = doc /\ c.openai = convertToOpenAI(req)
  BY CarriedFields
<1> HIDE DEF c
<1>5. CarriedClean(c)
  BY <1>3, <1>4, Zenon DEF CarriedClean, CleanTools
<1> QED BY <1>5 DEF c, req

LEMMA CleanForOpenAI ==
  ASSUME NEW doc \in OpenAIBodies
  PROVE  CarriedClean(Carried(doc, "openai", OpenAIToAnthropic(doc)))
<1> DEFINE req == OpenAIToAnthropic(doc)
           c == Carried(doc, "openai", req)
<1>1. doc.tools \in Seq(ToolSet)
  BY DEF OpenAIBodies, ToolList, ToolSet
<1>2. req.tools = [i \in DOMAIN doc.tools |-> ConvertTool(doc.tools[i])]
  BY DEF OpenAIToAnthropic, Each
<1> HIDE DEF req
<1>3. /\ DOMAIN req.tools = DOMAIN doc.tools
      /\ Len(req.tools) = Len(doc.tools)
      /\ \A i \in DOMAIN doc.tools : req.tools[i] = ConvertTool(doc.tools[i])
  BY <1>1, <1>2
<1>4. ASSUME NEW t \in ToolSet, t.schema # Absent PROVE ConvertTool(t).schema = t.schema
  <2>1. ConvertTool(t) = [t EXCEPT !.schema = t.schema]
    BY <1>4 DEF ConvertTool
  <2> QED BY <2>1 DEF ToolSet
<1>5. \A i \in DOMAIN doc.tools : doc.tools[i].schema # Absent => req.tools[i].schema = doc.tools[i].schema
  <2>1. \A i \in DOMAIN doc.tools : doc.tools[i] \in ToolSet
    BY <1>1
  <2> QED BY <1>3, <1>4, <2>1
<1>6. CleanTools(convertToOpenAI(req).tools, doc.tools)
  BY <1>1, <1>3, <1>5, ToolsCleaned
<1>7. c.doc = doc /\ c.openai = convertToOpenAI(req)
  BY CarriedFields
<1> HIDE DEF c
<1>8. CarriedClean(c)
  BY <1>6, <1>7, Zenon DEF CarriedClean, CleanTools
<1> QED BY <1>8 DEF c, req

\* What every conversion of a body that can be read has, everything carried has.
LEMMA RoutedIs ==
  ASSUME CarryInv, NEW c \in Routed
  PROVE  \/ \E doc \in AnthropicBodies : c = Carried(doc, "anthropic", AnthropicBodyToRequest(doc))
         \/ \E doc \in OpenAIBodies : c = Carried(doc, "openai", OpenAIToAnthropic(doc))
<1>1. c \in FromAnthropic \cup FromOpenAI
  BY DEF CarryInv, Routed
<1>2. CASE c \in FromAnthropic
  <2>1. PICK doc \in AnthropicDocs \ {Malformed} : c = Carried(doc, "anthropic", AnthropicBodyToRequest(doc))
    BY <1>2 DEF FromAnthropic
  <2>2. doc \in AnthropicBodies
    BY <2>1, RequestAssumption
  <2> QED BY <2>1, <2>2
<1>3. CASE c \in FromOpenAI
  <2>1. PICK doc \in OpenAIDocs \ {Malformed} : c = Carried(doc, "openai", OpenAIToAnthropic(doc))
    BY <1>3 DEF FromOpenAI
  <2>2. doc \in OpenAIBodies
    BY <2>1, RequestAssumption
  <2> QED BY <2>1, <2>2
<1> QED BY <1>1, <1>2, <1>3

LEMMA SchemasCleanFromCarry == CarryInv => SchemasClean
<1>1. ASSUME CarryInv, NEW c \in Routed PROVE CarriedClean(c)
  BY <1>1, RoutedIs, CleanForAnthropic, CleanForOpenAI
<1> QED BY <1>1, Zenon DEF SchemasClean, CarriedClean

(* Of the paths through each tool's schema an OpenAI-style provider gets those *)
(* on which nothing is called "type", however deep the schema.                 *)
THEOREM SchemasAlwaysClean == RequestSpec => []SchemasClean
BY CarriesWhatWasSent, SchemasCleanFromCarry, PTL

-------------------------------------------------------------------------------
(* Sequences, and what is put together from their elements.                    *)

LEMMA SameSeq ==
  ASSUME NEW S, NEW s \in Seq(S), NEW t \in Seq(S), Len(s) = Len(t), \A j \in 1..Len(s) : s[j] = t[j]
  PROVE  s = t
BY SeqEqual

\* A sequence is empty, or one with an element more.
LEMMA SeqByAppend ==
  ASSUME NEW S, NEW q \in Seq(S), q # <<>>
  PROVE  \E p \in Seq(S) : \E x \in S : Len(p) = Len(q) - 1 /\ q = Append(p, x)
<1> DEFINE n == Len(q)
           p == SubSeq(q, 1, n - 1)
<1>1. n \in Nat /\ n > 0 /\ \A j \in 1..n : q[j] \in S
  OBVIOUS
<1> HIDE DEF n
<1>2. p \in Seq(S) /\ Len(p) = n - 1 /\ \A j \in 1..n - 1 : p[j] = q[j]
  BY <1>1
<1> HIDE DEF p
<1>3. q[n] \in S
  BY <1>1
<1>4. Append(p, q[n]) \in Seq(S) /\ Len(Append(p, q[n])) = n
      /\ \A j \in 1..n : Append(p, q[n])[j] = IF j = n THEN q[n] ELSE p[j]
  BY <1>1, <1>2, <1>3
<1>5. \A j \in 1..n : q[j] = Append(p, q[n])[j]
  BY <1>1, <1>2, <1>4
<1>6. q = Append(p, q[n])
  BY <1>4, <1>5, SameSeq DEF n
<1> QED BY <1>2, <1>3, <1>6 DEF p, n

\* Induction over sequences: T has the sequences for which it holds.
LEMMA SeqSetInduction ==
  ASSUME NEW S, NEW T, <<>> \in T, \A q \in Seq(S) : \A x \in S : q \in T => Append(q, x) \in T
  PROVE  \A q \in Seq(S) : q \in T
<1> DEFINE N == {n \in Nat : \A q \in Seq(S) : Len(q) = n => q \in T}
<1>1. 0 \in N
  <2>1. \A q \in Seq(S) : Len(q) = 0 => q = <<>>
    OBVIOUS
  <2> QED BY <2>1
<1>2. ASSUME NEW n \in Nat, n \in N PROVE n + 1 \in N
  <2> SUFFICES ASSUME NEW q \in Seq(S), Len(q) = n + 1 PROVE q \in T
    OBVIOUS
  <2>1. q # <<>> /\ Len(q) - 1 = n
    OBVIOUS
  <2>2. PICK p \in Seq(S) : \E x \in S : Len(p) = Len(q) - 1 /\ q = Append(p, x)
    BY <2>1, SeqByAppend
  <2> PICK x \in S : Len(p) = Len(q) - 1 /\ q = Append(p, x)
    BY <2>2
  <2>3. p \in T
    BY <1>2, <2>1
  <2> QED BY <2>3
<1> HIDE DEF N
<1>3. \A n \in Nat : n \in N
  BY <1>1, <1>2, Data!NatSetInduction
<1> QED BY <1>3 DEF N

-------------------------------------------------------------------------------
(* FlattenSeq.                                                                 *)

IsFlat(f, q, n) == f = [i \in 1..n |-> IF i = 1 THEN q[i] ELSE f[i - 1] \o q[i]]

LEMMA FlatExists == ASSUME NEW q PROVE \A n \in Nat : \E f : IsFlat(f, q, n)
<1> DEFINE N == {n \in Nat : \E f : IsFlat(f, q, n)}
<1>1. 0 \in N
  <2> DEFINE f == [i \in 1..0 |-> i]
  <2>1. f = [i \in 1..0 |-> IF i = 1 THEN q[i] ELSE f[i - 1] \o q[i]]
    OBVIOUS
  <2>2. IsFlat(f, q, 0)
    BY <2>1 DEF IsFlat
  <2> QED BY <2>2
<1>2. ASSUME NEW n \in Nat, n \in N PROVE n + 1 \in N
  <2>1. PICK f : IsFlat(f, q, n)
    BY <1>2
  <2>2. \A i \in 1..n : f[i] = IF i = 1 THEN q[i] ELSE f[i - 1] \o q[i]
    BY <2>1 DEF IsFlat
  <2> DEFINE e(i) == IF i = 1 THEN q[i] ELSE f[i - 1] \o q[i]
             g == [i \in 1..n + 1 |-> e(i)]
  <2>3. \A i \in 1..n : g[i] = f[i]
    BY <2>2
  <2>4. ASSUME NEW i \in 1..n + 1 PROVE e(i) = IF i = 1 THEN q[i] ELSE g[i - 1] \o q[i]
    <3>1. i # 1 => i - 1 \in 1..n
      OBVIOUS
    <3> HIDE DEF g
    <3> QED BY <2>3, <3>1
  <2>5. g = [i \in 1..n + 1 |-> IF i = 1 THEN q[i] ELSE g[i - 1] \o q[i]]
    <3> DEFINE h == g
    <3>1. \A i \in 1..n + 1 : e(i) = IF i = 1 THEN q[i] ELSE h[i - 1] \o q[i]
      BY <2>4
    <3>2. h = [i \in 1..n + 1 |-> e(i)]
      OBVIOUS
    <3> HIDE DEF h, e
    <3>3. h = [i \in 1..n + 1 |-> IF i = 1 THEN q[i] ELSE h[i - 1] \o q[i]]
      BY <3>1, <3>2
    <3> QED BY <3>3 DEF h
  <2>6. IsFlat(g, q, n + 1)
    BY <2>5 DEF IsFlat
  <2> HIDE DEF g
  <2> QED BY <2>6
<1> HIDE DEF N
<1>3. \A n \in Nat : n \in N
  BY <1>1, <1>2, Data!NatSetInduction
<1> QED BY <1>3 DEF N

LEMMA FlatIs ==
  ASSUME NEW q
  PROVE  FlattenSeq(q) = IF Len(q) = 0 THEN q ELSE (CHOOSE f : IsFlat(f, q, Len(q)))[Len(q)]
BY DEF FlattenSeq, IsFlat

LEMMA FlatEmpty == FlattenSeq(<<>>) = <<>>
BY FlatIs

\* Of any two, the one over more elements goes on where the other ends.
LEMMA FlatUnique ==
  ASSUME NEW p, NEW q, NEW m \in Nat, NEW k \in Nat, m <= k,
         NEW f, IsFlat(f, p, m), NEW g, IsFlat(g, q, k), \A i \in 1..m : p[i] = q[i]
  PROVE  \A i \in 1..m : f[i] = g[i]
<1>1. /\ \A i \in 1..m : f[i] = IF i = 1 THEN p[i] ELSE f[i - 1] \o p[i]
      /\ \A i \in 1..k : g[i] = IF i = 1 THEN q[i] ELSE g[i - 1] \o q[i]
  BY DEF IsFlat
<1> DEFINE N == {n \in Nat : \A i \in 1..m : i <= n => f[i] = g[i]}
<1>2. 0 \in N
  OBVIOUS
<1>3. ASSUME NEW n \in Nat, n \in N PROVE n + 1 \in N
  <2> SUFFICES ASSUME NEW i \in 1..m, i <= n + 1 PROVE f[i] = g[i]
    OBVIOUS
  <2>1. i # 1 => i - 1 \in 1..m /\ i - 1 <= n
    OBVIOUS
  <2>2. i # 1 => f[i - 1] = g[i - 1]
    BY <1>3, <2>1
  <2>3. i \in 1..k /\ p[i] = q[i]
    OBVIOUS
  <2> QED BY <1>1, <2>2, <2>3
<1> HIDE DEF N
<1>4. \A n \in Nat : n \in N
  BY <1>2, <1>3, Data!NatSetInduction
<1> QED BY <1>4 DEF N

\* A set of sequences that can be put together.
Strings(T) ==
  /\ <<>> \in T
  /\ \A u \in T : <<>> \o u = u /\ u \o <<>> = u
  /\ \A u, v \in T : u \o v \in T
  /\ \A u, v, w \in T : (u \o v) \o w = u \o (v \o w)

LEMMA SeqStrings == ASSUME NEW S PROVE Strings(Seq(S))
<1>1. \A u, v, w \in Seq(S) : (u \o v) \o w = u \o (v \o w)
  BY ConcatAssociative
<1> QED BY <1>1 DEF Strings

LEMMA FlatAppend ==
  ASSUME NEW T, Strings(T), NEW q \in Seq(T), NEW x \in T
  PROVE  FlattenSeq(Append(q, x)) = FlattenSeq(q) \o x
<1> DEFINE n == Len(q)
           r == Append(q, x)
<1>1. /\ n \in Nat /\ n + 1 \in Nat /\ n + 1 \in 1..n + 1 /\ Len(r) = n + 1 /\ r[n + 1] = x
      /\ \A i \in 1..n : r[i] = q[i]
  OBVIOUS
<1> HIDE DEF n, r
<1>2. PICK g : IsFlat(g, r, n + 1) /\ FlattenSeq(r) = g[n + 1]
  <2>1. \E g : IsFlat(g, r, n + 1)
    BY <1>1, FlatExists
  <2>2. FlattenSeq(r) = (CHOOSE g : IsFlat(g, r, n + 1))[n + 1]
    BY <1>1, FlatIs
  <2> QED BY <2>1, <2>2
<1>3. g[n + 1] = IF n + 1 = 1 THEN r[n + 1] ELSE g[(n + 1) - 1] \o r[n + 1]
  BY <1>1, <1>2 DEF IsFlat
<1>4. CASE n = 0
  <2>1. q = <<>>
    BY <1>4 DEF n
  <2>2. FlattenSeq(q) \o x = x
    BY <2>1, FlatEmpty DEF Strings
  <2> QED BY <1>1, <1>2, <1>3, <1>4, <2>2 DEF r
<1>5. CASE n # 0
  <2>1. \E f : IsFlat(f, q, n)
    BY <1>1, FlatExists
  <2>2. FlattenSeq(q) = (CHOOSE f : IsFlat(f, q, n))[n]
    BY <1>5, FlatIs DEF n
  <2>3. PICK f : IsFlat(f, q, n) /\ FlattenSeq(q) = f[n]
    BY <2>1, <2>2
  <2>4. n + 1 \in Nat /\ n <= n + 1 /\ n \in 1..n /\ (n + 1) - 1 = n /\ n + 1 # 1
    BY <1>1, <1>5
  <2>5. \A i \in 1..n : f[i] = g[i]
    BY <1>1, <1>2, <2>3, <2>4, FlatUnique
  <2>6. g[n + 1] = f[n] \o x
    BY <1>1, <1>3, <2>4, <2>5
  <2> QED BY <1>2, <2>3, <2>6 DEF r
<1> QED BY <1>4, <1>5

-------------------------------------------------------------------------------
(* Sum, of a function instead of an operator: the parts f[x] of the elements.  *)

PartsOf(f, s) == [i \in DOMAIN s |-> f[s[i]]]
Total(f, s) == FlattenSeq(PartsOf(f, s))

Over(s, A) == s \in Seq(A)
Adds(f, A, T) == Strings(T) /\ \A x \in A : f[x] \in T

LEMMA OverMade ==
  ASSUME NEW A
  PROVE  /\ Over(<<>>, A)
         /\ \A x \in A : Over(<<x>>, A)
         /\ \A s : Over(s, A) => \A x \in A : Over(Append(s, x), A)
         /\ \A s, t : Over(s, A) /\ Over(t, A) => Over(s \o t, A)
BY DEF Over

LEMMA PartAt ==
  ASSUME NEW f, NEW s, NEW i \in DOMAIN s
  PROVE  PartsOf(f, s)[i] = f[s[i]]
BY DEF PartsOf

LEMMA PartsDomain ==
  ASSUME NEW f, NEW s, NEW A, Over(s, A)
  PROVE  /\ Len(s) \in Nat /\ DOMAIN s = 1..Len(s) /\ DOMAIN PartsOf(f, s) = 1..Len(s)
         /\ \A i \in 1..Len(s) : s[i] \in A
BY DEF PartsOf, Over

LEMMA PartsType ==
  ASSUME NEW f, NEW s, NEW A, NEW T, Over(s, A), \A x \in A : f[x] \in T
  PROVE  PartsOf(f, s) \in Seq(T) /\ Len(PartsOf(f, s)) = Len(s)
<1>1. Len(s) \in Nat /\ DOMAIN s = 1..Len(s) /\ \A i \in 1..Len(s) : s[i] \in A
  BY DEF Over
<1>2. \A i \in 1..Len(s) : f[s[i]] \in T
  BY <1>1
<1> QED BY <1>1, <1>2 DEF PartsOf

LEMMA PartsAppend ==
  ASSUME NEW f, NEW s, NEW A, Over(s, A), NEW x
  PROVE  PartsOf(f, Append(s, x)) = Append(PartsOf(f, s), f[x])
<1> DEFINE n == Len(s)
           p == PartsOf(f, s)
           r == Append(s, x)
           T == {f[y] : y \in A \cup {x}}
<1>1. /\ s \in Seq(A \cup {x}) /\ n \in Nat /\ r \in Seq(A \cup {x}) /\ Len(r) = n + 1
      /\ \A i \in 1..n + 1 : r[i] = IF i = n + 1 THEN x ELSE s[i]
  BY DEF Over
<1>2. \A y \in A \cup {x} : f[y] \in T
  OBVIOUS
<1> HIDE DEF T
<1>3. p \in Seq(T) /\ Len(p) = n
  <2>1. Over(s, A \cup {x})
    BY <1>1 DEF Over
  <2> QED BY <1>2, <2>1, PartsType
<1>4. PartsOf(f, r) \in Seq(T) /\ Len(PartsOf(f, r)) = n + 1
  <2>1. Over(r, A \cup {x})
    BY <1>1 DEF Over
  <2> QED BY <1>1, <1>2, <2>1, PartsType
<1>5. f[x] \in T
  BY <1>2
<1>6. Append(p, f[x]) \in Seq(T) /\ Len(Append(p, f[x])) = n + 1
      /\ \A i \in 1..n + 1 : Append(p, f[x])[i] = IF i = n + 1 THEN f[x] ELSE p[i]
  <2> HIDE DEF p, n
  <2> QED BY <1>1, <1>3, <1>5
<1>7. /\ \A i \in 1..n : p[i] = f[s[i]]
      /\ \A i \in 1..n + 1 : PartsOf(f, r)[i] = f[r[i]]
  <2>1. DOMAIN s = 1..n
    BY <1>1
  <2>2. DOMAIN r = 1..n + 1
    <3> HIDE DEF r
    <3> QED BY <1>1
  <2> HIDE DEF n, r
  <2> QED BY <2>1, <2>2 DEF PartsOf
<1> HIDE DEF p, r, n
<1>8. ASSUME NEW i \in 1..n + 1 PROVE PartsOf(f, r)[i] = Append(p, f[x])[i]
  <2>1. PartsOf(f, r)[i] = f[r[i]]
    BY <1>7
  <2>2. CASE i = n + 1
    BY <1>1, <1>6, <2>1, <2>2
  <2>3. CASE i # n + 1
    <3>1. i \in 1..n
      BY <1>1, <2>3
    <3> QED BY <1>1, <1>6, <1>7, <2>1, <2>3, <3>1
  <2> QED BY <2>2, <2>3
<1>9. PartsOf(f, r) = Append(p, f[x])
  BY <1>4, <1>6, <1>8, SameSeq
<1> QED BY <1>9 DEF p, r

LEMMA TotalEmpty == \A f : Total(f, <<>>) = <<>>
<1> SUFFICES ASSUME NEW f PROVE Total(f, <<>>) = <<>>
  OBVIOUS
<1>1. PartsOf(f, <<>>) = <<>>
  BY DEF PartsOf
<1> QED BY <1>1, FlatEmpty DEF Total

LEMMA TotalAppend ==
  ASSUME NEW f, NEW A, NEW T, Adds(f, A, T), NEW s, Over(s, A), NEW x \in A
  PROVE  Total(f, Append(s, x)) = Total(f, s) \o f[x]
<1>1. PartsOf(f, s) \in Seq(T) /\ f[x] \in T
  BY PartsType DEF Adds
<1>2. PartsOf(f, Append(s, x)) = Append(PartsOf(f, s), f[x])
  BY PartsAppend
<1>3. FlattenSeq(Append(PartsOf(f, s), f[x])) = FlattenSeq(PartsOf(f, s)) \o f[x]
  BY <1>1, FlatAppend DEF Adds
<1> QED BY <1>2, <1>3 DEF Total

\* Induction over sequences, for Over.
LEMMA OverInduction ==
  ASSUME NEW A, NEW Q, <<>> \in Q, \A s : Over(s, A) /\ s \in Q => \A x \in A : Append(s, x) \in Q
  PROVE  \A s : Over(s, A) => s \in Q
<1>1. \A s \in Seq(A) : \A x \in A : s \in Q => Append(s, x) \in Q
  BY DEF Over
<1>2. \A s \in Seq(A) : s \in Q
  BY <1>1, SeqSetInduction
<1> QED BY <1>2 DEF Over

LEMMA TotalType ==
  ASSUME NEW f, NEW A, NEW T, Adds(f, A, T)
  PROVE  \A s : Over(s, A) => Total(f, s) \in T
<1> DEFINE Q == {s \in Seq(A) : Total(f, s) \in T}
<1>1. <<>> \in Q
  BY TotalEmpty DEF Adds, Strings
<1>2. ASSUME NEW s, Over(s, A), s \in Q, NEW x \in A PROVE Append(s, x) \in Q
  <2>1. Total(f, Append(s, x)) = Total(f, s) \o f[x]
    BY <1>2, TotalAppend
  <2>2. Total(f, s) \in T /\ f[x] \in T
    BY <1>2 DEF Adds
  <2>3. Total(f, s) \o f[x] \in T
    BY <2>2 DEF Adds, Strings
  <2>4. Append(s, x) \in Seq(A)
    BY <1>2 DEF Over
  <2> QED BY <2>1, <2>3, <2>4
<1> HIDE DEF Q
<1>3. \A s : Over(s, A) => s \in Q
  BY <1>1, <1>2, OverInduction
<1> QED BY <1>3 DEF Q

LEMMA TotalOne ==
  ASSUME NEW f, NEW A, NEW T, Adds(f, A, T), NEW x \in A
  PROVE  Total(f, <<x>>) = f[x]
<1>1. Over(<<>>, A) /\ Append(<<>>, x) = <<x>>
  BY DEF Over
<1>2. Total(f, Append(<<>>, x)) = Total(f, <<>>) \o f[x]
  BY <1>1, TotalAppend
<1>3. <<>> \o f[x] = f[x]
  BY DEF Adds, Strings
<1> QED BY <1>1, <1>2, <1>3, TotalEmpty

LEMMA AppendToConcat ==
  ASSUME NEW A, NEW s, NEW t, Over(s, A), Over(t, A), NEW x \in A
  PROVE  s \o Append(t, x) = Append(s \o t, x) /\ Over(s \o t, A)
<1>1. s \in Seq(A) /\ t \in Seq(A) /\ s \o t \in Seq(A) /\ Append(t, x) \in Seq(A)
  BY DEF Over
<1>2. s \o Append(t, x) = Append(s \o t, x)
  <2>1. <<x>> \in Seq(A) /\ Append(t, x) = t \o <<x>> /\ Append(s \o t, x) = (s \o t) \o <<x>>
    BY <1>1, AppendIsConcat
  <2> QED BY <1>1, <2>1, ConcatAssociative
<1> QED BY <1>1, <1>2 DEF Over

LEMMA TotalConcat ==
  ASSUME NEW f, NEW A, NEW T, Adds(f, A, T), NEW s, Over(s, A), NEW t, Over(t, A)
  PROVE  Total(f, s \o t) = Total(f, s) \o Total(f, t)
<1> DEFINE Q == {u \in Seq(A) : Total(f, s \o u) = Total(f, s) \o Total(f, u)}
<1>0. Total(f, s) \in T
  BY TotalType
<1>1. <<>> \in Q
  <2>1. s \o <<>> = s /\ <<>> \in Seq(A)
    BY DEF Over
  <2>2. Total(f, s) \o <<>> = Total(f, s)
    BY <1>0 DEF Adds, Strings
  <2>3. Total(f, s \o <<>>) = Total(f, s) \o Total(f, <<>>)
    BY <2>1, <2>2, TotalEmpty, Zenon
  <2> QED BY <2>1, <2>3
<1>2. ASSUME NEW u, Over(u, A), u \in Q, NEW x \in A PROVE Append(u, x) \in Q
  <2>1. s \o Append(u, x) = Append(s \o u, x) /\ Over(s \o u, A)
    BY <1>2, AppendToConcat
  <2>2. Total(f, Append(s \o u, x)) = Total(f, s \o u) \o f[x]
    BY <2>1, TotalAppend
  <2>3. Total(f, Append(u, x)) = Total(f, u) \o f[x]
    BY <1>2, TotalAppend
  <2>4. Total(f, u) \in T /\ f[x] \in T
    BY <1>2, TotalType DEF Adds
  <2>5. (Total(f, s) \o Total(f, u)) \o f[x] = Total(f, s) \o (Total(f, u) \o f[x])
    BY <1>0, <2>4 DEF Adds, Strings
  <2>6. Total(f, s \o u) = Total(f, s) \o Total(f, u)
    BY <1>2
  <2>7. Total(f, s \o Append(u, x)) = Total(f, s) \o Total(f, Append(u, x))
    BY <2>1, <2>2, <2>3, <2>5, <2>6, Zenon
  <2>8. Append(u, x) \in Seq(A)
    BY <1>2 DEF Over
  <2> QED BY <2>7, <2>8
<1> HIDE DEF Q
<1>3. t \in Q
  BY <1>1, <1>2, OverInduction
<1> QED BY <1>3 DEF Q


\* Parts that are put together again.
Seqs(A) == Seq(A)

LEMMA SeqsStrings == ASSUME NEW A PROVE Strings(Seqs(A)) /\ \A s : Over(s, A) = (s \in Seqs(A))
BY SeqStrings DEF Seqs, Over

LEMMA TotalOfTotal ==
  ASSUME NEW F, NEW f, NEW g, NEW A, NEW B, NEW T,
         Adds(F, B, Seqs(A)), Adds(f, A, T), Adds(g, B, T), \A x \in B : Total(f, F[x]) = g[x]
  PROVE  \A s : Over(s, B) => Total(f, Total(F, s)) = Total(g, s)
<1> DEFINE Q == {u \in Seq(B) : Total(f, Total(F, u)) = Total(g, u)}
<1>1. <<>> \in Q
  <2>1. Total(F, <<>>) = <<>> /\ Total(f, <<>>) = <<>> /\ Total(g, <<>>) = <<>>
    BY TotalEmpty
  <2>2. Total(f, Total(F, <<>>)) = Total(g, <<>>)
    BY <2>1, Zenon
  <2>3. <<>> \in Seq(B)
    OBVIOUS
  <2> QED BY <2>2, <2>3
<1>2. ASSUME NEW u, Over(u, B), u \in Q, NEW x \in B PROVE Append(u, x) \in Q
  <2> DEFINE v == Total(F, u)
             w == F[x]
  <2>1. v \in Seqs(A) /\ w \in Seqs(A)
    BY <1>2, TotalType DEF Adds
  <2>2. Over(v, A) /\ Over(w, A)
    BY <2>1, SeqsStrings
  <2>3. Total(F, Append(u, x)) = v \o w
    BY <1>2, TotalAppend
  <2>4. Total(f, v \o w) = Total(f, v) \o Total(f, w)
    <3> HIDE DEF v, w
    <3> QED BY <2>2, TotalConcat
  <2>5. Total(g, Append(u, x)) = Total(g, u) \o g[x]
    BY <1>2, TotalAppend
  <2>6. Total(f, v) = Total(g, u) /\ Total(f, w) = g[x]
    BY <1>2
  <2>7. Total(f, Total(F, Append(u, x))) = Total(g, Append(u, x))
    BY <2>3, <2>4, <2>5, <2>6, Zenon
  <2>8. Append(u, x) \in Seq(B)
    BY <1>2 DEF Over
  <2> QED BY <2>7, <2>8
<1> HIDE DEF Q
<1>3. \A s : Over(s, B) => s \in Q
  BY <1>1, <1>2, OverInduction
<1> QED BY <1>3 DEF Q

\* The same parts, from other elements.
LEMMA TotalSame ==
  ASSUME NEW f, NEW g, NEW s, NEW t, DOMAIN s = DOMAIN t, \A i \in DOMAIN s : f[s[i]] = g[t[i]]
  PROVE  Total(f, s) = Total(g, t)
<1>1. PartsOf(f, s) = PartsOf(g, t)
  BY DEF PartsOf
<1> QED BY <1>1, Zenon DEF Total

\* Elements without parts.
LEMMA TotalNone ==
  ASSUME NEW f, NEW A, \A x \in A : f[x] = <<>>
  PROVE  \A s : Over(s, A) => Total(f, s) = <<>>
<1> DEFINE E == {<<>>}
<1>1. \A u, v, w \in E : u \o v \in E /\ (u \o v) \o w = u \o (v \o w) /\ <<>> \o u = u /\ u \o <<>> = u
  OBVIOUS
<1>2. Strings(E)
  BY <1>1 DEF Strings
<1>3. Adds(f, A, E)
  BY <1>2 DEF Adds
<1> HIDE DEF E
<1>4. \A s : Over(s, A) => Total(f, s) \in E
  BY <1>3, TotalType
<1> QED BY <1>4 DEF E

\* One part for each element.
LEMMA TotalEach ==
  ASSUME NEW f, NEW g, NEW A, NEW S, \A x \in A : g[x] \in S /\ f[x] = <<g[x]>>
  PROVE  \A s : Over(s, A) => Total(f, s) = PartsOf(g, s)
<1> DEFINE Q == {u \in Seq(A) : Total(f, u) = PartsOf(g, u)}
<1>0. Adds(f, A, Seqs(S))
  <2>1. ASSUME NEW x \in A PROVE f[x] \in Seqs(S)
    <3>1. PICK y \in S : f[x] = <<y>>
      OBVIOUS
    <3>2. <<y>> \in Seq(S)
      OBVIOUS
    <3> QED BY <3>1, <3>2, Zenon DEF Seqs
  <2>2. Strings(Seqs(S))
    BY SeqsStrings
  <2> QED BY <2>1, <2>2 DEF Adds
<1>1. <<>> \in Q
  <2>1. PartsOf(g, <<>>) = <<>> /\ <<>> \in Seq(A)
    BY DEF PartsOf
  <2> QED BY <2>1, TotalEmpty
<1>2. ASSUME NEW u, Over(u, A), u \in Q, NEW x \in A PROVE Append(u, x) \in Q
  <2>1. Total(f, Append(u, x)) = Total(f, u) \o f[x]
    BY <1>0, <1>2, TotalAppend
  <2>2. PartsOf(g, Append(u, x)) = Append(PartsOf(g, u), g[x])
    BY <1>2, PartsAppend
  <2>3. PartsOf(g, u) \in Seq(S) /\ g[x] \in S
    BY <1>2, PartsType
  <2>4. Append(PartsOf(g, u), g[x]) = PartsOf(g, u) \o <<g[x]>>
    <3> DEFINE p == PartsOf(g, u)
               y == g[x]
    <3> HIDE DEF p, y
    <3>1. p \in Seq(S) /\ y \in S
      BY <2>3 DEF p, y
    <3>2. Append(p, y) = p \o <<y>>
      BY <3>1, AppendIsConcat
    <3> QED BY <3>2 DEF p, y
  <2>5. Total(f, u) = PartsOf(g, u) /\ f[x] = <<g[x]>>
    BY <1>2
  <2>6. Total(f, Append(u, x)) = PartsOf(g, Append(u, x))
    BY <2>1, <2>2, <2>4, <2>5, Zenon
  <2>7. Append(u, x) \in Seq(A)
    BY <1>2 DEF Over
  <2> QED BY <2>6, <2>7
<1> HIDE DEF Q
<1>3. \A s : Over(s, A) => s \in Q
  BY <1>1, <1>2, OverInduction
<1> QED BY <1>3 DEF Q

\* What is in one of the parts is in their total.
Holds(t, y) == \E k \in DOMAIN t : t[k] = y
Lists(f, A, S) == \A x \in A : f[x] \in Seq(S)

LEMMA TotalHas ==
  ASSUME NEW f, NEW A, NEW S, Lists(f, A, S), NEW y, NEW q, Over(q, A),
         NEW k \in DOMAIN q, Holds(f[q[k]], y)
  PROVE  Holds(Total(f, q), y)
<1> DEFINE In(t) == Holds(t, y)
           Q == {s \in Seq(A) : (\E i \in DOMAIN s : In(f[s[i]])) => In(Total(f, s))}
<1>0. Adds(f, A, Seqs(S))
  BY SeqsStrings DEF Adds, Seqs, Lists
<1>1. ASSUME NEW t \in Seq(S), NEW u \in Seq(S), In(t) \/ In(u) PROVE In(t \o u)
  <2>1. /\ DOMAIN t = 1..Len(t) /\ DOMAIN u = 1..Len(u) /\ Len(t) \in Nat /\ Len(u) \in Nat
        /\ DOMAIN (t \o u) = 1..Len(t) + Len(u)
        /\ \A j \in 1..Len(t) : (t \o u)[j] = t[j]
        /\ \A j \in 1..Len(u) : (t \o u)[Len(t) + j] = u[j] /\ Len(t) + j \in 1..Len(t) + Len(u)
    OBVIOUS
  <2>2. ASSUME NEW j \in DOMAIN t, t[j] = y PROVE In(t \o u)
    <3>1. j \in 1..Len(t) + Len(u)
      BY <2>1
    <3> QED BY <2>1, <2>2, <3>1 DEF Holds
  <2>3. ASSUME NEW j \in DOMAIN u, u[j] = y PROVE In(t \o u)
    BY <2>1, <2>3 DEF Holds
  <2> QED BY <1>1, <2>2, <2>3 DEF Holds
<1>2. <<>> \in Q
  OBVIOUS
<1>3. ASSUME NEW s, Over(s, A), s \in Q, NEW x \in A PROVE Append(s, x) \in Q
  <2> DEFINE r == Append(s, x)
  <2>1. Total(f, r) = Total(f, s) \o f[x]
    BY <1>0, <1>3, TotalAppend
  <2>2. Total(f, s) \in Seq(S) /\ f[x] \in Seq(S)
    BY <1>0, <1>3, TotalType DEF Adds, Seqs
  <2>3. /\ r \in Seq(A) /\ Len(s) \in Nat /\ DOMAIN s = 1..Len(s) /\ DOMAIN r = 1..Len(s) + 1
        /\ \A i \in 1..Len(s) : r[i] = s[i]
        /\ r[Len(s) + 1] = x
    BY <1>3 DEF Over
  <2> HIDE DEF r, In
  <2>4. ASSUME NEW i \in DOMAIN r, In(f[r[i]]) PROVE In(Total(f, s)) \/ In(f[x])
    <3>1. CASE i = Len(s) + 1
      BY <2>3, <2>4, <3>1
    <3>2. CASE i # Len(s) + 1
      <4>1. i \in DOMAIN s /\ r[i] = s[i]
        BY <2>3, <3>2
      <4> QED BY <1>3, <2>4, <4>1
    <3> QED BY <3>1, <3>2
  <2>5. ASSUME NEW i \in DOMAIN r, In(f[r[i]]) PROVE In(Total(f, r))
    <3>1. In(Total(f, s) \o f[x])
      BY <1>1, <2>2, <2>4, <2>5
    <3> QED BY <2>1, <3>1
  <2> QED BY <2>3, <2>5 DEF r
<1> HIDE DEF Q
<1>4. \A s : Over(s, A) => s \in Q
  BY <1>2, <1>3, OverInduction
<1>5. q \in Q
  BY <1>4
<1> QED BY <1>5 DEF Q

-------------------------------------------------------------------------------
(* Blocks and messages of the internal format, and what they say.              *)

Decoded0 == [type: {"image", "document"}] \cup Thoughts
Results  == [type: {"tool_result"}, tool_use_id: Atoms, content: Seqs(TextBlocks \cup Media)]
ToolUses == [type: {"tool_use"}, id: Atoms, input: Atoms]
Parts    == TextBlocks \cup Media \cup Decoded0 \cup Results \cup ToolUses

UserParts      == TextBlocks \cup Decoded0 \cup Results
AssistantParts == TextBlocks \cup Decoded0 \cup ToolUses

Own(type) == [b \in Parts |-> IF b.type = type THEN <<b>> ELSE <<>>]
TextF     == [b \in Parts |-> IF b.type = "text" THEN TextOf(b) ELSE <<>>]
TextOfF   == [b \in Parts |-> TextOf(b)]
CallF     == [b \in Parts |-> IF b.type = "tool_use" THEN <<<<b.id, Filled(b.input)>>>> ELSE <<>>]
ResultF   == [b \in Parts |->
               IF b.type = "tool_result" THEN <<<<b.tool_use_id, JoinedText(b.content)>>>> ELSE <<>>]

CallsTold   == Atoms \X Atoms
ResultsTold == Atoms \X Texts

LEMMA PartIs ==
  ASSUME NEW b \in Parts
  PROVE  /\ b.type = "text" => TextOf(b) \in Texts /\ b \in TextBlocks
         /\ b.type # "text" => b \notin TextBlocks
         /\ (b.type = "tool_use") = (b \in ToolUses)
         /\ (b.type = "tool_result") = (b \in Results)
         /\ TextOf(b) \in Texts
<1>1. <<>> \in Texts
  BY DEF Texts
<1>2. CASE b \in [type: {"text"}, text: Texts]
  BY <1>2 DEF TextOf, TextBlocks, ToolUses, Results
<1>3. CASE b \in [type: {"text"}]
  BY <1>1, <1>3 DEF TextOf, TextBlocks, ToolUses, Results
<1>4. CASE b \in Media \cup Decoded0 \cup ToolUses \cup Results
  <2>1. "text" \notin DOMAIN b
    BY <1>4 DEF Media, Decoded0, Thoughts, Results, ToolUses
  <2>2. TextOf(b) = <<>>
    BY <2>1 DEF TextOf
  <2>3. b.type # "text"
    BY <1>4 DEF Media, Decoded0, Thoughts, Results, ToolUses
  <2>4. b \notin TextBlocks
    BY <2>3 DEF TextBlocks
  <2>5. (b.type = "tool_use") = (b \in ToolUses)
    BY <1>4 DEF Media, Decoded0, Thoughts, Results, ToolUses
  <2>6. (b.type = "tool_result") = (b \in Results)
    BY <1>4 DEF Media, Decoded0, Thoughts, Results, ToolUses
  <2> QED BY <1>1, <2>2, <2>3, <2>4, <2>5, <2>6
<1> QED BY <1>2, <1>3, <1>4 DEF Parts, TextBlocks

LEMMA OfIs ==
  ASSUME NEW s, Over(s, Parts), NEW type
  PROVE  Of(type, s) = Total(Own(type), s)
<1> DEFINE own(b) == IF b.type = type THEN <<b>> ELSE <<>>
<1>1. DOMAIN s = 1..Len(s) /\ \A i \in DOMAIN s : s[i] \in Parts
  BY DEF Over
<1>2. [i \in DOMAIN s |-> own(s[i])] = PartsOf(Own(type), s)
  BY <1>1 DEF PartsOf, Own
<1>3. Of(type, s) = FlattenSeq([i \in DOMAIN s |-> own(s[i])])
  BY Zenon DEF Of, Sum
<1> QED BY <1>2, <1>3, Zenon DEF Total

LEMMA OwnOf ==
  ASSUME NEW type, NEW A, \A b \in Parts : b.type = type => b \in A
  PROVE  Adds(Own(type), Parts, Seqs(A))
<1>1. Strings(Seqs(A))
  BY SeqsStrings
<1>2. ASSUME NEW b \in Parts PROVE Own(type)[b] \in Seqs(A)
  <2>1. CASE b.type = type
    <3>1. Own(type)[b] = <<b>>
      BY <2>1 DEF Own
    <3>2. b \in A
      BY <2>1
    <3>3. <<b>> \in Seq(A)
      BY <3>2
    <3> QED BY <3>1, <3>3, Zenon DEF Seqs
  <2>2. CASE b.type # type
    <3>1. Own(type)[b] = <<>>
      BY <2>2 DEF Own
    <3>2. <<>> \in Seq(A)
      OBVIOUS
    <3> QED BY <3>1, <3>2, Zenon DEF Seqs
  <2> QED BY <2>1, <2>2
<1> QED BY <1>1, <1>2 DEF Adds

\* What is put together from the blocks of one type is put together from all.
LEMMA OverOwn ==
  ASSUME NEW type, NEW A, A \subseteq Parts, \A b \in Parts : b.type = type => b \in A,
         NEW f, NEW T, Adds(f, Parts, T), \A b \in Parts : b.type # type => f[b] = <<>>
  PROVE  \A s : Over(s, Parts) => Over(Of(type, s), A) /\ Total(f, Of(type, s)) = Total(f, s)
<1>1. Adds(Own(type), Parts, Seqs(A))
  BY OwnOf
<1>2. Adds(f, A, T)
  BY DEF Adds
<1>3. ASSUME NEW b \in Parts PROVE Total(f, Own(type)[b]) = f[b]
  <2>1. CASE b.type = type
    <3>1. Own(type)[b] = <<b>> /\ b \in A
      BY <2>1 DEF Own
    <3>2. Total(f, <<b>>) = f[b]
      BY <1>2, <3>1, TotalOne
    <3> QED BY <3>1, <3>2, Zenon
  <2>2. CASE b.type # type
    <3>1. Own(type)[b] = <<>> /\ f[b] = <<>>
      BY <2>2 DEF Own
    <3> QED BY <3>1, TotalEmpty, Zenon
  <2> QED BY <2>1, <2>2
<1>4. \A s : Over(s, Parts) => Total(f, Total(Own(type), s)) = Total(f, s)
  BY <1>1, <1>2, <1>3, TotalOfTotal
<1>5. \A s : Over(s, Parts) => Total(Own(type), s) \in Seqs(A)
  BY <1>1, TotalType
<1>6. \A s : Over(s, Parts) => Over(Total(Own(type), s), A)
  BY <1>5, SeqsStrings
<1> QED BY <1>4, <1>6, OfIs

LEMMA TextAdds == Adds(TextF, Parts, Texts)
<1>1. Strings(Texts)
  BY SeqStrings DEF Texts
<1>2. <<>> \in Texts
  BY DEF Texts
<1>3. \A b \in Parts : TextF[b] \in Texts
  BY <1>2, PartIs DEF TextF
<1> QED BY <1>1, <1>3 DEF Adds

LEMMA JoinedIs ==
  \A s : Over(s, Parts) => /\ JoinedText(s) = Total(TextF, s)
                           /\ JoinedText(s) \in Texts
                           /\ Of("text", s) = <<>> => JoinedText(s) = <<>>
<1> SUFFICES ASSUME NEW s, Over(s, Parts)
             PROVE  /\ JoinedText(s) = Total(TextF, s)
                    /\ JoinedText(s) \in Texts
                    /\ Of("text", s) = <<>> => JoinedText(s) = <<>>
  OBVIOUS
<1> DEFINE t == Of("text", s)
<1>1. \A b \in Parts : b.type # "text" => TextF[b] = <<>>
  BY DEF TextF
<1>2. \A b \in Parts : b.type = "text" => b \in TextBlocks
  BY PartIs
<1>3. TextBlocks \subseteq Parts
  BY DEF Parts
<1>4. Over(t, TextBlocks) /\ Total(TextF, t) = Total(TextF, s)
  BY <1>1, <1>2, <1>3, TextAdds, OverOwn
<1> HIDE DEF t
<1>5. DOMAIN t = 1..Len(t) /\ \A i \in DOMAIN t : t[i] \in TextBlocks
  BY <1>4 DEF Over
<1>6. \A b \in TextBlocks : TextF[b] = TextOf(b)
  <2>1. \A b \in TextBlocks : b.type = "text"
    BY DEF TextBlocks
  <2> QED BY <1>3, <2>1 DEF TextF
<1>7. Each(TextOf, t) = PartsOf(TextF, t)
  BY <1>5, <1>6 DEF Each, PartsOf
<1>8. JoinedText(s) = FlattenSeq(Each(TextOf, t))
  BY Zenon DEF JoinedText, Join, t
<1>9. JoinedText(s) = Total(TextF, t)
  BY <1>7, <1>8, Zenon DEF Total
<1>10. Total(TextF, s) \in Texts
  BY TextAdds, TotalType
<1>11. t = <<>> => Total(TextF, t) = <<>>
  BY TotalEmpty
<1> QED BY <1>4, <1>9, <1>10, <1>11 DEF t


LEMMA FilledType == \A x \in Atoms : Filled(x) \in Atoms /\ Filled(Filled(x)) = Filled(x)
BY ConversionAssumption DEF Filled

LEMMA OverMore ==
  ASSUME NEW A, NEW B, A \subseteq B PROVE \A s : Over(s, A) => Over(s, B)
BY DEF Over

LEMMA ResultFields ==
  ASSUME NEW b \in Results
  PROVE  b \in Parts /\ b.type = "tool_result" /\ b.tool_use_id \in Atoms /\ Over(b.content, Parts)
         /\ JoinedText(b.content) \in Texts
<1>1. b.type = "tool_result" /\ b.tool_use_id \in Atoms /\ b.content \in Seqs(TextBlocks \cup Media)
  BY DEF Results
<1>2. Over(b.content, TextBlocks \cup Media)
  BY <1>1, SeqsStrings
<1>3. TextBlocks \cup Media \subseteq Parts
  BY DEF Parts
<1>4. Over(b.content, Parts)
  BY <1>2, <1>3, OverMore
<1> QED BY <1>1, <1>4, JoinedIs DEF Parts

LEMMA CallFields ==
  ASSUME NEW b \in ToolUses
  PROVE  b \in Parts /\ b.type = "tool_use" /\ b.id \in Atoms /\ b.input \in Atoms
BY DEF ToolUses, Parts

LEMMA PairOf ==
  ASSUME NEW A, NEW B, NEW a \in A, NEW b \in B PROVE <<<<a, b>>>> \in Seqs(A \X B)
<1> DEFINE p == <<a, b>>
<1>1. p \in A \X B
  OBVIOUS
<1> HIDE DEF p
<1>2. <<p>> \in Seq(A \X B)
  BY <1>1
<1> QED BY <1>2 DEF p, Seqs

LEMMA NoneOf == ASSUME NEW A PROVE <<>> \in Seqs(A)
BY DEF Seqs

LEMMA CallAdds == Adds(CallF, Parts, Seqs(CallsTold))
<1>1. Strings(Seqs(CallsTold))
  BY SeqsStrings
<1>2. ASSUME NEW b \in Parts PROVE CallF[b] \in Seqs(CallsTold)
  <2>1. CASE b.type = "tool_use"
    <3>1. b \in ToolUses
      BY <2>1, PartIs
    <3>2. b.id \in Atoms /\ Filled(b.input) \in Atoms
      BY <3>1, CallFields, FilledType
    <3>3. CallF[b] = <<<<b.id, Filled(b.input)>>>>
      BY <2>1 DEF CallF
    <3> QED BY <3>2, <3>3, PairOf DEF CallsTold
  <2>2. CASE b.type # "tool_use"
    BY <2>2, NoneOf DEF CallF
  <2> QED BY <2>1, <2>2
<1> QED BY <1>1, <1>2 DEF Adds

LEMMA ResultAdds == Adds(ResultF, Parts, Seqs(ResultsTold))
<1>1. Strings(Seqs(ResultsTold))
  BY SeqsStrings
<1>2. ASSUME NEW b \in Parts PROVE ResultF[b] \in Seqs(ResultsTold)
  <2>1. CASE b.type = "tool_result"
    <3>1. b \in Results
      BY <2>1, PartIs
    <3>2. b.tool_use_id \in Atoms /\ JoinedText(b.content) \in Texts
      BY <3>1, ResultFields
    <3>3. ResultF[b] = <<<<b.tool_use_id, JoinedText(b.content)>>>>
      BY <2>1 DEF ResultF
    <3> QED BY <3>2, <3>3, PairOf DEF ResultsTold
  <2>2. CASE b.type # "tool_result"
    BY <2>2, NoneOf DEF ResultF
  <2> QED BY <2>1, <2>2
<1> QED BY <1>1, <1>2 DEF Adds

\* The messages.
IMessages ==
  [role: {"user"}, content: Seqs(UserParts)] \cup [role: {"assistant"}, content: Seqs(AssistantParts)]

UserF    == [m \in IMessages |-> AnthropicText("user", m)]
SaidF    == [m \in IMessages |-> AnthropicText("assistant", m)]
CallsF   == [m \in IMessages |-> CallsIn(m)]
ResultsF == [m \in IMessages |-> ResultsIn(m)]

LEMMA MessageIs ==
  ASSUME NEW m \in IMessages
  PROVE  /\ Over(m.content, Parts) /\ m.role \in {"user", "assistant"}
         /\ m.role = "user" => Over(m.content, UserParts)
         /\ m.role = "assistant" => Over(m.content, AssistantParts)
         /\ CallsIn(m) = Total(CallF, m.content) /\ CallsIn(m) \in Seqs(CallsTold)
         /\ ResultsIn(m) = Total(ResultF, m.content) /\ ResultsIn(m) \in Seqs(ResultsTold)
<1>1. /\ m.role \in {"user", "assistant"}
      /\ m.role = "user" => m.content \in Seqs(UserParts)
      /\ m.role = "assistant" => m.content \in Seqs(AssistantParts)
  BY DEF IMessages
<1>2. /\ m.role = "user" => Over(m.content, UserParts)
      /\ m.role = "assistant" => Over(m.content, AssistantParts)
  BY <1>1, SeqsStrings
<1>3. UserParts \subseteq Parts /\ AssistantParts \subseteq Parts
  BY DEF UserParts, AssistantParts, Parts
<1>4. Over(m.content, Parts)
  BY <1>1, <1>2, <1>3, OverMore
<1> DEFINE s == m.content
<1>5. DOMAIN s = 1..Len(s) /\ \A i \in DOMAIN s : s[i] \in Parts
  BY <1>4 DEF Over
<1>6. CallsIn(m) = Total(CallF, s)
  <2> DEFINE call(b) == IF b.type = "tool_use" THEN <<<<b.id, Filled(b.input)>>>> ELSE <<>>
  <2>1. CallsIn(m) = FlattenSeq([i \in DOMAIN s |-> call(s[i])])
    BY Zenon DEF CallsIn, Sum
  <2> HIDE DEF s
  <2>2. \A b \in Parts : CallF[b] = call(b)
    BY DEF CallF
  <2> HIDE DEF call
  <2>3. [i \in DOMAIN s |-> call(s[i])] = PartsOf(CallF, s)
    BY <1>5, <2>2 DEF PartsOf
  <2> QED BY <2>1, <2>3, Zenon DEF Total
<1>7. ResultsIn(m) = Total(ResultF, s)
  <2> DEFINE result(b) == IF b.type = "tool_result" THEN <<<<b.tool_use_id, JoinedText(b.content)>>>> ELSE <<>>
  <2>1. ResultsIn(m) = FlattenSeq([i \in DOMAIN s |-> result(s[i])])
    BY Zenon DEF ResultsIn, Sum
  <2> HIDE DEF s
  <2>2. \A b \in Parts : ResultF[b] = result(b)
    BY DEF ResultF
  <2> HIDE DEF result
  <2>3. [i \in DOMAIN s |-> result(s[i])] = PartsOf(ResultF, s)
    BY <1>5, <2>2 DEF PartsOf
  <2> QED BY <2>1, <2>3, Zenon DEF Total
<1>8. Total(CallF, s) \in Seqs(CallsTold) /\ Total(ResultF, s) \in Seqs(ResultsTold)
  <2> HIDE DEF s
  <2>1. Over(s, Parts)
    BY <1>4 DEF s
  <2> QED BY <2>1, CallAdds, ResultAdds, TotalType
<1> QED BY <1>1, <1>2, <1>4, <1>6, <1>7, <1>8

LEMMA MessageAdds ==
  /\ Adds(UserF, IMessages, Texts) /\ Adds(SaidF, IMessages, Texts)
  /\ Adds(CallsF, IMessages, Seqs(CallsTold)) /\ Adds(ResultsF, IMessages, Seqs(ResultsTold))
<1>1. Strings(Texts) /\ Strings(Seqs(CallsTold)) /\ Strings(Seqs(ResultsTold))
  <2>1. Strings(Texts)
    BY SeqStrings DEF Texts
  <2> QED BY <2>1, SeqsStrings
<1>2. <<>> \in Texts
  BY DEF Texts
<1>3. ASSUME NEW m \in IMessages PROVE UserF[m] \in Texts /\ SaidF[m] \in Texts
  <2>1. JoinedText(m.content) \in Texts
    BY MessageIs, JoinedIs
  <2> QED BY <1>2, <2>1 DEF UserF, SaidF, AnthropicText
<1>4. ASSUME NEW m \in IMessages PROVE CallsF[m] \in Seqs(CallsTold) /\ ResultsF[m] \in Seqs(ResultsTold)
  BY MessageIs DEF CallsF, ResultsF
<1> QED BY <1>1, <1>3, <1>4 DEF Adds

\* What a conversation says, put together from its messages.
LEMMA AnthropicSaysIs ==
  ASSUME NEW ms, Over(ms, IMessages)
  PROVE  AnthropicSays(ms) = [user |-> Total(UserF, ms), assistant |-> Total(SaidF, ms),
                              calls |-> Total(CallsF, ms), results |-> Total(ResultsF, ms)]
<1>1. DOMAIN ms = 1..Len(ms) /\ \A i \in DOMAIN ms : ms[i] \in IMessages
  BY DEF Over
<1> DEFINE asked(m) == AnthropicText("user", m)
           said(m)  == AnthropicText("assistant", m)
<1>2. [i \in DOMAIN ms |-> asked(ms[i])] = PartsOf(UserF, ms)
  BY <1>1 DEF PartsOf, UserF
<1>3. [i \in DOMAIN ms |-> said(ms[i])] = PartsOf(SaidF, ms)
  BY <1>1 DEF PartsOf, SaidF
<1>4. [i \in DOMAIN ms |-> CallsIn(ms[i])] = PartsOf(CallsF, ms)
  BY <1>1 DEF PartsOf, CallsF
<1>5. [i \in DOMAIN ms |-> ResultsIn(ms[i])] = PartsOf(ResultsF, ms)
  BY <1>1 DEF PartsOf, ResultsF
<1>6. AnthropicSays(ms)
        = [user |-> FlattenSeq([i \in DOMAIN ms |-> asked(ms[i])]),
           assistant |-> FlattenSeq([i \in DOMAIN ms |-> said(ms[i])]),
           calls |-> FlattenSeq([i \in DOMAIN ms |-> CallsIn(ms[i])]),
           results |-> FlattenSeq([i \in DOMAIN ms |-> ResultsIn(ms[i])])]
  BY Zenon DEF AnthropicSays, Sum
<1> QED BY <1>2, <1>3, <1>4, <1>5, <1>6, Zenon DEF Total

-------------------------------------------------------------------------------
(* The messages of OpenAI's format.                                            *)

OneCall == [id: Atoms, args: Atoms]
OMessages ==
  [role: {"system", "user", "assistant", "tool"}, content: OpenAIContents,
   tool_calls: Seqs(OneCall) \cup {NoCalls}, tool_call_id: Atoms]

\* What the conversion reads of them, and the prompt it takes.
ReadText(role, m) == IF m.role = role THEN StringOr(m.content) ELSE <<>>

ResultRead(m) ==
  IF m.role = "tool" THEN <<<<m.tool_call_id, StringOr(m.content)>>>> ELSE <<>>

OpenAIReads(messages) ==
  LET asked(m) == ReadText("user", m)
      said(m)  == ReadText("assistant", m)
  IN  [user |-> Sum(asked, messages), assistant |-> Sum(said, messages),
       calls |-> Sum(CallsMade, messages), results |-> Sum(ResultRead, messages)]

NextPrompt(prompt, m) == IF SystemString(m) THEN m.content ELSE prompt

LastPrompt(messages) == FoldLeft(NextPrompt, <<>>, messages)

OUserF    == [m \in OMessages |-> ReadText("user", m)]
OSaidF    == [m \in OMessages |-> ReadText("assistant", m)]
OCallsF   == [m \in OMessages |-> CallsMade(m)]
OResultsF == [m \in OMessages |-> ResultRead(m)]

ToldF == [c \in OneCall |-> <<c.id, Filled(c.args)>>]

LEMMA StringOrType ==
  \A x \in OpenAIContents : StringOr(x) \in Texts /\ (x \in Texts => StringOr(x) = x)
BY ConversionAssumption DEF StringOr, Texts, NotStrings, OpenAIContents

LEMMA TextIsContent ==
  /\ \A t \in Texts : t \in OpenAIContents /\ t \notin NotStrings /\ t \notin Arrays
  /\ NoString \in OpenAIContents /\ NoString \notin Arrays /\ StringOr(NoString) = <<>>
BY ConversionAssumption DEF StringOr, Texts, NotStrings, OpenAIContents

LEMMA CallsMadeIs ==
  ASSUME NEW m, m.tool_calls \in Seqs(OneCall) \cup {NoCalls}
  PROVE  /\ m.tool_calls = NoCalls => CallsMade(m) = <<>>
         /\ m.tool_calls \in Seqs(OneCall) => CallsMade(m) = PartsOf(ToldF, m.tool_calls)
         /\ CallsMade(m) \in Seqs(CallsTold)
<1> DEFINE calls == m.tool_calls
           call(c) == <<c.id, Filled(c.args)>>
<1>1. CallsMade(m) = IF calls = NoCalls THEN <<>> ELSE [i \in DOMAIN calls |-> call(calls[i])]
  BY DEF CallsMade, Each
<1>2. NoCalls \notin Seqs(OneCall)
  BY ConversionAssumption DEF Seqs, OneCall
<1>3. \A c \in OneCall : ToldF[c] = call(c)
  BY DEF ToldF
<1>4. ASSUME NEW c \in OneCall PROVE ToldF[c] \in CallsTold
  <2>1. c.id \in Atoms /\ c.args \in Atoms
    BY DEF OneCall
  <2>2. <<c.id, Filled(c.args)>> \in Atoms \X Atoms
    BY <2>1, FilledType
  <2> QED BY <1>3, <2>2 DEF CallsTold
<1> HIDE DEF calls, call
<1>5. ASSUME calls \in Seqs(OneCall) PROVE CallsMade(m) = PartsOf(ToldF, calls)
  <2>1. Over(calls, OneCall)
    BY <1>5, SeqsStrings
  <2>2. DOMAIN calls = 1..Len(calls) /\ \A i \in DOMAIN calls : calls[i] \in OneCall
    BY <2>1 DEF Over
  <2>3. [i \in DOMAIN calls |-> call(calls[i])] = PartsOf(ToldF, calls)
    BY <1>3, <2>2 DEF PartsOf
  <2>4. calls # NoCalls
    BY <1>2, <1>5
  <2> QED BY <1>1, <2>3, <2>4
<1>6. ASSUME calls \in Seqs(OneCall) PROVE CallsMade(m) \in Seqs(CallsTold)
  <2>1. Over(calls, OneCall)
    BY <1>6, SeqsStrings
  <2>2. PartsOf(ToldF, calls) \in Seq(CallsTold)
    BY <1>4, <2>1, PartsType
  <2> QED BY <1>5, <1>6, <2>2, Zenon DEF Seqs
<1>7. calls = NoCalls => CallsMade(m) = <<>>
  BY <1>1
<1>8. <<>> \in Seqs(CallsTold)
  BY NoneOf
<1> QED BY <1>5, <1>6, <1>7, <1>8 DEF calls

LEMMA OMessageIs ==
  ASSUME NEW m \in OMessages
  PROVE  /\ StringOr(m.content) \in Texts
         /\ CallsMade(m) \in Seqs(CallsTold)
         /\ ResultRead(m) \in Seqs(ResultsTold)
         /\ ReadText("user", m) \in Texts /\ ReadText("assistant", m) \in Texts
<1>1. /\ m.content \in OpenAIContents /\ m.tool_calls \in Seqs(OneCall) \cup {NoCalls}
      /\ m.tool_call_id \in Atoms
  BY DEF OMessages
<1>2. StringOr(m.content) \in Texts
  BY <1>1, StringOrType
<1>3. CallsMade(m) \in Seqs(CallsTold)
  BY <1>1, CallsMadeIs
<1>4. ResultRead(m) \in Seqs(ResultsTold)
  <2>1. <<<<m.tool_call_id, StringOr(m.content)>>>> \in Seqs(ResultsTold)
    BY <1>1, <1>2, PairOf DEF ResultsTold
  <2> QED BY <2>1, NoneOf DEF ResultRead
<1>5. <<>> \in Texts
  BY DEF Texts
<1> QED BY <1>2, <1>3, <1>4, <1>5 DEF ReadText

LEMMA OMessageAdds ==
  /\ Adds(OUserF, OMessages, Texts) /\ Adds(OSaidF, OMessages, Texts)
  /\ Adds(OCallsF, OMessages, Seqs(CallsTold)) /\ Adds(OResultsF, OMessages, Seqs(ResultsTold))
<1>1. Strings(Texts) /\ Strings(Seqs(CallsTold)) /\ Strings(Seqs(ResultsTold))
  <2>1. Strings(Texts)
    BY SeqStrings DEF Texts
  <2> QED BY <2>1, SeqsStrings
<1>2. \A m \in OMessages : OUserF[m] \in Texts /\ OSaidF[m] \in Texts
  BY OMessageIs DEF OUserF, OSaidF
<1>3. \A m \in OMessages : OCallsF[m] \in Seqs(CallsTold) /\ OResultsF[m] \in Seqs(ResultsTold)
  BY OMessageIs DEF OCallsF, OResultsF
<1> QED BY <1>1, <1>2, <1>3 DEF Adds

LEMMA OpenAISaysIs ==
  ASSUME NEW ms, Over(ms, OMessages)
  PROVE  OpenAIReads(ms) = [user |-> Total(OUserF, ms), assistant |-> Total(OSaidF, ms),
                           calls |-> Total(OCallsF, ms), results |-> Total(OResultsF, ms)]
<1>1. DOMAIN ms = 1..Len(ms) /\ \A i \in DOMAIN ms : ms[i] \in OMessages
  BY DEF Over
<1> DEFINE asked(m) == ReadText("user", m)
           said(m)  == ReadText("assistant", m)
<1>2. [i \in DOMAIN ms |-> asked(ms[i])] = PartsOf(OUserF, ms)
  BY <1>1 DEF PartsOf, OUserF
<1>3. [i \in DOMAIN ms |-> said(ms[i])] = PartsOf(OSaidF, ms)
  BY <1>1 DEF PartsOf, OSaidF
<1>4. [i \in DOMAIN ms |-> CallsMade(ms[i])] = PartsOf(OCallsF, ms)
  BY <1>1 DEF PartsOf, OCallsF
<1>5. [i \in DOMAIN ms |-> ResultRead(ms[i])] = PartsOf(OResultsF, ms)
  BY <1>1 DEF PartsOf, OResultsF
<1>6. OpenAIReads(ms)
        = [user |-> FlattenSeq([i \in DOMAIN ms |-> asked(ms[i])]),
           assistant |-> FlattenSeq([i \in DOMAIN ms |-> said(ms[i])]),
           calls |-> FlattenSeq([i \in DOMAIN ms |-> CallsMade(ms[i])]),
           results |-> FlattenSeq([i \in DOMAIN ms |-> ResultRead(ms[i])])]
  BY Zenon DEF OpenAIReads, Sum
<1> QED BY <1>2, <1>3, <1>4, <1>5, <1>6, Zenon DEF Total

-------------------------------------------------------------------------------
(* convertToOpenAI: a message says what it said.                               *)

ToldOf == [b \in ToolUses |-> <<b.id, Filled(b.input)>>]

LEMMA CallOfIs ==
  ASSUME NEW b \in ToolUses
  PROVE  CallOf(b) \in OneCall /\ ToldF[CallOf(b)] = ToldOf[b] /\ ToldOf[b] \in CallsTold
         /\ CallF[b] = <<ToldOf[b]>>
<1>1. b \in Parts /\ b.type = "tool_use" /\ b.id \in Atoms /\ b.input \in Atoms
  BY CallFields
<1>2. /\ CallOf(b).id = b.id /\ CallOf(b).args = Filled(b.input)
      /\ CallOf(b) = [id |-> b.id, args |-> Filled(b.input)]
  BY DEF CallOf, Filled
<1>3. Filled(b.input) \in Atoms /\ Filled(Filled(b.input)) = Filled(b.input)
  BY <1>1, FilledType
<1>4. CallOf(b) \in OneCall
  BY <1>1, <1>2, <1>3 DEF OneCall
<1>5. ToldF[CallOf(b)] = <<CallOf(b).id, Filled(CallOf(b).args)>>
  BY <1>4 DEF ToldF
<1>6. ToldOf[b] = <<b.id, Filled(b.input)>>
  BY DEF ToldOf
<1>7. ToldF[CallOf(b)] = ToldOf[b]
  BY <1>2, <1>3, <1>5, <1>6, Zenon
<1>8. ToldOf[b] \in CallsTold
  BY <1>1, <1>3, <1>6 DEF CallsTold
<1>9. CallF[b] = <<ToldOf[b]>>
  BY <1>1, <1>6 DEF CallF
<1> QED BY <1>4, <1>7, <1>8, <1>9

LEMMA ToolCallsTold ==
  ASSUME NEW s, Over(s, Parts), NEW calls, calls = Each(CallOf, Of("tool_use", s))
  PROVE  calls \in Seqs(OneCall) /\ PartsOf(ToldF, calls) = Total(CallF, s)
<1> DEFINE t == Of("tool_use", s)
           F == [b \in ToolUses |-> CallOf(b)]
<1>1. /\ ToolUses \subseteq Parts
      /\ \A b \in Parts : b.type = "tool_use" => b \in ToolUses
      /\ \A b \in Parts : b.type # "tool_use" => CallF[b] = <<>>
  BY PartIs DEF Parts, CallF
<1>2. Over(t, ToolUses) /\ Total(CallF, t) = Total(CallF, s)
  BY <1>1, CallAdds, OverOwn
<1> HIDE DEF t
<1>3. DOMAIN t = 1..Len(t) /\ Len(t) \in Nat /\ \A i \in DOMAIN t : t[i] \in ToolUses
  BY <1>2 DEF Over
<1>4. calls = [i \in DOMAIN t |-> CallOf(t[i])]
  BY Zenon DEF Each, t
<1>5. DOMAIN calls = DOMAIN t /\ \A i \in DOMAIN t : calls[i] = CallOf(t[i])
  BY <1>4
<1>6. calls \in Seqs(OneCall)
  <2>1. \A b \in ToolUses : F[b] \in OneCall
    BY CallOfIs
  <2>2. PartsOf(F, t) = calls
    BY <1>3, <1>4 DEF PartsOf
  <2> HIDE DEF F
  <2>3. PartsOf(F, t) \in Seq(OneCall)
    BY <1>2, <2>1, PartsType
  <2> QED BY <2>2, <2>3, Zenon DEF Seqs
<1>7. PartsOf(ToldF, calls) = PartsOf(ToldOf, t)
  <2>1. \A i \in DOMAIN t : ToldF[calls[i]] = ToldOf[t[i]]
    BY <1>3, <1>5, CallOfIs
  <2> QED BY <1>5, <2>1 DEF PartsOf
<1>8. Total(CallF, t) = PartsOf(ToldOf, t)
  <2>1. \A b \in ToolUses : ToldOf[b] \in CallsTold /\ CallF[b] = <<ToldOf[b]>>
    BY CallOfIs
  <2> QED BY <1>2, <2>1, TotalEach
<1> QED BY <1>2, <1>6, <1>7, <1>8

LEMMA ContentIs ==
  ASSUME NEW s, Over(s, Parts)
  PROVE  /\ ContentOf(s) \in OpenAIContents /\ StringOr(ContentOf(s)) = JoinedText(s)
         /\ ContentOf(s) \notin Arrays
<1>1. JoinedText(s) \in Texts /\ (Of("text", s) = <<>> => JoinedText(s) = <<>>)
  BY JoinedIs
<1>2. CASE Of("text", s) = <<>>
  BY <1>1, <1>2, TextIsContent DEF ContentOf
<1>3. CASE Of("text", s) # <<>>
  BY <1>1, <1>3, StringOrType, TextIsContent DEF ContentOf
<1> QED BY <1>2, <1>3

\* All that a message says, in the four aspects.
SaysAs(o, m) ==
  /\ OUserF[o] = UserF[m] /\ OSaidF[o] = SaidF[m]
  /\ OCallsF[o] = CallsF[m] /\ OResultsF[o] = ResultsF[m]

LEMMA FromAssistantSays ==
  ASSUME NEW m \in IMessages, m.role = "assistant"
  PROVE  \E o \in OMessages : /\ FromMessage(m) = <<o>> /\ SaysAs(o, m)
                              /\ o.role = "assistant" /\ o.content \notin Arrays
<1> DEFINE s == m.content
           calls == Each(CallOf, Of("tool_use", s))
           y == IF calls = <<>> THEN NoCalls ELSE calls
           o == [OpenAIMessage("assistant", ContentOf(s)) EXCEPT !.tool_calls = y]
<1>1. FromMessage(m) = <<o>>
  BY DEF FromMessage, FromAssistant
<1>2. o = [role |-> "assistant", content |-> ContentOf(s), tool_calls |-> y, tool_call_id |-> Absent]
  BY DEF OpenAIMessage
<1>3. Over(s, Parts) /\ Over(s, AssistantParts)
  BY MessageIs
<1>4. calls \in Seqs(OneCall) /\ PartsOf(ToldF, calls) = Total(CallF, s)
  BY <1>3, ToolCallsTold
<1>5. ContentOf(s) \in OpenAIContents /\ StringOr(ContentOf(s)) = JoinedText(s)
      /\ ContentOf(s) \notin Arrays
  BY <1>3, ContentIs
<1> HIDE DEF calls, s
<1>6. y \in Seqs(OneCall) \cup {NoCalls}
  BY <1>4
<1> HIDE DEF o
<1>7. o.role = "assistant" /\ o.content = ContentOf(s) /\ o.tool_calls = y
  BY <1>2
<1>8. o \in OMessages
  <2>1. Absent \in Atoms
    BY ConversionAssumption
  <2> HIDE DEF y
  <2> QED BY <1>2, <1>5, <1>6, <2>1 DEF OMessages
<1>9. CallsMade(o) = CallsIn(m)
  <2>1. CallsIn(m) = Total(CallF, s)
    BY MessageIs DEF s
  <2>2. CASE calls = <<>>
    <3>1. CallsMade(o) = <<>>
      BY <1>6, <1>7, <2>2, CallsMadeIs
    <3>2. PartsOf(ToldF, calls) = <<>>
      BY <2>2 DEF PartsOf
    <3> QED BY <1>4, <2>1, <3>1, <3>2, Zenon
  <2>3. CASE calls # <<>>
    <3>1. CallsMade(o) = PartsOf(ToldF, calls)
      BY <1>4, <1>6, <1>7, <2>3, CallsMadeIs
    <3> QED BY <1>4, <2>1, <3>1, Zenon
  <2> QED BY <2>2, <2>3
<1>10. ResultsIn(m) = <<>>
  <2>1. ResultsIn(m) = Total(ResultF, s)
    BY MessageIs DEF s
  <2>2. \A b \in AssistantParts : ResultF[b] = <<>>
    <3>1. \A b \in AssistantParts : b \in Parts /\ b.type # "tool_result"
      BY DEF AssistantParts, Parts, TextBlocks, Decoded0, Thoughts, ToolUses
    <3> QED BY <3>1 DEF ResultF
  <2>3. Total(ResultF, s) = <<>>
    BY <1>3, <2>2, TotalNone DEF s
  <2> QED BY <2>1, <2>3
<1>11. SaysAs(o, m)
  <2>1. OUserF[o] = ReadText("user", o) /\ OSaidF[o] = ReadText("assistant", o)
        /\ OCallsF[o] = CallsMade(o) /\ OResultsF[o] = ResultRead(o)
    BY <1>8 DEF OUserF, OSaidF, OCallsF, OResultsF
  <2>2. UserF[m] = AnthropicText("user", m) /\ SaidF[m] = AnthropicText("assistant", m)
        /\ CallsF[m] = CallsIn(m) /\ ResultsF[m] = ResultsIn(m)
    BY DEF UserF, SaidF, CallsF, ResultsF
  <2>3. ReadText("user", o) = <<>> /\ AnthropicText("user", m) = <<>> /\ ResultRead(o) = <<>>
    BY <1>7 DEF ReadText, AnthropicText, ResultRead
  <2>4. ReadText("assistant", o) = JoinedText(s) /\ AnthropicText("assistant", m) = JoinedText(s)
    BY <1>5, <1>7 DEF ReadText, AnthropicText, s
  <2> QED BY <1>9, <1>10, <2>1, <2>2, <2>3, <2>4, Zenon DEF SaysAs
<1> QED BY <1>1, <1>5, <1>7, <1>8, <1>11

\* A message that is no prompt, and whose content can be read.
Speaks(o) == o.role # "system" /\ o.content \notin Arrays

Answers ==
  {o \in OMessages : o.role = "tool" /\ o.tool_calls = NoCalls /\ o.content \notin Arrays}

LEMMA ResultOfIs ==
  ASSUME NEW b \in Results
  PROVE  ResultOf(b) \in Answers /\ OResultsF[ResultOf(b)] = ResultF[b]
<1> DEFINE t == JoinedText(b.content)
           o == [OpenAIMessage("tool", t) EXCEPT !.tool_call_id = b.tool_use_id]
<1>1. b \in Parts /\ b.type = "tool_result" /\ b.tool_use_id \in Atoms /\ t \in Texts
  BY ResultFields
<1>2. ResultOf(b) = o
  BY DEF ResultOf
<1> HIDE DEF t
<1>3. o = [role |-> "tool", content |-> t, tool_calls |-> NoCalls, tool_call_id |-> b.tool_use_id]
  BY DEF OpenAIMessage
<1> HIDE DEF o
<1>4. o \in OMessages /\ o.role = "tool" /\ o.tool_calls = NoCalls /\ o.content = t
      /\ o.tool_call_id = b.tool_use_id /\ o.content \notin Arrays
  BY <1>1, <1>3, TextIsContent DEF OMessages
<1>5. StringOr(t) = t
  BY <1>1, StringOrType, TextIsContent
<1>6. OResultsF[o] = <<<<b.tool_use_id, t>>>>
  BY <1>4, <1>5 DEF OResultsF, ResultRead
<1>7. ResultF[b] = <<<<b.tool_use_id, t>>>>
  BY <1>1 DEF ResultF, t
<1>8. o \in Answers
  BY <1>4 DEF Answers
<1> QED BY <1>2, <1>6, <1>7, <1>8, Zenon

LEMMA AnswersSay ==
  ASSUME NEW o \in Answers
  PROVE  o \in OMessages /\ OUserF[o] = <<>> /\ OSaidF[o] = <<>> /\ OCallsF[o] = <<>>
         /\ o.role # "system" /\ Speaks(o)
<1>1. o \in OMessages /\ o.role = "tool" /\ o.tool_calls = NoCalls /\ o.content \notin Arrays
  BY DEF Answers
<1>2. CallsMade(o) = <<>>
  BY <1>1, CallsMadeIs
<1> QED BY <1>1, <1>2 DEF OUserF, OSaidF, OCallsF, ReadText, Speaks

AllSay(os, m) ==
  /\ Total(OUserF, os) = UserF[m] /\ Total(OSaidF, os) = SaidF[m]
  /\ Total(OCallsF, os) = CallsF[m] /\ Total(OResultsF, os) = ResultsF[m]

LEMMA OneSays ==
  ASSUME NEW o \in OMessages
  PROVE  /\ Total(OUserF, <<o>>) = OUserF[o] /\ Total(OSaidF, <<o>>) = OSaidF[o]
         /\ Total(OCallsF, <<o>>) = OCallsF[o] /\ Total(OResultsF, <<o>>) = OResultsF[o]
BY OMessageAdds, TotalOne

LEMMA TotalOfTwo ==
  ASSUME NEW s, Over(s, OMessages), NEW t, Over(t, OMessages)
  PROVE  /\ Total(OUserF, s \o t) = Total(OUserF, s) \o Total(OUserF, t)
         /\ Total(OSaidF, s \o t) = Total(OSaidF, s) \o Total(OSaidF, t)
         /\ Total(OCallsF, s \o t) = Total(OCallsF, s) \o Total(OCallsF, t)
         /\ Total(OResultsF, s \o t) = Total(OResultsF, s) \o Total(OResultsF, t)
<1>1. Total(OUserF, s \o t) = Total(OUserF, s) \o Total(OUserF, t)
  BY OMessageAdds, TotalConcat
<1>2. Total(OSaidF, s \o t) = Total(OSaidF, s) \o Total(OSaidF, t)
  BY OMessageAdds, TotalConcat
<1>3. Total(OCallsF, s \o t) = Total(OCallsF, s) \o Total(OCallsF, t)
  BY OMessageAdds, TotalConcat
<1>4. Total(OResultsF, s \o t) = Total(OResultsF, s) \o Total(OResultsF, t)
  BY OMessageAdds, TotalConcat
<1> QED BY <1>1, <1>2, <1>3, <1>4

LEMMA ResultsSay ==
  ASSUME NEW s, Over(s, Parts), NEW rs, rs = Each(ResultOf, Of("tool_result", s))
  PROVE  /\ Over(rs, Answers) /\ Over(rs, OMessages)
         /\ Total(OUserF, rs) = <<>> /\ Total(OSaidF, rs) = <<>> /\ Total(OCallsF, rs) = <<>>
         /\ Total(OResultsF, rs) = Total(ResultF, s)
<1> DEFINE t == Of("tool_result", s)
           F == [b \in Results |-> ResultOf(b)]
<1>1. /\ Results \subseteq Parts
      /\ \A b \in Parts : b.type = "tool_result" => b \in Results
      /\ \A b \in Parts : b.type # "tool_result" => ResultF[b] = <<>>
  BY PartIs DEF Parts, ResultF
<1>2. Over(t, Results) /\ Total(ResultF, t) = Total(ResultF, s)
  BY <1>1, ResultAdds, OverOwn
<1> HIDE DEF t
<1>3. DOMAIN t = 1..Len(t) /\ Len(t) \in Nat /\ \A i \in DOMAIN t : t[i] \in Results
  BY <1>2 DEF Over
<1>4. rs = [i \in DOMAIN t |-> ResultOf(t[i])]
  BY Zenon DEF Each, t
<1>5. DOMAIN rs = DOMAIN t /\ \A i \in DOMAIN t : rs[i] = ResultOf(t[i])
  BY <1>4
<1>6. Over(rs, Answers)
  <2>1. \A b \in Results : F[b] \in Answers
    BY ResultOfIs
  <2>2. PartsOf(F, t) = rs
    BY <1>3, <1>4 DEF PartsOf
  <2> HIDE DEF F
  <2>3. PartsOf(F, t) \in Seq(Answers)
    BY <1>2, <2>1, PartsType
  <2> QED BY <2>2, <2>3, Zenon DEF Over
<1>7. Over(rs, OMessages)
  BY <1>6, OverMore DEF Answers
<1>8. Total(OUserF, rs) = <<>> /\ Total(OSaidF, rs) = <<>> /\ Total(OCallsF, rs) = <<>>
  BY <1>6, AnswersSay, TotalNone
<1>9. Total(OResultsF, rs) = Total(ResultF, t)
  <2>1. \A i \in DOMAIN t : OResultsF[rs[i]] = ResultF[t[i]]
    BY <1>3, <1>5, ResultOfIs
  <2> QED BY <1>5, <2>1, TotalSame
<1> QED BY <1>2, <1>6, <1>7, <1>8, <1>9

LEMMA FromUserSays ==
  ASSUME NEW m \in IMessages, m.role = "user"
  PROVE  /\ Over(FromMessage(m), OMessages) /\ AllSay(FromMessage(m), m)
         /\ \A i \in DOMAIN FromMessage(m) : Speaks(FromMessage(m)[i])
<1> DEFINE s == m.content
           rs == Each(ResultOf, Of("tool_result", s))
           o == OpenAIMessage("user", ContentOf(s))
           tail == IF Of("text", s) = <<>> THEN <<>> ELSE <<o>>
<1>1. FromMessage(m) = rs \o tail
  BY DEF FromMessage, FromUser
<1>2. Over(s, Parts) /\ Over(s, UserParts)
  BY MessageIs
<1>3. /\ Over(rs, Answers) /\ Over(rs, OMessages)
      /\ Total(OUserF, rs) = <<>> /\ Total(OSaidF, rs) = <<>> /\ Total(OCallsF, rs) = <<>>
      /\ Total(OResultsF, rs) = Total(ResultF, s)
  <2> HIDE DEF s
  <2> QED BY <1>2, ResultsSay
<1>4. ContentOf(s) \in OpenAIContents /\ StringOr(ContentOf(s)) = JoinedText(s)
      /\ JoinedText(s) \in Texts /\ (Of("text", s) = <<>> => JoinedText(s) = <<>>)
      /\ ContentOf(s) \notin Arrays
  BY <1>2, ContentIs, JoinedIs
<1> HIDE DEF s, rs
<1>5. o \in OMessages /\ o.role = "user" /\ o.content = ContentOf(s) /\ o.tool_calls = NoCalls
  <2>1. Absent \in Atoms
    BY ConversionAssumption
  <2> QED BY <1>4, <2>1 DEF OpenAIMessage, OMessages
<1> HIDE DEF o
<1>6. OUserF[o] = JoinedText(s) /\ OSaidF[o] = <<>> /\ OCallsF[o] = <<>> /\ OResultsF[o] = <<>>
  <2>1. CallsMade(o) = <<>>
    BY <1>5, CallsMadeIs
  <2> QED BY <1>4, <1>5, <2>1 DEF OUserF, OSaidF, OCallsF, OResultsF, ReadText, ResultRead
<1>7. /\ Over(tail, OMessages)
      /\ Total(OUserF, tail) = JoinedText(s) /\ Total(OSaidF, tail) = <<>>
      /\ Total(OCallsF, tail) = <<>> /\ Total(OResultsF, tail) = <<>>
  <2>1. CASE Of("text", s) = <<>>
    <3>1. tail = <<>>
      BY <2>1
    <3> HIDE DEF tail
    <3>2. Over(<<>>, OMessages)
      BY OverMade
    <3> QED BY <1>4, <2>1, <3>1, <3>2, TotalEmpty
  <2>2. CASE Of("text", s) # <<>>
    <3>1. tail = <<o>>
      BY <2>2
    <3> HIDE DEF tail
    <3>2. Over(<<o>>, OMessages)
      BY <1>5, OverMade
    <3> QED BY <1>5, <1>6, <3>1, <3>2, OneSays
  <2> QED BY <2>1, <2>2
<1>8. \A i \in DOMAIN tail : Speaks(tail[i])
  BY <1>4, <1>5 DEF Speaks
<1> HIDE DEF tail
<1>9. Over(FromMessage(m), OMessages)
  <2>1. Over(rs \o tail, OMessages)
    BY <1>3, <1>7, OverMade
  <2> QED BY <1>1, <2>1, Zenon
<1>10. /\ UserF[m] = JoinedText(s) /\ SaidF[m] = <<>>
       /\ ResultsF[m] = Total(ResultF, s) /\ CallsF[m] = Total(CallF, s)
  BY MessageIs DEF UserF, SaidF, ResultsF, CallsF, AnthropicText, s
<1>11. Total(CallF, s) = <<>>
  <2>1. \A b \in UserParts : CallF[b] = <<>>
    <3>1. \A b \in UserParts : b \in Parts /\ b.type # "tool_use"
      BY DEF UserParts, Parts, TextBlocks, Decoded0, Thoughts, Results
    <3> QED BY <3>1 DEF CallF
  <2> QED BY <1>2, <2>1, TotalNone
<1>12. AllSay(FromMessage(m), m)
  <2>1. <<>> \o JoinedText(s) = JoinedText(s)
    <3>1. Strings(Texts)
      BY TextAdds DEF Adds
    <3> QED BY <1>4, <3>1 DEF Strings
  <2>2. Total(ResultF, s) \o <<>> = Total(ResultF, s)
    <3>1. Total(ResultF, s) \in Seqs(ResultsTold)
      BY <1>2, ResultAdds, TotalType
    <3> QED BY <3>1, SeqsStrings DEF Strings
  <2>3. <<>> \o <<>> = <<>>
    OBVIOUS
  <2>4. /\ Total(OUserF, rs \o tail) = Total(OUserF, rs) \o Total(OUserF, tail)
        /\ Total(OSaidF, rs \o tail) = Total(OSaidF, rs) \o Total(OSaidF, tail)
        /\ Total(OCallsF, rs \o tail) = Total(OCallsF, rs) \o Total(OCallsF, tail)
        /\ Total(OResultsF, rs \o tail) = Total(OResultsF, rs) \o Total(OResultsF, tail)
    BY <1>3, <1>7, TotalOfTwo
  <2> QED BY <1>1, <1>3, <1>7, <1>10, <1>11, <2>1, <2>2, <2>3, <2>4, Zenon DEF AllSay
<1>13. \A i \in DOMAIN FromMessage(m) : Speaks(FromMessage(m)[i])
  <2>1. \A i \in DOMAIN rs : Speaks(rs[i])
    <3>1. DOMAIN rs = 1..Len(rs) /\ \A i \in DOMAIN rs : rs[i] \in Answers
      BY <1>3 DEF Over
    <3> QED BY <3>1, AnswersSay
  <2>2. rs \in Seq(OMessages) /\ tail \in Seq(OMessages)
    BY <1>3, <1>7 DEF Over
  <2>3. \A i \in DOMAIN (rs \o tail) : Speaks((rs \o tail)[i])
    <3> SUFFICES ASSUME NEW i \in DOMAIN (rs \o tail) PROVE Speaks((rs \o tail)[i])
      OBVIOUS
    <3>1. CASE i \in DOMAIN rs
      <4>1. (rs \o tail)[i] = rs[i]
        BY <2>2, <3>1
      <4> QED BY <2>1, <3>1, <4>1
    <3>2. CASE i \notin DOMAIN rs
      <4>1. i - Len(rs) \in DOMAIN tail /\ (rs \o tail)[i] = tail[i - Len(rs)]
        BY <2>2, <3>2
      <4> QED BY <1>8, <4>1
    <3> QED BY <3>1, <3>2
  <2> QED BY <1>1, <2>3
<1> QED BY <1>9, <1>12, <1>13

LEMMA FromMessageSays ==
  ASSUME NEW m \in IMessages
  PROVE  /\ Over(FromMessage(m), OMessages) /\ AllSay(FromMessage(m), m)
         /\ \A i \in DOMAIN FromMessage(m) : Speaks(FromMessage(m)[i])
<1>1. m.role \in {"user", "assistant"}
  BY MessageIs
<1>2. CASE m.role = "assistant"
  <2>1. PICK o \in OMessages : FromMessage(m) = <<o>> /\ SaysAs(o, m) /\ o.role = "assistant" /\ o.content \notin Arrays
    BY <1>2, FromAssistantSays
  <2>2. Over(<<o>>, OMessages)
    BY OverMade
  <2>3. AllSay(<<o>>, m)
    BY <2>1, OneSays DEF SaysAs, AllSay
  <2>4. \A i \in DOMAIN <<o>> : Speaks(<<o>>[i])
    BY <2>1 DEF Speaks
  <2> QED BY <2>1, <2>2, <2>3, <2>4, Zenon
<1>3. CASE m.role = "user"
  BY <1>3, FromUserSays
<1> QED BY <1>1, <1>2, <1>3

Told == {o \in OMessages : Speaks(o)}

LEMMA ToldOver ==
  ASSUME NEW os, Over(os, OMessages), \A i \in DOMAIN os : Speaks(os[i])
  PROVE  Over(os, Told)
<1>1. DOMAIN os = 1..Len(os) /\ Len(os) \in Nat /\ \A i \in DOMAIN os : os[i] \in OMessages
  BY DEF Over
<1>2. \A i \in 1..Len(os) : os[i] \in Told
  BY <1>1 DEF Told
<1> QED BY <1>2 DEF Over

FromF == [m \in IMessages |-> FromMessage(m)]

LEMMA FromAdds == Adds(FromF, IMessages, Seqs(OMessages)) /\ Adds(FromF, IMessages, Seqs(Told))
<1>1. Strings(Seqs(OMessages)) /\ Strings(Seqs(Told))
  BY SeqsStrings
<1>2. ASSUME NEW m \in IMessages PROVE FromF[m] \in Seqs(OMessages) /\ FromF[m] \in Seqs(Told)
  <2>1. FromF[m] = FromMessage(m)
    BY DEF FromF
  <2>2. Over(FromMessage(m), OMessages) /\ Over(FromMessage(m), Told)
    BY FromMessageSays, ToldOver
  <2> QED BY <2>1, <2>2, SeqsStrings, Zenon
<1> QED BY <1>1, <1>2 DEF Adds

LEMMA FromSays ==
  /\ \A m \in IMessages : Total(OUserF, FromF[m]) = UserF[m]
  /\ \A m \in IMessages : Total(OSaidF, FromF[m]) = SaidF[m]
  /\ \A m \in IMessages : Total(OCallsF, FromF[m]) = CallsF[m]
  /\ \A m \in IMessages : Total(OResultsF, FromF[m]) = ResultsF[m]
<1>1. ASSUME NEW m \in IMessages PROVE AllSay(FromF[m], m)
  <2>1. FromF[m] = FromMessage(m)
    BY DEF FromF
  <2>2. AllSay(FromMessage(m), m)
    BY FromMessageSays
  <2> QED BY <2>1, <2>2, Zenon
<1> QED BY <1>1 DEF AllSay

\* All that the messages of a request say, they say to an OpenAI-style provider.
LEMMA ConvertedSays ==
  ASSUME NEW ms, Over(ms, IMessages), NEW os, os = FlattenSeq(Each(FromMessage, ms))
  PROVE  /\ Over(os, OMessages) /\ Over(os, Told)
         /\ Total(OUserF, os) = Total(UserF, ms) /\ Total(OSaidF, os) = Total(SaidF, ms)
         /\ Total(OCallsF, os) = Total(CallsF, ms) /\ Total(OResultsF, os) = Total(ResultsF, ms)
<1>1. DOMAIN ms = 1..Len(ms) /\ \A i \in DOMAIN ms : ms[i] \in IMessages
  BY DEF Over
<1>2. Each(FromMessage, ms) = PartsOf(FromF, ms)
  BY <1>1 DEF Each, PartsOf, FromF
<1>3. os = Total(FromF, ms)
  BY <1>2, Zenon DEF Total
<1>4. Over(os, OMessages) /\ Over(os, Told)
  <2>1. Total(FromF, ms) \in Seqs(OMessages)
    BY FromAdds, TotalType
  <2>2. Total(FromF, ms) \in Seqs(Told)
    BY FromAdds, TotalType
  <2> QED BY <1>3, <2>1, <2>2, SeqsStrings, Zenon
<1>5. Total(OUserF, Total(FromF, ms)) = Total(UserF, ms)
  BY FromAdds, FromSays, OMessageAdds, MessageAdds, TotalOfTotal
<1>6. Total(OSaidF, Total(FromF, ms)) = Total(SaidF, ms)
  BY FromAdds, FromSays, OMessageAdds, MessageAdds, TotalOfTotal
<1>7. Total(OCallsF, Total(FromF, ms)) = Total(CallsF, ms)
  BY FromAdds, FromSays, OMessageAdds, MessageAdds, TotalOfTotal
<1>8. Total(OResultsF, Total(FromF, ms)) = Total(ResultsF, ms)
  BY FromAdds, FromSays, OMessageAdds, MessageAdds, TotalOfTotal
<1> QED BY <1>3, <1>4, <1>5, <1>6, <1>7, <1>8, Zenon

-------------------------------------------------------------------------------
(* The prompt.                                                                 *)

PromptLoop == INSTANCE FoldTheorems WITH Step <- NextPrompt, Good <- LAMBDA s, q, i, t : TRUE

LEMMA PromptIs ==
  /\ LastPrompt(<<>>) = <<>>
  /\ \A A : \A s : Over(s, A) => \A x \in A : LastPrompt(Append(s, x)) = NextPrompt(LastPrompt(s), x)
<1>1. ASSUME NEW s PROVE LastPrompt(s) = PromptLoop!Run(<<>>, s)
  BY DEF LastPrompt, NextPrompt, SystemString, PromptLoop!Run, FoldLeft, PromptLoop!FoldLeft, MapThenFoldSet,
         PromptLoop!MapThenFoldSet, Max, PromptLoop!Max
<1>2. LastPrompt(<<>>) = <<>>
  BY <1>1, PromptLoop!RunEmpty
<1>3. ASSUME NEW A, NEW s, Over(s, A), NEW x \in A PROVE LastPrompt(Append(s, x)) = NextPrompt(LastPrompt(s), x)
  <2>1. s \in Seq(A)
    BY <1>3 DEF Over
  <2>2. PromptLoop!Run(<<>>, Append(s, x)) = NextPrompt(PromptLoop!Run(<<>>, s), x)
    BY <2>1, PromptLoop!RunAppend
  <2> QED BY <1>1, <2>2
<1> QED BY <1>2, <1>3

LEMMA PromptStays ==
  ASSUME NEW s, Over(s, OMessages)
  PROVE  \A t : Over(t, Told) => LastPrompt(s \o t) = LastPrompt(s)
<1> DEFINE Q == {t \in Seq(Told) : LastPrompt(s \o t) = LastPrompt(s)}
<1>1. <<>> \in Q
  <2>1. s \o <<>> = s
    BY DEF Over
  <2> QED BY <2>1
<1>2. ASSUME NEW t, Over(t, Told), t \in Q, NEW x \in Told PROVE Append(t, x) \in Q
  <2>1. x \in OMessages /\ x.role # "system" /\ Told \subseteq OMessages
    BY DEF Told, Speaks
  <2>2. Over(t, OMessages)
    BY <1>2, <2>1, OverMore
  <2>3. s \o Append(t, x) = Append(s \o t, x) /\ Over(s \o t, OMessages)
    BY <2>1, <2>2, AppendToConcat
  <2>4. LastPrompt(Append(s \o t, x)) = NextPrompt(LastPrompt(s \o t), x)
    BY <2>1, <2>3, PromptIs
  <2>5. LastPrompt(s \o t) = LastPrompt(s)
    BY <1>2
  <2>6. LastPrompt(s \o Append(t, x)) = LastPrompt(s)
    BY <2>1, <2>3, <2>4, <2>5 DEF NextPrompt, SystemString
  <2>7. Append(t, x) \in Seq(Told)
    BY <1>2 DEF Over
  <2> QED BY <2>6, <2>7
<1> HIDE DEF Q
<1>3. \A t : Over(t, Told) => t \in Q
  BY <1>1, <1>2, OverInduction
<1> QED BY <1>3 DEF Q

\* What convertToOpenAI makes of a request's messages and its prompt.
LEMMA ToOpenAISays ==
  ASSUME NEW req, Over(req.messages, IMessages), SystemText(req.system) \in Texts
  PROVE  /\ OpenAIReads(convertToOpenAI(req).messages) = AnthropicSays(req.messages)
         /\ LastPrompt(convertToOpenAI(req).messages) = SystemText(req.system)
<1> DEFINE ms == req.messages
           system == SystemText(req.system)
           o == OpenAIMessage("system", system)
           head == IF system = <<>> THEN <<>> ELSE <<o>>
           os == FlattenSeq(Each(FromMessage, ms))
<1>1. convertToOpenAI(req).messages = head \o os
  BY DEF convertToOpenAI
<1>2. /\ Over(os, OMessages) /\ Over(os, Told)
      /\ Total(OUserF, os) = Total(UserF, ms) /\ Total(OSaidF, os) = Total(SaidF, ms)
      /\ Total(OCallsF, os) = Total(CallsF, ms) /\ Total(OResultsF, os) = Total(ResultsF, ms)
  BY ConvertedSays
<1>3. AnthropicSays(ms) = [user |-> Total(UserF, ms), assistant |-> Total(SaidF, ms),
                           calls |-> Total(CallsF, ms), results |-> Total(ResultsF, ms)]
  BY AnthropicSaysIs
<1>4. system \in Texts /\ system \notin NotStrings /\ system \in OpenAIContents
  BY ConversionAssumption DEF Texts, OpenAIContents
<1> HIDE DEF os, system
<1>5. o \in OMessages /\ o.role = "system" /\ o.content = system /\ o.tool_calls = NoCalls
  <2>1. Absent \in Atoms
    BY ConversionAssumption
  <2> QED BY <1>4, <2>1 DEF OpenAIMessage, OMessages
<1> HIDE DEF o
<1>6. OUserF[o] = <<>> /\ OSaidF[o] = <<>> /\ OCallsF[o] = <<>> /\ OResultsF[o] = <<>>
  <2>1. CallsMade(o) = <<>>
    BY <1>5, CallsMadeIs
  <2> QED BY <1>5, <2>1 DEF OUserF, OSaidF, OCallsF, OResultsF, ReadText, ResultRead
<1>7. /\ Over(head, OMessages) /\ LastPrompt(head) = system
      /\ Total(OUserF, head) = <<>> /\ Total(OSaidF, head) = <<>>
      /\ Total(OCallsF, head) = <<>> /\ Total(OResultsF, head) = <<>>
  <2>1. CASE system = <<>>
    <3>1. head = <<>>
      BY <2>1
    <3> HIDE DEF head
    <3>2. Over(<<>>, OMessages)
      BY OverMade
    <3> QED BY <2>1, <3>1, <3>2, TotalEmpty, PromptIs
  <2>2. CASE system # <<>>
    <3>1. head = <<o>>
      BY <2>2
    <3> HIDE DEF head
    <3>2. Over(<<o>>, OMessages) /\ Over(<<>>, OMessages) /\ Append(<<>>, o) = <<o>>
      <4>1. Append(<<>>, o) = <<o>>
        OBVIOUS
      <4> QED BY <1>5, <4>1, OverMade
    <3>3. LastPrompt(Append(<<>>, o)) = NextPrompt(LastPrompt(<<>>), o)
      BY <1>5, <3>2, PromptIs
    <3>4. NextPrompt(LastPrompt(<<>>), o) = system
      BY <1>4, <1>5 DEF NextPrompt, SystemString
    <3>5. Total(OUserF, <<o>>) = <<>> /\ Total(OSaidF, <<o>>) = <<>>
          /\ Total(OCallsF, <<o>>) = <<>> /\ Total(OResultsF, <<o>>) = <<>>
      BY <1>5, <1>6, OneSays
    <3> QED BY <3>1, <3>2, <3>3, <3>4, <3>5, Zenon
  <2> QED BY <2>1, <2>2
<1> HIDE DEF head
<1>8. Over(head \o os, OMessages)
  BY <1>2, <1>7, OverMade
<1>9. /\ Total(OUserF, head \o os) = Total(OUserF, head) \o Total(OUserF, os)
      /\ Total(OSaidF, head \o os) = Total(OSaidF, head) \o Total(OSaidF, os)
      /\ Total(OCallsF, head \o os) = Total(OCallsF, head) \o Total(OCallsF, os)
      /\ Total(OResultsF, head \o os) = Total(OResultsF, head) \o Total(OResultsF, os)
  BY <1>2, <1>7, TotalOfTwo
<1>10. /\ <<>> \o Total(OUserF, os) = Total(OUserF, os) /\ <<>> \o Total(OSaidF, os) = Total(OSaidF, os)
       /\ <<>> \o Total(OCallsF, os) = Total(OCallsF, os)
       /\ <<>> \o Total(OResultsF, os) = Total(OResultsF, os)
  <2>1. Total(OUserF, os) \in Texts
    BY <1>2, OMessageAdds, TotalType
  <2>2. Total(OSaidF, os) \in Texts
    BY <1>2, OMessageAdds, TotalType
  <2>3. Total(OCallsF, os) \in Seqs(CallsTold)
    BY <1>2, OMessageAdds, TotalType
  <2>4. Total(OResultsF, os) \in Seqs(ResultsTold)
    BY <1>2, OMessageAdds, TotalType
  <2>5. Strings(Texts) /\ Strings(Seqs(CallsTold)) /\ Strings(Seqs(ResultsTold))
    BY OMessageAdds DEF Adds
  <2> QED BY <2>1, <2>2, <2>3, <2>4, <2>5 DEF Strings
<1>11. OpenAIReads(head \o os)
         = [user |-> Total(OUserF, head \o os), assistant |-> Total(OSaidF, head \o os),
            calls |-> Total(OCallsF, head \o os), results |-> Total(OResultsF, head \o os)]
  BY <1>8, OpenAISaysIs
<1>12. OpenAIReads(head \o os) = AnthropicSays(ms)
  BY <1>2, <1>3, <1>7, <1>9, <1>10, <1>11, Zenon
<1>13. LastPrompt(head \o os) = LastPrompt(head)
  BY <1>2, <1>7, PromptStays
<1>14. LastPrompt(head \o os) = system
  BY <1>7, <1>13
<1> QED BY <1>1, <1>12, <1>14, Zenon DEF system

-------------------------------------------------------------------------------
(* What an OpenAI client sends, and what of it can be read.                    *)

\* A message of whose content what is said is what can be read.
Same(x, m) ==
  /\ OpenAIText("user", x) = ReadText("user", m)
  /\ OpenAIText("assistant", x) = ReadText("assistant", m)
  /\ CallsMade(x) = CallsMade(m) /\ ResultGiven(x) = ResultRead(m)

LEMMA SameFields ==
  ASSUME NEW x, NEW m, x.role = m.role, x.tool_calls = m.tool_calls,
         x.tool_call_id = m.tool_call_id,
         m.role # "system" => TextSent(x.content) = StringOr(m.content)
  PROVE  Same(x, m)
<1>1. CallsMade(x) = CallsMade(m)
  BY Zenon DEF CallsMade, Each
<1>2. ResultGiven(x) = ResultRead(m)
  BY Zenon DEF ResultGiven, ResultRead
<1>3. OpenAIText("user", x) = ReadText("user", m)
      /\ OpenAIText("assistant", x) = ReadText("assistant", m)
  BY DEF OpenAIText, ReadText
<1> QED BY <1>1, <1>2, <1>3 DEF Same

LEMMA SentIs ==
  /\ \A x \in OpenAIContents : TextSent(x) \in Texts
  /\ \A x \in OpenAIContents \ Arrays : TextSent(x) = StringOr(x)
  /\ \A x \in Arrays : StringOr(x) = <<>>
<1>1. \A x \in Arrays : TextIn[x] \in Texts
  BY RequestAssumption
<1> QED BY <1>1, StringOrType DEF TextSent, StringOr, NotStrings

\* A message with an array, or of the system before another one: what is kept.
Blank(m) == [m EXCEPT !.content = NoString]

LEMMA BlankIs ==
  ASSUME NEW m \in OMessages
  PROVE  /\ Blank(m) \in OMessages /\ Blank(m).content = NoString /\ Blank(m).role = m.role
         /\ Blank(m).tool_calls = m.tool_calls /\ Blank(m).tool_call_id = m.tool_call_id
         /\ TextSent(Blank(m).content) = <<>>
<1>1. TextSent(NoString) = <<>>
  BY TextIsContent DEF TextSent
<1>2. Blank(m).content = NoString
  BY DEF Blank, OMessages
<1> QED BY <1>1, <1>2, TextIsContent DEF Blank, OMessages

LEMMA ReadIs ==
  ASSUME NEW ms, Over(ms, OMessages)
  PROVE  /\ DOMAIN Read(ms) = 1..Len(ms) /\ Len(ms) \in Nat /\ Over(Read(ms), OMessages)
         /\ \A i \in 1..Len(ms) : ms[i] \in OMessages
         /\ \A i \in Unread(ms) : i \in 1..Len(ms) /\ Read(ms)[i] = Blank(ms[i])
         /\ \A i \in 1..Len(ms) : i \notin Unread(ms) =>
              Read(ms)[i] = ms[i] /\ ms[i].content \notin Arrays
<1>1. DOMAIN ms = 1..Len(ms) /\ Len(ms) \in Nat /\ \A i \in 1..Len(ms) : ms[i] \in OMessages
  BY DEF Over
<1>2. Read(ms) = [i \in 1..Len(ms) |-> IF i \in Unread(ms) THEN Blank(ms[i]) ELSE ms[i]]
  BY <1>1, Zenon DEF Read, Blank
<1>3. \A i \in 1..Len(ms) : Read(ms)[i] \in OMessages
  BY <1>1, <1>2, BlankIs
<1>4. Read(ms) \in Seq(OMessages)
  BY <1>1, <1>2, <1>3
<1>5. \A i \in Unread(ms) : i \in 1..Len(ms)
  BY <1>1 DEF Unread
<1>6. \A i \in 1..Len(ms) : i \notin Unread(ms) => ms[i].content \notin Arrays
  BY <1>1 DEF Unread
<1>7. \A i \in Unread(ms) : Read(ms)[i] = Blank(ms[i])
  BY <1>2, <1>5
<1>8. \A i \in 1..Len(ms) : i \notin Unread(ms) => Read(ms)[i] = ms[i]
  BY <1>2
<1>9. DOMAIN Read(ms) = 1..Len(ms)
  BY <1>2
<1> QED BY <1>1, <1>4, <1>5, <1>6, <1>7, <1>8, <1>9 DEF Over

\* Unread messages of others than the system are arrays.
LEMMA ReadSame ==
  ASSUME NEW ms, Over(ms, OMessages), NEW i \in 1..Len(ms)
  PROVE  Same(Read(ms)[i], ms[i])
<1> DEFINE m == ms[i]
           x == Read(ms)[i]
<1>1. m \in OMessages /\ m.content \in OpenAIContents
  BY ReadIs DEF OMessages
<1>2. CASE i \in Unread(ms)
  <2>1. x = Blank(m)
    BY <1>2, ReadIs
  <2>2. m.role # "system" => m.content \in Arrays
    BY <1>2 DEF Unread
  <2>3. m.role # "system" => StringOr(m.content) = <<>>
    BY <2>2, SentIs
  <2> HIDE DEF m
  <2>4. Same(Blank(m), m)
    BY <1>1, <2>3, BlankIs, SameFields
  <2> HIDE DEF x
  <2>5. Same(x, m)
    BY <2>1, <2>4, Zenon
  <2> QED BY <2>5 DEF x, m
<1>3. CASE i \notin Unread(ms)
  <2>1. x = m /\ m.content \notin Arrays
    BY <1>3, ReadIs
  <2>2. TextSent(m.content) = StringOr(m.content)
    BY <1>1, <2>1, SentIs
  <2> HIDE DEF m
  <2>3. Same(m, m)
    BY <2>2, SameFields
  <2> HIDE DEF x
  <2>4. Same(x, m)
    BY <2>1, <2>3, Zenon
  <2> QED BY <2>4 DEF x, m
<1> QED BY <1>2, <1>3

LEMMA ReadSays ==
  ASSUME NEW ms, Over(ms, OMessages)
  PROVE  OpenAISays(Read(ms)) = OpenAIReads(ms)
<1> DEFINE rs == Read(ms)
<1>1. DOMAIN ms = 1..Len(ms) /\ DOMAIN rs = 1..Len(ms)
  BY ReadIs DEF Over
<1>2. \A i \in 1..Len(ms) : Same(rs[i], ms[i])
  BY ReadSame
<1> HIDE DEF rs
<1>3. [i \in DOMAIN rs |-> OpenAIText("user", rs[i])] = [i \in DOMAIN ms |-> ReadText("user", ms[i])]
  BY <1>1, <1>2 DEF Same
<1>4. [i \in DOMAIN rs |-> OpenAIText("assistant", rs[i])]
        = [i \in DOMAIN ms |-> ReadText("assistant", ms[i])]
  BY <1>1, <1>2 DEF Same
<1>5. [i \in DOMAIN rs |-> CallsMade(rs[i])] = [i \in DOMAIN ms |-> CallsMade(ms[i])]
  BY <1>1, <1>2 DEF Same
<1>6. [i \in DOMAIN rs |-> ResultGiven(rs[i])] = [i \in DOMAIN ms |-> ResultRead(ms[i])]
  BY <1>1, <1>2 DEF Same
<1>7. OpenAISays(rs)
        = [user |-> FlattenSeq([i \in DOMAIN rs |-> OpenAIText("user", rs[i])]),
           assistant |-> FlattenSeq([i \in DOMAIN rs |-> OpenAIText("assistant", rs[i])]),
           calls |-> FlattenSeq([i \in DOMAIN rs |-> CallsMade(rs[i])]),
           results |-> FlattenSeq([i \in DOMAIN rs |-> ResultGiven(rs[i])])]
  BY Zenon DEF OpenAISays, Sum
<1>8. OpenAIReads(ms)
        = [user |-> FlattenSeq([i \in DOMAIN ms |-> ReadText("user", ms[i])]),
           assistant |-> FlattenSeq([i \in DOMAIN ms |-> ReadText("assistant", ms[i])]),
           calls |-> FlattenSeq([i \in DOMAIN ms |-> CallsMade(ms[i])]),
           results |-> FlattenSeq([i \in DOMAIN ms |-> ResultRead(ms[i])])]
  BY Zenon DEF OpenAIReads, Sum
<1>9. OpenAISays(rs) = OpenAIReads(ms)
  BY <1>3, <1>4, <1>5, <1>6, <1>7, <1>8, Zenon
<1> QED BY <1>9 DEF rs

SystemF == [m \in OMessages |-> OpenAIText("system", m)]

LEMMA SystemAdds == Adds(SystemF, OMessages, Texts)
<1>1. Strings(Texts)
  BY OMessageAdds DEF Adds
<1>2. \A m \in OMessages : m.content \in OpenAIContents
  BY DEF OMessages
<1>3. <<>> \in Texts
  BY DEF Texts
<1>4. \A m \in OMessages : SystemF[m] \in Texts
  BY <1>2, <1>3, SentIs DEF SystemF, OpenAIText
<1> QED BY <1>1, <1>4 DEF Adds

LEMMA PromptTotal ==
  ASSUME NEW ms, Over(ms, OMessages)
  PROVE  Prompt(ms) = Total(SystemF, ms)
<1>1. \A i \in DOMAIN ms : ms[i] \in OMessages
  BY DEF Over
<1>2. [i \in DOMAIN ms |-> OpenAIText("system", ms[i])] = PartsOf(SystemF, ms)
  BY <1>1 DEF PartsOf, SystemF
<1>3. Prompt(ms) = FlattenSeq([i \in DOMAIN ms |-> OpenAIText("system", ms[i])])
  BY Zenon DEF Prompt, Sum
<1> QED BY <1>2, <1>3, Zenon DEF Total

\* The messages with no prompt.
Silent == {m \in OMessages : SystemF[m] = <<>>}

\* Another message is read after those before it.
LEMMA ReadAppend ==
  ASSUME NEW q, Over(q, OMessages), NEW x \in OMessages
  PROVE  /\ SystemString(x) => \E r : Over(r, Silent) /\ Read(Append(q, x)) = Append(r, x)
         /\ ~SystemString(x) => \E y \in Silent : Read(Append(q, x)) = Append(Read(q), y)
<1> DEFINE ms == Append(q, x)
           n == Len(q)
           rs == Read(ms)
           r == [i \in 1..n |-> rs[i]]
<1>1. Over(ms, OMessages) /\ n \in Nat /\ Len(ms) = n + 1 /\ DOMAIN ms = 1..(n + 1)
      /\ ms[n + 1] = x /\ \A i \in 1..n : ms[i] = q[i]
  BY DEF Over
<1>2. DOMAIN q = 1..n
  BY DEF Over
<1> HIDE DEF ms, n
<1>3. /\ DOMAIN rs = 1..(n + 1) /\ Over(rs, OMessages)
      /\ \A i \in Unread(ms) : i \in 1..(n + 1) /\ rs[i] = Blank(ms[i])
      /\ \A i \in 1..(n + 1) : i \notin Unread(ms) => rs[i] = ms[i]
      /\ \A i \in 1..(n + 1) : ms[i] \in OMessages
  BY <1>1, ReadIs
<1>4. /\ DOMAIN Read(q) = 1..n /\ Over(Read(q), OMessages)
      /\ \A i \in Unread(q) : i \in 1..n /\ Read(q)[i] = Blank(q[i])
      /\ \A i \in 1..n : i \notin Unread(q) => Read(q)[i] = q[i]
  BY ReadIs DEF n
<1> HIDE DEF rs
<1>5. r \in Seq(OMessages) /\ Len(r) = n /\ DOMAIN r = 1..n
  <2>1. \A i \in 1..n : rs[i] \in OMessages
    BY <1>1, <1>3 DEF Over
  <2> QED BY <1>1, <2>1
<1> HIDE DEF r
<1>6. rs = Append(r, rs[n + 1])
  <2>1. rs \in Seq(OMessages) /\ Len(rs) = n + 1 /\ rs[n + 1] \in OMessages
    BY <1>1, <1>3 DEF Over
  <2>2. \A i \in 1..n : r[i] = rs[i]
    BY DEF r
  <2> QED BY <1>1, <1>5, <2>1, <2>2
<1>7. \A m \in OMessages : SystemF[Blank(m)] = <<>>
  BY BlankIs DEF SystemF, OpenAIText
<1>8. \A m \in OMessages : m.role # "system" => SystemF[m] = <<>>
  BY DEF SystemF, OpenAIText
<1>9. CASE SystemString(x)
  <2>1. x.content \notin Arrays
    BY <1>9 DEF SystemString, NotStrings
  <2>2. n + 1 \notin Unread(ms)
    BY <1>1, <2>1 DEF Unread
  <2>3. rs[n + 1] = x
    BY <1>1, <1>3, <2>2
  <2>4. ASSUME NEW i \in 1..n PROVE r[i] \in Silent
    <3>1. i \in 1..(n + 1) /\ r[i] = rs[i] /\ n + 1 > i /\ n + 1 \in 1..(n + 1)
      BY <1>1, <2>4 DEF r
    <3>2. CASE i \in Unread(ms)
      <4>1. rs[i] = Blank(ms[i]) /\ ms[i] \in OMessages
        BY <1>3, <3>1, <3>2
      <4>2. Blank(ms[i]) \in OMessages
        BY <4>1, BlankIs
      <4> QED BY <1>7, <3>1, <4>1, <4>2 DEF Silent
    <3>3. CASE i \notin Unread(ms)
      <4>1. rs[i] = ms[i] /\ ms[i] \in OMessages
        BY <1>3, <3>1, <3>3
      <4>2. ms[i].role # "system"
        BY <1>1, <1>9, <3>1, <3>3 DEF Unread
      <4> QED BY <1>8, <3>1, <4>1, <4>2 DEF Silent
    <3> QED BY <3>2, <3>3
  <2>5. Over(r, Silent)
    BY <1>1, <1>5, <2>4 DEF Over
  <2>6. \E p : Over(p, Silent) /\ rs = Append(p, x)
    BY <1>6, <2>3, <2>5
  <2> QED BY <1>9, <2>6 DEF rs, ms
<1>10. CASE ~SystemString(x)
  <2> DEFINE y == rs[n + 1]
  <2>1. ASSUME NEW i \in 1..n PROVE i \in Unread(ms) <=> i \in Unread(q)
    <3>1. ms[i] = q[i] /\ i \in DOMAIN ms /\ i \in DOMAIN q
      BY <1>1, <1>2, <2>1
    <3>2. (\E j \in DOMAIN ms : j > i /\ SystemString(ms[j]))
            <=> \E j \in DOMAIN q : j > i /\ SystemString(q[j])
      <4>1. \A j \in DOMAIN ms : j = n + 1 \/ (j \in DOMAIN q /\ ms[j] = q[j])
        BY <1>1, <1>2
      <4>2. \A j \in DOMAIN q : j \in DOMAIN ms /\ ms[j] = q[j]
        BY <1>1, <1>2
      <4> QED BY <1>1, <1>10, <4>1, <4>2, Zenon
    <3> QED BY <3>1, <3>2, Zenon DEF Unread
  <2>2. ASSUME NEW i \in 1..n PROVE r[i] = Read(q)[i]
    <3>1. i \in 1..(n + 1) /\ r[i] = rs[i] /\ ms[i] = q[i]
      BY <1>1, <2>2 DEF r
    <3>2. i \in Unread(ms) <=> i \in Unread(q)
      BY <2>1, <2>2
    <3> QED BY <1>3, <1>4, <3>1, <3>2
  <2>3. r = Read(q)
    <3>1. Read(q) \in Seq(OMessages) /\ Len(Read(q)) = n
      BY <1>1, <1>4 DEF Over
    <3> QED BY <1>5, <2>2, <3>1
  <2>4. n + 1 \in 1..(n + 1)
    BY <1>1
  <2>5. y \in Silent
    <3>1. CASE n + 1 \in Unread(ms)
      <4>1. y = Blank(ms[n + 1]) /\ ms[n + 1] \in OMessages
        BY <1>3, <2>4, <3>1
      <4>2. Blank(ms[n + 1]) \in OMessages
        BY <4>1, BlankIs
      <4> QED BY <1>7, <4>1, <4>2 DEF Silent
    <3>2. CASE n + 1 \notin Unread(ms)
      <4>1. y = x
        BY <1>1, <1>3, <2>4, <3>2
      <4>2. x.content \notin Arrays /\ x.content \in OpenAIContents
        BY <1>1, <2>4, <3>2 DEF Unread, OMessages
      <4>3. x.role = "system" => x.content = NoString
        BY <1>10, <4>2 DEF SystemString, NotStrings
      <4>4. TextSent(NoString) = <<>>
        BY TextIsContent DEF TextSent
      <4>5. SystemF[x] = <<>>
        BY <4>3, <4>4 DEF SystemF, OpenAIText
      <4> QED BY <4>1, <4>5 DEF Silent
    <3> QED BY <3>1, <3>2
  <2>6. rs = Append(Read(q), y)
    BY <1>6, <2>3
  <2> HIDE DEF y
  <2>7. \E z \in Silent : rs = Append(Read(q), z)
    BY <2>5, <2>6
  <2> QED BY <1>10, <2>7 DEF rs, ms
<1> QED BY <1>9, <1>10

LEMMA ReadPrompt == \A ms : Over(ms, OMessages) => Prompt(Read(ms)) = LastPrompt(ms)
<1> DEFINE P(ms) == Total(SystemF, Read(ms)) = LastPrompt(ms)
           Q == {ms \in Seq(OMessages) : P(ms)}
<1>1. <<>> \in Q
  <2>1. Read(<<>>) = <<>>
    BY DEF Read
  <2>2. <<>> \in Seq(OMessages)
    OBVIOUS
  <2> QED BY <2>1, <2>2, TotalEmpty, PromptIs
<1>2. ASSUME NEW q, Over(q, OMessages), q \in Q, NEW x \in OMessages PROVE Append(q, x) \in Q
  <2>1. Over(Read(q), OMessages)
    BY <1>2, ReadIs
  <2>2. LastPrompt(Append(q, x)) = NextPrompt(LastPrompt(q), x)
    BY <1>2, PromptIs
  <2>3. Strings(Texts) /\ Silent \subseteq OMessages /\ \A m \in Silent : SystemF[m] = <<>>
    BY SystemAdds DEF Adds, Silent
  <2>4. CASE SystemString(x)
    <3>1. PICK r : Over(r, Silent) /\ Read(Append(q, x)) = Append(r, x)
      BY <1>2, <2>4, ReadAppend
    <3>2. Over(r, OMessages) /\ Total(SystemF, r) = <<>>
      <4>1. Over(r, OMessages)
        BY <2>3, <3>1, OverMore
      <4>2. Total(SystemF, r) = <<>>
        BY <2>3, <3>1, TotalNone
      <4> QED BY <4>1, <4>2
    <3>3. Total(SystemF, Append(r, x)) = Total(SystemF, r) \o SystemF[x]
      BY <3>2, SystemAdds, TotalAppend
    <3>4. SystemF[x] = x.content /\ SystemF[x] \in Texts
      <4>1. x.content \in Texts /\ x.role = "system"
        BY <2>4 DEF OMessages, OpenAIContents, SystemString
      <4>2. TextSent(x.content) = x.content
        BY <4>1, StringOrType, TextIsContent DEF TextSent
      <4> QED BY <4>1, <4>2 DEF SystemF, OpenAIText
    <3>5. Total(SystemF, Append(r, x)) = x.content
      BY <2>3, <3>2, <3>3, <3>4 DEF Strings
    <3>6. P(Append(q, x))
      BY <2>2, <2>4, <3>1, <3>5 DEF NextPrompt
    <3> HIDE DEF P
    <3>7. Append(q, x) \in Seq(OMessages)
      BY <1>2 DEF Over
    <3> QED BY <3>6, <3>7
  <2>5. CASE ~SystemString(x)
    <3>1. PICK y \in Silent : Read(Append(q, x)) = Append(Read(q), y)
      BY <1>2, <2>5, ReadAppend
    <3>2. y \in OMessages /\ SystemF[y] = <<>>
      BY <2>3
    <3>3. Total(SystemF, Append(Read(q), y)) = Total(SystemF, Read(q)) \o <<>>
      BY <2>1, <3>2, SystemAdds, TotalAppend
    <3>4. Total(SystemF, Read(q)) \in Texts
      BY <2>1, SystemAdds, TotalType
    <3>5. Total(SystemF, Append(Read(q), y)) = Total(SystemF, Read(q))
      BY <2>3, <3>3, <3>4 DEF Strings
    <3>6. P(q)
      BY <1>2
    <3>7. P(Append(q, x))
      BY <2>2, <2>5, <3>1, <3>5, <3>6 DEF NextPrompt
    <3> HIDE DEF P
    <3>8. Append(q, x) \in Seq(OMessages)
      BY <1>2 DEF Over
    <3> QED BY <3>7, <3>8
  <2> QED BY <2>4, <2>5
<1> HIDE DEF Q
<1>3. \A ms : Over(ms, OMessages) => ms \in Q
  BY <1>1, <1>2, OverInduction
<1>4. \A ms : Over(ms, OMessages) => P(ms)
  BY <1>3 DEF Q
<1>5. \A ms : Over(ms, OMessages) => Prompt(Read(ms)) = Total(SystemF, Read(ms))
  BY ReadIs, PromptTotal
<1> QED BY <1>4, <1>5

\* Where all is read, what is read is all that is said.
LEMMA AllRead ==
  ASSUME NEW ms, Over(ms, OMessages), Unread(ms) = {}
  PROVE  OpenAISays(ms) = OpenAIReads(ms) /\ Prompt(ms) = LastPrompt(ms)
<1>1. Read(ms) = ms
  <2>1. Over(Read(ms), OMessages) /\ DOMAIN Read(ms) = 1..Len(ms) /\ Len(ms) \in Nat
        /\ \A i \in 1..Len(ms) : Read(ms)[i] = ms[i]
    BY ReadIs
  <2>2. ms \in Seq(OMessages) /\ Read(ms) \in Seq(OMessages)
    BY <2>1 DEF Over
  <2>3. Len(Read(ms)) = Len(ms)
    BY <2>1, <2>2
  <2> QED BY <2>1, <2>2, <2>3
<1>2. OpenAISays(Read(ms)) = OpenAIReads(ms) /\ Prompt(Read(ms)) = LastPrompt(ms)
  BY ReadSays, ReadPrompt
<1> QED BY <1>1, <1>2

LEMMA PlainIsRead == ASSUME NEW ms, Over(ms, OMessages), Plain(ms) PROVE Unread(ms) = {}
<1>1. DOMAIN ms = 1..Len(ms) /\ Len(ms) \in Nat
  BY DEF Over
<1>2. ASSUME NEW i \in Unread(ms) PROVE FALSE
  <2>1. i \in DOMAIN ms /\ ms[i].content \notin Arrays
    BY <1>2 DEF Unread, Plain
  <2>2. PICK j \in DOMAIN ms : j > i /\ SystemString(ms[j]) /\ ms[i].role = "system"
    BY <1>2, <2>1 DEF Unread
  <2>3. i = j
    BY <2>1, <2>2 DEF Plain, SystemString
  <2> QED BY <1>1, <2>1, <2>2, <2>3
<1> QED BY <1>2

\* What is sent to an OpenAI-style provider has one prompt, at its head.
LEMMA SentIsRead ==
  ASSUME NEW req, Over(req.messages, IMessages), SystemText(req.system) \in Texts,
         NEW ms, ms = convertToOpenAI(req).messages
  PROVE  Over(ms, OMessages) /\ Unread(ms) = {}
<1> DEFINE system == SystemText(req.system)
           o == OpenAIMessage("system", system)
           head == IF system = <<>> THEN <<>> ELSE <<o>>
           os == FlattenSeq(Each(FromMessage, req.messages))
<1>1. ms = head \o os
  BY DEF convertToOpenAI
<1>2. Over(os, OMessages) /\ Over(os, Told)
  BY ConvertedSays
<1> HIDE DEF os
<1>3. system \in OpenAIContents /\ system \notin Arrays
  BY TextIsContent
<1> HIDE DEF system
<1>4. o \in OMessages /\ o.content \notin Arrays
  <2>1. Absent \in Atoms
    BY ConversionAssumption
  <2> QED BY <1>3, <2>1 DEF OpenAIMessage, OMessages
<1> HIDE DEF o
<1>5. head \in Seq(OMessages) /\ Len(head) \in 0..1 /\ \A i \in 1..Len(head) : head[i].content \notin Arrays
  BY <1>4
<1>6. os \in Seq(OMessages) /\ \A i \in 1..Len(os) : Speaks(os[i])
  <2>1. os \in Seq(Told) /\ os \in Seq(OMessages)
    BY <1>2 DEF Over
  <2>2. \A i \in 1..Len(os) : os[i] \in Told
    BY <2>1
  <2> QED BY <2>1, <2>2 DEF Told
<1> HIDE DEF head
<1>7. Over(ms, OMessages)
  BY <1>1, <1>5, <1>6 DEF Over
<1>8. ASSUME NEW i \in DOMAIN ms PROVE ms[i].content \notin Arrays /\ (i > 1 => ms[i].role # "system")
  <2>1. i \in 1..(Len(head) + Len(os)) /\ Len(head) \in Nat /\ Len(os) \in Nat
    BY <1>1, <1>5, <1>6, <1>8
  <2>2. CASE i <= Len(head)
    <3>1. ms[i] = head[i] /\ i \in 1..Len(head)
      BY <1>1, <1>5, <1>6, <2>1, <2>2
    <3>2. ~(i > 1)
      BY <1>5, <3>1
    <3> QED BY <1>5, <3>1, <3>2
  <2>3. CASE i > Len(head)
    <3>1. ms[i] = os[i - Len(head)] /\ i - Len(head) \in 1..Len(os)
      BY <1>1, <1>5, <1>6, <2>1, <2>3
    <3>2. Speaks(os[i - Len(head)])
      BY <1>6, <3>1
    <3> QED BY <3>1, <3>2 DEF Speaks
  <2> QED BY <2>1, <2>2, <2>3
<1>9. ASSUME NEW i \in Unread(ms) PROVE FALSE
  <2>1. i \in DOMAIN ms /\ i \in Nat \ {0} /\ ms[i].content \notin Arrays
    BY <1>7, <1>8, <1>9 DEF Unread, Over
  <2>2. PICK j \in DOMAIN ms : j > i /\ SystemString(ms[j])
    BY <1>9, <2>1 DEF Unread
  <2>3. j > 1
    BY <1>7, <2>1, <2>2 DEF Over
  <2> QED BY <1>8, <2>2, <2>3 DEF SystemString
<1> QED BY <1>7, <1>9

-------------------------------------------------------------------------------
(* OpenAIToAnthropic: the loop over the messages.                              *)

Prompts == {Absent} \cup [form: {"string"}, text: Texts]
Loops == [msgs: Seqs(IMessages), pending: Seqs(Results), system: Prompts]

LEMMA SystemIs == SystemText(Absent) = <<>> /\ \A t \in Texts : SystemText([form |-> "string", text |-> t]) = t
<1>1. SystemText(Absent) = <<>>
  BY DEF SystemText
<1>2. ASSUME NEW t \in Texts PROVE SystemText([form |-> "string", text |-> t]) = t
  <2> DEFINE y == [form |-> "string", text |-> t]
  <2>1. y \in [form: {"string"}, text: Texts]
    OBVIOUS
  <2>2. y # Absent /\ y.form = "string" /\ y.text = t
    BY <2>1, ConversionAssumption DEF Texts
  <2> HIDE DEF y
  <2>3. SystemText(y) = t
    BY <2>2 DEF SystemText
  <2> QED BY <2>3 DEF y
<1> QED BY <1>1, <1>2

\* What the messages of q say, the converted messages and the results that are
\* not yet in one say.
Tells(s, q) ==
  /\ s \in Loops
  /\ Total(UserF, s.msgs) = Total(OUserF, q) /\ Total(SaidF, s.msgs) = Total(OSaidF, q)
  /\ Total(CallsF, s.msgs) = Total(OCallsF, q)
  /\ Total(ResultsF, s.msgs) \o Total(ResultF, s.pending) = Total(OResultsF, q)
  /\ SystemText(s.system) = LastPrompt(q)

LEMMA LoopFields ==
  ASSUME NEW s \in Loops
  PROVE  /\ Over(s.msgs, IMessages) /\ Over(s.pending, Results) /\ Over(s.pending, Parts)
         /\ s.system \in Prompts
<1>1. s.msgs \in Seqs(IMessages) /\ s.pending \in Seqs(Results) /\ s.system \in Prompts
  BY DEF Loops
<1>2. Over(s.msgs, IMessages) /\ Over(s.pending, Results)
  BY <1>1, SeqsStrings
<1>3. Results \subseteq Parts
  BY DEF Parts
<1> QED BY <1>1, <1>2, <1>3, OverMore

\* One message more.
LEMMA Said ==
  ASSUME NEW ms, Over(ms, IMessages), NEW m \in IMessages
  PROVE  /\ Over(Append(ms, m), IMessages)
         /\ Total(UserF, Append(ms, m)) = Total(UserF, ms) \o UserF[m]
         /\ Total(SaidF, Append(ms, m)) = Total(SaidF, ms) \o SaidF[m]
         /\ Total(CallsF, Append(ms, m)) = Total(CallsF, ms) \o CallsF[m]
         /\ Total(ResultsF, Append(ms, m)) = Total(ResultsF, ms) \o ResultsF[m]
<1>1. Over(Append(ms, m), IMessages)
  BY OverMade
<1>2. Total(UserF, Append(ms, m)) = Total(UserF, ms) \o UserF[m]
  BY MessageAdds, TotalAppend
<1>3. Total(SaidF, Append(ms, m)) = Total(SaidF, ms) \o SaidF[m]
  BY MessageAdds, TotalAppend
<1>4. Total(CallsF, Append(ms, m)) = Total(CallsF, ms) \o CallsF[m]
  BY MessageAdds, TotalAppend
<1>5. Total(ResultsF, Append(ms, m)) = Total(ResultsF, ms) \o ResultsF[m]
  BY MessageAdds, TotalAppend
<1> QED BY <1>1, <1>2, <1>3, <1>4, <1>5

LEMMA Asked ==
  ASSUME NEW q, Over(q, OMessages), NEW m \in OMessages
  PROVE  /\ Total(OUserF, Append(q, m)) = Total(OUserF, q) \o OUserF[m]
         /\ Total(OSaidF, Append(q, m)) = Total(OSaidF, q) \o OSaidF[m]
         /\ Total(OCallsF, Append(q, m)) = Total(OCallsF, q) \o OCallsF[m]
         /\ Total(OResultsF, Append(q, m)) = Total(OResultsF, q) \o OResultsF[m]
         /\ LastPrompt(Append(q, m)) = NextPrompt(LastPrompt(q), m)
<1>1. Total(OUserF, Append(q, m)) = Total(OUserF, q) \o OUserF[m]
  BY OMessageAdds, TotalAppend
<1>2. Total(OSaidF, Append(q, m)) = Total(OSaidF, q) \o OSaidF[m]
  BY OMessageAdds, TotalAppend
<1>3. Total(OCallsF, Append(q, m)) = Total(OCallsF, q) \o OCallsF[m]
  BY OMessageAdds, TotalAppend
<1>4. Total(OResultsF, Append(q, m)) = Total(OResultsF, q) \o OResultsF[m]
  BY OMessageAdds, TotalAppend
<1>5. LastPrompt(Append(q, m)) = NextPrompt(LastPrompt(q), m)
  BY PromptIs
<1> QED BY <1>1, <1>2, <1>3, <1>4, <1>5

\* Nothing is added to any aspect.
LEMMA Unsaid ==
  /\ \A ms : Over(ms, IMessages) =>
       /\ Total(UserF, ms) \o <<>> = Total(UserF, ms) /\ Total(SaidF, ms) \o <<>> = Total(SaidF, ms)
       /\ Total(CallsF, ms) \o <<>> = Total(CallsF, ms)
       /\ Total(ResultsF, ms) \o <<>> = Total(ResultsF, ms)
  /\ \A q : Over(q, OMessages) =>
       /\ Total(OUserF, q) \o <<>> = Total(OUserF, q) /\ Total(OSaidF, q) \o <<>> = Total(OSaidF, q)
       /\ Total(OCallsF, q) \o <<>> = Total(OCallsF, q)
       /\ Total(OResultsF, q) \o <<>> = Total(OResultsF, q)
<1>1. Strings(Texts) /\ Strings(Seqs(CallsTold)) /\ Strings(Seqs(ResultsTold))
  BY OMessageAdds DEF Adds
<1>2. ASSUME NEW ms, Over(ms, IMessages)
      PROVE  /\ Total(UserF, ms) \in Texts /\ Total(SaidF, ms) \in Texts
             /\ Total(CallsF, ms) \in Seqs(CallsTold) /\ Total(ResultsF, ms) \in Seqs(ResultsTold)
  <2>1. Total(UserF, ms) \in Texts
    BY <1>2, MessageAdds, TotalType
  <2>2. Total(SaidF, ms) \in Texts
    BY <1>2, MessageAdds, TotalType
  <2>3. Total(CallsF, ms) \in Seqs(CallsTold)
    BY <1>2, MessageAdds, TotalType
  <2>4. Total(ResultsF, ms) \in Seqs(ResultsTold)
    BY <1>2, MessageAdds, TotalType
  <2> QED BY <2>1, <2>2, <2>3, <2>4
<1>3. ASSUME NEW q, Over(q, OMessages)
      PROVE  /\ Total(OUserF, q) \in Texts /\ Total(OSaidF, q) \in Texts
             /\ Total(OCallsF, q) \in Seqs(CallsTold) /\ Total(OResultsF, q) \in Seqs(ResultsTold)
  <2>1. Total(OUserF, q) \in Texts
    BY <1>3, OMessageAdds, TotalType
  <2>2. Total(OSaidF, q) \in Texts
    BY <1>3, OMessageAdds, TotalType
  <2>3. Total(OCallsF, q) \in Seqs(CallsTold)
    BY <1>3, OMessageAdds, TotalType
  <2>4. Total(OResultsF, q) \in Seqs(ResultsTold)
    BY <1>3, OMessageAdds, TotalType
  <2> QED BY <2>1, <2>2, <2>3, <2>4
<1> QED BY <1>1, <1>2, <1>3 DEF Strings

\* The message that FlushToolResults makes has the results, and nothing else.
LEMMA FlushedMessage ==
  ASSUME NEW pending, Over(pending, Results)
  PROVE  LET m == Message("user", pending) IN
         /\ m \in IMessages /\ UserF[m] = <<>> /\ SaidF[m] = <<>> /\ CallsF[m] = <<>>
         /\ ResultsF[m] = Total(ResultF, pending)
<1> DEFINE m == Message("user", pending)
<1>1. m.role = "user" /\ m.content = pending /\ m = [role |-> "user", content |-> pending]
  BY DEF Message
<1>2. Results \subseteq UserParts /\ Results \subseteq Parts
  BY DEF UserParts, Parts
<1>3. Over(pending, UserParts) /\ Over(pending, Parts)
  BY <1>2, OverMore
<1> HIDE DEF m
<1>4. m \in IMessages
  <2>1. pending \in Seqs(UserParts)
    BY <1>3, SeqsStrings
  <2> QED BY <1>1, <2>1 DEF IMessages
<1>5. \A b \in Results : TextF[b] = <<>> /\ CallF[b] = <<>>
  BY ResultFields DEF TextF, CallF
<1>6. JoinedText(pending) = <<>> /\ Total(CallF, pending) = <<>>
  <2>1. Total(TextF, pending) = <<>>
    BY <1>5, TotalNone
  <2>2. Total(CallF, pending) = <<>>
    BY <1>5, TotalNone
  <2> QED BY <1>3, <2>1, <2>2, JoinedIs
<1>7. CallsIn(m) = Total(CallF, pending) /\ ResultsIn(m) = Total(ResultF, pending)
  BY <1>1, <1>4, MessageIs
<1>8. UserF[m] = <<>> /\ SaidF[m] = <<>> /\ CallsF[m] = CallsIn(m) /\ ResultsF[m] = ResultsIn(m)
  BY <1>1, <1>4, <1>6 DEF UserF, SaidF, CallsF, ResultsF, AnthropicText
<1> QED BY <1>4, <1>6, <1>7, <1>8 DEF m

LEMMA Flushed ==
  ASSUME NEW q, NEW s, Tells(s, q)
  PROVE  Tells(FlushToolResults(s), q) /\ FlushToolResults(s).pending = <<>>
<1>1. s \in Loops
  BY DEF Tells
<1>2. CASE s.pending = <<>>
  BY <1>2 DEF FlushToolResults
<1>3. CASE s.pending # <<>>
  <2> DEFINE m == Message("user", s.pending)
             ms == Append(s.msgs, m)
             r == [s EXCEPT !.msgs = Append(@, m), !.pending = <<>>]
  <2>1. FlushToolResults(s) = r
    BY <1>3 DEF FlushToolResults
  <2>2. Over(s.msgs, IMessages) /\ Over(s.pending, Results) /\ s.system \in Prompts
    BY <1>1, LoopFields
  <2>3. m \in IMessages /\ UserF[m] = <<>> /\ SaidF[m] = <<>> /\ CallsF[m] = <<>>
        /\ ResultsF[m] = Total(ResultF, s.pending)
    BY <2>2, FlushedMessage
  <2> HIDE DEF m
  <2>4. Over(ms, IMessages)
        /\ Total(UserF, ms) = Total(UserF, s.msgs) \o <<>>
        /\ Total(SaidF, ms) = Total(SaidF, s.msgs) \o <<>>
        /\ Total(CallsF, ms) = Total(CallsF, s.msgs) \o <<>>
        /\ Total(ResultsF, ms) = Total(ResultsF, s.msgs) \o Total(ResultF, s.pending)
    BY <2>2, <2>3, Said
  <2>5. ms \in Seqs(IMessages) /\ <<>> \in Seqs(Results)
    BY <2>4, SeqsStrings, NoneOf
  <2> DEFINE r0 == [s EXCEPT !.msgs = ms]
  <2>6. r \in Loops /\ r.msgs = ms /\ r.pending = <<>> /\ r.system = s.system
    <3>1. r = [r0 EXCEPT !.pending = <<>>]
      OBVIOUS
    <3> HIDE DEF r, ms
    <3>2. r0 \in Loops /\ r0.msgs = ms /\ r0.system = s.system
      BY <1>1, <2>5 DEF Loops
    <3> HIDE DEF r0
    <3> QED BY <2>5, <3>1, <3>2 DEF Loops
  <2> HIDE DEF r, ms
  <2>7. Total(ResultsF, ms) \o Total(ResultF, <<>>) = Total(ResultsF, ms)
    <3>1. Total(ResultF, <<>>) = <<>>
      BY TotalEmpty
    <3>2. Total(ResultsF, ms) \o <<>> = Total(ResultsF, ms)
      BY <2>4, Unsaid
    <3> QED BY <3>1, <3>2
  <2>8. Total(UserF, ms) = Total(UserF, s.msgs) /\ Total(SaidF, ms) = Total(SaidF, s.msgs)
        /\ Total(CallsF, ms) = Total(CallsF, s.msgs)
    BY <2>2, <2>4, Unsaid
  <2>9. Tells(r, q)
    BY <2>4, <2>6, <2>7, <2>8 DEF Tells
  <2> QED BY <2>1, <2>6, <2>9, Zenon
<1> QED BY <1>2, <1>3

\* A message that is said.
LEMMA SayTells ==
  ASSUME NEW q, Over(q, OMessages), NEW s, Tells(s, q), s.pending = <<>>,
         NEW x \in OMessages, x.role # "system",
         NEW m \in IMessages, SaysAs(x, m)
  PROVE  Tells([s EXCEPT !.msgs = Append(@, m)], Append(q, x))
<1> DEFINE ms == Append(s.msgs, m)
           r == [s EXCEPT !.msgs = Append(@, m)]
           p == Append(q, x)
<1>1. s \in Loops
  BY DEF Tells
<1>2. Over(s.msgs, IMessages) /\ s.system \in Prompts
  BY <1>1, LoopFields
<1>3. /\ Over(ms, IMessages)
      /\ Total(UserF, ms) = Total(UserF, s.msgs) \o UserF[m]
      /\ Total(SaidF, ms) = Total(SaidF, s.msgs) \o SaidF[m]
      /\ Total(CallsF, ms) = Total(CallsF, s.msgs) \o CallsF[m]
      /\ Total(ResultsF, ms) = Total(ResultsF, s.msgs) \o ResultsF[m]
  BY <1>2, Said
<1>4. /\ Total(OUserF, p) = Total(OUserF, q) \o OUserF[x]
      /\ Total(OSaidF, p) = Total(OSaidF, q) \o OSaidF[x]
      /\ Total(OCallsF, p) = Total(OCallsF, q) \o OCallsF[x]
      /\ Total(OResultsF, p) = Total(OResultsF, q) \o OResultsF[x]
      /\ LastPrompt(p) = NextPrompt(LastPrompt(q), x)
  BY Asked
<1>5. LastPrompt(p) = LastPrompt(q)
  BY <1>4 DEF NextPrompt, SystemString
<1>6. r = [msgs |-> ms, pending |-> <<>>, system |-> s.system]
  BY <1>1 DEF Loops
<1> HIDE DEF r, ms, p
<1>7. r \in Loops /\ r.msgs = ms /\ r.pending = <<>> /\ r.system = s.system
  <2>1. ms \in Seqs(IMessages) /\ <<>> \in Seqs(Results)
    BY <1>3, SeqsStrings, NoneOf
  <2> QED BY <1>2, <1>6, <2>1 DEF Loops
<1>8. Total(UserF, ms) = Total(OUserF, p) /\ Total(SaidF, ms) = Total(OSaidF, p)
      /\ Total(CallsF, ms) = Total(OCallsF, p)
  BY <1>3, <1>4 DEF Tells, SaysAs
<1>9. Total(ResultsF, ms) \o Total(ResultF, <<>>) = Total(OResultsF, p)
  <2>1. Total(ResultF, <<>>) = <<>>
    BY TotalEmpty
  <2>2. Total(ResultsF, s.msgs) \o <<>> = Total(ResultsF, s.msgs)
    BY <1>2, Unsaid
  <2>3. Total(ResultsF, s.msgs) = Total(OResultsF, q)
    BY <2>1, <2>2 DEF Tells
  <2>4. Total(ResultsF, ms) = Total(OResultsF, p)
    BY <1>3, <1>4, <2>3 DEF SaysAs
  <2>5. Total(ResultsF, ms) \o <<>> = Total(ResultsF, ms)
    BY <1>3, Unsaid
  <2> QED BY <2>1, <2>4, <2>5
<1>10. Tells(r, p)
  BY <1>5, <1>7, <1>8, <1>9 DEF Tells
<1> QED BY <1>10 DEF r, p

\* A message of which nothing remains.
LEMMA SilentTells ==
  ASSUME NEW q, Over(q, OMessages), NEW s, Tells(s, q), NEW x \in OMessages,
         OUserF[x] = <<>>, OSaidF[x] = <<>>, OCallsF[x] = <<>>, OResultsF[x] = <<>>,
         NEW system \in Prompts, SystemText(system) = NextPrompt(LastPrompt(q), x)
  PROVE  Tells([s EXCEPT !.system = system], Append(q, x))
<1> DEFINE r == [s EXCEPT !.system = system]
           p == Append(q, x)
<1>1. s \in Loops
  BY DEF Tells
<1>2. r \in Loops /\ r.msgs = s.msgs /\ r.pending = s.pending /\ r.system = system
  BY <1>1 DEF Loops
<1>3. /\ Total(OUserF, p) = Total(OUserF, q) \o <<>>
      /\ Total(OSaidF, p) = Total(OSaidF, q) \o <<>>
      /\ Total(OCallsF, p) = Total(OCallsF, q) \o <<>>
      /\ Total(OResultsF, p) = Total(OResultsF, q) \o <<>>
      /\ LastPrompt(p) = NextPrompt(LastPrompt(q), x)
  BY Asked
<1> HIDE DEF r, p
<1>4. /\ Total(OUserF, p) = Total(OUserF, q) /\ Total(OSaidF, p) = Total(OSaidF, q)
      /\ Total(OCallsF, p) = Total(OCallsF, q) /\ Total(OResultsF, p) = Total(OResultsF, q)
  BY <1>3, Unsaid
<1>5. Tells(r, p)
  BY <1>2, <1>3, <1>4 DEF Tells
<1> QED BY <1>5 DEF r, p

\* A text as the only block.
LEMMA OneText ==
  ASSUME NEW t \in Texts
  PROVE  /\ Text(t) \in TextBlocks /\ Text(t) \in Parts /\ Over(<<Text(t)>>, TextBlocks)
         /\ JoinedText(<<Text(t)>>) = t
         /\ TextF[Text(t)] = t /\ CallF[Text(t)] = <<>> /\ ResultF[Text(t)] = <<>>
<1> DEFINE b == Text(t)
<1>1. b \in TextBlocks /\ b.type = "text" /\ TextOf(b) = t
  BY DEF Text, TextBlocks, TextOf
<1> HIDE DEF b
<1>2. b \in Parts /\ Over(<<b>>, TextBlocks) /\ Over(<<b>>, Parts)
  <2>1. b \in Parts
    BY <1>1 DEF Parts
  <2> QED BY <1>1, <2>1, OverMade
<1>3. TextF[b] = t /\ CallF[b] = <<>> /\ ResultF[b] = <<>>
  BY <1>1, <1>2 DEF TextF, CallF, ResultF
<1>4. Total(TextF, <<b>>) = TextF[b]
  BY <1>2, TextAdds, TotalOne
<1>5. JoinedText(<<b>>) = t
  BY <1>2, <1>3, <1>4, JoinedIs
<1> QED BY <1>1, <1>2, <1>3, <1>5 DEF b

LEMMA OpenAIMessageIs ==
  ASSUME NEW x \in OpenAIMessages
  PROVE  /\ x \in OMessages /\ x.role \in {"system", "user", "assistant", "tool"}
         /\ x.content \in OpenAIContents /\ x.tool_call_id \in Atoms
         /\ x.role # "assistant" => x.tool_calls = NoCalls
         /\ x.tool_calls # NoCalls => x.tool_calls \in Seqs(OneCall)
<1>1. /\ x.role \in {"system", "user", "assistant", "tool"} /\ x.content \in OpenAIContents
      /\ x.tool_call_id \in Atoms /\ x.tool_calls \in ToolCalls \cup {NoCalls}
      /\ x.role # "assistant" => x.tool_calls = NoCalls
      /\ x = [role |-> x.role, content |-> x.content, tool_calls |-> x.tool_calls,
              tool_call_id |-> x.tool_call_id]
  BY DEF OpenAIMessages
<1>2. ToolCalls = Seqs(OneCall)
  BY DEF ToolCalls, Seqs, OneCall
<1>3. x \in OMessages
  BY <1>1, <1>2 DEF OMessages
<1> QED BY <1>1, <1>2, <1>3

LEMMA ToolTells ==
  ASSUME NEW q, Over(q, OMessages), NEW s, Tells(s, q), NEW x \in OpenAIMessages, x.role = "tool"
  PROVE  Tells(ToolMessage(s, x), Append(q, x))
<1> DEFINE t == StringOr(x.content)
           b == ToolResult(x.tool_call_id, <<Text(t)>>)
           r == [s EXCEPT !.pending = Append(@, b)]
           u == Append(s.pending, b)
           p == Append(q, x)
<1>1. ToolMessage(s, x) = r
  BY DEF ToolMessage
<1>2. x \in OMessages /\ x.content \in OpenAIContents /\ x.tool_call_id \in Atoms
      /\ x.tool_calls = NoCalls /\ t \in Texts
  BY OpenAIMessageIs, StringOrType
<1>3. s \in Loops /\ Over(s.msgs, IMessages) /\ Over(s.pending, Results)
      /\ Over(s.pending, Parts) /\ s.system \in Prompts
  BY LoopFields DEF Tells
<1> HIDE DEF t
<1>4. Over(<<Text(t)>>, TextBlocks) /\ JoinedText(<<Text(t)>>) = t
  BY <1>2, OneText
<1>5. b \in Results /\ b.type = "tool_result" /\ b.tool_use_id = x.tool_call_id
      /\ b.content = <<Text(t)>>
  <2>1. <<Text(t)>> \in Seqs(TextBlocks \cup Media)
    <3>1. Over(<<Text(t)>>, TextBlocks \cup Media)
      BY <1>4, OverMore
    <3> QED BY <3>1, SeqsStrings
  <2> HIDE DEF p, r, u
  <2>2. b = [type |-> "tool_result", tool_use_id |-> x.tool_call_id, content |-> <<Text(t)>>]
    BY DEF ToolResult
  <2> HIDE DEF b
  <2> QED BY <1>2, <2>1, <2>2 DEF Results
<1> HIDE DEF b
<1>6. ResultF[b] = <<<<x.tool_call_id, t>>>> /\ b \in Parts
  <2>1. b \in Parts
    BY <1>5, ResultFields
  <2> QED BY <1>4, <1>5, <2>1 DEF ResultF
<1>7. OUserF[x] = <<>> /\ OSaidF[x] = <<>> /\ OCallsF[x] = <<>> /\ OResultsF[x] = ResultF[b]
  <2>1. CallsMade(x) = <<>>
    BY <1>2, CallsMadeIs
  <2> QED BY <1>2, <1>6, <2>1 DEF OUserF, OSaidF, OCallsF, OResultsF, ReadText, ResultRead, t
<1>8. Over(u, Results) /\ Total(ResultF, u) = Total(ResultF, s.pending) \o ResultF[b]
  <2>1. Over(u, Results)
    BY <1>3, <1>5, OverMade
  <2>2. Total(ResultF, u) = Total(ResultF, s.pending) \o ResultF[b]
    BY <1>3, <1>6, ResultAdds, TotalAppend
  <2> QED BY <2>1, <2>2
<1>9. /\ Total(OUserF, p) = Total(OUserF, q) \o <<>>
      /\ Total(OSaidF, p) = Total(OSaidF, q) \o <<>>
      /\ Total(OCallsF, p) = Total(OCallsF, q) \o <<>>
      /\ Total(OResultsF, p) = Total(OResultsF, q) \o ResultF[b]
      /\ LastPrompt(p) = NextPrompt(LastPrompt(q), x)
  BY <1>2, <1>7, Asked
<1>10. LastPrompt(p) = LastPrompt(q)
  BY <1>9 DEF NextPrompt, SystemString
<1>11. /\ Total(OUserF, p) = Total(OUserF, q) /\ Total(OSaidF, p) = Total(OSaidF, q)
       /\ Total(OCallsF, p) = Total(OCallsF, q)
  BY <1>9, Unsaid
<1>12. Total(ResultsF, s.msgs) \o Total(ResultF, u)
         = (Total(ResultsF, s.msgs) \o Total(ResultF, s.pending)) \o ResultF[b]
  <2> DEFINE y == Total(ResultsF, s.msgs)
             z == Total(ResultF, s.pending)
             w == ResultF[b]
  <2>1. y \in Seqs(ResultsTold)
    BY <1>3, MessageAdds, TotalType
  <2>2. z \in Seqs(ResultsTold)
    BY <1>3, ResultAdds, TotalType
  <2>3. w \in Seqs(ResultsTold)
    BY <1>6, ResultAdds DEF Adds
  <2>4. Strings(Seqs(ResultsTold))
    BY SeqsStrings
  <2> HIDE DEF y, z, w
  <2>5. (y \o z) \o w = y \o (z \o w)
    BY <2>1, <2>2, <2>3, <2>4 DEF Strings
  <2> QED BY <1>8, <2>5 DEF y, z, w
<1>13. r \in Loops /\ r.msgs = s.msgs /\ r.pending = u /\ r.system = s.system
  <2>1. u \in Seqs(Results)
    BY <1>8, SeqsStrings
  <2> HIDE DEF u
  <2>2. r = [s EXCEPT !.pending = u]
    BY DEF u
  <2> HIDE DEF r
  <2> QED BY <1>3, <2>1, <2>2 DEF Loops
<1> HIDE DEF r, u, p
<1>14. Tells(r, p)
  BY <1>9, <1>10, <1>11, <1>12, <1>13 DEF Tells
<1> QED BY <1>1, <1>14 DEF p

\* Calls become blocks that say them.
LEMMA UseIs ==
  ASSUME NEW c \in OneCall
  PROVE  LET b == ToolUse(c.id, InputOf(c.args)) IN
         /\ b \in ToolUses /\ b \in Parts /\ CallF[b] = <<ToldF[c]>> /\ ToldF[c] \in CallsTold
         /\ TextF[b] = <<>> /\ ResultF[b] = <<>>
<1> DEFINE b == ToolUse(c.id, InputOf(c.args))
<1>1. c.id \in Atoms /\ c.args \in Atoms
  BY DEF OneCall
<1>2. InputOf(c.args) \in Atoms /\ Filled(InputOf(c.args)) = Filled(c.args)
  BY <1>1, ConversionAssumption DEF InputOf, Filled
<1>3. b \in ToolUses /\ b.type = "tool_use" /\ b.id = c.id /\ b.input = InputOf(c.args)
  BY <1>1, <1>2 DEF ToolUse, ToolUses
<1> HIDE DEF b
<1>4. b \in Parts
  BY <1>3 DEF Parts
<1>5. ToldF[c] = <<c.id, Filled(c.args)>>
  BY DEF ToldF
<1>6. CallF[b] = <<<<c.id, Filled(c.args)>>>>
  BY <1>2, <1>3, <1>4 DEF CallF
<1>7. ToldF[c] \in CallsTold
  BY <1>1, <1>5, FilledType DEF CallsTold
<1>8. TextF[b] = <<>> /\ ResultF[b] = <<>>
  BY <1>3, <1>4 DEF TextF, ResultF
<1> QED BY <1>3, <1>4, <1>5, <1>6, <1>7, <1>8, Zenon DEF b

LEMMA UsesAre ==
  ASSUME NEW calls, calls \in Seqs(OneCall), NEW us,
         us = [i \in DOMAIN calls |-> ToolUse(calls[i].id, InputOf(calls[i].args))]
  PROVE  /\ Over(us, AssistantParts) /\ Over(us, Parts) /\ Total(CallF, us) = PartsOf(ToldF, calls)
         /\ Total(TextF, us) = <<>> /\ Total(ResultF, us) = <<>>
<1> DEFINE use == [c \in OneCall |-> ToolUse(c.id, InputOf(c.args))]
           B == {use[c] : c \in OneCall}
<1>1. Over(calls, OneCall) /\ DOMAIN calls = 1..Len(calls) /\ \A i \in DOMAIN calls : calls[i] \in OneCall
  <2>1. Over(calls, OneCall)
    BY SeqsStrings
  <2> QED BY <2>1 DEF Over
<1>2. us = PartsOf(use, calls)
  BY <1>1 DEF PartsOf
<1>3. \A c \in OneCall : use[c] \in ToolUses
  BY UseIs
<1>4. Over(us, ToolUses)
  <2> HIDE DEF use
  <2>1. PartsOf(use, calls) \in Seq(ToolUses)
    BY <1>1, <1>3, PartsType
  <2> QED BY <1>2, <2>1 DEF Over
<1>5. ToolUses \subseteq AssistantParts /\ ToolUses \subseteq Parts
  BY DEF AssistantParts, Parts
<1>6. Over(us, AssistantParts) /\ Over(us, Parts)
  BY <1>4, <1>5, OverMore
<1>7. \A b \in ToolUses : TextF[b] = <<>> /\ ResultF[b] = <<>>
  BY CallFields DEF TextF, ResultF
<1>8. Total(TextF, us) = <<>>
  BY <1>4, <1>7, TotalNone
<1>9. Total(ResultF, us) = <<>>
  BY <1>4, <1>7, TotalNone
<1>10. \A i \in DOMAIN calls : us[i] = use[calls[i]] /\ CallF[us[i]] = <<ToldF[calls[i]]>>
  BY <1>1, UseIs
<1>11. Total(CallF, us) = PartsOf(ToldF, calls)
  <2> DEFINE one == [c \in OneCall |-> <<ToldF[c]>>]
  <2>1. DOMAIN us = DOMAIN calls
    OBVIOUS
  <2>2. \A i \in DOMAIN us : CallF[us[i]] = one[calls[i]]
    BY <1>1, <1>10, <2>1
  <2>3. \A c \in OneCall : ToldF[c] \in CallsTold /\ one[c] = <<ToldF[c]>>
    BY UseIs
  <2> HIDE DEF one, use
  <2>4. Total(CallF, us) = Total(one, calls)
    BY <2>1, <2>2, TotalSame
  <2>5. Total(one, calls) = PartsOf(ToldF, calls)
    BY <1>1, <2>3, TotalEach
  <2> QED BY <2>4, <2>5
<1> QED BY <1>6, <1>8, <1>9, <1>11

\* What a message of blocks says.
LEMMA BlocksSay ==
  ASSUME NEW u, NEW role,
         \/ role = "user" /\ Over(u, UserParts)
         \/ role = "assistant" /\ Over(u, AssistantParts)
  PROVE  LET m == Message(role, u) IN
         /\ m \in IMessages /\ m.role = role /\ m.content = u /\ Over(u, Parts)
         /\ UserF[m] = (IF role = "user" THEN Total(TextF, u) ELSE <<>>)
         /\ SaidF[m] = (IF role = "assistant" THEN Total(TextF, u) ELSE <<>>)
         /\ CallsF[m] = Total(CallF, u) /\ ResultsF[m] = Total(ResultF, u)
<1> DEFINE m == Message(role, u)
<1>1. m.role = role /\ m.content = u /\ m = [role |-> role, content |-> u]
  BY DEF Message
<1> HIDE DEF m
<1>2. m \in IMessages
  <2>1. role = "user" => u \in Seqs(UserParts)
    BY SeqsStrings
  <2>2. role = "assistant" => u \in Seqs(AssistantParts)
    BY SeqsStrings
  <2> QED BY <1>1, <2>1, <2>2 DEF IMessages
<1>3. CallsIn(m) = Total(CallF, u) /\ ResultsIn(m) = Total(ResultF, u) /\ Over(u, Parts)
  BY <1>1, <1>2, MessageIs
<1>4. JoinedText(u) = Total(TextF, u)
  BY <1>3, JoinedIs
<1>5. /\ UserF[m] = (IF m.role = "user" THEN JoinedText(m.content) ELSE <<>>)
      /\ SaidF[m] = (IF m.role = "assistant" THEN JoinedText(m.content) ELSE <<>>)
      /\ CallsF[m] = CallsIn(m) /\ ResultsF[m] = ResultsIn(m)
  BY <1>2 DEF UserF, SaidF, CallsF, ResultsF, AnthropicText
<1> QED BY <1>1, <1>2, <1>3, <1>4, <1>5, Zenon DEF m

\* A text, unless it is empty, as a block.
LEMMA TextHead ==
  ASSUME NEW content \in OpenAIContents, NEW u,
         u = IF StringOr(content) = <<>> THEN <<>> ELSE <<Text(content)>>
  PROVE  /\ Over(u, TextBlocks) /\ Over(u, Parts) /\ Over(u, UserParts) /\ Over(u, AssistantParts)
         /\ Total(TextF, u) = StringOr(content) /\ Total(CallF, u) = <<>> /\ Total(ResultF, u) = <<>>
<1>1. TextBlocks \subseteq Parts /\ TextBlocks \subseteq UserParts /\ TextBlocks \subseteq AssistantParts
  BY DEF Parts, UserParts, AssistantParts
<1>2. CASE StringOr(content) = <<>>
  <2>1. u = <<>> /\ \A A : Over(<<>>, A)
    BY <1>2, OverMade
  <2> QED BY <1>2, <2>1, TotalEmpty
<1>3. CASE StringOr(content) # <<>>
  <2> DEFINE b == Text(content)
  <2>1. content \in Texts /\ StringOr(content) = content
    BY <1>3, StringOrType DEF StringOr
  <2>2. /\ b \in Parts /\ Over(<<b>>, TextBlocks)
        /\ TextF[b] = content /\ CallF[b] = <<>> /\ ResultF[b] = <<>>
    BY <2>1, OneText
  <2>3. u = <<b>>
    BY <1>3
  <2> HIDE DEF b
  <2>4. Total(TextF, <<b>>) = TextF[b]
    BY <2>2, TextAdds, TotalOne
  <2>5. Total(CallF, <<b>>) = CallF[b]
    BY <2>2, CallAdds, TotalOne
  <2>6. Total(ResultF, <<b>>) = ResultF[b]
    BY <2>2, ResultAdds, TotalOne
  <2>7. Over(<<b>>, Parts) /\ Over(<<b>>, UserParts) /\ Over(<<b>>, AssistantParts)
    BY <1>1, <2>2, OverMore
  <2> QED BY <2>1, <2>2, <2>3, <2>4, <2>5, <2>6, <2>7, Zenon
<1> QED BY <1>2, <1>3

LEMMA BlocksOfTwo ==
  ASSUME NEW s, Over(s, Parts), NEW u, Over(u, Parts)
  PROVE  /\ Total(TextF, s \o u) = Total(TextF, s) \o Total(TextF, u)
         /\ Total(CallF, s \o u) = Total(CallF, s) \o Total(CallF, u)
         /\ Total(ResultF, s \o u) = Total(ResultF, s) \o Total(ResultF, u)
<1>1. Total(TextF, s \o u) = Total(TextF, s) \o Total(TextF, u)
  BY TextAdds, TotalConcat
<1>2. Total(CallF, s \o u) = Total(CallF, s) \o Total(CallF, u)
  BY CallAdds, TotalConcat
<1>3. Total(ResultF, s \o u) = Total(ResultF, s) \o Total(ResultF, u)
  BY ResultAdds, TotalConcat
<1> QED BY <1>1, <1>2, <1>3

LEMMA CallBlocksSay ==
  ASSUME NEW x \in OpenAIMessages, x.role = "assistant", x.tool_calls # NoCalls
  PROVE  Message("assistant", CallBlocks(x)) \in IMessages
         /\ SaysAs(x, Message("assistant", CallBlocks(x)))
<1> DEFINE head == IF StringOr(x.content) = <<>> THEN <<>> ELSE <<Text(x.content)>>
           calls == x.tool_calls
           us == [i \in DOMAIN calls |-> ToolUse(calls[i].id, InputOf(calls[i].args))]
           t == StringOr(x.content)
           m == Message("assistant", head \o us)
<1>1. CallBlocks(x) = head \o us
  BY DEF CallBlocks, Each
<1>2. x \in OMessages /\ x.content \in OpenAIContents /\ calls \in Seqs(OneCall) /\ t \in Texts
  BY OpenAIMessageIs, StringOrType
<1>3. /\ Over(head, Parts) /\ Over(head, AssistantParts)
      /\ Total(TextF, head) = t /\ Total(CallF, head) = <<>> /\ Total(ResultF, head) = <<>>
  BY <1>2, TextHead
<1> HIDE DEF head, t
<1>4. /\ Over(us, AssistantParts) /\ Over(us, Parts) /\ Total(CallF, us) = PartsOf(ToldF, calls)
      /\ Total(TextF, us) = <<>> /\ Total(ResultF, us) = <<>>
  BY <1>2, UsesAre
<1> HIDE DEF us
<1>5. /\ Total(TextF, head \o us) = t \o <<>>
      /\ Total(CallF, head \o us) = <<>> \o PartsOf(ToldF, calls)
      /\ Total(ResultF, head \o us) = <<>> \o <<>>
  <2>1. /\ Total(TextF, head \o us) = Total(TextF, head) \o Total(TextF, us)
        /\ Total(CallF, head \o us) = Total(CallF, head) \o Total(CallF, us)
        /\ Total(ResultF, head \o us) = Total(ResultF, head) \o Total(ResultF, us)
    BY <1>3, <1>4, BlocksOfTwo
  <2> QED BY <1>3, <1>4, <2>1, Zenon
<1>6. CallsMade(x) = PartsOf(ToldF, calls) /\ CallsMade(x) \in Seqs(CallsTold)
  BY <1>2, CallsMadeIs
<1>7. t \o <<>> = t /\ <<>> \o CallsMade(x) = CallsMade(x) /\ <<>> \o <<>> = <<>>
  <2>1. Strings(Texts) /\ Strings(Seqs(CallsTold))
    BY OMessageAdds DEF Adds
  <2>2. t \o <<>> = t /\ <<>> \o CallsMade(x) = CallsMade(x)
    BY <1>2, <1>6, <2>1 DEF Strings
  <2>3. <<>> \o <<>> = <<>>
    OBVIOUS
  <2> QED BY <2>2, <2>3
<1>8. Over(head \o us, AssistantParts)
  BY <1>3, <1>4, OverMade
<1>9. /\ m \in IMessages /\ UserF[m] = <<>> /\ SaidF[m] = Total(TextF, head \o us)
      /\ CallsF[m] = Total(CallF, head \o us) /\ ResultsF[m] = Total(ResultF, head \o us)
  <2>1. "assistant" # "user"
    OBVIOUS
  <2> QED BY <1>8, <2>1, BlocksSay
<1>10. OUserF[x] = <<>> /\ OSaidF[x] = t /\ OCallsF[x] = CallsMade(x) /\ OResultsF[x] = <<>>
  BY <1>2 DEF OUserF, OSaidF, OCallsF, OResultsF, ReadText, ResultRead, t
<1>11. SaysAs(x, m)
  <2> HIDE DEF m
  <2> QED BY <1>5, <1>6, <1>7, <1>9, <1>10, Zenon DEF SaysAs
<1> QED BY <1>1, <1>9, <1>11, Zenon

\* A text that someone wrote.
LEMMA TextSays ==
  ASSUME NEW x \in OpenAIMessages, x.role \in {"user", "assistant"}, x.tool_calls = NoCalls
  PROVE  /\ StringOr(x.content) = <<>> => /\ OUserF[x] = <<>> /\ OSaidF[x] = <<>>
                                          /\ OCallsF[x] = <<>> /\ OResultsF[x] = <<>>
         /\ StringOr(x.content) # <<>> => /\ Message(x.role, <<Text(x.content)>>) \in IMessages
                                          /\ SaysAs(x, Message(x.role, <<Text(x.content)>>))
<1> DEFINE t == StringOr(x.content)
           u == <<Text(x.content)>>
           m == Message(x.role, u)
<1>1. x \in OMessages /\ x.content \in OpenAIContents /\ CallsMade(x) = <<>>
  BY OpenAIMessageIs, CallsMadeIs
<1>2. /\ OUserF[x] = (IF x.role = "user" THEN t ELSE <<>>)
      /\ OSaidF[x] = (IF x.role = "assistant" THEN t ELSE <<>>)
      /\ OCallsF[x] = <<>> /\ OResultsF[x] = <<>>
  BY <1>1 DEF OUserF, OSaidF, OCallsF, OResultsF, ReadText, ResultRead
<1>3. t = <<>> => OUserF[x] = <<>> /\ OSaidF[x] = <<>>
  BY <1>2
<1>4. ASSUME t # <<>> PROVE m \in IMessages /\ SaysAs(x, m)
  <2>0. u = IF StringOr(x.content) = <<>> THEN <<>> ELSE <<Text(x.content)>>
    BY <1>4
  <2> HIDE DEF u
  <2>1. /\ Over(u, UserParts) /\ Over(u, AssistantParts)
        /\ Total(TextF, u) = t /\ Total(CallF, u) = <<>> /\ Total(ResultF, u) = <<>>
    BY <1>1, <2>0, TextHead
  <2>2. /\ m \in IMessages
        /\ UserF[m] = (IF x.role = "user" THEN Total(TextF, u) ELSE <<>>)
        /\ SaidF[m] = (IF x.role = "assistant" THEN Total(TextF, u) ELSE <<>>)
        /\ CallsF[m] = Total(CallF, u) /\ ResultsF[m] = Total(ResultF, u)
    BY <2>1, BlocksSay
  <2> HIDE DEF m, t
  <2> QED BY <1>2, <2>1, <2>2, Zenon DEF SaysAs
<1> QED BY <1>2, <1>3, <1>4

LEMMA OtherTells ==
  ASSUME NEW q, Over(q, OMessages), NEW s, Tells(s, q), s.pending = <<>>,
         NEW x \in OpenAIMessages, x.role # "tool"
  PROVE  Tells(OtherMessage(s, x), Append(q, x))
<1>0. s \in Loops /\ s.system \in Prompts /\ s = [s EXCEPT !.system = s.system]
  BY LoopFields DEF Tells, Loops
<1>1. x \in OMessages /\ x.role \in {"system", "user", "assistant"} /\ x.content \in OpenAIContents
      /\ (x.role # "assistant" => x.tool_calls = NoCalls)
  BY OpenAIMessageIs
<1>2. CASE x.role = "system"
  <2>1. OUserF[x] = <<>> /\ OSaidF[x] = <<>> /\ OCallsF[x] = <<>> /\ OResultsF[x] = <<>>
    <3>1. CallsMade(x) = <<>>
      BY <1>1, <1>2, CallsMadeIs
    <3> QED BY <1>1, <1>2, <3>1 DEF OUserF, OSaidF, OCallsF, OResultsF, ReadText, ResultRead
  <2>2. CASE x.content \in NotStrings
    <3>1. OtherMessage(s, x) = s
      BY <1>2, <2>2 DEF OtherMessage, SystemMessage
    <3>2. SystemText(s.system) = NextPrompt(LastPrompt(q), x)
      BY <2>2 DEF Tells, NextPrompt, SystemString
    <3>3. Tells([s EXCEPT !.system = s.system], Append(q, x))
      BY <1>0, <1>1, <2>1, <3>2, SilentTells
    <3> QED BY <1>0, <3>1, <3>3, Zenon
  <2>3. CASE x.content \notin NotStrings
    <3> DEFINE y == [form |-> "string", text |-> x.content]
    <3>1. OtherMessage(s, x) = [s EXCEPT !.system = y]
      BY <1>2, <2>3 DEF OtherMessage, SystemMessage
    <3>2. x.content \in Texts /\ y \in Prompts
      BY <1>1, <2>3 DEF Prompts, OpenAIContents
    <3>3. SystemText(y) = x.content
      BY <3>2, SystemIs
    <3> HIDE DEF y
    <3>4. SystemText(y) = NextPrompt(LastPrompt(q), x)
      BY <1>2, <2>3, <3>3 DEF NextPrompt, SystemString
    <3>5. Tells([s EXCEPT !.system = y], Append(q, x))
      BY <1>1, <2>1, <3>2, <3>4, SilentTells
    <3> QED BY <3>1, <3>5, Zenon
  <2> QED BY <2>2, <2>3
<1>3. CASE x.role # "system" /\ x.tool_calls # NoCalls
  <2> DEFINE m == Message("assistant", CallBlocks(x))
  <2>1. x.role = "assistant"
    BY <1>1, <1>3
  <2>2. OtherMessage(s, x) = [s EXCEPT !.msgs = Append(@, Message(x.role, CallBlocks(x)))]
    BY <1>3, <2>1 DEF OtherMessage, SystemMessage
  <2>3. m \in IMessages /\ SaysAs(x, m)
    BY <1>3, <2>1, CallBlocksSay
  <2>4. OtherMessage(s, x) = [s EXCEPT !.msgs = Append(@, m)]
    BY <2>1, <2>2
  <2> HIDE DEF m
  <2>5. Tells([s EXCEPT !.msgs = Append(@, m)], Append(q, x))
    BY <1>1, <1>3, <2>3, SayTells
  <2> QED BY <2>4, <2>5, Zenon
<1>4. CASE x.role # "system" /\ x.tool_calls = NoCalls
  <2>1. x.role \in {"user", "assistant"}
    BY <1>1, <1>4
  <2>2. CASE StringOr(x.content) = <<>>
    <3>1. OtherMessage(s, x) = s
      BY <1>4, <2>2 DEF OtherMessage, SystemMessage
    <3>2. OUserF[x] = <<>> /\ OSaidF[x] = <<>> /\ OCallsF[x] = <<>> /\ OResultsF[x] = <<>>
      BY <1>4, <2>1, <2>2, TextSays
    <3>3. SystemText(s.system) = NextPrompt(LastPrompt(q), x)
      BY <1>4 DEF Tells, NextPrompt, SystemString
    <3>4. Tells([s EXCEPT !.system = s.system], Append(q, x))
      BY <1>0, <1>1, <3>2, <3>3, SilentTells
    <3> QED BY <1>0, <3>1, <3>4, Zenon
  <2>3. CASE StringOr(x.content) # <<>>
    <3> DEFINE m == Message(x.role, <<Text(x.content)>>)
    <3>1. OtherMessage(s, x) = [s EXCEPT !.msgs = Append(@, m)]
      BY <1>4, <2>3 DEF OtherMessage, SystemMessage
    <3>2. m \in IMessages /\ SaysAs(x, m)
      BY <1>4, <2>1, <2>3, TextSays
    <3> HIDE DEF m
    <3>3. Tells([s EXCEPT !.msgs = Append(@, m)], Append(q, x))
      BY <1>1, <1>4, <3>2, SayTells
    <3> QED BY <3>1, <3>3, Zenon
  <2> QED BY <2>2, <2>3
<1> QED BY <1>2, <1>3, <1>4

LEMMA ConvertTells ==
  ASSUME NEW q, Over(q, OMessages), NEW s, Tells(s, q), NEW x \in OpenAIMessages
  PROVE  Tells(ConvertMessage(s, x), Append(q, x))
<1>1. CASE x.role = "tool"
  <2>1. ConvertMessage(s, x) = ToolMessage(s, x)
    BY <1>1 DEF ConvertMessage
  <2>2. Tells(ToolMessage(s, x), Append(q, x))
    BY <1>1, ToolTells
  <2> QED BY <2>1, <2>2, Zenon
<1>2. CASE x.role # "tool"
  <2> DEFINE f == FlushToolResults(s)
  <2>1. ConvertMessage(s, x) = OtherMessage(f, x)
    BY <1>2 DEF ConvertMessage
  <2>2. Tells(f, q) /\ f.pending = <<>>
    BY Flushed
  <2> HIDE DEF f
  <2>3. Tells(OtherMessage(f, x), Append(q, x))
    BY <1>2, <2>2, OtherTells
  <2> QED BY <2>1, <2>3, Zenon
<1> QED BY <1>1, <1>2

Start == [msgs |-> <<>>, pending |-> <<>>, system |-> Absent]
ConvertAll(q) == FoldLeft(ConvertMessage, Start, q)

LEMMA ConvertAllIs ==
  /\ ConvertAll(<<>>) = Start
  /\ \A q : Over(q, OpenAIMessages) =>
       \A x \in OpenAIMessages : ConvertAll(Append(q, x)) = ConvertMessage(ConvertAll(q), x)
<1>1. ASSUME NEW q PROVE ConvertAll(q) = Data!Run(Start, q)
  BY DEF ConvertAll, Data!Run, FoldLeft, Data!FoldLeft, MapThenFoldSet, Data!MapThenFoldSet,
         Max, Data!Max
<1>2. ConvertAll(<<>>) = Start
  BY <1>1, Data!RunEmpty
<1>3. ASSUME NEW q, Over(q, OpenAIMessages), NEW x \in OpenAIMessages
      PROVE  ConvertAll(Append(q, x)) = ConvertMessage(ConvertAll(q), x)
  <2>1. q \in Seq(OpenAIMessages)
    BY <1>3 DEF Over
  <2>2. Data!Run(Start, Append(q, x)) = ConvertMessage(Data!Run(Start, q), x)
    BY <2>1, Data!RunAppend
  <2> QED BY <1>1, <2>2
<1> QED BY <1>2, <1>3

LEMMA StartTells == Tells(Start, <<>>)
<1>1. Start.msgs = <<>> /\ Start.pending = <<>> /\ Start.system = Absent /\ Start \in Loops
  <2>1. <<>> \in Seqs(IMessages) /\ <<>> \in Seqs(Results) /\ Absent \in Prompts
    BY NoneOf DEF Prompts
  <2> QED BY <2>1 DEF Start, Loops
<1>2. \A f : Total(f, <<>>) = <<>>
  BY TotalEmpty
<1>3. <<>> \o <<>> = <<>>
  OBVIOUS
<1>4. SystemText(Absent) = <<>> /\ LastPrompt(<<>>) = <<>>
  BY SystemIs, PromptIs
<1> HIDE DEF Start
<1> QED BY <1>1, <1>2, <1>3, <1>4 DEF Tells

LEMMA AllTells == \A q : Over(q, OpenAIMessages) => Tells(ConvertAll(q), q)
<1> DEFINE Q == {q \in Seq(OpenAIMessages) : Tells(ConvertAll(q), q)}
<1>1. <<>> \in Q
  <2>1. <<>> \in Seq(OpenAIMessages)
    OBVIOUS
  <2> QED BY <2>1, StartTells, ConvertAllIs
<1>2. ASSUME NEW q, Over(q, OpenAIMessages), q \in Q, NEW x \in OpenAIMessages
      PROVE  Append(q, x) \in Q
  <2>1. OpenAIMessages \subseteq OMessages
    BY OpenAIMessageIs
  <2>2. Over(q, OMessages) /\ Tells(ConvertAll(q), q)
    BY <1>2, <2>1, OverMore
  <2>3. Tells(ConvertMessage(ConvertAll(q), x), Append(q, x))
    BY <2>2, ConvertTells
  <2>4. ConvertAll(Append(q, x)) = ConvertMessage(ConvertAll(q), x)
    BY <1>2, ConvertAllIs
  <2>5. Append(q, x) \in Seq(OpenAIMessages)
    BY <1>2 DEF Over
  <2> QED BY <2>3, <2>4, <2>5
<1> HIDE DEF Q
<1>3. \A q : Over(q, OpenAIMessages) => q \in Q
  BY <1>1, <1>2, OverInduction
<1> QED BY <1>3 DEF Q

\* What OpenAIToAnthropic makes of a client's messages says what they say.
LEMMA ToAnthropicSays ==
  ASSUME NEW q, Over(q, OpenAIMessages)
  PROVE  /\ Over(ConvertedMessages(q).msgs, IMessages)
         /\ AnthropicSays(ConvertedMessages(q).msgs) = OpenAIReads(q)
         /\ ConvertedMessages(q).system \in Prompts
         /\ SystemText(ConvertedMessages(q).system) = LastPrompt(q)
<1> DEFINE s == ConvertedMessages(q)
<1>1. s = FlushToolResults(ConvertAll(q))
  BY Zenon DEF ConvertedMessages, ConvertAll, Start
<1>2. Tells(ConvertAll(q), q)
  BY AllTells
<1>3. Tells(s, q) /\ s.pending = <<>>
  BY <1>1, <1>2, Flushed
<1>4. Over(q, OMessages)
  BY OpenAIMessageIs, OverMore
<1> HIDE DEF s
<1>5. Over(s.msgs, IMessages) /\ s.system \in Prompts
  BY <1>3, LoopFields DEF Tells
<1>6. Total(ResultsF, s.msgs) = Total(OResultsF, q)
  <2>1. Total(ResultF, <<>>) = <<>>
    BY TotalEmpty
  <2>2. Total(ResultsF, s.msgs) \o <<>> = Total(ResultsF, s.msgs)
    BY <1>5, Unsaid
  <2> QED BY <1>3, <2>1, <2>2 DEF Tells
<1>7. Total(UserF, s.msgs) = Total(OUserF, q) /\ Total(SaidF, s.msgs) = Total(OSaidF, q)
      /\ Total(CallsF, s.msgs) = Total(OCallsF, q) /\ SystemText(s.system) = LastPrompt(q)
  BY <1>3 DEF Tells
<1>8. AnthropicSays(s.msgs) = [user |-> Total(UserF, s.msgs), assistant |-> Total(SaidF, s.msgs),
                               calls |-> Total(CallsF, s.msgs), results |-> Total(ResultsF, s.msgs)]
  BY <1>5, AnthropicSaysIs
<1>9. OpenAIReads(q) = [user |-> Total(OUserF, q), assistant |-> Total(OSaidF, q),
                       calls |-> Total(OCallsF, q), results |-> Total(OResultsF, q)]
  BY <1>4, OpenAISaysIs
<1>10. AnthropicSays(s.msgs) = OpenAIReads(q)
  BY <1>6, <1>7, <1>8, <1>9, Zenon
<1> QED BY <1>5, <1>7, <1>10 DEF s

-------------------------------------------------------------------------------
(* The wire: what is encoded and decoded says what it said.                    *)

Shorten(t) == IF t = Text(<<>>) THEN [type |-> "text"] ELSE t
Trip(b) == DecodeBlock(EncodeBlock(b))

LEMMA ShortenIs ==
  ASSUME NEW t \in TextBlocks \cup Media
  PROVE  Shorten(t) \in TextBlocks \cup Media /\ TextF[Shorten(t)] = TextF[t]
         /\ (t \in TextBlocks => Shorten(t) \in TextBlocks)
<1>1. t \in Parts /\ [type |-> "text"] \in TextBlocks /\ TextBlocks \subseteq Parts
  BY DEF Parts, TextBlocks
<1>2. CASE t = Text(<<>>)
  <2>1. Shorten(t) = [type |-> "text"]
    BY <1>2 DEF Shorten
  <2>2. TextF[[type |-> "text"]] = <<>>
    BY <1>1 DEF TextF, TextOf
  <2>3. TextF[Text(<<>>)] = <<>>
    <3>1. <<>> \in Texts
      BY DEF Texts
    <3> QED BY <3>1, OneText
  <2> QED BY <1>1, <1>2, <2>1, <2>2, <2>3
<1>3. CASE t # Text(<<>>)
  BY <1>3 DEF Shorten
<1> QED BY <1>2, <1>3

LEMMA JoinedShort ==
  ASSUME NEW c, Over(c, TextBlocks \cup Media), NEW d, d = [i \in DOMAIN c |-> Shorten(c[i])]
  PROVE  Over(d, TextBlocks \cup Media) /\ JoinedText(d) = JoinedText(c)
<1> DEFINE A == TextBlocks \cup Media
           F == [t \in A |-> Shorten(t)]
<1>1. DOMAIN c = 1..Len(c) /\ Len(c) \in Nat /\ \A i \in DOMAIN c : c[i] \in A
  BY DEF Over
<1>2. d = PartsOf(F, c) /\ DOMAIN d = DOMAIN c /\ \A i \in DOMAIN c : d[i] = Shorten(c[i])
  BY <1>1 DEF PartsOf
<1>3. \A t \in A : F[t] \in A
  BY ShortenIs
<1> HIDE DEF F
<1>4. Over(d, A)
  <2>1. PartsOf(F, c) \in Seq(A)
    <3>1. Over(c, A)
      OBVIOUS
    <3> HIDE DEF A
    <3> QED BY <1>3, <3>1, PartsType
  <2> QED BY <1>2, <2>1 DEF Over
<1>5. A \subseteq Parts
  BY DEF Parts
<1>6. Over(c, Parts) /\ Over(d, Parts)
  <2> HIDE DEF A
  <2>1. Over(c, A)
    BY DEF A
  <2> QED BY <1>4, <1>5, <2>1, OverMore
<1>7. Total(TextF, d) = Total(TextF, c)
  <2>1. \A i \in DOMAIN c : TextF[d[i]] = TextF[c[i]]
    BY <1>1, <1>2, ShortenIs
  <2>2. DOMAIN d = DOMAIN c
    BY <1>2
  <2> QED BY <2>1, <2>2, TotalSame
<1> QED BY <1>4, <1>6, <1>7, JoinedIs

LEMMA TripText ==
  ASSUME NEW b \in TextBlocks
  PROVE  Trip(b) \in TextBlocks /\ TextF[Trip(b)] = TextF[b] /\ CallF[Trip(b)] = CallF[b]
         /\ ResultF[Trip(b)] = ResultF[b]
<1>1. b.type = "text"
  BY DEF TextBlocks
<1>2. EncodeBlock(b) = Shorten(b)
  BY <1>1 DEF EncodeBlock, Shorten
<1>3. Shorten(b) \in TextBlocks /\ TextF[Shorten(b)] = TextF[b]
  BY ShortenIs
<1>4. Shorten(b).type = "text"
  BY <1>3 DEF TextBlocks
<1>5. Trip(b) = Shorten(b)
  BY <1>2, <1>4 DEF Trip, DecodeBlock
<1>6. \A c \in TextBlocks : c \in Parts /\ c.type = "text" /\ CallF[c] = <<>> /\ ResultF[c] = <<>>
  BY DEF TextBlocks, Parts, CallF, ResultF
<1> QED BY <1>3, <1>5, <1>6

LEMMA TripUse == ASSUME NEW b \in ToolUses PROVE Trip(b) = b
BY DEF ToolUses, Trip, EncodeBlock, DecodeBlock

LEMMA TripOther == ASSUME NEW b \in Decoded0 PROVE Trip(b) = b
BY DEF Decoded0, Thoughts, Trip, EncodeBlock, DecodeBlock

LEMMA TripResult ==
  ASSUME NEW b \in Results
  PROVE  Trip(b) \in Results /\ TextF[Trip(b)] = TextF[b] /\ CallF[Trip(b)] = CallF[b]
         /\ ResultF[Trip(b)] = ResultF[b]
<1> DEFINE c == b.content
           d == [i \in DOMAIN c |-> Shorten(c[i])]
           e == [b EXCEPT !.content = List(d)]
           r == ToolResult(b.tool_use_id, d)
<1>1. b.type = "tool_result" /\ b.tool_use_id \in Atoms /\ c \in Seqs(TextBlocks \cup Media)
      /\ b = [type |-> "tool_result", tool_use_id |-> b.tool_use_id, content |-> c]
  BY DEF Results
<1>2. Over(c, TextBlocks \cup Media)
  BY <1>1, SeqsStrings
<1>3. EncodeBlock(b) = e
  BY <1>1 DEF EncodeBlock, Each, Shorten
<1>4. Over(d, TextBlocks \cup Media) /\ JoinedText(d) = JoinedText(c)
  BY <1>2, JoinedShort
<1> HIDE DEF d
<1>5. e.type = "tool_result" /\ e.tool_use_id = b.tool_use_id /\ e.content = List(d)
  BY <1>1
<1> HIDE DEF e
<1>6. Blocks(List(d)) = d
  BY DEF Blocks, List
<1>7. Trip(b) = r
  BY <1>3, <1>5, <1>6 DEF Trip, DecodeBlock
<1>8. r \in Results /\ r.type = "tool_result" /\ r.tool_use_id = b.tool_use_id /\ r.content = d
  <2>1. d \in Seqs(TextBlocks \cup Media)
    BY <1>4, SeqsStrings
  <2>2. r = [type |-> "tool_result", tool_use_id |-> b.tool_use_id, content |-> d]
    BY DEF ToolResult
  <2> HIDE DEF r, c
  <2> QED BY <1>1, <2>1, <2>2 DEF Results
<1> HIDE DEF r
<1>9. b \in Parts /\ r \in Parts
  BY <1>8 DEF Parts
<1>10. TextF[r] = <<>> /\ TextF[b] = <<>> /\ CallF[r] = <<>> /\ CallF[b] = <<>>
  BY <1>1, <1>8, <1>9 DEF TextF, CallF
<1>11. ResultF[r] = ResultF[b]
  BY <1>1, <1>4, <1>8, <1>9 DEF ResultF
<1> QED BY <1>7, <1>8, <1>10, <1>11

LEMMA TripIs ==
  ASSUME NEW b \in UserParts \cup AssistantParts
  PROVE  /\ b \in UserParts => Trip(b) \in UserParts
         /\ b \in AssistantParts => Trip(b) \in AssistantParts
         /\ TextF[Trip(b)] = TextF[b] /\ CallF[Trip(b)] = CallF[b] /\ ResultF[Trip(b)] = ResultF[b]
<1>1. CASE b \in TextBlocks
  BY <1>1, TripText DEF UserParts, AssistantParts
<1>2. CASE b \in Decoded0
  BY <1>2, TripOther
<1>3. CASE b \in ToolUses
  BY <1>3, TripUse
<1>4. CASE b \in Results
  <2>1. b \notin AssistantParts
    BY <1>4 DEF Results, AssistantParts, TextBlocks, Decoded0, Thoughts, ToolUses
  <2> QED BY <1>4, <2>1, TripResult DEF UserParts
<1> QED BY <1>1, <1>2, <1>3, <1>4 DEF UserParts, AssistantParts

LEMMA TripMessage ==
  ASSUME NEW m \in IMessages
  PROVE  LET w == DecodeMessage(EncodeMessage(m)) IN
         /\ w \in IMessages
         /\ UserF[w] = UserF[m] /\ SaidF[w] = SaidF[m]
         /\ CallsF[w] = CallsF[m] /\ ResultsF[w] = ResultsF[m]
<1> DEFINE s == m.content
           e == [i \in DOMAIN s |-> EncodeBlock(s[i])]
           u == [i \in DOMAIN s |-> Trip(s[i])]
           w == Message(m.role, u)
<1>1. m.role \in {"user", "assistant"} /\ Over(s, Parts) /\ m = Message(m.role, s)
      /\ (m.role = "user" => Over(s, UserParts)) /\ (m.role = "assistant" => Over(s, AssistantParts))
  <2>1. m = Message(m.role, s)
    BY DEF IMessages, Message
  <2> QED BY <2>1, MessageIs
<1>2. DecodeMessage(EncodeMessage(m)) = w
  <2>1. EncodeMessage(m) = [role |-> m.role, content |-> List(e)]
    BY DEF EncodeMessage, Message, Each
  <2>2. EncodeMessage(m).role = m.role /\ Blocks(EncodeMessage(m).content) = e
    BY <2>1 DEF Blocks, List
  <2>3. DecodeMessage(EncodeMessage(m)) = Message(m.role, [i \in DOMAIN e |-> DecodeBlock(e[i])])
    BY <2>2, Zenon DEF DecodeMessage, Each
  <2>4. [i \in DOMAIN e |-> DecodeBlock(e[i])] = u
    BY DEF Trip
  <2> QED BY <2>3, <2>4, Zenon
<1>3. DOMAIN s = 1..Len(s) /\ Len(s) \in Nat /\ DOMAIN u = DOMAIN s
      /\ \A i \in DOMAIN s : u[i] = Trip(s[i])
  BY <1>1 DEF Over
<1>4. ASSUME NEW A, A \in {UserParts, AssistantParts}, Over(s, A)
      PROVE  /\ Over(u, A) /\ Total(TextF, u) = Total(TextF, s)
             /\ Total(CallF, u) = Total(CallF, s) /\ Total(ResultF, u) = Total(ResultF, s)
  <2> DEFINE F == [b \in A |-> Trip(b)]
  <2>1. \A b \in A : F[b] \in A /\ b \in UserParts \cup AssistantParts
    BY <1>4, TripIs
  <2>2. \A i \in DOMAIN s : s[i] \in A
    BY <1>4 DEF Over
  <2>3. u = PartsOf(F, s)
    BY <2>2 DEF PartsOf
  <2> HIDE DEF F
  <2>4. PartsOf(F, s) \in Seq(A)
    BY <1>4, <2>1, PartsType
  <2>5. Over(u, A)
    BY <2>3, <2>4 DEF Over
  <2>6. \A i \in DOMAIN u : TextF[u[i]] = TextF[s[i]] /\ CallF[u[i]] = CallF[s[i]]
                            /\ ResultF[u[i]] = ResultF[s[i]]
    BY <1>3, <2>1, <2>2, TripIs
  <2> HIDE DEF u, s
  <2>7. Total(TextF, u) = Total(TextF, s)
    BY <1>3, <2>6, TotalSame
  <2>8. Total(CallF, u) = Total(CallF, s)
    BY <1>3, <2>6, TotalSame
  <2>9. Total(ResultF, u) = Total(ResultF, s)
    BY <1>3, <2>6, TotalSame
  <2> QED BY <2>5, <2>7, <2>8, <2>9
<1>5. /\ m.role = "user" => Over(u, UserParts)
      /\ m.role = "assistant" => Over(u, AssistantParts)
      /\ Total(TextF, u) = Total(TextF, s) /\ Total(CallF, u) = Total(CallF, s)
      /\ Total(ResultF, u) = Total(ResultF, s)
  BY <1>1, <1>4
<1> HIDE DEF u, s
<1>6. /\ w \in IMessages
      /\ UserF[w] = (IF m.role = "user" THEN Total(TextF, u) ELSE <<>>)
      /\ SaidF[w] = (IF m.role = "assistant" THEN Total(TextF, u) ELSE <<>>)
      /\ CallsF[w] = Total(CallF, u) /\ ResultsF[w] = Total(ResultF, u)
  BY <1>1, <1>5, BlocksSay
<1>7. LET n == Message(m.role, s) IN
      /\ UserF[n] = (IF m.role = "user" THEN Total(TextF, s) ELSE <<>>)
      /\ SaidF[n] = (IF m.role = "assistant" THEN Total(TextF, s) ELSE <<>>)
      /\ CallsF[n] = Total(CallF, s) /\ ResultsF[n] = Total(ResultF, s)
  BY <1>1, BlocksSay
<1> HIDE DEF w
<1> QED BY <1>1, <1>2, <1>5, <1>6, <1>7, Zenon

\* What a client of Anthropic's format sends, decoded.
LEMMA BlocksAre ==
  ASSUME NEW A, TextBlocks \subseteq A, NEW content \in Contents(A)
  PROVE  Blocks(content) \in Seq(A)
<1>1. CASE content \in [form: {"string"}, text: Texts]
  <2>1. content.form = "string" /\ content.text \in Texts
    BY <1>1
  <2>2. Text(content.text) \in A
    BY <2>1, OneText
  <2>3. Blocks(content) = <<Text(content.text)>>
    BY <2>1 DEF Blocks
  <2> QED BY <2>2, <2>3
<1>2. CASE content \in [form: {"blocks"}, blocks: Seq(A)]
  <2>1. content.form = "blocks" /\ content.blocks \in Seq(A)
    BY <1>2
  <2> QED BY <2>1 DEF Blocks
<1> QED BY <1>1, <1>2 DEF Contents

LEMMA DecodedBlock ==
  /\ \A b \in UserBlocks : DecodeBlock(b) \in UserParts
  /\ \A b \in AssistantBlocks : DecodeBlock(b) \in AssistantParts
<1>1. ASSUME NEW b \in TextBlocks PROVE DecodeBlock(b) = b
  <2>1. b.type = "text"
    BY DEF TextBlocks
  <2> QED BY <2>1 DEF DecodeBlock
<1>2. ASSUME NEW b \in Media PROVE DecodeBlock(b) \in Decoded0
  <2>1. b.type \in {"image", "document"}
    BY DEF Media
  <2>2. DecodeBlock(b) = [type |-> b.type]
    BY <2>1 DEF DecodeBlock
  <2> QED BY <2>1, <2>2 DEF Decoded0
<1>3. ASSUME NEW b \in Thoughts PROVE DecodeBlock(b) \in Decoded0
  <2>1. b.type \in {"thinking", "redacted_thinking"}
    BY DEF Thoughts
  <2>2. DecodeBlock(b) = [type |-> b.type]
    BY <2>1 DEF DecodeBlock
  <2> QED BY <2>1, <2>2 DEF Decoded0, Thoughts
<1>4. ASSUME NEW b \in ToolUses PROVE DecodeBlock(b) = b
  <2>1. b.type = "tool_use"
    BY DEF ToolUses
  <2> QED BY <2>1 DEF DecodeBlock
<1>5. ASSUME NEW b \in [type: {"tool_result"}, tool_use_id: Atoms, content: Contents(TextBlocks \cup Media)]
      PROVE  DecodeBlock(b) \in Results
  <2>1. b.type = "tool_result" /\ b.tool_use_id \in Atoms /\ b.content \in Contents(TextBlocks \cup Media)
    BY <1>5
  <2> DEFINE d == Blocks(b.content)
  <2>2. d \in Seq(TextBlocks \cup Media)
    BY <2>1, BlocksAre
  <2> HIDE DEF d
  <2>3. DecodeBlock(b) = ToolResult(b.tool_use_id, d)
    BY <2>1 DEF DecodeBlock, d
  <2>4. ToolResult(b.tool_use_id, d) \in Results
    <3>1. d \in Seqs(TextBlocks \cup Media)
      BY <2>2 DEF Seqs
    <3>2. ToolResult(b.tool_use_id, d) = [type |-> "tool_result", tool_use_id |-> b.tool_use_id, content |-> d]
      BY DEF ToolResult
    <3> QED BY <2>1, <3>1, <3>2 DEF Results
  <2> QED BY <2>3, <2>4
<1>6. \A b \in UserBlocks : DecodeBlock(b) \in UserParts
  BY <1>1, <1>2, <1>5 DEF UserBlocks, UserParts
<1>7. \A b \in AssistantBlocks : DecodeBlock(b) \in AssistantParts
  BY <1>1, <1>3, <1>4 DEF AssistantBlocks, AssistantParts, ToolUses
<1> QED BY <1>6, <1>7

UserSends      == [role: {"user"}, content: Contents(UserBlocks)]
AssistantSends == [role: {"assistant"}, content: Contents(AssistantBlocks)]

LEMMA DecodedMessage ==
  ASSUME NEW m \in UserSends \cup AssistantSends
  PROVE  DecodeMessage(m) \in IMessages
<1> DEFINE s == Blocks(m.content)
           u == [i \in DOMAIN s |-> DecodeBlock(s[i])]
<1>1. DecodeMessage(m) = Message(m.role, u)
  BY Zenon DEF DecodeMessage, Each
<1>2. ASSUME NEW A, NEW B, s \in Seq(A), \A b \in A : DecodeBlock(b) \in B PROVE Over(u, B)
  <2> DEFINE F == [b \in A |-> DecodeBlock(b)]
  <2>1. Over(s, A) /\ \A i \in DOMAIN s : s[i] \in A
    BY <1>2 DEF Over
  <2>2. u = PartsOf(F, s)
    BY <2>1 DEF PartsOf
  <2>3. \A b \in A : F[b] \in B
    BY <1>2
  <2> HIDE DEF F, s
  <2>4. PartsOf(F, s) \in Seq(B)
    BY <2>1, <2>3, PartsType
  <2> QED BY <2>2, <2>4 DEF Over
<1> HIDE DEF u
<1>3. TextBlocks \subseteq UserBlocks /\ TextBlocks \subseteq AssistantBlocks
  BY DEF UserBlocks, AssistantBlocks
<1>4. CASE m \in UserSends
  <2>1. m.role = "user" /\ m.content \in Contents(UserBlocks)
    BY <1>4 DEF UserSends
  <2>2. s \in Seq(UserBlocks)
    BY <1>3, <2>1, BlocksAre
  <2> HIDE DEF s
  <2>3. Over(u, UserParts)
    BY <1>2, <2>2, DecodedBlock
  <2> QED BY <1>1, <2>1, <2>3, BlocksSay
<1>5. CASE m \in AssistantSends
  <2>1. m.role = "assistant" /\ m.content \in Contents(AssistantBlocks)
    BY <1>5 DEF AssistantSends
  <2>2. s \in Seq(AssistantBlocks)
    BY <1>3, <2>1, BlocksAre
  <2> HIDE DEF s
  <2>3. Over(u, AssistantParts)
    BY <1>2, <2>2, DecodedBlock
  <2> QED BY <1>1, <2>1, <2>3, BlocksSay
<1> QED BY <1>4, <1>5

LEMMA DecodedMessages ==
  ASSUME NEW ms \in Seq(UserSends \cup AssistantSends)
  PROVE  Over(Each(DecodeMessage, ms), IMessages)
<1> DEFINE A == UserSends \cup AssistantSends
           F == [m \in A |-> DecodeMessage(m)]
<1>1. Over(ms, A) /\ \A i \in DOMAIN ms : ms[i] \in A
  BY DEF Over
<1>2. Each(DecodeMessage, ms) = PartsOf(F, ms)
  BY <1>1 DEF PartsOf, Each
<1>3. \A m \in A : F[m] \in IMessages
  BY DecodedMessage
<1> HIDE DEF F, A
<1>4. PartsOf(F, ms) \in Seq(IMessages)
  BY <1>1, <1>3, PartsType
<1> QED BY <1>2, <1>4 DEF Over

LEMMA SystemTextIs ==
  ASSUME NEW system \in {Absent} \cup Contents(TextBlocks)
  PROVE  SystemText(system) \in Texts
<1>1. <<>> \in Texts
  BY DEF Texts
<1>2. CASE system = Absent
  BY <1>1, <1>2, SystemIs
<1>3. CASE system # Absent /\ system \in [form: {"string"}, text: Texts]
  <2>1. system.form = "string" /\ system.text \in Texts
    BY <1>3
  <2> QED BY <1>3, <2>1 DEF SystemText
<1>4. CASE system # Absent /\ system \in [form: {"blocks"}, blocks: Seq(TextBlocks)]
  <2> DEFINE q == system.blocks
             said == [b \in TextBlocks |-> IF TextOf(b) = <<>> THEN <<>> ELSE <<TextOf(b)>>]
             t == FlattenSeq([i \in DOMAIN q |-> IF TextOf(q[i]) = <<>> THEN <<>> ELSE <<TextOf(q[i])>>])
  <2>1. system.form # "string" /\ q \in Seq(TextBlocks)
    BY <1>4
  <2>2. SystemText(system) = FlattenSeq(t)
    BY <1>4, <2>1 DEF SystemText, Sum, Join
  <2>3. Over(q, TextBlocks) /\ \A i \in DOMAIN q : q[i] \in TextBlocks
    BY <2>1 DEF Over
  <2> HIDE DEF q
  <2>4. t = Total(said, q)
    BY <2>3 DEF Total, PartsOf
  <2> HIDE DEF t
  <2>5. Adds(said, TextBlocks, Seqs(Texts))
    <3>1. Strings(Seqs(Texts))
      BY SeqsStrings
    <3>2. ASSUME NEW b \in TextBlocks PROVE said[b] \in Seqs(Texts)
      <4>1. TextOf(b) \in Texts
        BY PartIs DEF Parts
      <4>2. <<>> \in Seqs(Texts) /\ <<TextOf(b)>> \in Seqs(Texts)
        <5>1. <<TextOf(b)>> \in Seqs(Texts)
          <6> DEFINE x == TextOf(b)
          <6>1. x \in Texts
            BY <4>1
          <6> HIDE DEF x
          <6>2. <<x>> \in Seq(Texts)
            BY <6>1
          <6> QED BY <6>2 DEF x, Seqs
        <5> QED BY <5>1, NoneOf
      <4> QED BY <4>2
    <3> HIDE DEF said
    <3> QED BY <3>1, <3>2 DEF Adds
  <2> HIDE DEF said
  <2>6. t \in Seqs(Texts)
    BY <2>3, <2>4, <2>5, TotalType
  <2>7. FlattenSeq(t) \in Texts
    <3> DEFINE id == [x \in Texts |-> x]
    <3>1. Over(t, Texts) /\ DOMAIN t = 1..Len(t) /\ \A i \in DOMAIN t : t[i] \in Texts
      <4>1. Over(t, Texts)
        BY <2>6, SeqsStrings
      <4> QED BY <4>1 DEF Over
    <3>2. PartsOf(id, t) = t
      <4>1. PartsOf(id, t) = [i \in DOMAIN t |-> t[i]]
        BY <3>1 DEF PartsOf
      <4>2. t \in Seq(Texts)
        BY <3>1 DEF Over
      <4> QED BY <4>1, <4>2
    <3>3. Adds(id, Texts, Texts)
      <4>1. Strings(Texts)
        BY OMessageAdds DEF Adds
      <4> QED BY <4>1 DEF Adds
    <3> HIDE DEF id
    <3>4. Total(id, t) \in Texts
      BY <3>1, <3>3, TotalType
    <3> QED BY <3>2, <3>4, Zenon DEF Total
  <2> QED BY <2>2, <2>7
<1> QED BY <1>2, <1>3, <1>4 DEF Contents

\* Encoded messages, decoded again.
LEMMA WireSays ==
  ASSUME NEW ms, Over(ms, IMessages)
  PROVE  AnthropicSays(Wire(Each(EncodeMessage, ms))) = AnthropicSays(ms)
<1> DEFINE ws == Wire(Each(EncodeMessage, ms))
           F == [m \in IMessages |-> DecodeMessage(EncodeMessage(m))]
<1>1. DOMAIN ms = 1..Len(ms) /\ \A i \in DOMAIN ms : ms[i] \in IMessages
  BY DEF Over
<1>2. ws = [i \in DOMAIN ms |-> DecodeMessage(EncodeMessage(ms[i]))]
  BY DEF Wire, Each
<1>3. ws = PartsOf(F, ms)
  BY <1>1, <1>2 DEF PartsOf
<1>4. DOMAIN ws = DOMAIN ms /\ \A i \in DOMAIN ws : ws[i] = DecodeMessage(EncodeMessage(ms[i]))
  BY <1>2
<1>5. \A m \in IMessages : F[m] \in IMessages
  BY TripMessage
<1> HIDE DEF ws, F
<1>6. Over(ws, IMessages)
  <2>1. PartsOf(F, ms) \in Seq(IMessages)
    BY <1>5, PartsType
  <2> QED BY <1>3, <2>1 DEF Over
<1>7. \A i \in DOMAIN ws : UserF[ws[i]] = UserF[ms[i]] /\ SaidF[ws[i]] = SaidF[ms[i]]
                           /\ CallsF[ws[i]] = CallsF[ms[i]] /\ ResultsF[ws[i]] = ResultsF[ms[i]]
  BY <1>1, <1>4, TripMessage
<1>8. Total(UserF, ws) = Total(UserF, ms)
  BY <1>4, <1>7, TotalSame
<1>9. Total(SaidF, ws) = Total(SaidF, ms)
  BY <1>4, <1>7, TotalSame
<1>10. Total(CallsF, ws) = Total(CallsF, ms)
  BY <1>4, <1>7, TotalSame
<1>11. Total(ResultsF, ws) = Total(ResultsF, ms)
  BY <1>4, <1>7, TotalSame
<1>12. AnthropicSays(ws) = [user |-> Total(UserF, ws), assistant |-> Total(SaidF, ws),
                            calls |-> Total(CallsF, ws), results |-> Total(ResultsF, ws)]
  BY <1>6, AnthropicSaysIs
<1>13. AnthropicSays(ms) = [user |-> Total(UserF, ms), assistant |-> Total(SaidF, ms),
                            calls |-> Total(CallsF, ms), results |-> Total(ResultsF, ms)]
  BY AnthropicSaysIs
<1>14. AnthropicSays(ws) = AnthropicSays(ms)
  BY <1>8, <1>9, <1>10, <1>11, <1>12, <1>13, Zenon
<1> QED BY <1>14 DEF ws

\* A call that cannot be marshalled is one of the calls that were made.
LEMMA BrokenIsSaid ==
  ASSUME NEW req, Over(req.messages, IMessages), ~Marshals(req)
  PROVE  \E i \in DOMAIN AnthropicSays(req.messages).calls :
           AnthropicSays(req.messages).calls[i][2] = Broken
<1> DEFINE ms == req.messages
<1>1. PICK i \in DOMAIN ms : \E j \in DOMAIN ms[i].content :
         ms[i].content[j].type = "tool_use" /\ ms[i].content[j].input = Broken
  BY Zenon DEF Marshals
<1>2. PICK j \in DOMAIN ms[i].content :
         ms[i].content[j].type = "tool_use" /\ ms[i].content[j].input = Broken
  BY <1>1
<1> DEFINE m == ms[i]
           s == m.content
           b == s[j]
           y == <<b.id, Broken>>
<1>3. m \in IMessages
  BY DEF Over
<1>4. Over(s, Parts) /\ CallsIn(m) = Total(CallF, s)
  BY <1>3, MessageIs
<1>5. b \in Parts
  BY <1>2, <1>4 DEF Over
<1>6. CallF[b] = <<y>>
  <2>1. Filled(Broken) = Broken
    BY ConversionAssumption DEF Filled
  <2> QED BY <1>2, <1>5, <2>1 DEF CallF
<1>7. Holds(CallF[s[j]], y)
  <2>1. <<y>>[1] = y /\ 1 \in DOMAIN <<y>>
    OBVIOUS
  <2> HIDE DEF y
  <2> QED BY <1>6, <2>1 DEF Holds
<1>8. j \in DOMAIN s
  BY <1>2
<1> HIDE DEF y, b, s
<1>9. Lists(CallF, Parts, CallsTold)
  BY CallAdds DEF Adds, Seqs, Lists
<1>10. Holds(Total(CallF, s), y)
  BY <1>4, <1>7, <1>8, <1>9, TotalHas
<1>11. CallsF[m] = Total(CallF, s)
  BY <1>3, <1>4 DEF CallsF
<1>12. Lists(CallsF, IMessages, CallsTold)
  BY MessageAdds DEF Adds, Seqs, Lists
<1>13. Holds(CallsF[ms[i]], y)
  BY <1>10, <1>11
<1> HIDE DEF m
<1>14. Holds(Total(CallsF, ms), y)
  BY <1>12, <1>13, TotalHas
<1>15. AnthropicSays(ms).calls = Total(CallsF, ms)
  BY AnthropicSaysIs
<1>16. y[2] = Broken
  BY DEF y
<1> QED BY <1>14, <1>15, <1>16 DEF Holds

\* Patching keeps what was said.
LEMMA BodyMessages ==
  ASSUME NEW doc \in AnthropicBodies
  PROVE  LET body == AnthropicBody(AnthropicBodyToRequest(doc)) IN
         body # NoBody /\ body.messages = doc.messages /\ body.system = doc.system
<1> DEFINE req == AnthropicBodyToRequest(doc)
           m == IF doc.max_tokens = Absent THEN req.max_tokens ELSE doc.max_tokens
           body == AnthropicBody(req)
<1>1. doc # Absent /\ doc # NoBody /\ doc.max_tokens \in Nat \cup {Absent}
  BY RequestAssumption DEF AnthropicBodies, Limits
<1>2. req.raw = doc /\ req.max_tokens = MaxTokens(doc.max_tokens)
  BY DEF AnthropicBodyToRequest, Decoded
<1> HIDE DEF req
<1>3. body # NoBody /\ body.messages = doc.messages /\ body.system = doc.system
  <2>1. Patched(body, doc, m)
    BY <1>1, <1>2 DEF AnthropicBody, patchAnthropicBody, Patched
  <2>2. m \in Nat \cup {Absent}
    BY <1>1, <1>2 DEF MaxTokens, DefaultMaxTokens
  <2> HIDE DEF m, body
  <2>3. IsBody(doc, doc.messages, doc.system, doc.max_tokens, doc.stream, doc.tools, doc.tool_choice)
    BY DEF AnthropicBodies, IsBody
  <2> DEFINE start == [doc EXCEPT !.stream = TRUE]
             two == [start EXCEPT !.max_tokens = m]
  <2>4. IsBody(start, doc.messages, doc.system, doc.max_tokens, TRUE, doc.tools, doc.tool_choice)
    BY <2>3, StreamPut
  <2>5. body = two
    BY <2>1 DEF Patched
  <2> HIDE DEF start
  <2>6. IsBody(two, doc.messages, doc.system, m, TRUE, doc.tools, doc.tool_choice)
    BY <2>4, LimitPut
  <2> HIDE DEF two
  <2>7. IsBody(body, doc.messages, doc.system, m, TRUE, doc.tools, doc.tool_choice)
    BY <2>5, <2>6, Zenon
  <2>8. body.messages = doc.messages /\ body.system = doc.system
    BY <2>7 DEF IsBody
  <2>9. body \in AnthropicBodies
    BY <2>2, <2>7 DEF IsBody, AnthropicBodies, Limits
  <2> QED BY <2>8, <2>9, RequestAssumption
<1> QED BY <1>3 DEF req, body

LEMMA SaidForAnthropic ==
  ASSUME NEW doc \in AnthropicBodies
  PROVE  LET c == Carried(doc, "anthropic", AnthropicBodyToRequest(doc)) IN
         c.format = "anthropic" /\ Arrives(c, DocSays(c), DocPrompt(c))
<1> DEFINE req == AnthropicBodyToRequest(doc)
           c == Carried(doc, "anthropic", req)
           body == AnthropicBody(req)
<1>1. doc.messages \in Seq(UserSends \cup AssistantSends)
      /\ doc.system \in {Absent} \cup Contents(TextBlocks)
  BY DEF AnthropicBodies, UserSends, AssistantSends
<1>2. req.messages = Each(DecodeMessage, doc.messages) /\ req.system = doc.system
  BY DEF AnthropicBodyToRequest, Decoded
<1> HIDE DEF req
<1>3. Over(req.messages, IMessages) /\ SystemText(req.system) \in Texts
  BY <1>1, <1>2, DecodedMessages, SystemTextIs
<1>4. c.doc = doc /\ c.format = "anthropic" /\ c.openai = convertToOpenAI(req) /\ c.anthropic = body
  BY CarriedFields
<1>5. DocSays(c) = AnthropicSays(req.messages) /\ DocPrompt(c) = SystemText(req.system)
      /\ Wire(doc.messages) = req.messages
  <2>1. Wire(doc.messages) = req.messages
    BY <1>2 DEF Wire, Each
  <2> HIDE DEF c
  <2> QED BY <1>2, <1>4, <2>1 DEF DocSays, DocPrompt
<1>6. OpenAISays(convertToOpenAI(req).messages) = AnthropicSays(req.messages)
      /\ Prompt(convertToOpenAI(req).messages) = SystemText(req.system)
  BY <1>3, ToOpenAISays, SentIsRead, AllRead
<1>7. body # NoBody /\ body.messages = doc.messages /\ body.system = doc.system
  BY BodyMessages DEF req
<1> HIDE DEF c, body
<1>8. Arrives(c, DocSays(c), DocPrompt(c))
  BY <1>2, <1>4, <1>5, <1>6, <1>7, Zenon DEF Arrives
<1> QED BY <1>4, <1>8 DEF c, req

LEMMA SaidForOpenAI ==
  ASSUME NEW doc \in OpenAIDocs \ {Malformed}
  PROVE  LET c == Carried(doc, "openai", OpenAIToAnthropic(doc))
             q == doc.messages
         IN  /\ c.format = "openai" /\ c.doc = doc /\ Over(q, OMessages)
             /\ Arrives(c, OpenAIReads(q), LastPrompt(q))
<1> DEFINE req == OpenAIToAnthropic(doc)
           c == Carried(doc, "openai", req)
           q == doc.messages
           body == AnthropicBody(req)
<1>1. Over(q, OpenAIMessages) /\ Over(q, OMessages)
  <2>1. doc \in OpenAIBodies
    BY RequestAssumption
  <2>2. Over(q, OpenAIMessages)
    BY <2>1 DEF OpenAIBodies, Over
  <2> HIDE DEF q
  <2> QED BY <2>2, OpenAIMessageIs, OverMore
<1>2. req.messages = ConvertedMessages(q).msgs /\ req.system = ConvertedMessages(q).system
      /\ req.raw = Absent
  BY DEF OpenAIToAnthropic
<1>3. EncodedBody(req) # NoBody
  BY RequestAssumption
<1> HIDE DEF req
<1>4. /\ Over(req.messages, IMessages) /\ AnthropicSays(req.messages) = OpenAIReads(q)
      /\ req.system \in Prompts /\ SystemText(req.system) = LastPrompt(q)
  BY <1>1, <1>2, ToAnthropicSays
<1>5. SystemText(req.system) \in Texts
  <2>1. req.system \in {Absent} \cup Contents(TextBlocks)
    BY <1>4 DEF Prompts, Contents
  <2> QED BY <2>1, SystemTextIs
<1>6. c.doc = doc /\ c.format = "openai" /\ c.openai = convertToOpenAI(req) /\ c.anthropic = body
  BY CarriedFields
<1> HIDE DEF c
<1>8. OpenAISays(convertToOpenAI(req).messages) = AnthropicSays(req.messages)
      /\ Prompt(convertToOpenAI(req).messages) = SystemText(req.system)
  BY <1>4, <1>5, ToOpenAISays, SentIsRead, AllRead
<1>9. body = IF ~Marshals(req) THEN NoBody ELSE EncodedBody(req)
  BY <1>2, Zenon DEF AnthropicBody
<1>10. EncodedBody(req).messages = Each(EncodeMessage, req.messages)
       /\ EncodedBody(req).system = req.system
  BY DEF EncodedBody
<1>11. AnthropicSays(Wire(Each(EncodeMessage, req.messages))) = AnthropicSays(req.messages)
  BY <1>4, WireSays
<1> HIDE DEF body, q
<1>12. CASE Marshals(req)
  <2>1. body = EncodedBody(req)
    BY <1>9, <1>12
  <2>2. Arrives(c, OpenAIReads(q), LastPrompt(q))
    BY <1>3, <1>4, <1>6, <1>8, <1>10, <1>11, <2>1, Zenon DEF Arrives
  <2> QED BY <1>1, <1>6, <2>2 DEF c, req, q
<1>13. CASE ~Marshals(req)
  <2>1. body = NoBody
    BY <1>9, <1>13
  <2>2. \E i \in DOMAIN AnthropicSays(req.messages).calls :
          AnthropicSays(req.messages).calls[i][2] = Broken
    BY <1>4, <1>13, BrokenIsSaid
  <2>3. Arrives(c, OpenAIReads(q), LastPrompt(q))
    BY <1>4, <1>6, <1>8, <2>1, <2>2, Zenon DEF Arrives
  <2> QED BY <1>1, <1>6, <2>3 DEF c, req, q
<1> QED BY <1>12, <1>13

\* All that is said of one request.
CarriedSays(c) ==
  /\ (c.format = "openai" => Plain(c.doc.messages)) => Arrives(c, DocSays(c), DocPrompt(c))
  /\ c.format = "openai" =>
       Arrives(c, OpenAISays(Read(c.doc.messages)), Prompt(Read(c.doc.messages)))

LEMMA SaidFromCarry == ASSUME CarryInv, NEW c \in Routed PROVE CarriedSays(c)
<1>1. CASE \E doc \in AnthropicDocs \ {Malformed} :
             c = Carried(doc, "anthropic", AnthropicBodyToRequest(doc))
  <2>1. PICK doc \in AnthropicDocs \ {Malformed} :
          c = Carried(doc, "anthropic", AnthropicBodyToRequest(doc))
    BY <1>1
  <2>2. doc \in AnthropicBodies
    BY RequestAssumption
  <2>3. c.format = "anthropic" /\ Arrives(c, DocSays(c), DocPrompt(c))
    BY <2>1, <2>2, SaidForAnthropic
  <2> QED BY <2>3 DEF CarriedSays
<1>2. CASE \E doc \in OpenAIDocs \ {Malformed} : c = Carried(doc, "openai", OpenAIToAnthropic(doc))
  <2>1. PICK doc \in OpenAIDocs \ {Malformed} : c = Carried(doc, "openai", OpenAIToAnthropic(doc))
    BY <1>2
  <2> DEFINE q == doc.messages
  <2>2. c.format = "openai" /\ c.doc = doc /\ Over(q, OMessages)
        /\ Arrives(c, OpenAIReads(q), LastPrompt(q))
    BY <2>1, SaidForOpenAI
  <2> HIDE DEF q
  <2>3. OpenAISays(Read(q)) = OpenAIReads(q) /\ Prompt(Read(q)) = LastPrompt(q)
    BY <2>2, ReadSays, ReadPrompt
  <2>4. Plain(q) => OpenAISays(q) = OpenAIReads(q) /\ Prompt(q) = LastPrompt(q)
    BY <2>2, PlainIsRead, AllRead
  <2>5. c.doc.messages = q
    BY <2>2 DEF q
  <2>6. DocSays(c) = OpenAISays(q) /\ DocPrompt(c) = Prompt(q)
    BY <2>2, <2>5, Zenon DEF DocSays, DocPrompt
  <2>7. Arrives(c, OpenAISays(Read(q)), Prompt(Read(q)))
    BY <2>2, <2>3, Zenon
  <2>8. Plain(q) => Arrives(c, DocSays(c), DocPrompt(c))
    BY <2>2, <2>4, <2>6, Zenon
  <2> QED BY <2>2, <2>5, <2>7, <2>8, Zenon DEF CarriedSays
<1>3. c \in FromAnthropic \cup FromOpenAI
  BY DEF CarryInv, Routed
<1> QED BY <1>1, <1>2, <1>3 DEF FromAnthropic, FromOpenAI

LEMMA NothingLostFromCarry == CarryInv => NothingSaidIsLost /\ OnlyUnreadIsLost
<1>1. CarryInv => NothingSaidIsLost
  BY SaidFromCarry DEF NothingSaidIsLost, CarriedSays
<1>2. CarryInv => OnlyUnreadIsLost
  BY SaidFromCarry DEF OnlyUnreadIsLost, CarriedSays
<1> QED BY <1>1, <1>2

(* Each side's texts, the calls, the results and the prompt of every request   *)
(* that is carried arrive complete and in order, in either format, if an       *)
(* OpenAI client's contents are strings and its system prompt is one message   *)
(* (convert.go:53-158, openai.go:213-290).                                     *)
THEOREM NothingIsEverLost == RequestSpec => []NothingSaidIsLost
BY CarriesWhatWasSent, NothingLostFromCarry, PTL

(* Whatever arrays and system messages an OpenAI client sends, everything else *)
(* that it says arrives (convert.go:82-144).                                   *)
THEOREM OnlyUnreadIsEverLost == RequestSpec => []OnlyUnreadIsLost
BY CarriesWhatWasSent, NothingLostFromCarry, PTL

-------------------------------------------------------------------------------
(* Each format's rule of where the results of calls are.                       *)

LEMMA IdsAre ==
  ASSUME NEW S, NEW s, Over(s, S)
  PROVE  /\ Ids(s) = {} <=> s = <<>>
         /\ IsFiniteSet(Ids(s)) /\ Cardinality(Ids(s)) \in Nat
         /\ Cardinality(Ids(s)) = 0 <=> Ids(s) = {}
<1> DEFINE n == Len(s)
           f == [i \in 1..n |-> s[i][1]]
<1>1. n \in Nat /\ DOMAIN s = 1..n /\ s \in Seq(S)
  BY DEF Over
<1>2. Ids(s) = {f[i] : i \in 1..n}
  BY <1>1 DEF Ids
<1>3. s = <<>> <=> n = 0
  BY <1>1
<1> HIDE DEF f, n
<1>4. IsFiniteSet(1..n)
  <2>1. 1 \in Int /\ n \in Int
    BY <1>1
  <2> QED BY <2>1, FS_Interval
<1>5. IsFiniteSet(Ids(s))
  <2>1. f \in Surjection(1..n, Ids(s))
    BY <1>2 DEF Surjection, f
  <2> QED BY <1>4, <2>1, FS_Surjection
<1>6. Cardinality(Ids(s)) \in Nat
  BY <1>5, FS_CardinalityType
<1>7. Cardinality(Ids(s)) = 0 <=> Ids(s) = {}
  BY <1>5, FS_EmptySet
<1>8. Ids(s) = {} <=> n = 0
  <2>1. n # 0 => f[1] \in Ids(s)
    BY <1>1, <1>2
  <2>2. n = 0 => Ids(s) = {}
    <3>1. n = 0 => 1..n = {}
      BY <1>1
    <3> QED BY <1>2, <3>1
  <2>3. ASSUME n # 0 PROVE Ids(s) # {}
    BY <2>1, <2>3
  <2> QED BY <2>2, <2>3
<1> QED BY <1>3, <1>5, <1>6, <1>7, <1>8

\* Anthropic's.
CallIds(ms, i) == Ids(CallsIn(ms[i]))
Given(ms, i)   == ResultsIn(ms[i])
Before(ms, i)  == IF i = 1 THEN {} ELSE CallIds(ms, i - 1)
LastCalls(ms)  == IF Len(ms) = 0 THEN {} ELSE CallIds(ms, Len(ms))

Meets(ids, rs) ==
  /\ ids # {} => rs # <<>>
  /\ rs # <<>> => Ids(rs) = ids /\ Len(rs) = Cardinality(ids)

\* The rule, but for the calls of the last message.
Open(ms) == \A i \in 1..Len(ms) : Meets(Before(ms, i), Given(ms, i))

LEMMA MessagesTell ==
  ASSUME NEW ms, Over(ms, IMessages)
  PROVE  /\ Len(ms) \in Nat /\ DOMAIN ms = 1..Len(ms)
         /\ \A i \in 1..Len(ms) : /\ ms[i] \in IMessages
                                  /\ Given(ms, i) = <<>> <=> Ids(Given(ms, i)) = {}
<1>1. Len(ms) \in Nat /\ DOMAIN ms = 1..Len(ms) /\ \A i \in 1..Len(ms) : ms[i] \in IMessages
  BY DEF Over
<1>2. ASSUME NEW m \in IMessages PROVE ResultsIn(m) = <<>> <=> Ids(ResultsIn(m)) = {}
  <2>1. ResultsIn(m) \in Seqs(ResultsTold)
    BY MessageIs
  <2>2. Over(ResultsIn(m), ResultsTold)
    BY <2>1, SeqsStrings
  <2> QED BY <2>2, IdsAre
<1> QED BY <1>1, <1>2 DEF Given

LEMMA AnthropicRule ==
  ASSUME NEW ms, Over(ms, IMessages)
  PROVE  AnswersInAnthropic(ms) <=> Open(ms) /\ LastCalls(ms) = {}
<1> DEFINE n == Len(ms)
<1>1. n \in Nat /\ DOMAIN ms = 1..n
      /\ \A i \in 1..n : Given(ms, i) = <<>> <=> Ids(Given(ms, i)) = {}
  BY MessagesTell
<1>2. AnswersInAnthropic(ms) <=>
        \A i \in 1..n :
          /\ CallIds(ms, i) # {} => i + 1 \in 1..n /\ Given(ms, i + 1) # <<>>
          /\ Given(ms, i) # <<>> => /\ i > 1
                                    /\ Ids(Given(ms, i)) = CallIds(ms, i - 1)
                                    /\ Len(Given(ms, i)) = Cardinality(CallIds(ms, i - 1))
  BY <1>1 DEF AnswersInAnthropic, CallIds, Given
<1> HIDE DEF n
<1>3. Open(ms) <=> \A i \in 1..n : Meets(Before(ms, i), Given(ms, i))
  BY DEF Open, n
<1>4. LastCalls(ms) = IF n = 0 THEN {} ELSE CallIds(ms, n)
  BY DEF LastCalls, n
<1>5. ASSUME AnswersInAnthropic(ms), NEW i \in 1..n PROVE Meets(Before(ms, i), Given(ms, i))
  <2>1. CASE i = 1
    BY <1>1, <1>2, <1>5, <2>1 DEF Meets, Before
  <2>2. CASE i # 1
    <3>1. i - 1 \in 1..n /\ (i - 1) + 1 = i
      BY <1>1, <1>5, <2>2
    <3>2. CallIds(ms, i - 1) # {} => Given(ms, i) # <<>>
      BY <1>2, <1>5, <3>1
    <3>3. Before(ms, i) = CallIds(ms, i - 1)
      BY <2>2 DEF Before
    <3> QED BY <1>2, <1>5, <3>2, <3>3 DEF Meets
  <2> QED BY <2>1, <2>2
<1>6. ASSUME AnswersInAnthropic(ms) PROVE LastCalls(ms) = {}
  BY <1>1, <1>2, <1>4, <1>6
<1>7. ASSUME Open(ms), LastCalls(ms) = {} PROVE AnswersInAnthropic(ms)
  <2>1. ASSUME NEW i \in 1..n, CallIds(ms, i) # {} PROVE i + 1 \in 1..n /\ Given(ms, i + 1) # <<>>
    <3>1. i # n
      BY <1>1, <1>4, <1>7, <2>1
    <3>2. i + 1 \in 1..n /\ i + 1 # 1 /\ (i + 1) - 1 = i
      BY <1>1, <3>1
    <3>3. Before(ms, i + 1) = CallIds(ms, i)
      BY <3>2 DEF Before
    <3> QED BY <1>3, <1>7, <2>1, <3>2, <3>3 DEF Meets
  <2>2. ASSUME NEW i \in 1..n, Given(ms, i) # <<>>
        PROVE  /\ i > 1 /\ Ids(Given(ms, i)) = CallIds(ms, i - 1)
               /\ Len(Given(ms, i)) = Cardinality(CallIds(ms, i - 1))
    <3>1. Ids(Given(ms, i)) = Before(ms, i) /\ Len(Given(ms, i)) = Cardinality(Before(ms, i))
      BY <1>3, <1>7, <2>2 DEF Meets
    <3>2. Before(ms, i) # {}
      BY <1>1, <2>2, <3>1
    <3> QED BY <1>1, <3>1, <3>2 DEF Before
  <2> QED BY <1>2, <2>1, <2>2
<1> QED BY <1>3, <1>5, <1>6, <1>7

LEMMA OpenAppend ==
  ASSUME NEW ms, Over(ms, IMessages), NEW m \in IMessages
  PROVE  /\ Open(Append(ms, m)) <=> Open(ms) /\ Meets(LastCalls(ms), ResultsIn(m))
         /\ LastCalls(Append(ms, m)) = Ids(CallsIn(m))
<1> DEFINE n == Len(ms)
           t == Append(ms, m)
<1>1. n \in Nat /\ ms \in Seq(IMessages)
  BY DEF Over
<1>2. Len(t) = n + 1 /\ t[n + 1] = m /\ \A i \in 1..n : t[i] = ms[i]
  BY <1>1
<1> HIDE DEF t, n
<1>3. \A i \in 1..n : Given(t, i) = Given(ms, i) /\ CallIds(t, i) = CallIds(ms, i)
  BY <1>2 DEF Given, CallIds
<1>4. ASSUME NEW i \in 1..n PROVE Before(t, i) = Before(ms, i)
  <2>1. i = 1 \/ i - 1 \in 1..n
    BY <1>1
  <2> QED BY <1>3, <2>1 DEF Before
<1>5. Given(t, n + 1) = ResultsIn(m) /\ CallIds(t, n + 1) = Ids(CallsIn(m))
  BY <1>2 DEF Given, CallIds
<1>6. Before(t, n + 1) = LastCalls(ms)
  <2>1. LastCalls(ms) = IF n = 0 THEN {} ELSE CallIds(ms, n)
    BY DEF LastCalls, n
  <2>2. (n + 1 = 1) <=> (n = 0)
    BY <1>1
  <2>3. n # 0 => n \in 1..n /\ (n + 1) - 1 = n
    BY <1>1
  <2> QED BY <1>3, <2>1, <2>2, <2>3 DEF Before
<1>7. LastCalls(t) = Ids(CallsIn(m))
  BY <1>1, <1>2, <1>5 DEF LastCalls
<1>8. Open(t) <=> \A i \in 1..n + 1 : Meets(Before(t, i), Given(t, i))
  BY <1>2 DEF Open
<1>9. Open(ms) <=> \A i \in 1..n : Meets(Before(ms, i), Given(ms, i))
  BY DEF Open, n
<1>10. \A i \in 1..n + 1 : i \in 1..n \/ i = n + 1
  BY <1>1
<1>11. n + 1 \in 1..n + 1 /\ \A i \in 1..n : i \in 1..n + 1
  BY <1>1
<1> QED BY <1>3, <1>4, <1>5, <1>6, <1>7, <1>8, <1>9, <1>10, <1>11 DEF t

\* OpenAI's, of the messages that are there so far.
OCallIds(os, i) == Ids(CallsMade(os[i]))
Count(os, i)    == Cardinality(OCallIds(os, i))
IdsAt(os, a, b) == {os[j].tool_call_id : j \in a..b}

InOrder(os, i) ==
  /\ \A j \in i + 1 .. i + Count(os, i) : j <= Len(os) => os[j].role = "tool"
  /\ i + Count(os, i) <= Len(os) => IdsAt(os, i + 1, i + Count(os, i)) = OCallIds(os, i)
  /\ os[i].role = "tool" => \E k \in 1 .. i - 1 : i <= k + Count(os, k)

AllInOrder(os) == \A i \in 1..Len(os) : InOrder(os, i)

\* The first n have all their results.
Complete(os, n) == \A i \in 1..n : i + Count(os, i) <= Len(os)

LEMMA CountIs ==
  ASSUME NEW os, Over(os, OMessages)
  PROVE  /\ Len(os) \in Nat /\ DOMAIN os = 1..Len(os) /\ os \in Seq(OMessages)
         /\ \A i \in 1..Len(os) : /\ os[i] \in OMessages /\ Count(os, i) \in Nat
                                  /\ Count(os, i) = 0 <=> OCallIds(os, i) = {}
<1>1. Len(os) \in Nat /\ DOMAIN os = 1..Len(os) /\ os \in Seq(OMessages)
      /\ \A i \in 1..Len(os) : os[i] \in OMessages
  BY DEF Over
<1>2. ASSUME NEW m \in OMessages
      PROVE  /\ Cardinality(Ids(CallsMade(m))) \in Nat
             /\ Cardinality(Ids(CallsMade(m))) = 0 <=> Ids(CallsMade(m)) = {}
  <2>1. CallsMade(m) \in Seqs(CallsTold)
    BY OMessageIs
  <2>2. Over(CallsMade(m), CallsTold)
    BY <2>1, SeqsStrings
  <2> QED BY <2>2, IdsAre
<1> QED BY <1>1, <1>2 DEF Count, OCallIds

LEMMA OpenAIRule ==
  ASSUME NEW os, Over(os, OMessages)
  PROVE  AnswersInOpenAI(os) <=> AllInOrder(os) /\ Complete(os, Len(os))
<1> DEFINE n == Len(os)
<1>1. n \in Nat /\ DOMAIN os = 1..n /\ \A i \in 1..n : Count(os, i) \in Nat
  BY CountIs
<1>2. AnswersInOpenAI(os) <=>
        \A i \in 1..n :
          /\ i + Count(os, i) \in 1..n
          /\ \A j \in i + 1 .. i + Count(os, i) : os[j].role = "tool"
          /\ IdsAt(os, i + 1, i + Count(os, i)) = OCallIds(os, i)
          /\ os[i].role = "tool" => \E k \in 1 .. i - 1 : i <= k + Count(os, k)
  BY <1>1 DEF AnswersInOpenAI, Count, OCallIds, IdsAt
<1>3. AllInOrder(os) <=> \A i \in 1..n : InOrder(os, i)
  BY DEF AllInOrder
<1>4. Complete(os, n) <=> \A i \in 1..n : i + Count(os, i) <= n
  BY DEF Complete
<1> HIDE DEF n
<1>5. Len(os) = n
  BY DEF n
<1>6. ASSUME NEW i \in 1..n, i + Count(os, i) <= n
      PROVE  InOrder(os, i) <=>
               /\ \A j \in i + 1 .. i + Count(os, i) : os[j].role = "tool"
               /\ IdsAt(os, i + 1, i + Count(os, i)) = OCallIds(os, i)
               /\ os[i].role = "tool" => \E k \in 1 .. i - 1 : i <= k + Count(os, k)
  <2>1. Count(os, i) \in Nat
    BY <1>1
  <2>2. \A j \in i + 1 .. i + Count(os, i) : j <= n
    BY <1>1, <1>6, <2>1
  <2> QED BY <1>5, <1>6, <2>2 DEF InOrder
<1>7. \A i \in 1..n : i + Count(os, i) \in 1..n <=> i + Count(os, i) <= n
  BY <1>1
<1> QED BY <1>2, <1>3, <1>4, <1>6, <1>7 DEF n

\* What is said of the first messages is said whatever comes after them.
LEMMA FirstOf ==
  ASSUME NEW os, Over(os, OMessages), NEW t, Over(t, OMessages), Len(os) <= Len(t),
         \A i \in 1..Len(os) : t[i] = os[i]
  PROVE  /\ \A i \in 1..Len(os) : OCallIds(t, i) = OCallIds(os, i) /\ Count(t, i) = Count(os, i)
         /\ \A a, b \in Nat : a >= 1 /\ b <= Len(os) => IdsAt(t, a, b) = IdsAt(os, a, b)
<1>1. Len(os) \in Nat /\ Len(t) \in Nat
  BY CountIs
<1>2. \A i \in 1..Len(os) : OCallIds(t, i) = OCallIds(os, i) /\ Count(t, i) = Count(os, i)
  BY DEF OCallIds, Count
<1>3. ASSUME NEW a \in Nat, NEW b \in Nat, a >= 1, b <= Len(os) PROVE IdsAt(t, a, b) = IdsAt(os, a, b)
  <2>1. \A j \in a..b : t[j].tool_call_id = os[j].tool_call_id
    <3>1. \A j \in a..b : j \in 1..Len(os)
      BY <1>1, <1>3
    <3> QED BY <3>1
  <2> QED BY <2>1 DEF IdsAt
<1> QED BY <1>2, <1>3

\* One that has all its results is in order, whatever comes after them.
LEMMA StaysInOrder ==
  ASSUME NEW os, Over(os, OMessages), NEW t, Over(t, OMessages), Len(os) <= Len(t),
         \A i \in 1..Len(os) : t[i] = os[i],
         NEW i \in 1..Len(os), InOrder(os, i), i + Count(os, i) <= Len(os)
  PROVE  InOrder(t, i) /\ i + Count(t, i) <= Len(t)
<1>1. Len(os) \in Nat /\ Len(t) \in Nat /\ \A k \in 1..Len(os) : Count(os, k) \in Nat
  BY CountIs
<1>2. \A k \in 1..Len(os) : OCallIds(t, k) = OCallIds(os, k) /\ Count(t, k) = Count(os, k)
  BY FirstOf
<1> DEFINE e == i + Count(os, i)
<1>3. e \in Nat /\ i + 1 \in Nat /\ i + 1 >= 1 /\ e <= Len(os) /\ e <= Len(t)
      /\ i + Count(t, i) = e
  BY <1>1, <1>2
<1>4. IdsAt(t, i + 1, e) = IdsAt(os, i + 1, e)
  BY <1>3, FirstOf
<1>5. IdsAt(t, i + 1, e) = OCallIds(t, i)
  BY <1>2, <1>3, <1>4 DEF InOrder
<1>6. ASSUME NEW j \in i + 1 .. e PROVE t[j].role = "tool"
  <2>1. j \in 1..Len(os)
    BY <1>1, <1>3, <1>6
  <2>2. j <= Len(os)
    BY <1>1, <2>1
  <2>3. os[j].role = "tool"
    BY <2>2 DEF InOrder
  <2> QED BY <2>1, <2>3
<1>7. ASSUME t[i].role = "tool" PROVE \E k \in 1 .. i - 1 : i <= k + Count(t, k)
  <2>1. os[i].role = "tool"
    BY <1>7
  <2>2. PICK k \in 1 .. i - 1 : i <= k + Count(os, k)
    BY <2>1 DEF InOrder
  <2>3. k \in 1..Len(os)
    BY <1>1
  <2> QED BY <1>2, <2>2, <2>3
<1> HIDE DEF e
<1> QED BY <1>3, <1>5, <1>6, <1>7 DEF InOrder

\* A message that is no result comes when all results are there.
LEMMA OtherInOrder ==
  ASSUME NEW os, Over(os, OMessages), AllInOrder(os), Complete(os, Len(os)),
         NEW o \in OMessages, o.role # "tool"
  PROVE  LET t == Append(os, o) IN
         /\ Over(t, OMessages) /\ AllInOrder(t) /\ Complete(t, Len(os)) /\ Len(t) = Len(os) + 1
         /\ OCallIds(t, Len(t)) = Ids(CallsMade(o))
         /\ Ids(CallsMade(o)) = {} => Complete(t, Len(t))
<1> DEFINE n == Len(os)
           t == Append(os, o)
<1>1. n \in Nat /\ os \in Seq(OMessages) /\ \A k \in 1..n : Count(os, k) \in Nat
  BY CountIs
<1>2. Over(t, OMessages)
  BY OverMade
<1>3. Len(t) = n + 1 /\ t[n + 1] = o /\ \A i \in 1..n : t[i] = os[i]
  BY <1>1
<1> HIDE DEF t
<1>4. ASSUME NEW i \in 1..n PROVE InOrder(t, i) /\ i + Count(t, i) <= Len(t)
  <2>1. InOrder(os, i) /\ i + Count(os, i) <= Len(os)
    BY DEF AllInOrder, Complete
  <2>2. Len(os) <= Len(t)
    BY <1>1, <1>3
  <2> QED BY <1>2, <1>3, <2>1, <2>2, StaysInOrder
<1>5. OCallIds(t, n + 1) = Ids(CallsMade(o))
  BY <1>3 DEF OCallIds
<1>6. Count(t, n + 1) \in Nat /\ (Count(t, n + 1) = 0 <=> OCallIds(t, n + 1) = {})
  BY <1>1, <1>2, <1>3, CountIs
<1>7. InOrder(t, n + 1)
  <2>1. \A j \in (n + 1) + 1 .. (n + 1) + Count(t, n + 1) : ~(j <= Len(t))
    BY <1>1, <1>3, <1>6
  <2>2. ASSUME (n + 1) + Count(t, n + 1) <= Len(t)
        PROVE  IdsAt(t, (n + 1) + 1, (n + 1) + Count(t, n + 1)) = OCallIds(t, n + 1)
    <3>1. Count(t, n + 1) = 0
      BY <1>1, <1>3, <1>6, <2>2
    <3>2. (n + 1) + 1 .. (n + 1) + Count(t, n + 1) = {}
      BY <1>1, <3>1
    <3>3. IdsAt(t, (n + 1) + 1, (n + 1) + Count(t, n + 1)) = {}
      BY <3>2 DEF IdsAt
    <3> QED BY <1>6, <3>1, <3>3
  <2>3. t[n + 1].role # "tool"
    BY <1>3
  <2> QED BY <2>1, <2>2, <2>3 DEF InOrder
<1> HIDE DEF n
<1>8. AllInOrder(t)
  <2>1. \A i \in 1..n + 1 : i \in 1..n \/ i = n + 1
    BY <1>1
  <2> QED BY <1>3, <1>4, <1>7, <2>1 DEF AllInOrder
<1>9. Complete(t, n)
  BY <1>4 DEF Complete
<1>10. Ids(CallsMade(o)) = {} => Complete(t, n + 1)
  <2>1. Ids(CallsMade(o)) = {} => (n + 1) + Count(t, n + 1) <= Len(t)
    BY <1>1, <1>3, <1>5, <1>6
  <2>2. \A i \in 1..n + 1 : i \in 1..n \/ i = n + 1
    BY <1>1
  <2> QED BY <1>4, <2>1, <2>2 DEF Complete
<1> QED BY <1>2, <1>3, <1>5, <1>8, <1>9, <1>10 DEF t, n

\* The results of the last message's calls, all at once.
LEMMA ResultsInOrder ==
  ASSUME NEW os, Over(os, OMessages), AllInOrder(os), NEW n \in Nat, Len(os) = n + 1, Complete(os, n),
         NEW rs, Over(rs, Answers), Len(rs) = Count(os, n + 1),
         {rs[j].tool_call_id : j \in 1..Len(rs)} = OCallIds(os, n + 1)
  PROVE  Over(os \o rs, OMessages) /\ AllInOrder(os \o rs) /\ Complete(os \o rs, Len(os \o rs))
<1> DEFINE t == os \o rs
           c == Len(rs)
<1>1. os \in Seq(OMessages) /\ rs \in Seq(OMessages) /\ c \in Nat
      /\ \A j \in 1..c : rs[j] \in OMessages /\ rs[j].role = "tool" /\ OCallsF[rs[j]] = <<>>
  <2>1. \A j \in 1..c : rs[j] \in Answers
    BY DEF Over
  <2>2. rs \in Seq(OMessages)
    BY OverMore DEF Answers, Over
  <2> QED BY <2>1, <2>2, CountIs, AnswersSay DEF Answers
<1>2. Len(t) = n + 1 + c /\ Over(t, OMessages)
      /\ (\A i \in 1..n + 1 : t[i] = os[i]) /\ (\A j \in 1..c : t[n + 1 + j] = rs[j])
  <2>1. Len(t) = Len(os) + c /\ t \in Seq(OMessages)
    BY <1>1
  <2>2. \A i \in 1..Len(os) + c : t[i] = IF i <= Len(os) THEN os[i] ELSE rs[i - Len(os)]
    BY <1>1
  <2> HIDE DEF t, c
  <2>3. \A i \in 1..n + 1 : t[i] = os[i]
    BY <1>1, <2>2
  <2>4. ASSUME NEW j \in 1..c PROVE t[n + 1 + j] = rs[j]
    <3>1. n + 1 + j \in 1..Len(os) + c /\ ~(n + 1 + j <= Len(os)) /\ (n + 1 + j) - Len(os) = j
      BY <1>1
    <3> QED BY <2>2, <3>1
  <2> QED BY <2>1, <2>3, <2>4 DEF Over
<1> HIDE DEF t, c
<1>0. c = Len(rs)
  BY DEF c
<1>3. Len(os) <= Len(t)
  BY <1>1, <1>2
<1>4. ASSUME NEW i \in 1..n PROVE InOrder(t, i) /\ i + Count(t, i) <= Len(t)
  <2>1. i \in 1..Len(os)
    OBVIOUS
  <2>2. InOrder(os, i) /\ i + Count(os, i) <= Len(os)
    BY <2>1 DEF AllInOrder, Complete
  <2> QED BY <1>2, <1>3, <2>1, <2>2, StaysInOrder
<1>5. OCallIds(t, n + 1) = OCallIds(os, n + 1) /\ Count(t, n + 1) = c
  <2>1. n + 1 \in 1..Len(os)
    OBVIOUS
  <2> QED BY <1>0, <1>2, <1>3, <2>1, FirstOf
<1>6. ASSUME NEW j \in n + 2 .. n + 1 + c
      PROVE  /\ t[j].role = "tool" /\ t[j].tool_call_id = rs[j - (n + 1)].tool_call_id
             /\ OCallIds(t, j) = {} /\ Count(t, j) = 0
  <2> DEFINE k == j - (n + 1)
  <2>1. k \in 1..c /\ n + 1 + k = j
    BY <1>1
  <2> HIDE DEF k
  <2>2. t[j] = rs[k]
    BY <1>2, <2>1
  <2>3. CallsMade(t[j]) = <<>>
    BY <1>1, <2>1, <2>2 DEF OCallsF
  <2>4. Over(<<>>, CallsTold)
    BY OverMade
  <2>5. OCallIds(t, j) = {}
    BY <2>3, <2>4, IdsAre DEF OCallIds
  <2>6. j \in 1..Len(t)
    BY <1>1, <1>2
  <2>7. Count(t, j) = 0
    BY <1>2, <2>5, <2>6, CountIs
  <2> QED BY <1>1, <2>1, <2>2, <2>5, <2>7 DEF k
<1>7. IdsAt(t, (n + 1) + 1, (n + 1) + c) = OCallIds(t, n + 1)
  <2>1. \A j \in 1..c : (n + 1 + j) \in n + 2 .. n + 1 + c /\ (n + 1 + j) - (n + 1) = j
    BY <1>1
  <2>2. \A j \in n + 2 .. n + 1 + c : j - (n + 1) \in 1..c
    BY <1>1
  <2>3. (n + 1) + 1 = n + 2 /\ (n + 1) + c = n + 1 + c
    BY <1>1
  <2>4. {t[j].tool_call_id : j \in n + 2 .. n + 1 + c} = {rs[j].tool_call_id : j \in 1..c}
    BY <1>6, <2>1, <2>2
  <2> QED BY <1>0, <1>5, <2>3, <2>4 DEF IdsAt
<1>8. InOrder(t, n + 1) /\ (n + 1) + Count(t, n + 1) <= Len(t)
  <2>1. os[n + 1].role = "tool" => \E k \in 1 .. (n + 1) - 1 : n + 1 <= k + Count(os, k)
    BY DEF AllInOrder, InOrder
  <2>2. \A k \in 1 .. (n + 1) - 1 : k \in 1..Len(os)
    OBVIOUS
  <2>3. \A k \in 1 .. (n + 1) - 1 : Count(t, k) = Count(os, k)
    BY <1>2, <1>3, <2>2, FirstOf
  <2>4. t[n + 1].role = "tool" => \E k \in 1 .. (n + 1) - 1 : n + 1 <= k + Count(t, k)
    BY <1>2, <2>1, <2>3
  <2>5. \A j \in (n + 1) + 1 .. (n + 1) + c : t[j].role = "tool"
    BY <1>1, <1>6
  <2>6. (n + 1) + Count(t, n + 1) <= Len(t)
    BY <1>1, <1>2, <1>5
  <2> QED BY <1>5, <1>7, <2>4, <2>5, <2>6 DEF InOrder
<1>9. ASSUME NEW j \in n + 2 .. n + 1 + c PROVE InOrder(t, j) /\ j + Count(t, j) <= Len(t)
  <2>1. j \in Nat /\ Count(t, j) = 0 /\ OCallIds(t, j) = {}
    BY <1>6
  <2>2. j + 1 .. j + Count(t, j) = {} /\ j + Count(t, j) = j
    BY <2>1
  <2>3. IdsAt(t, j + 1, j + Count(t, j)) = OCallIds(t, j)
    BY <2>1, <2>2 DEF IdsAt
  <2>4. n + 1 \in 1 .. j - 1 /\ j <= (n + 1) + Count(t, n + 1)
    BY <1>1, <1>5
  <2>5. j <= Len(t)
    BY <1>1, <1>2
  <2> QED BY <2>2, <2>3, <2>4, <2>5 DEF InOrder
<1>10. \A i \in 1..Len(t) : i \in 1..n \/ i = n + 1 \/ i \in n + 2 .. n + 1 + c
  BY <1>1, <1>2
<1>11. AllInOrder(t)
  BY <1>4, <1>8, <1>9, <1>10 DEF AllInOrder
<1>12. Complete(t, Len(t))
  BY <1>4, <1>8, <1>9, <1>10 DEF Complete
<1> QED BY <1>2, <1>11, <1>12 DEF t

-------------------------------------------------------------------------------
(* convertToOpenAI keeps the rules.                                            *)

\* What is said by the results, one each.
AnswerTold == [o \in Answers |-> <<o.tool_call_id, StringOr(o.content)>>]

LEMMA AnswersTell ==
  ASSUME NEW rs, Over(rs, Answers)
  PROVE  /\ Len(Total(OResultsF, rs)) = Len(rs)
         /\ Ids(Total(OResultsF, rs)) = {rs[j].tool_call_id : j \in 1..Len(rs)}
<1>1. DOMAIN rs = 1..Len(rs) /\ Len(rs) \in Nat /\ \A j \in 1..Len(rs) : rs[j] \in Answers
  BY DEF Over
<1>2. ASSUME NEW o \in Answers
      PROVE  AnswerTold[o] \in ResultsTold /\ OResultsF[o] = <<AnswerTold[o]>>
             /\ AnswerTold[o][1] = o.tool_call_id
  <2>1. o \in OMessages /\ o.role = "tool" /\ o.tool_call_id \in Atoms
    BY DEF Answers, OMessages
  <2>2. StringOr(o.content) \in Texts
    BY <2>1, OMessageIs
  <2>3. AnswerTold[o] = <<o.tool_call_id, StringOr(o.content)>>
    BY DEF AnswerTold
  <2>4. AnswerTold[o] \in ResultsTold
    BY <2>1, <2>2, <2>3 DEF ResultsTold
  <2>5. OResultsF[o] = <<<<o.tool_call_id, StringOr(o.content)>>>>
    BY <2>1 DEF OResultsF, ResultRead
  <2>6. AnswerTold[o][1] = o.tool_call_id
    BY <2>3
  <2> QED BY <2>3, <2>4, <2>5, <2>6, Zenon
<1>3. Total(OResultsF, rs) = PartsOf(AnswerTold, rs)
  <2>1. \A o \in Answers : AnswerTold[o] \in ResultsTold /\ OResultsF[o] = <<AnswerTold[o]>>
    BY <1>2
  <2> QED BY <2>1, TotalEach
<1>4. PartsOf(AnswerTold, rs) \in Seq(ResultsTold) /\ Len(PartsOf(AnswerTold, rs)) = Len(rs)
  BY <1>2, PartsType
<1>5. \A j \in 1..Len(rs) : PartsOf(AnswerTold, rs)[j][1] = rs[j].tool_call_id
  BY <1>1, <1>2, PartAt
<1>6. DOMAIN PartsOf(AnswerTold, rs) = 1..Len(rs)
  BY PartsDomain
<1>7. Ids(PartsOf(AnswerTold, rs)) = {rs[j].tool_call_id : j \in 1..Len(rs)}
  BY <1>5, <1>6 DEF Ids
<1> QED BY <1>3, <1>4, <1>7

LEMMA AssistantIs ==
  ASSUME NEW m \in IMessages, m.role = "assistant"
  PROVE  /\ ResultsIn(m) = <<>>
         /\ \E o \in OMessages : FromF[m] = <<o>> /\ o.role # "tool" /\ CallsMade(o) = CallsIn(m)
<1>1. PICK o \in OMessages : FromMessage(m) = <<o>> /\ SaysAs(o, m) /\ o.role = "assistant"
  BY FromAssistantSays
<1>2. OResultsF[o] = <<>>
  BY <1>1 DEF OResultsF, ResultRead
<1>3. CallsMade(o) = CallsIn(m) /\ ResultsIn(m) = <<>>
  BY <1>1, <1>2 DEF SaysAs, CallsF, OCallsF, ResultsF
<1> QED BY <1>1, <1>3 DEF FromF

\* Results first, then at most one message, of text.
LEMMA UserIs ==
  ASSUME NEW m \in IMessages, m.role = "user"
  PROVE  /\ CallsIn(m) = <<>>
         /\ \E rs, tail : /\ FromF[m] = rs \o tail
                          /\ Over(rs, Answers) /\ Len(rs) = Len(ResultsIn(m))
                          /\ {rs[j].tool_call_id : j \in 1..Len(rs)} = Ids(ResultsIn(m))
                          /\ \/ tail = <<>>
                             \/ \E o \in OMessages : tail = <<o>> /\ o.role # "tool" /\ CallsMade(o) = <<>>
<1> DEFINE s == m.content
           rs == Each(ResultOf, Of("tool_result", s))
           o == OpenAIMessage("user", ContentOf(s))
           tail == IF Of("text", s) = <<>> THEN <<>> ELSE <<o>>
<1>1. FromF[m] = rs \o tail
  BY DEF FromF, FromMessage, FromUser
<1>2. Over(s, Parts) /\ Over(s, UserParts) /\ ResultsIn(m) = Total(ResultF, s)
      /\ CallsIn(m) = Total(CallF, s)
  BY MessageIs
<1>3. ContentOf(s) \in OpenAIContents
  BY <1>2, ContentIs
<1> HIDE DEF s
<1>4. Over(rs, Answers) /\ Total(OResultsF, rs) = Total(ResultF, s)
  BY <1>2, ResultsSay
<1> HIDE DEF rs
<1>5. Len(rs) = Len(ResultsIn(m)) /\ {rs[j].tool_call_id : j \in 1..Len(rs)} = Ids(ResultsIn(m))
  BY <1>2, <1>4, AnswersTell
<1>6. o \in OMessages /\ o.role # "tool" /\ o.tool_calls = NoCalls
  <2>1. Absent \in Atoms
    BY ConversionAssumption
  <2> QED BY <1>3, <2>1 DEF OpenAIMessage, OMessages
<1> HIDE DEF o
<1>7. CallsMade(o) = <<>>
  BY <1>6, CallsMadeIs
<1>8. tail = <<>> \/ tail = <<o>>
  OBVIOUS
<1>9. CallsIn(m) = <<>>
  <2>1. \A b \in UserParts : CallF[b] = <<>>
    <3>1. \A b \in UserParts : b \in Parts /\ b.type # "tool_use"
      BY DEF UserParts, Parts, TextBlocks, Decoded0, Thoughts, Results
    <3> QED BY <3>1 DEF CallF
  <2> QED BY <1>2, <2>1, TotalNone
<1> HIDE DEF tail
<1> QED BY <1>1, <1>4, <1>5, <1>6, <1>7, <1>8, <1>9, Zenon

\* The converted messages, while the last one's calls may still be without results.
Matches(ms, os) ==
  /\ Over(os, OMessages) /\ AllInOrder(os)
  /\ LastCalls(ms) = {} => Complete(os, Len(os))
  /\ LastCalls(ms) # {} => /\ Len(os) # 0 /\ Complete(os, Len(os) - 1)
                           /\ OCallIds(os, Len(os)) = LastCalls(ms)

LEMMA NoIds == Ids(<<>>) = {}
BY DEF Ids

LEMMA MatchesAssistant ==
  ASSUME NEW ms, Over(ms, IMessages), NEW m \in IMessages, m.role = "assistant",
         NEW os, Matches(ms, os), Open(Append(ms, m))
  PROVE  Matches(Append(ms, m), os \o FromF[m])
<1>1. ResultsIn(m) = <<>>
  BY AssistantIs
<1>2. PICK o \in OMessages : FromF[m] = <<o>> /\ o.role # "tool" /\ CallsMade(o) = CallsIn(m)
  BY AssistantIs
<1>3. Meets(LastCalls(ms), ResultsIn(m)) /\ LastCalls(Append(ms, m)) = Ids(CallsIn(m))
  BY OpenAppend
<1>4. LastCalls(ms) = {}
  BY <1>1, <1>3 DEF Meets
<1>5. Over(os, OMessages) /\ AllInOrder(os) /\ Complete(os, Len(os))
  BY <1>4 DEF Matches
<1> DEFINE t == Append(os, o)
           n == Len(os)
<1>6. os \o FromF[m] = t
  <2>1. os \o <<o>> = Append(os, o)
    BY <1>5 DEF Over
  <2> QED BY <1>2, <2>1
<1>7. /\ Over(t, OMessages) /\ AllInOrder(t) /\ Complete(t, n) /\ Len(t) = n + 1
      /\ OCallIds(t, Len(t)) = Ids(CallsMade(o))
      /\ Ids(CallsMade(o)) = {} => Complete(t, Len(t))
  BY <1>2, <1>5, OtherInOrder
<1> HIDE DEF t, n
<1>8. n \in Nat /\ Len(t) # 0 /\ Len(t) - 1 = n
  <2>1. n \in Nat
    BY <1>5, CountIs DEF n
  <2> QED BY <1>7, <2>1
<1>9. Matches(Append(ms, m), t)
  BY <1>2, <1>3, <1>7, <1>8 DEF Matches
<1> QED BY <1>6, <1>9

LEMMA MatchesUser ==
  ASSUME NEW ms, Over(ms, IMessages), NEW m \in IMessages, m.role = "user",
         NEW os, Matches(ms, os), Open(Append(ms, m))
  PROVE  Matches(Append(ms, m), os \o FromF[m])
<1>1. CallsIn(m) = <<>>
  BY UserIs
<1>2. PICK rs, tail : /\ FromF[m] = rs \o tail
                      /\ Over(rs, Answers) /\ Len(rs) = Len(ResultsIn(m))
                      /\ {rs[j].tool_call_id : j \in 1..Len(rs)} = Ids(ResultsIn(m))
                      /\ \/ tail = <<>>
                         \/ \E o \in OMessages : tail = <<o>> /\ o.role # "tool" /\ CallsMade(o) = <<>>
  BY UserIs, Zenon
<1>3. Meets(LastCalls(ms), ResultsIn(m)) /\ LastCalls(Append(ms, m)) = {}
  BY <1>1, OpenAppend, NoIds
<1>4. Over(os, OMessages) /\ AllInOrder(os)
  BY DEF Matches
<1>5. os \in Seq(OMessages) /\ Len(os) \in Nat
  BY <1>4, CountIs
<1>6. rs \in Seq(OMessages) /\ Len(rs) \in Nat
  <2>1. Over(rs, OMessages)
    BY <1>2, OverMore DEF Answers
  <2> QED BY <2>1 DEF Over
<1>7. ResultsIn(m) = <<>> <=> Len(rs) = 0
  <2>1. Over(ResultsIn(m), ResultsTold)
    <3>1. ResultsIn(m) \in Seqs(ResultsTold)
      BY MessageIs
    <3> QED BY <3>1, SeqsStrings
  <2> QED BY <1>2, <2>1 DEF Over
<1> DEFINE t == os \o rs
<1>8. Over(t, OMessages) /\ AllInOrder(t) /\ Complete(t, Len(t))
  <2>1. CASE ResultsIn(m) = <<>>
    <3>1. LastCalls(ms) = {}
      BY <1>3, <2>1 DEF Meets
    <3>2. rs = <<>>
      BY <1>6, <1>7, <2>1
    <3>3. t = os
      BY <1>5, <3>2
    <3>4. Complete(os, Len(os))
      BY <3>1 DEF Matches
    <3> QED BY <1>4, <3>3, <3>4, Zenon
  <2>2. CASE ResultsIn(m) # <<>>
    <3>1. Ids(ResultsIn(m)) = LastCalls(ms) /\ Len(ResultsIn(m)) = Cardinality(LastCalls(ms))
      BY <1>3, <2>2 DEF Meets
    <3>2. LastCalls(ms) # {}
      <4>1. Over(ResultsIn(m), ResultsTold)
        <5>1. ResultsIn(m) \in Seqs(ResultsTold)
          BY MessageIs
        <5> QED BY <5>1, SeqsStrings
      <4> QED BY <2>2, <3>1, <4>1, IdsAre
    <3>3. Len(os) # 0 /\ Complete(os, Len(os) - 1) /\ OCallIds(os, Len(os)) = LastCalls(ms)
      BY <3>2 DEF Matches
    <3> DEFINE n == Len(os) - 1
    <3>4. n \in Nat /\ Len(os) = n + 1
      BY <1>5, <3>3
    <3>5. Complete(os, n) /\ OCallIds(os, n + 1) = LastCalls(ms)
      BY <3>3, <3>4, Zenon
    <3> HIDE DEF n
    <3>6. Len(rs) = Count(os, n + 1) /\ {rs[j].tool_call_id : j \in 1..Len(rs)} = OCallIds(os, n + 1)
      BY <1>2, <3>1, <3>5 DEF Count
    <3> QED BY <1>2, <1>4, <3>4, <3>5, <3>6, ResultsInOrder
  <2> QED BY <2>1, <2>2
<1> HIDE DEF t
<1>9. t \in Seq(OMessages)
  BY <1>8, CountIs
<1>10. CASE tail = <<>>
  <2>1. os \o FromF[m] = t
    <3>1. rs \o <<>> = rs
      BY <1>6
    <3> QED BY <1>2, <1>10, <3>1 DEF t
  <2>2. Matches(Append(ms, m), t)
    BY <1>3, <1>8 DEF Matches
  <2> QED BY <2>1, <2>2
<1>11. CASE tail # <<>>
  <2>1. PICK o \in OMessages : tail = <<o>> /\ o.role # "tool" /\ CallsMade(o) = <<>>
    BY <1>2, <1>11
  <2>2. os \o FromF[m] = Append(t, o)
    <3>1. os \o (rs \o <<o>>) = Append(os \o rs, o)
      BY <1>5, <1>6
    <3> QED BY <1>2, <2>1, <3>1 DEF t
  <2>3. /\ Over(Append(t, o), OMessages) /\ AllInOrder(Append(t, o))
        /\ Complete(Append(t, o), Len(Append(t, o)))
    <3>1. Ids(CallsMade(o)) = {}
      BY <2>1, NoIds
    <3> QED BY <1>8, <2>1, <3>1, OtherInOrder
  <2>4. Matches(Append(ms, m), Append(t, o))
    BY <1>3, <2>3 DEF Matches
  <2> QED BY <2>2, <2>4
<1> QED BY <1>10, <1>11

LEMMA ThreeStrings ==
  ASSUME NEW T, Strings(T), NEW u \in T, NEW v \in T, NEW w \in T
  PROVE  u \o (v \o w) = (u \o v) \o w
BY DEF Strings

LEMMA ToOpenAIAnswers ==
  ASSUME NEW req, Over(req.messages, IMessages), SystemText(req.system) \in Texts,
         AnswersInAnthropic(req.messages)
  PROVE  AnswersInOpenAI(convertToOpenAI(req).messages)
<1> DEFINE system == SystemText(req.system)
           o == OpenAIMessage("system", system)
           head == IF system = <<>> THEN <<>> ELSE <<o>>
           G(ms) == head \o Total(FromF, ms)
           Q == {ms \in Seq(IMessages) : Open(ms) => Matches(ms, G(ms))}
<1>1. convertToOpenAI(req).messages = G(req.messages)
  <2>1. \A i \in DOMAIN req.messages : req.messages[i] \in IMessages
    BY DEF Over
  <2>2. Each(FromMessage, req.messages) = PartsOf(FromF, req.messages)
    BY <2>1 DEF Each, PartsOf, FromF
  <2> QED BY <2>2, Zenon DEF convertToOpenAI, Total
<1> HIDE DEF system
<1>2. o \in OMessages /\ o.role # "tool" /\ CallsMade(o) = <<>>
  <2>1. Absent \in Atoms /\ system \in Texts
    BY ConversionAssumption DEF system
  <2>2. o \in OMessages /\ o.role # "tool" /\ o.tool_calls = NoCalls
    <3>1. system \in OpenAIContents
      BY <2>1 DEF OpenAIContents
    <3> QED BY <2>1, <3>1 DEF OpenAIMessage, OMessages
  <2> QED BY <2>2, CallsMadeIs
<1> HIDE DEF o
<1>3. Over(<<>>, OMessages) /\ AllInOrder(<<>>) /\ Complete(<<>>, Len(<<>>))
  <2>1. Over(<<>>, OMessages)
    BY OverMade
  <2> QED BY <2>1 DEF AllInOrder, Complete
<1>4. Over(head, OMessages) /\ AllInOrder(head) /\ Complete(head, Len(head))
  <2>1. CASE system = <<>>
    BY <1>3, <2>1
  <2>2. CASE system # <<>>
    <3>1. Append(<<>>, o) = <<o>> /\ head = <<o>>
      BY <2>2
    <3>2. Ids(CallsMade(o)) = {}
      BY <1>2, NoIds
    <3>3. LET t == Append(<<>>, o) IN Over(t, OMessages) /\ AllInOrder(t) /\ Complete(t, Len(t))
      BY <1>2, <1>3, <3>2, OtherInOrder
    <3> QED BY <3>1, <3>3, Zenon
  <2> QED BY <2>1, <2>2
<1> HIDE DEF head
<1>5. head \in Seq(OMessages)
  BY <1>4 DEF Over
<1>6. <<>> \in Q
  <2>1. Total(FromF, <<>>) = <<>>
    BY TotalEmpty
  <2>2. G(<<>>) = head
    BY <1>5, <2>1
  <2>3. LastCalls(<<>>) = {}
    BY DEF LastCalls
  <2>4. Matches(<<>>, head)
    BY <1>4, <2>3 DEF Matches
  <2>5. <<>> \in Seq(IMessages)
    OBVIOUS
  <2> QED BY <2>2, <2>4, <2>5
<1>7. ASSUME NEW ms, Over(ms, IMessages), ms \in Q, NEW m \in IMessages PROVE Append(ms, m) \in Q
  <2>1. Append(ms, m) \in Seq(IMessages)
    BY <1>7 DEF Over
  <2>2. ASSUME Open(Append(ms, m)) PROVE Matches(Append(ms, m), G(Append(ms, m)))
    <3>1. Open(ms)
      BY <1>7, <2>2, OpenAppend
    <3>2. Matches(ms, G(ms))
      BY <1>7, <3>1
    <3>3. G(Append(ms, m)) = G(ms) \o FromF[m]
      <4>1. Total(FromF, Append(ms, m)) = Total(FromF, ms) \o FromF[m]
        BY <1>7, FromAdds, TotalAppend
      <4>2. Total(FromF, ms) \in Seqs(OMessages)
        BY <1>7, FromAdds, TotalType
      <4>3. FromF[m] \in Seqs(OMessages) /\ Strings(Seqs(OMessages))
        BY FromAdds DEF Adds
      <4>4. head \in Seqs(OMessages)
        BY <1>5 DEF Seqs
      <4>5. head \o (Total(FromF, ms) \o FromF[m]) = (head \o Total(FromF, ms)) \o FromF[m]
        <5> DEFINE u == Total(FromF, ms)
                   v == FromF[m]
                   T == Seqs(OMessages)
        <5>1. Strings(T) /\ head \in T /\ u \in T /\ v \in T
          BY <4>2, <4>3, <4>4
        <5> HIDE DEF u, v, T
        <5>2. head \o (u \o v) = (head \o u) \o v
          BY <5>1, ThreeStrings
        <5> QED BY <5>2 DEF u, v
      <4> QED BY <4>1, <4>5
    <3>4. m.role \in {"user", "assistant"}
      BY MessageIs
    <3> HIDE DEF G
    <3>5. Matches(Append(ms, m), G(ms) \o FromF[m])
      BY <1>7, <2>2, <3>2, <3>4, MatchesAssistant, MatchesUser
    <3> QED BY <3>3, <3>5
  <2> QED BY <2>1, <2>2
<1> HIDE DEF Q
<1>8. req.messages \in Q
  BY <1>6, <1>7, OverInduction
<1>9. Open(req.messages) /\ LastCalls(req.messages) = {}
  BY AnthropicRule
<1>10. Matches(req.messages, G(req.messages))
  BY <1>8, <1>9 DEF Q
<1> HIDE DEF G
<1>11. AnswersInOpenAI(G(req.messages))
  BY <1>9, <1>10, OpenAIRule DEF Matches
<1> QED BY <1>1, <1>11

-------------------------------------------------------------------------------
(* OpenAIToAnthropic keeps the rules.                                          *)

\* Of the messages that have come, all but those of q's message k have their
\* results, and what k's calls have of them is pending.
Settled(q, s) ==
  /\ s.pending = <<>> /\ Over(s.msgs, IMessages) /\ Open(s.msgs)
  /\ LastCalls(s.msgs) = {} /\ Complete(q, Len(q))

Awaits(q, s, k) ==
  /\ k \in 1..Len(q) /\ OCallIds(q, k) # {} /\ Len(q) <= k + Count(q, k)
  /\ Over(s.msgs, IMessages) /\ Open(s.msgs) /\ LastCalls(s.msgs) = OCallIds(q, k)
  /\ Over(s.pending, Results) /\ Len(s.pending) = Len(q) - k
  /\ \A j \in 1..Len(q) - k : s.pending[j].tool_use_id = q[k + j].tool_call_id
  /\ \A i \in 1..Len(q) : i # k => i + Count(q, i) <= Len(q)

Pairs(q, s) == Settled(q, s) \/ \E k \in 1..Len(q) : Awaits(q, s, k)

\* What is in order was so before the last message came.
LEMMA OrderBefore ==
  ASSUME NEW q, Over(q, OMessages), NEW x \in OMessages, AllInOrder(Append(q, x))
  PROVE  /\ AllInOrder(q)
         /\ x.role = "tool" => \E k \in 1..Len(q) : Len(q) + 1 <= k + Count(q, k)
         /\ x.role # "tool" => Complete(q, Len(q))
<1> DEFINE n == Len(q)
           t == Append(q, x)
<1>1. n \in Nat /\ q \in Seq(OMessages) /\ \A k \in 1..n : Count(q, k) \in Nat
  BY CountIs
<1>2. Over(t, OMessages)
  BY OverMade
<1>3. Len(t) = n + 1 /\ t[n + 1] = x /\ \A i \in 1..n : t[i] = q[i]
  BY <1>1
<1> HIDE DEF t, n
<1>0. n = Len(q) /\ AllInOrder(t)
  BY DEF n, t
<1>4. \A i \in 1..n : OCallIds(t, i) = OCallIds(q, i) /\ Count(t, i) = Count(q, i)
  <2>1. Len(q) <= Len(t)
    BY <1>0, <1>1, <1>3
  <2> QED BY <1>0, <1>2, <1>3, <2>1, FirstOf
<1>5. ASSUME NEW i \in 1..n PROVE InOrder(q, i)
  <2>1. InOrder(t, i) /\ i \in 1..Len(t)
    BY <1>0, <1>1, <1>3 DEF AllInOrder
  <2> DEFINE e == i + Count(q, i)
  <2>2. e \in Nat /\ i + Count(t, i) = e /\ i + 1 \in Nat /\ i + 1 >= 1
    BY <1>1, <1>4
  <2>3. ASSUME NEW j \in i + 1 .. e, j <= n PROVE q[j].role = "tool"
    <3>1. j \in 1..n /\ j <= Len(t)
      BY <1>1, <1>3, <2>2, <2>3
    <3>2. t[j].role = "tool"
      BY <2>1, <2>2, <3>1 DEF InOrder
    <3> QED BY <1>3, <3>1, <3>2
  <2>4. ASSUME e <= n PROVE IdsAt(q, i + 1, e) = OCallIds(q, i)
    <3>1. e <= Len(t) /\ Len(q) <= Len(t)
      BY <1>0, <1>1, <1>3, <2>2, <2>4
    <3>2. IdsAt(t, i + 1, e) = OCallIds(t, i)
      BY <2>1, <2>2, <3>1 DEF InOrder
    <3>3. IdsAt(t, i + 1, e) = IdsAt(q, i + 1, e)
      BY <1>0, <1>2, <1>3, <2>2, <2>4, <3>1, FirstOf
    <3> QED BY <1>4, <3>2, <3>3
  <2>5. ASSUME q[i].role = "tool" PROVE \E k \in 1 .. i - 1 : i <= k + Count(q, k)
    <3>1. t[i].role = "tool"
      BY <1>3, <2>5
    <3>2. PICK k \in 1 .. i - 1 : i <= k + Count(t, k)
      BY <2>1, <3>1 DEF InOrder
    <3>3. k \in 1..n
      BY <1>1
    <3> QED BY <1>4, <3>2, <3>3
  <2> HIDE DEF e
  <2>6. e = i + Count(q, i)
    BY DEF e
  <2> QED BY <1>0, <2>3, <2>4, <2>5, <2>6 DEF InOrder
<1>6. AllInOrder(q)
  BY <1>0, <1>5 DEF AllInOrder
<1>7. ASSUME x.role = "tool" PROVE \E k \in 1..n : n + 1 <= k + Count(q, k)
  <2>1. InOrder(t, n + 1)
    BY <1>0, <1>1, <1>3 DEF AllInOrder
  <2>2. PICK k \in 1 .. (n + 1) - 1 : n + 1 <= k + Count(t, k)
    BY <1>3, <1>7, <2>1 DEF InOrder
  <2>3. k \in 1..n
    BY <1>1
  <2> QED BY <1>4, <2>2, <2>3
<1>8. ASSUME x.role # "tool", NEW i \in 1..n PROVE i + Count(q, i) <= n
  <2> SUFFICES ASSUME ~(i + Count(q, i) <= n) PROVE FALSE
    OBVIOUS
  <2>1. InOrder(t, i) /\ Count(t, i) = Count(q, i) /\ Count(q, i) \in Nat
    BY <1>0, <1>1, <1>3, <1>4 DEF AllInOrder
  <2>2. n + 1 \in i + 1 .. i + Count(t, i) /\ n + 1 <= Len(t)
    BY <1>1, <1>3, <2>1
  <2>3. t[n + 1].role = "tool"
    BY <2>1, <2>2 DEF InOrder
  <2> QED BY <1>3, <1>8, <2>3
<1> QED BY <1>0, <1>6, <1>7, <1>8 DEF Complete

\* What is pending, as results.
ResultTold == [b \in Results |-> <<b.tool_use_id, JoinedText(b.content)>>]

LEMMA PendingTells ==
  ASSUME NEW u, Over(u, Results)
  PROVE  /\ Len(Total(ResultF, u)) = Len(u)
         /\ Ids(Total(ResultF, u)) = {u[j].tool_use_id : j \in 1..Len(u)}
<1>1. DOMAIN u = 1..Len(u) /\ Len(u) \in Nat /\ \A j \in 1..Len(u) : u[j] \in Results
  BY DEF Over
<1>2. ASSUME NEW b \in Results
      PROVE  ResultTold[b] \in ResultsTold /\ ResultF[b] = <<ResultTold[b]>>
             /\ ResultTold[b][1] = b.tool_use_id
  <2>1. b \in Parts /\ b.type = "tool_result" /\ b.tool_use_id \in Atoms
        /\ JoinedText(b.content) \in Texts
    BY ResultFields
  <2>2. ResultTold[b] = <<b.tool_use_id, JoinedText(b.content)>>
    BY DEF ResultTold
  <2>3. ResultTold[b] \in ResultsTold
    BY <2>1, <2>2 DEF ResultsTold
  <2>4. ResultF[b] = <<<<b.tool_use_id, JoinedText(b.content)>>>>
    BY <2>1 DEF ResultF
  <2>5. ResultTold[b][1] = b.tool_use_id
    BY <2>2
  <2> QED BY <2>2, <2>3, <2>4, <2>5, Zenon
<1>3. Total(ResultF, u) = PartsOf(ResultTold, u)
  <2>1. \A b \in Results : ResultTold[b] \in ResultsTold /\ ResultF[b] = <<ResultTold[b]>>
    BY <1>2
  <2> QED BY <2>1, TotalEach
<1>4. PartsOf(ResultTold, u) \in Seq(ResultsTold) /\ Len(PartsOf(ResultTold, u)) = Len(u)
  BY <1>2, PartsType
<1>5. \A j \in 1..Len(u) : PartsOf(ResultTold, u)[j][1] = u[j].tool_use_id
  BY <1>1, <1>2, PartAt
<1>6. DOMAIN PartsOf(ResultTold, u) = 1..Len(u)
  BY PartsDomain
<1>7. Ids(PartsOf(ResultTold, u)) = {u[j].tool_use_id : j \in 1..Len(u)}
  BY <1>5, <1>6 DEF Ids
<1> QED BY <1>3, <1>4, <1>7

LEMMA FlushSettles ==
  ASSUME NEW q, Over(q, OMessages), AllInOrder(q), Complete(q, Len(q)),
         NEW s \in Loops, Pairs(q, s)
  PROVE  Settled(q, FlushToolResults(s))
<1> DEFINE n == Len(q)
           f == FlushToolResults(s)
<1>1. CASE Settled(q, s)
  <2>1. f = s
    BY <1>1 DEF Settled, FlushToolResults
  <2> QED BY <1>1, <2>1
<1>2. CASE \E k \in 1..Len(q) : Awaits(q, s, k)
  <2>1. PICK k \in 1..Len(q) : Awaits(q, s, k)
    BY <1>2
  <2>2. /\ OCallIds(q, k) # {} /\ n <= k + Count(q, k)
        /\ Over(s.msgs, IMessages) /\ Open(s.msgs) /\ LastCalls(s.msgs) = OCallIds(q, k)
        /\ Over(s.pending, Results) /\ Len(s.pending) = n - k
        /\ \A j \in 1..n - k : s.pending[j].tool_use_id = q[k + j].tool_call_id
    BY <2>1 DEF Awaits
  <2>3. n \in Nat /\ Count(q, k) \in Nat /\ (Count(q, k) = 0 <=> OCallIds(q, k) = {})
    BY CountIs
  <2>4. k + Count(q, k) <= n /\ InOrder(q, k)
    BY DEF Complete, AllInOrder
  <2>5. n = k + Count(q, k) /\ n - k = Count(q, k)
    BY <2>2, <2>3, <2>4
  <2> DEFINE u == s.pending
             m == Message("user", u)
             ms == Append(s.msgs, m)
             r == [s EXCEPT !.msgs = Append(@, m), !.pending = <<>>]
  <2>6. Len(u) = Count(q, k) /\ Len(u) # 0 /\ u # <<>>
    <3>1. Len(u) = Count(q, k) /\ Len(u) # 0
      BY <2>2, <2>3, <2>5
    <3> HIDE DEF u
    <3> QED BY <3>1
  <2>7. f = r
    BY <2>6 DEF FlushToolResults
  <2>8. m \in IMessages /\ CallsIn(m) = <<>> /\ ResultsIn(m) = Total(ResultF, u)
    <3>1. m \in IMessages /\ CallsF[m] = <<>> /\ ResultsF[m] = Total(ResultF, u)
      BY <2>2, FlushedMessage
    <3> HIDE DEF m
    <3> QED BY <3>1 DEF CallsF, ResultsF
  <2>9. {u[j].tool_use_id : j \in 1..Len(u)} = OCallIds(q, k)
    <3>1. IdsAt(q, k + 1, k + Count(q, k)) = OCallIds(q, k)
      BY <2>4 DEF InOrder
    <3>2. \A j \in 1..Len(u) : u[j].tool_use_id = q[k + j].tool_call_id
      BY <2>2
    <3> HIDE DEF u
    <3>3. \A j \in 1..Len(u) : k + j \in k + 1 .. k + Count(q, k)
      BY <2>3, <2>6
    <3>4. \A i \in k + 1 .. k + Count(q, k) : i - k \in 1..Len(u) /\ k + (i - k) = i
      BY <2>3, <2>6
    <3> DEFINE I == 1..Len(u)
               J == k + 1 .. k + Count(q, k)
    <3>5. ASSUME NEW i \in J PROVE i - k \in I /\ u[i - k].tool_use_id = q[i].tool_call_id
      <4>1. i - k \in I /\ k + (i - k) = i
        BY <3>4
      <4> DEFINE j == i - k
      <4>2. u[j].tool_use_id = q[k + j].tool_call_id
        BY <3>2, <4>1
      <4> QED BY <4>1, <4>2
    <3>6. \A j \in I : k + j \in J /\ u[j].tool_use_id = q[k + j].tool_call_id
      BY <3>2, <3>3
    <3> HIDE DEF I, J
    <3>7. {u[j].tool_use_id : j \in I} = {q[i].tool_call_id : i \in J}
      BY <3>5, <3>6
    <3> QED BY <3>1, <3>7 DEF IdsAt, I, J
  <2>10. Meets(LastCalls(s.msgs), ResultsIn(m))
    <3>1. Len(Total(ResultF, u)) = Len(u) /\ Ids(Total(ResultF, u)) = {u[j].tool_use_id : j \in 1..Len(u)}
      BY <2>2, PendingTells
    <3> HIDE DEF u, m
    <3>2. Ids(ResultsIn(m)) = OCallIds(q, k) /\ Len(ResultsIn(m)) = Cardinality(OCallIds(q, k))
      BY <2>6, <2>8, <2>9, <3>1 DEF Count
    <3>3. ResultsIn(m) # <<>>
      BY <2>2, <3>2, NoIds
    <3> QED BY <2>2, <3>2, <3>3 DEF Meets
  <2>11. r.msgs = ms /\ r.pending = <<>>
    BY DEF Loops
  <2> HIDE DEF m, r, u
  <2>12. Over(ms, IMessages) /\ Open(ms) /\ LastCalls(ms) = {}
    <3>1. Over(ms, IMessages)
      BY <2>2, <2>8, OverMade
    <3> QED BY <2>2, <2>8, <2>10, <3>1, OpenAppend, NoIds
  <2> HIDE DEF ms
  <2>13. Settled(q, r)
    BY <2>11, <2>12 DEF Settled
  <2> QED BY <2>7, <2>13
<1> QED BY <1>1, <1>2 DEF Pairs

LEMMA ToolPairs ==
  ASSUME NEW q, Over(q, OMessages), NEW s \in Loops, Pairs(q, s),
         NEW x \in OpenAIMessages, x.role = "tool", AllInOrder(Append(q, x))
  PROVE  Pairs(Append(q, x), ToolMessage(s, x))
<1> DEFINE n == Len(q)
           t == Append(q, x)
           w == StringOr(x.content)
           b == ToolResult(x.tool_call_id, <<Text(w)>>)
           u == Append(s.pending, b)
           r == [s EXCEPT !.pending = Append(@, b)]
<1>1. x \in OMessages /\ x.content \in OpenAIContents /\ x.tool_call_id \in Atoms
      /\ x.tool_calls = NoCalls /\ w \in Texts
  BY OpenAIMessageIs, StringOrType
<1>2. n \in Nat /\ q \in Seq(OMessages) /\ \A k \in 1..n : Count(q, k) \in Nat
  BY CountIs
<1>3. Len(t) = n + 1 /\ t[n + 1] = x /\ (\A i \in 1..n : t[i] = q[i]) /\ Over(t, OMessages)
  <2>1. Over(t, OMessages)
    BY <1>1, OverMade
  <2> QED BY <1>2, <2>1
<1>4. ToolMessage(s, x) = r
  BY DEF ToolMessage
<1>5. PICK j \in 1..n : n + 1 <= j + Count(q, j)
  BY <1>1, OrderBefore
<1>6. ~Settled(q, s)
  <2>1. ~(j + Count(q, j) <= n)
    BY <1>2, <1>5
  <2> QED BY <2>1 DEF Settled, Complete
<1>7. PICK k \in 1..n : Awaits(q, s, k)
  BY <1>6 DEF Pairs
<1>8. k = j
  <2>1. ~(j + Count(q, j) <= n)
    BY <1>2, <1>5
  <2> QED BY <1>7, <2>1 DEF Awaits
<1>9. /\ OCallIds(q, k) # {} /\ n + 1 <= k + Count(q, k)
      /\ Over(s.msgs, IMessages) /\ Open(s.msgs) /\ LastCalls(s.msgs) = OCallIds(q, k)
      /\ Over(s.pending, Results) /\ Len(s.pending) = n - k
      /\ \A i \in 1..n - k : s.pending[i].tool_use_id = q[k + i].tool_call_id
      /\ \A i \in 1..n : i # k => i + Count(q, i) <= n
  BY <1>5, <1>7, <1>8 DEF Awaits
<1>10. b \in Results /\ b.tool_use_id = x.tool_call_id
  <2>1. <<Text(w)>> \in Seqs(TextBlocks \cup Media)
    <3>1. Over(<<Text(w)>>, TextBlocks)
      BY <1>1, OneText
    <3>2. Over(<<Text(w)>>, TextBlocks \cup Media)
      BY <3>1, OverMore
    <3> QED BY <3>2, SeqsStrings
  <2> HIDE DEF r, u, t, w
  <2>2. b = [type |-> "tool_result", tool_use_id |-> x.tool_call_id, content |-> <<Text(w)>>]
    BY DEF ToolResult
  <2> HIDE DEF b
  <2> QED BY <1>1, <2>1, <2>2 DEF Results
<1>11. r.msgs = s.msgs /\ r.pending = u
  BY DEF Loops
<1> HIDE DEF b, w
<1>12. Over(u, Results) /\ Len(u) = (n + 1) - k /\ u[(n + 1) - k] = b
       /\ \A i \in 1..n - k : u[i] = s.pending[i]
  <2>1. Over(u, Results)
    BY <1>9, <1>10, OverMade
  <2>2. s.pending \in Seq(Results)
    BY <1>9 DEF Over
  <2> DEFINE p == s.pending
  <2>3. Len(u) = Len(p) + 1 /\ u[Len(p) + 1] = b /\ \A i \in 1..Len(p) : u[i] = p[i]
    BY <2>2
  <2>4. Len(p) = n - k /\ (n - k) + 1 = (n + 1) - k
    BY <1>2, <1>9
  <2> HIDE DEF u, p
  <2>5. p = s.pending
    BY DEF p
  <2> QED BY <2>1, <2>3, <2>4, <2>5
<1>13. \A i \in 1..n : OCallIds(t, i) = OCallIds(q, i) /\ Count(t, i) = Count(q, i)
  <2>1. n <= Len(t)
    BY <1>2, <1>3
  <2> HIDE DEF t
  <2> QED BY <1>3, <2>1, FirstOf
<1>14. Count(t, n + 1) = 0
  <2>1. CallsMade(x) = <<>>
    BY <1>1, CallsMadeIs
  <2>2. OCallIds(t, n + 1) = {}
    BY <1>3, <2>1, NoIds DEF OCallIds
  <2> HIDE DEF t
  <2>3. n + 1 \in 1..Len(t)
    BY <1>2, <1>3
  <2> QED BY <1>3, <2>2, <2>3, CountIs
<1> HIDE DEF t, u, r
<1>15. \A i \in 1..(n + 1) - k : u[i].tool_use_id = t[k + i].tool_call_id
  <2> SUFFICES ASSUME NEW i \in 1..(n + 1) - k PROVE u[i].tool_use_id = t[k + i].tool_call_id
    OBVIOUS
  <2>1. CASE i = (n + 1) - k
    <3>1. k + i = n + 1
      BY <1>2, <2>1
    <3> QED BY <1>3, <1>10, <1>12, <2>1, <3>1
  <2>2. CASE i # (n + 1) - k
    <3>1. i \in 1..n - k /\ k + i \in 1..n
      BY <1>2, <2>2
    <3> QED BY <1>3, <1>9, <1>12, <3>1
  <2> QED BY <2>1, <2>2
<1>16. \A i \in 1..n + 1 : i # k => i + Count(t, i) <= n + 1
  <2> SUFFICES ASSUME NEW i \in 1..n + 1, i # k PROVE i + Count(t, i) <= n + 1
    OBVIOUS
  <2>1. CASE i = n + 1
    BY <1>2, <1>14, <2>1
  <2>2. CASE i # n + 1
    <3>1. i \in 1..n
      BY <1>2, <2>2
    <3>2. i + Count(q, i) <= n /\ Count(q, i) \in Nat /\ Count(t, i) = Count(q, i)
      BY <1>2, <1>9, <1>13, <3>1
    <3> QED BY <1>2, <3>2
  <2> QED BY <2>1, <2>2
<1>17. k \in 1..n + 1
  BY <1>2
<1> HIDE DEF n
<1>18. Awaits(t, r, k)
  BY <1>3, <1>9, <1>11, <1>12, <1>13, <1>15, <1>16, <1>17 DEF Awaits
<1>19. Pairs(t, r)
  BY <1>3, <1>17, <1>18 DEF Pairs
<1> QED BY <1>4, <1>19 DEF t

\* What OtherMessage says, in a message or not at all.
LEMMA OtherSays ==
  ASSUME NEW s \in Loops, NEW x \in OpenAIMessages, x.role # "tool"
  PROVE  /\ OtherMessage(s, x).pending = s.pending
         /\ \/ OtherMessage(s, x).msgs = s.msgs /\ CallsMade(x) = <<>>
            \/ \E m \in IMessages : /\ OtherMessage(s, x).msgs = Append(s.msgs, m)
                                    /\ CallsIn(m) = CallsMade(x) /\ ResultsIn(m) = <<>>
<1>1. x \in OMessages /\ x.role \in {"system", "user", "assistant"} /\ x.content \in OpenAIContents
      /\ (x.role # "assistant" => x.tool_calls = NoCalls)
      /\ (x.tool_calls = NoCalls => CallsMade(x) = <<>>)
      /\ OResultsF[x] = <<>> /\ OCallsF[x] = CallsMade(x)
  <2>1. x \in OMessages /\ x.role \in {"system", "user", "assistant"} /\ x.content \in OpenAIContents
        /\ (x.role # "assistant" => x.tool_calls = NoCalls)
    BY OpenAIMessageIs
  <2>2. x.tool_calls = NoCalls => CallsMade(x) = <<>>
    BY CallsMadeIs
  <2> QED BY <2>1, <2>2 DEF OResultsF, OCallsF, ResultRead
<1>2. ASSUME NEW m \in IMessages, SaysAs(x, m) PROVE CallsIn(m) = CallsMade(x) /\ ResultsIn(m) = <<>>
  BY <1>1, <1>2 DEF SaysAs, CallsF, ResultsF
<1>3. ASSUME NEW m \in IMessages, SaysAs(x, m), OtherMessage(s, x) = [s EXCEPT !.msgs = Append(@, m)]
      PROVE  /\ OtherMessage(s, x).pending = s.pending
             /\ \E y \in IMessages : /\ OtherMessage(s, x).msgs = Append(s.msgs, y)
                                     /\ CallsIn(y) = CallsMade(x) /\ ResultsIn(y) = <<>>
  <2>1. OtherMessage(s, x).pending = s.pending /\ OtherMessage(s, x).msgs = Append(s.msgs, m)
    BY <1>3 DEF Loops
  <2> QED BY <1>2, <1>3, <2>1
<1>4. CASE x.role = "system"
  <2>1. CASE x.content \in NotStrings
    BY <1>1, <1>4, <2>1 DEF OtherMessage, SystemMessage
  <2>2. CASE x.content \notin NotStrings
    <3>1. OtherMessage(s, x) = [s EXCEPT !.system = [form |-> "string", text |-> x.content]]
      BY <1>4, <2>2 DEF OtherMessage, SystemMessage
    <3>2. OtherMessage(s, x).pending = s.pending /\ OtherMessage(s, x).msgs = s.msgs
      BY <3>1 DEF Loops
    <3> QED BY <1>1, <1>4, <3>2
  <2> QED BY <2>1, <2>2
<1>5. CASE x.role # "system" /\ x.tool_calls # NoCalls
  <2> DEFINE m == Message("assistant", CallBlocks(x))
  <2>1. x.role = "assistant"
    BY <1>1, <1>5
  <2>2. OtherMessage(s, x) = [s EXCEPT !.msgs = Append(@, Message(x.role, CallBlocks(x)))]
    BY <1>5, <2>1 DEF OtherMessage, SystemMessage
  <2>3. m \in IMessages /\ SaysAs(x, m)
    BY <1>5, <2>1, CallBlocksSay
  <2>4. OtherMessage(s, x) = [s EXCEPT !.msgs = Append(@, m)]
    BY <2>1, <2>2
  <2> HIDE DEF m
  <2> QED BY <1>3, <2>3, <2>4
<1>6. CASE x.role # "system" /\ x.tool_calls = NoCalls
  <2>1. x.role \in {"user", "assistant"}
    BY <1>1, <1>6
  <2>2. CASE StringOr(x.content) = <<>>
    <3>1. OtherMessage(s, x) = s
      BY <1>6, <2>2 DEF OtherMessage, SystemMessage
    <3> QED BY <1>1, <1>6, <3>1
  <2>3. CASE StringOr(x.content) # <<>>
    <3> DEFINE m == Message(x.role, <<Text(x.content)>>)
    <3>1. OtherMessage(s, x) = [s EXCEPT !.msgs = Append(@, m)]
      BY <1>6, <2>3 DEF OtherMessage, SystemMessage
    <3>2. m \in IMessages /\ SaysAs(x, m)
      BY <1>6, <2>1, <2>3, TextSays
    <3> HIDE DEF m
    <3> QED BY <1>3, <3>1, <3>2
  <2> QED BY <2>2, <2>3
<1> QED BY <1>4, <1>5, <1>6

LEMMA OtherPairs ==
  ASSUME NEW q, Over(q, OMessages), AllInOrder(q), NEW s \in Loops, Settled(q, s),
         NEW x \in OpenAIMessages, x.role # "tool"
  PROVE  Pairs(Append(q, x), OtherMessage(s, x))
<1> DEFINE n == Len(q)
           t == Append(q, x)
           r == OtherMessage(s, x)
           ids == Ids(CallsMade(x))
<1>1. x \in OMessages
  BY OpenAIMessageIs
<1>2. n \in Nat /\ s.pending = <<>> /\ Over(s.msgs, IMessages) /\ Open(s.msgs)
      /\ LastCalls(s.msgs) = {} /\ Complete(q, n)
  BY CountIs DEF Settled
<1>3. /\ Over(t, OMessages) /\ Complete(t, n) /\ Len(t) = n + 1
      /\ OCallIds(t, Len(t)) = ids
      /\ ids = {} => Complete(t, Len(t))
  BY <1>1, <1>2, OtherInOrder
<1>4. Count(t, n + 1) \in Nat
  <2>1. n + 1 \in 1..Len(t)
    BY <1>2, <1>3
  <2> QED BY <1>3, <2>1, CountIs
<1> HIDE DEF n, t
<1>5. r.pending = <<>>
  BY <1>2, OtherSays
<1>6. CASE r.msgs = s.msgs /\ CallsMade(x) = <<>>
  <2>1. ids = {}
    BY <1>6, NoIds
  <2> HIDE DEF r
  <2>2. Settled(t, r)
    BY <1>2, <1>3, <1>5, <1>6, <2>1 DEF Settled
  <2> QED BY <2>2 DEF Pairs, t, r
<1>7. CASE \E m \in IMessages : /\ r.msgs = Append(s.msgs, m)
                                /\ CallsIn(m) = CallsMade(x) /\ ResultsIn(m) = <<>>
  <2>1. PICK m \in IMessages : /\ r.msgs = Append(s.msgs, m)
                               /\ CallsIn(m) = CallsMade(x) /\ ResultsIn(m) = <<>>
    BY <1>7
  <2> HIDE DEF r
  <2>2. Meets({}, <<>>)
    BY DEF Meets
  <2>3. Over(r.msgs, IMessages)
    BY <1>2, <2>1, OverMade
  <2>4. Open(r.msgs) /\ LastCalls(r.msgs) = ids
    <3> DEFINE u == s.msgs
    <3>1. Over(u, IMessages) /\ Open(u) /\ LastCalls(u) = {}
      BY <1>2
    <3> HIDE DEF u
    <3>2. Open(Append(u, m)) /\ LastCalls(Append(u, m)) = Ids(CallsIn(m))
      BY <2>1, <2>2, <3>1, OpenAppend
    <3> QED BY <2>1, <3>2 DEF u
  <2> HIDE DEF ids
  <2>5. CASE ids = {}
    <3>1. Settled(t, r)
      BY <1>3, <1>5, <2>3, <2>4, <2>5 DEF Settled
    <3> QED BY <3>1 DEF Pairs, t, r
  <2>6. CASE ids # {}
    <3>1. n + 1 \in 1..Len(t) /\ Len(t) <= (n + 1) + Count(t, n + 1) /\ Len(t) - (n + 1) = 0
      BY <1>2, <1>3, <1>4
    <3>2. Over(r.pending, Results) /\ Len(r.pending) = Len(t) - (n + 1)
      <4>1. Over(<<>>, Results) /\ Len(<<>>) = 0
        BY OverMade
      <4> QED BY <1>5, <3>1, <4>1
    <3>3. \A j \in 1..Len(t) - (n + 1) : r.pending[j].tool_use_id = t[(n + 1) + j].tool_call_id
      BY <3>1
    <3>4. \A i \in 1..Len(t) : i # n + 1 => i + Count(t, i) <= Len(t)
      <4>1. \A i \in 1..Len(t) : i # n + 1 => i \in 1..n
        BY <1>2, <1>3
      <4> QED BY <1>3, <4>1 DEF Complete
    <3>5. OCallIds(t, n + 1) = ids
      BY <1>3
    <3>6. Awaits(t, r, n + 1)
      BY <2>3, <2>4, <2>6, <3>1, <3>2, <3>3, <3>4, <3>5 DEF Awaits
    <3> QED BY <3>1, <3>6 DEF Pairs, t, r
  <2> QED BY <2>5, <2>6
<1> QED BY <1>6, <1>7, OtherSays

LEMMA ConvertPairs ==
  ASSUME NEW q, Over(q, OMessages), NEW s, Tells(s, q), AllInOrder(q) => Pairs(q, s),
         NEW x \in OpenAIMessages, AllInOrder(Append(q, x))
  PROVE  Pairs(Append(q, x), ConvertMessage(s, x))
<1>1. x \in OMessages /\ s \in Loops
  BY OpenAIMessageIs DEF Tells
<1>2. AllInOrder(q) /\ Pairs(q, s) /\ (x.role # "tool" => Complete(q, Len(q)))
  BY <1>1, OrderBefore
<1>3. CASE x.role = "tool"
  <2>1. ConvertMessage(s, x) = ToolMessage(s, x)
    BY <1>3 DEF ConvertMessage
  <2>2. Pairs(Append(q, x), ToolMessage(s, x))
    BY <1>1, <1>2, <1>3, ToolPairs
  <2> QED BY <2>1, <2>2, Zenon
<1>4. CASE x.role # "tool"
  <2> DEFINE f == FlushToolResults(s)
  <2>1. ConvertMessage(s, x) = OtherMessage(f, x)
    BY <1>4 DEF ConvertMessage
  <2>2. Settled(q, f)
    BY <1>1, <1>2, <1>4, FlushSettles
  <2>3. f \in Loops
    BY Flushed DEF Tells
  <2> HIDE DEF f
  <2>4. Pairs(Append(q, x), OtherMessage(f, x))
    BY <1>2, <1>4, <2>2, <2>3, OtherPairs
  <2> QED BY <2>1, <2>4, Zenon
<1> QED BY <1>3, <1>4

LEMMA AllPairs ==
  \A q : Over(q, OpenAIMessages) /\ AllInOrder(q) => Pairs(q, ConvertAll(q))
<1> DEFINE Q == {q \in Seq(OpenAIMessages) : AllInOrder(q) => Pairs(q, ConvertAll(q))}
<1>1. <<>> \in Q
  <2>1. Start.msgs = <<>> /\ Start.pending = <<>>
    BY DEF Start
  <2>2. Over(<<>>, IMessages) /\ Len(<<>>) = 0
    BY OverMade
  <2>3. Open(<<>>) /\ LastCalls(<<>>) = {} /\ Complete(<<>>, Len(<<>>))
    BY <2>2 DEF Open, LastCalls, Complete
  <2>4. Settled(<<>>, Start)
    BY <2>1, <2>2, <2>3 DEF Settled
  <2>5. Pairs(<<>>, ConvertAll(<<>>))
    BY <2>4, ConvertAllIs DEF Pairs
  <2>6. <<>> \in Seq(OpenAIMessages)
    OBVIOUS
  <2> QED BY <2>5, <2>6
<1>2. ASSUME NEW q, Over(q, OpenAIMessages), q \in Q, NEW x \in OpenAIMessages
      PROVE  Append(q, x) \in Q
  <2>1. OpenAIMessages \subseteq OMessages
    BY OpenAIMessageIs
  <2>2. Over(q, OMessages) /\ Tells(ConvertAll(q), q)
    BY <1>2, <2>1, OverMore, AllTells
  <2>3. AllInOrder(q) => Pairs(q, ConvertAll(q))
    BY <1>2
  <2>4. ConvertAll(Append(q, x)) = ConvertMessage(ConvertAll(q), x)
    BY <1>2, ConvertAllIs
  <2>5. Append(q, x) \in Seq(OpenAIMessages)
    BY <1>2 DEF Over
  <2>6. AllInOrder(Append(q, x)) => Pairs(Append(q, x), ConvertMessage(ConvertAll(q), x))
    BY <2>2, <2>3, ConvertPairs
  <2> QED BY <2>4, <2>5, <2>6
<1> HIDE DEF Q
<1>3. \A q : Over(q, OpenAIMessages) => q \in Q
  BY <1>1, <1>2, OverInduction
<1> QED BY <1>3 DEF Q

LEMMA ToAnthropicAnswers ==
  ASSUME NEW q, Over(q, OpenAIMessages), AnswersInOpenAI(q)
  PROVE  AnswersInAnthropic(ConvertedMessages(q).msgs)
<1> DEFINE s == ConvertedMessages(q)
           c == ConvertAll(q)
<1>1. s = FlushToolResults(c)
  BY Zenon DEF ConvertedMessages, ConvertAll, Start
<1>2. OpenAIMessages \subseteq OMessages
  BY OpenAIMessageIs
<1>3. Over(q, OMessages)
  BY <1>2, OverMore
<1>4. AllInOrder(q) /\ Complete(q, Len(q))
  BY <1>3, OpenAIRule
<1>5. Pairs(q, c) /\ c \in Loops
  <2>1. Tells(c, q)
    BY AllTells
  <2> QED BY <1>4, <2>1, AllPairs DEF Tells
<1> HIDE DEF s, c
<1>6. Settled(q, s)
  BY <1>1, <1>3, <1>4, <1>5, FlushSettles
<1>7. AnswersInAnthropic(s.msgs)
  BY <1>6, AnthropicRule DEF Settled
<1> QED BY <1>7 DEF s

LEMMA WireAnswers ==
  ASSUME NEW ms, Over(ms, IMessages), AnswersInAnthropic(ms)
  PROVE  AnswersInAnthropic(Wire(Each(EncodeMessage, ms)))
<1> DEFINE ws == Wire(Each(EncodeMessage, ms))
           F == [m \in IMessages |-> DecodeMessage(EncodeMessage(m))]
           n == Len(ms)
<1>1. DOMAIN ms = 1..n /\ n \in Nat /\ \A i \in DOMAIN ms : ms[i] \in IMessages
  BY DEF Over
<1>2. ws = [i \in DOMAIN ms |-> DecodeMessage(EncodeMessage(ms[i]))]
  BY DEF Wire, Each
<1>3. ws = PartsOf(F, ms)
  BY <1>1, <1>2 DEF PartsOf
<1>4. DOMAIN ws = DOMAIN ms /\ \A i \in DOMAIN ws : ws[i] = DecodeMessage(EncodeMessage(ms[i]))
  BY <1>2
<1>5. \A m \in IMessages : F[m] \in IMessages
  BY TripMessage
<1> HIDE DEF ws, F
<1>6. Over(ws, IMessages) /\ Len(ws) = n
  <2>1. PartsOf(F, ms) \in Seq(IMessages) /\ Len(PartsOf(F, ms)) = Len(ms)
    BY <1>5, PartsType
  <2> QED BY <1>3, <2>1 DEF Over
<1> HIDE DEF n
<1>7. \A i \in 1..n : CallIds(ws, i) = CallIds(ms, i) /\ Given(ws, i) = Given(ms, i)
  <2> SUFFICES ASSUME NEW i \in 1..n
               PROVE  CallIds(ws, i) = CallIds(ms, i) /\ Given(ws, i) = Given(ms, i)
    OBVIOUS
  <2>1. ms[i] \in IMessages /\ ws[i] = DecodeMessage(EncodeMessage(ms[i]))
    BY <1>1, <1>4
  <2>2. ws[i] \in IMessages /\ CallsF[ws[i]] = CallsF[ms[i]] /\ ResultsF[ws[i]] = ResultsF[ms[i]]
    BY <2>1, TripMessage
  <2>3. CallsIn(ws[i]) = CallsIn(ms[i]) /\ ResultsIn(ws[i]) = ResultsIn(ms[i])
    BY <2>1, <2>2 DEF CallsF, ResultsF
  <2> QED BY <2>3 DEF CallIds, Given
<1>8. Open(ms) /\ LastCalls(ms) = {}
  BY AnthropicRule
<1>9. \A i \in 1..n : Before(ws, i) = Before(ms, i)
  <2>1. \A i \in 1..n : i = 1 \/ i - 1 \in 1..n
    BY <1>1
  <2> QED BY <1>7, <2>1 DEF Before
<1>10. Open(ws)
  BY <1>6, <1>7, <1>8, <1>9 DEF Open, n
<1>11. LastCalls(ws) = {}
  <2>1. n = 0 \/ n \in 1..n
    BY <1>1
  <2> QED BY <1>6, <1>7, <1>8, <2>1 DEF LastCalls, n
<1>12. AnswersInAnthropic(ws)
  BY <1>6, <1>10, <1>11, AnthropicRule
<1> QED BY <1>12 DEF ws

-------------------------------------------------------------------------------
CarriedAnswers(c) ==
  (IF c.format = "openai" THEN AnswersInOpenAI(c.doc.messages)
   ELSE AnswersInAnthropic(Wire(c.doc.messages))) =>
    /\ AnswersInOpenAI(c.openai.messages)
    /\ c.anthropic # NoBody => AnswersInAnthropic(Wire(c.anthropic.messages))

LEMMA AnsweredForAnthropic ==
  ASSUME NEW doc \in AnthropicBodies
  PROVE  CarriedAnswers(Carried(doc, "anthropic", AnthropicBodyToRequest(doc)))
<1> DEFINE req == AnthropicBodyToRequest(doc)
           c == Carried(doc, "anthropic", req)
           body == AnthropicBody(req)
<1>1. doc.messages \in Seq(UserSends \cup AssistantSends)
      /\ doc.system \in {Absent} \cup Contents(TextBlocks)
  BY DEF AnthropicBodies, UserSends, AssistantSends
<1>2. req.messages = Each(DecodeMessage, doc.messages) /\ req.system = doc.system
  BY DEF AnthropicBodyToRequest, Decoded
<1> HIDE DEF req
<1>3. Over(req.messages, IMessages) /\ SystemText(req.system) \in Texts
  BY <1>1, <1>2, DecodedMessages, SystemTextIs
<1>4. c.doc = doc /\ c.format = "anthropic" /\ c.openai = convertToOpenAI(req) /\ c.anthropic = body
  BY CarriedFields
<1>5. Wire(doc.messages) = req.messages
  BY <1>2 DEF Wire, Each
<1>6. body.messages = doc.messages
  BY BodyMessages DEF req
<1>7. ASSUME AnswersInAnthropic(req.messages) PROVE AnswersInOpenAI(convertToOpenAI(req).messages)
  BY <1>3, <1>7, ToOpenAIAnswers
<1> HIDE DEF c, body
<1>8. CarriedAnswers(c)
  BY <1>4, <1>5, <1>6, <1>7 DEF CarriedAnswers
<1> QED BY <1>8 DEF c, req

LEMMA AnsweredForOpenAI ==
  ASSUME NEW doc \in OpenAIDocs \ {Malformed}
  PROVE  CarriedAnswers(Carried(doc, "openai", OpenAIToAnthropic(doc)))
<1> DEFINE req == OpenAIToAnthropic(doc)
           c == Carried(doc, "openai", req)
           q == doc.messages
           body == AnthropicBody(req)
<1>1. Over(q, OpenAIMessages)
  <2>1. doc \in OpenAIBodies
    BY RequestAssumption
  <2> QED BY <2>1 DEF OpenAIBodies, Over
<1>2. req.messages = ConvertedMessages(q).msgs /\ req.system = ConvertedMessages(q).system
      /\ req.raw = Absent
  BY DEF OpenAIToAnthropic
<1> HIDE DEF req
<1>3. Over(req.messages, IMessages) /\ req.system \in Prompts
  BY <1>1, <1>2, ToAnthropicSays
<1>4. SystemText(req.system) \in Texts
  <2>1. req.system \in {Absent} \cup Contents(TextBlocks)
    BY <1>3 DEF Prompts, Contents
  <2> QED BY <2>1, SystemTextIs
<1>5. c.doc = doc /\ c.format = "openai" /\ c.openai = convertToOpenAI(req) /\ c.anthropic = body
  BY CarriedFields
<1>6. body = IF ~Marshals(req) THEN NoBody ELSE EncodedBody(req)
  BY <1>2, Zenon DEF AnthropicBody
<1>7. EncodedBody(req).messages = Each(EncodeMessage, req.messages)
  BY DEF EncodedBody
<1> HIDE DEF body, c
<1>8. ASSUME AnswersInOpenAI(q)
      PROVE  /\ AnswersInOpenAI(convertToOpenAI(req).messages)
             /\ body # NoBody => AnswersInAnthropic(Wire(body.messages))
  <2>1. AnswersInAnthropic(req.messages)
    BY <1>1, <1>2, <1>8, ToAnthropicAnswers
  <2>2. AnswersInOpenAI(convertToOpenAI(req).messages)
    BY <1>3, <1>4, <2>1, ToOpenAIAnswers
  <2>3. AnswersInAnthropic(Wire(Each(EncodeMessage, req.messages)))
    BY <1>3, <2>1, WireAnswers
  <2>4. ASSUME body # NoBody PROVE AnswersInAnthropic(Wire(body.messages))
    <3>1. body = EncodedBody(req)
      BY <1>6, <2>4
    <3> QED BY <1>7, <2>3, <3>1, Zenon
  <2> QED BY <2>2, <2>4
<1>9. CarriedAnswers(c)
  BY <1>5, <1>8 DEF CarriedAnswers
<1> QED BY <1>9 DEF c, req

LEMMA AnsweredFromCarry == CarryInv => CallsAnswered
<1>1. ASSUME CarryInv, NEW c \in Routed PROVE CarriedAnswers(c)
  <2>1. CASE \E doc \in AnthropicDocs \ {Malformed} :
               c = Carried(doc, "anthropic", AnthropicBodyToRequest(doc))
    <3>1. PICK doc \in AnthropicDocs \ {Malformed} :
            c = Carried(doc, "anthropic", AnthropicBodyToRequest(doc))
      BY <2>1
    <3>2. doc \in AnthropicBodies
      BY RequestAssumption
    <3> QED BY <3>1, <3>2, AnsweredForAnthropic
  <2>2. CASE \E doc \in OpenAIDocs \ {Malformed} : c = Carried(doc, "openai", OpenAIToAnthropic(doc))
    BY <2>2, AnsweredForOpenAI
  <2>3. c \in FromAnthropic \cup FromOpenAI
    BY <1>1 DEF CarryInv, Routed
  <2> QED BY <2>1, <2>2, <2>3 DEF FromAnthropic, FromOpenAI
<1> QED BY <1>1, Zenon DEF CallsAnswered, CarriedAnswers

(* A conversation that keeps its client's rule of where the results of calls   *)
(* are keeps the rule of the provider it is sent to, of either format, for     *)
(* conversations of any length with any number of calls: FromUser puts results *)
(* first, one message each (openai.go:217-291), and OpenAIToAnthropic gathers  *)
(* those that come together in one message (convert.go:65-95).                 *)
THEOREM CallsAlwaysAnswered == RequestSpec => []CallsAnswered
BY CarriesWhatWasSent, AnsweredFromCarry, PTL

==============================================================================

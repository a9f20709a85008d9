---------------------------- MODULE LiveFeedProofs ----------------------------
(***************************************************************************)
(* Safety of LiveFeed for any pages, any capacity and any bounds.  A page  *)
(* that is in the map is one whose handler subscribed and did not yet      *)
(* leave the map, and its channel is open; and a page whose handler is in  *)
(* its loop is in the map.  From the first it follows that nobody sends on *)
(* a closed channel, from the second that the last signal of all was sent  *)
(* to every such page, or found its channel full: either way there is one  *)
(* to read.                                                                *)
(***************************************************************************)
EXTENDS LiveFeed, TLAPS

\* The map and the handlers agree.
MapFits ==
  \A p \in Pages :
    /\ p \in subs => at[p] \in {"subscribed", "leaving"} /\ ~closed[p]
    /\ at[p] = "subscribed" => p \in subs

IInv == TypeOK /\ MapFits /\ NeverSendsOnClosed /\ NoReloadMissed

LEMMA TypeCorrectStep == TypeOK /\ [Next]_vars => TypeOK'
<1> SUFFICES ASSUME TypeOK, [Next]_vars PROVE TypeOK'
  OBVIOUS
<1> USE FeedAssumption DEF TypeOK
<1>1. CASE Happen
  BY <1>1 DEF Happen, pageVars
<1>2. CASE Publish
  <2>1. \A p \in HaveRoom : unread[p] < Cap
    BY DEF HaveRoom
  <2>2. unread' \in [Pages -> 0..Cap]
    BY <1>2, <2>1 DEF Publish, Send
  <2>3. pending' \in Nat
    BY <1>2 DEF Publish, Send
  <2>4. panicked' \in BOOLEAN
    BY <1>2 DEF Publish, Send
  <2> QED BY <1>2, <2>2, <2>3, <2>4 DEF Publish, Send, pageVars
<1>3. ASSUME NEW p \in Pages, Connect(p) PROVE TypeOK'
  BY <1>3 DEF Connect, Move
<1>4. ASSUME NEW p \in Pages, Subscribe(p) PROVE TypeOK'
  BY <1>4 DEF Subscribe, Move
<1>5. ASSUME NEW p \in Pages, Receive(p) PROVE TypeOK'
  BY <1>5 DEF Receive
<1>6. ASSUME NEW p \in Pages, Leave(p) PROVE TypeOK'
  BY <1>6 DEF Leave, Move
<1>7. ASSUME NEW p \in Pages, Unsubscribe(p) PROVE TypeOK'
  BY <1>7 DEF Unsubscribe, Move
<1>8. ASSUME NEW p \in Pages, Close(p) PROVE TypeOK'
  BY <1>8 DEF Close, Move
<1>9. CASE UNCHANGED vars
  BY <1>9 DEF vars, pageVars
<1> QED BY <1>1, <1>2, <1>3, <1>4, <1>5, <1>6, <1>7, <1>8, <1>9 DEF Next

LEMMA MapFitsStep == TypeOK /\ MapFits /\ [Next]_vars => MapFits'
<1> SUFFICES ASSUME TypeOK, MapFits, [Next]_vars PROVE MapFits'
  OBVIOUS
<1> USE DEF TypeOK, MapFits
<1>1. CASE Happen
  BY <1>1 DEF Happen, pageVars
<1>2. CASE Publish
  BY <1>2 DEF Publish, Send, pageVars
<1>3. ASSUME NEW p \in Pages, Connect(p) PROVE MapFits'
  BY <1>3 DEF Connect, Move
<1>4. ASSUME NEW p \in Pages, Subscribe(p) PROVE MapFits'
  BY <1>4 DEF Subscribe, Move
<1>5. ASSUME NEW p \in Pages, Receive(p) PROVE MapFits'
  BY <1>5 DEF Receive
<1>6. ASSUME NEW p \in Pages, Leave(p) PROVE MapFits'
  BY <1>6 DEF Leave, Move
<1>7. ASSUME NEW p \in Pages, Unsubscribe(p) PROVE MapFits'
  BY <1>7 DEF Unsubscribe, Move
<1>8. ASSUME NEW p \in Pages, Close(p) PROVE MapFits'
  BY <1>8 DEF Close, Move
<1>9. CASE UNCHANGED vars
  BY <1>9 DEF vars, pageVars
<1> QED BY <1>1, <1>2, <1>3, <1>4, <1>5, <1>6, <1>7, <1>8, <1>9 DEF Next

\* Only Publish sends, and what is in the map is open.
LEMMA OpenStep == IInv /\ [Next]_vars => NeverSendsOnClosed'
<1> SUFFICES ASSUME IInv, [Next]_vars PROVE ~panicked'
  BY DEF NeverSendsOnClosed
<1>1. CASE Publish
  <2>1. \A p \in subs : ~closed[p]
    BY DEF IInv, TypeOK, MapFits
  <2> QED BY <1>1, <2>1 DEF IInv, NeverSendsOnClosed, Publish, Send
<1>2. CASE ~Publish
  BY <1>2 DEF IInv, NeverSendsOnClosed, Next, Happen, Connect, Subscribe, Receive, Leave,
              Unsubscribe, Close, vars
<1> QED BY <1>1, <1>2

\* What a page can miss is a signal that it has another one for.
LEMMA MissedStep == IInv /\ [Next]_vars => NoReloadMissed'
<1> SUFFICES ASSUME IInv, [Next]_vars PROVE NoReloadMissed'
  OBVIOUS
<1> USE FeedAssumption DEF IInv, TypeOK, NoReloadMissed
<1>1. CASE Happen
  BY <1>1 DEF Happen
<1>2. CASE Publish
  <2> SUFFICES ASSUME NEW p \in Pages, at[p] = "subscribed" PROVE unread'[p] > 0
    BY <1>2 DEF Publish, Send, pageVars
  <2>1. p \in subs
    BY DEF MapFits
  <2>2. p \in HaveRoom \/ unread[p] = Cap
    BY <2>1 DEF HaveRoom
  <2> QED BY <1>2, <2>2 DEF Publish, Send
<1>3. ASSUME NEW p \in Pages, Connect(p) PROVE NoReloadMissed'
  BY <1>3 DEF Connect, Move
<1>4. ASSUME NEW p \in Pages, Subscribe(p) PROVE NoReloadMissed'
  BY <1>4 DEF Subscribe, Move
<1>5. ASSUME NEW p \in Pages, Receive(p) PROVE NoReloadMissed'
  BY <1>5 DEF Receive
<1>6. ASSUME NEW p \in Pages, Leave(p) PROVE NoReloadMissed'
  BY <1>6 DEF Leave, Move
<1>7. ASSUME NEW p \in Pages, Unsubscribe(p) PROVE NoReloadMissed'
  BY <1>7 DEF Unsubscribe, Move
<1>8. ASSUME NEW p \in Pages, Close(p) PROVE NoReloadMissed'
  BY <1>8 DEF Close, Move
<1>9. CASE UNCHANGED vars
  BY <1>9 DEF vars, pageVars
<1> QED BY <1>1, <1>2, <1>3, <1>4, <1>5, <1>6, <1>7, <1>8, <1>9 DEF Next

LEMMA FeedInvariant == Spec => []IInv
<1>1. Init => IInv
  <2> SUFFICES ASSUME Init PROVE IInv
    OBVIOUS
  <2>1. TypeOK
    <3>1. closed \in [Pages -> BOOLEAN] /\ panicked \in BOOLEAN
      BY Zenon DEF Init
    <3>2. 0 \in 0..Cap
      BY FeedAssumption
    <3>3. /\ unread \in [Pages -> 0..Cap]
          /\ shown \in [Pages -> Nat] /\ since \in [Pages -> Nat] /\ connects \in [Pages -> Nat]
      BY <3>2 DEF Init
    <3>4. at \in [Pages -> {"away", "connected", "subscribed", "leaving", "closing"}]
      BY DEF Init
    <3> QED BY <3>1, <3>3, <3>4 DEF Init, TypeOK
  <2>2. MapFits
    BY DEF Init, MapFits
  <2>3. NeverSendsOnClosed
    BY DEF Init, NeverSendsOnClosed
  <2>4. NoReloadMissed
    BY DEF Init, NoReloadMissed
  <2> QED BY <2>1, <2>2, <2>3, <2>4 DEF IInv
<1>2. IInv /\ [Next]_vars => IInv'
  BY TypeCorrectStep, MapFitsStep, OpenStep, MissedStep DEF IInv
<1> QED BY <1>1, <1>2, PTL DEF Spec

(***************************************************************************)
(* Every variable of the feed keeps its type; no channel ever holds more   *)
(* than its capacity.                                                      *)
(***************************************************************************)
THEOREM TypeCorrect == Spec => []TypeOK
<1>1. IInv => TypeOK
  BY DEF IInv
<1> QED BY <1>1, FeedInvariant, PTL

(***************************************************************************)
(* Publishers never send on a closed channel.                              *)
(***************************************************************************)
THEOREM NeverSendsOnClosedHolds == Spec => []NeverSendsOnClosed
<1>1. IInv => NeverSendsOnClosed
  BY DEF IInv
<1> QED BY <1>1, FeedInvariant, PTL

(***************************************************************************)
(* A page that stays misses no reload, whatever the capacity is.           *)
(***************************************************************************)
THEOREM NoReloadMissedHolds == Spec => []NoReloadMissed
<1>1. IInv => NoReloadMissed
  BY DEF IInv
<1> QED BY <1>1, FeedInvariant, PTL
===============================================================================

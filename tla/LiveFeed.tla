------------------------------- MODULE LiveFeed -------------------------------
(***************************************************************************)
(* The two fan-outs to dashboard pages, which are built alike: log events  *)
(* by middleware.Broadcaster, reload signals by Server.NotifyConfigReload. *)
(* A page is an EventSource of the dashboard with the handler that serves  *)
(* it (handleUsageLive, handleConfigEvents), on a buffered channel of its  *)
(* own.  The map of channels is used under a mutex; receiving from one and *)
(* closing one are not.                                                    *)
(*                                                                         *)
(* What a page shows is told by number: version counts what happened (the  *)
(* configuration was reloaded), and shown[p] is what the page fetched.     *)
(***************************************************************************)
EXTENDS Naturals

CONSTANTS
  Pages,
  Cap,              \* of a channel: 64 for the log, 4 for reloads
  MaxVersion,       \* bound on what happens
  MaxConnects       \* bound on the connections of one page

ASSUME FeedAssumption == Cap \in Nat \ {0} /\ MaxVersion \in Nat /\ MaxConnects \in Nat

VARIABLES
  version,
  pending,          \* happened, and not published yet: "go cb()"
  subs,             \* the pages whose channels are in the map
  at,               \* where each page's handler stands
  unread,           \* how full the page's channel is
  closed,           \* the page's channel was closed
  shown,
  since,            \* ghost: version when the page subscribed
  connects,
  panicked          \* somebody sent on a closed channel

pageVars == <<at, shown, since, connects>>
vars     == <<version, pending, subs, unread, closed, pageVars, panicked>>

\* A page was loaded, with what there is.
Init ==
  /\ version = 0
  /\ pending = 0
  /\ subs = {}
  /\ at = [p \in Pages |-> "away"]
  /\ unread = [p \in Pages |-> 0]
  /\ closed = [p \in Pages |-> FALSE]
  /\ shown = [p \in Pages |-> 0]
  /\ since = [p \in Pages |-> 0]
  /\ connects = [p \in Pages |-> 0]
  /\ panicked = FALSE

Move(p, from, to) ==
  /\ at[p] = from
  /\ at' = [at EXCEPT ![p] = to]

-------------------------------------------------------------------------------
(* Publishers.                                                                 *)

Happen ==
  /\ version < MaxVersion
  /\ version' = version + 1
  /\ pending' = pending + 1
  /\ UNCHANGED <<subs, unread, closed, pageVars, panicked>>

\* Mutant of HaveRoom: the default branch of the select is left out.
HaveRoomOrNot == subs

\* The channels that a non-blocking send goes into.
HaveRoom == {p \in subs : unread[p] < Cap}

Send(to) ==
  /\ pending > 0
  /\ pending' = pending - 1
  /\ unread' = [p \in Pages |-> IF p \in to THEN unread[p] + 1 ELSE unread[p]]
  /\ panicked' = (panicked \/ \E p \in subs : closed[p])
  /\ UNCHANGED <<version, subs, closed, pageVars>>

\* Mutant of Publish: it waits for a subscriber that is too slow.
PublishBlocking == HaveRoom = subs /\ Send(subs)

\* Mutant of Publish: it is over at the first subscriber that is too slow.
PublishUntilFull == \E to \in SUBSET HaveRoom : (to = subs \/ HaveRoom # subs) /\ Send(to)

Publish == Send(HaveRoom)

-------------------------------------------------------------------------------
(* A page and its handler.                                                     *)

\* ": connected" is written before the handler subscribes.  The browser comes
\* back by itself when the connection was lost.
Connect(p) ==
  /\ Move(p, "away", "connected")
  /\ connects[p] < MaxConnects
  /\ connects' = [connects EXCEPT ![p] = @ + 1]
  /\ UNCHANGED <<version, pending, subs, unread, closed, shown, since, panicked>>

Subscribe(p) ==
  /\ Move(p, "connected", "subscribed")
  /\ subs' = subs \cup {p}
  /\ unread' = [unread EXCEPT ![p] = 0]
  /\ closed' = [closed EXCEPT ![p] = FALSE]
  /\ since' = [since EXCEPT ![p] = version]
  /\ UNCHANGED <<version, pending, shown, connects, panicked>>

\* The handler passes one signal on, and the page fetches anew.
Receive(p) ==
  /\ at[p] = "subscribed"
  /\ unread[p] > 0
  /\ unread' = [unread EXCEPT ![p] = @ - 1]
  /\ shown' = [shown EXCEPT ![p] = version]
  /\ UNCHANGED <<version, pending, subs, at, closed, since, connects, panicked>>

\* The request's context is done; the deferred Unsubscribe follows.
Leave(p) ==
  /\ Move(p, "subscribed", "leaving")
  /\ UNCHANGED <<version, pending, subs, unread, closed, shown, since, connects, panicked>>

\* Mutant of Unsubscribe: the channel is not deleted from the map.
UnsubscribeForgets(p) ==
  /\ Move(p, "leaving", "closing")
  /\ UNCHANGED <<version, pending, subs, unread, closed, shown, since, connects, panicked>>

\* The channel leaves the map, under the mutex ...
Unsubscribe(p) ==
  /\ Move(p, "leaving", "closing")
  /\ subs' = subs \ {p}
  /\ UNCHANGED <<version, pending, unread, closed, shown, since, connects, panicked>>

\* ... and is closed after it.
Close(p) ==
  /\ Move(p, "closing", "away")
  /\ closed' = [closed EXCEPT ![p] = TRUE]
  /\ UNCHANGED <<version, pending, subs, unread, shown, since, connects, panicked>>

Next ==
  \/ Happen \/ Publish
  \/ \E p \in Pages : \/ Connect(p) \/ Subscribe(p) \/ Receive(p)
                      \/ Leave(p) \/ Unsubscribe(p) \/ Close(p)

Spec == Init /\ [][Next]_vars

\* Publishers go on; no page has to read, or to stay.
FairSpec == Spec /\ WF_vars(Publish)

-------------------------------------------------------------------------------
\* Every variable has its type.
TypeOK ==
  /\ version \in Nat /\ pending \in Nat
  /\ subs \subseteq Pages
  /\ at \in [Pages -> {"away", "connected", "subscribed", "leaving", "closing"}]
  /\ unread \in [Pages -> 0..Cap]
  /\ closed \in [Pages -> BOOLEAN]
  /\ shown \in [Pages -> Nat] /\ since \in [Pages -> Nat] /\ connects \in [Pages -> Nat]
  /\ panicked \in BOOLEAN

(***************************************************************************)
(* No publisher ever sends on a closed channel, which would panic, however *)
(* pages come and go.  logger.go:46-70, server.go:55-79.                   *)
(***************************************************************************)
NeverSendsOnClosed == ~panicked

(***************************************************************************)
(* A page that stays misses no reload, whatever signals are dropped for it *)
(* or for others: it shows the last one, or has a signal to read.          *)
(* server.go:55-64.                                                        *)
(***************************************************************************)
NoReloadMissed ==
  \A p \in Pages : pending = 0 /\ at[p] = "subscribed" =>
    unread[p] > 0 \/ shown[p] = version \/ since[p] = version

(***************************************************************************)
(* Publishing ends, though no page reads: "drop event rather than block"   *)
(* (logger.go:67).                                                         *)
(***************************************************************************)
PublishingEnds == pending > 0 ~> pending = 0

(***************************************************************************)
(* "Browser will auto-reconnect; nothing extra needed" (index.html:1466):  *)
(* a page that came back, with nothing to read, shows the last reload.     *)
(***************************************************************************)
ReconnectedPageIsCurrent ==
  \A p \in Pages :
    pending = 0 /\ at[p] = "subscribed" /\ connects[p] > 1 /\ unread[p] = 0 =>
      shown[p] = version
===============================================================================

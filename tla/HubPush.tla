------------------------------- MODULE HubPush -------------------------------
(***************************************************************************)
(* Real-time push from the hub to an install: HubWsClientImpl               *)
(* (hub-client/ws-client.ts) against HubModeWebSocketHub (ws/hub.ts) and    *)
(* the route that authenticates the connection (ws/server.ts).              *)
(*                                                                         *)
(* One install, one subscription every event matches.  The hub hands each   *)
(* event it is notified of to the connections that are subscribed; a        *)
(* subscribe that carries the last event seen is answered by a query and    *)
(* what it finds.  The client sends that subscribe as soon as its socket    *)
(* opens, which is before the hub has authenticated it and before anything  *)
(* listens there; the query is not waited for, so live events may be sent   *)
(* first.  Events are numbered in the order of their ids and times.         *)
(***************************************************************************)
EXTENDS Integers, FiniteSets, Sequences

CONSTANTS
  LastEvent,   \* events appended at the hub
  QueryLimit,  \* the newest events a backfill reads (500)
  MaxDrops     \* connections that drop, queries that reject

ASSUME PushAssumption ==
  LastEvent \in Nat /\ QueryLimit \in Nat \ {0} /\ MaxDrops \in Nat

Pushed == 1..LastEvent
NoHello == -1

VARIABLES
  logged,     \* events in the hub's event store
  toFanOut,   \* those whose notification the hub has not handled yet
  socket,     \* "none", "authenticating" or "open"
  hello,      \* cursor of the subscribe on its way to the hub, 0 without one
  subscribed, \* does the hub have the connection's pattern?
  connCursor, \* state.cursor, 0 without one
  openedAt,   \* state.openedAtMs: the last event by then
  backfill,   \* the hub's query for the connection, and what it found
  toClient,   \* events on their way to the client
  lastEventSeen, \* _lastSeenEventId, 0 without one
  got,        \* events the client's handler was called with
  dropsLeft,
  unread,     \* history: events the connection's query did not reach
  owedFrom,   \* history: the last event when a subscribe was heard from a client that
              \* had seen none
  holed       \* history: was a query cut short, or a connection lost with an
              \* event missing below lastEventSeen?

pushVars == <<logged, toFanOut, socket, hello, subscribed, connCursor, openedAt, backfill,
              toClient, lastEventSeen, got, dropsLeft, unread, owedFrom, holed>>
store  == <<logged, toFanOut>>
link   == <<socket, hello, subscribed, connCursor, openedAt, backfill>>
client == <<lastEventSeen, got>>

NoBackfill == [pc |-> "none", after |-> 0, found |-> {}]

PushTypeOK ==
  /\ logged \in 0..LastEvent /\ toFanOut \subseteq 1..logged
  /\ socket \in {"none", "authenticating", "open"}
  /\ hello \in NoHello..LastEvent /\ subscribed \in BOOLEAN
  /\ connCursor \in 0..LastEvent /\ openedAt \in 0..LastEvent
  /\ backfill \in [pc : {"none", "querying", "found"}, after : 0..LastEvent, found : SUBSET Pushed]
  /\ toClient \in Seq(Pushed)
  /\ lastEventSeen \in 0..LastEvent /\ got \subseteq 1..logged /\ unread \subseteq Pushed
  /\ owedFrom \in 0..LastEvent /\ dropsLeft \in 0..MaxDrops /\ holed \in BOOLEAN
  /\ socket = "none" => toClient = <<>> /\ backfill = NoBackfill /\ hello = NoHello

Disconnected ==
  /\ socket = "none" /\ hello = NoHello /\ subscribed = FALSE
  /\ connCursor = 0 /\ openedAt = 0 /\ backfill = NoBackfill /\ toClient = <<>>

PushInit ==
  /\ logged = 0 /\ toFanOut = {}
  /\ Disconnected
  /\ lastEventSeen = 0 /\ got = {}
  /\ dropsLeft = MaxDrops /\ unread = {}
  /\ owedFrom = 0 /\ holed = FALSE

\* Events up to one that the client should have seen and has not.
Missing(upTo) == (owedFrom + 1)..upTo \ got

-----------------------------------------------------------------------------
(* The hub's event store                                                   *)

AppendAtHub ==
  /\ logged < LastEvent
  /\ logged' = logged + 1
  /\ toFanOut' = toFanOut \cup {logged + 1}
  /\ UNCHANGED <<link, toClient, client, dropsLeft, unread, owedFrom, holed>>

\* fanOut: an event from before the connection opened is skipped, unless the
\* connection has a cursor.
FanOut(e) ==
  /\ e \in toFanOut
  /\ toFanOut' = toFanOut \ {e}
  /\ toClient' = IF socket = "open" /\ subscribed /\ (connCursor # 0 \/ e > openedAt)
                 THEN Append(toClient, e) ELSE toClient
  /\ UNCHANGED <<logged, link, client, dropsLeft, unread, owedFrom, holed>>

-----------------------------------------------------------------------------
(* Connecting                                                              *)

\* Mutant: the subscribe is sent without the last event seen.
OpenWithoutCursor ==
  /\ socket = "none"
  /\ socket' = "authenticating"
  /\ hello' = 0
  /\ connCursor' = lastEventSeen
  /\ UNCHANGED <<store, subscribed, openedAt, backfill, toClient, client, dropsLeft, unread, owedFrom, holed>>

\* The upgrade succeeds: 'open' fires at the client, which subscribes at once.
\* The URL carries the cursor as well.
Open ==
  /\ socket = "none"
  /\ socket' = "authenticating"
  /\ hello' = lastEventSeen
  /\ connCursor' = lastEventSeen
  /\ UNCHANGED <<store, subscribed, openedAt, backfill, toClient, client, dropsLeft, unread, owedFrom, holed>>

\* handleAuthenticatedConnection: from here on the hub listens.
Authenticated ==
  /\ socket = "authenticating"
  /\ socket' = "open"
  /\ openedAt' = logged
  /\ UNCHANGED <<store, hello, subscribed, connCursor, backfill, toClient, client, dropsLeft,
                 unread, owedFrom, holed>>

\* What is on its way is lost with the connection.
Disconnect ==
  /\ socket' = "none" /\ hello' = NoHello /\ subscribed' = FALSE
  /\ connCursor' = 0 /\ openedAt' = 0 /\ backfill' = NoBackfill /\ toClient' = <<>>
  /\ unread' = {}
  /\ holed' = (holed \/ Missing(lastEventSeen) # {})

\* The envelope is refused: close 4001.
AuthenticationFails ==
  /\ socket = "authenticating"
  /\ dropsLeft > 0 /\ dropsLeft' = dropsLeft - 1
  /\ Disconnect
  /\ UNCHANGED <<store, client, owedFrom>>

DropConnection ==
  /\ socket = "open"
  /\ dropsLeft > 0 /\ dropsLeft' = dropsLeft - 1
  /\ Disconnect
  /\ UNCHANGED <<store, client, owedFrom>>

-----------------------------------------------------------------------------
(* The subscribe and its backfill                                          *)

\* It arrives while verifyWsHandshake is awaited: no listener, no answer.
HelloUnheard ==
  /\ hello # NoHello /\ socket = "authenticating"
  /\ hello' = NoHello
  /\ UNCHANGED <<store, socket, subscribed, connCursor, openedAt, backfill, toClient, client,
                 dropsLeft, unread, owedFrom, holed>>

HelloHeard ==
  /\ hello # NoHello /\ socket = "open"
  /\ hello' = NoHello
  /\ subscribed' = TRUE
  /\ IF hello > 0
     THEN /\ connCursor' = hello
          /\ backfill' = [pc |-> "querying", after |-> hello, found |-> {}]
     ELSE UNCHANGED <<connCursor, backfill>>
  /\ owedFrom' = IF lastEventSeen > 0 THEN owedFrom ELSE logged
  /\ UNCHANGED <<store, socket, openedAt, toClient, client, dropsLeft, unread, holed>>

Newest == {e \in 1..logged : e > logged - QueryLimit}

\* Mutant: the first event after the cursor is taken for seen.
BackfillFromNext ==
  /\ backfill.pc = "querying"
  /\ backfill' = [backfill EXCEPT !.pc = "found", !.found = {e \in Newest : e > backfill.after + 1}]
  /\ unread' = {e \in 1..logged : e > backfill.after} \ Newest
  /\ holed' = (holed \/ unread' # {})
  /\ UNCHANGED <<store, socket, hello, subscribed, connCursor, openedAt, toClient, client, dropsLeft,
                 owedFrom>>

\* The newest events, and of those the ones after the cursor.
BackfillQuery ==
  /\ backfill.pc = "querying"
  /\ backfill' = [backfill EXCEPT !.pc = "found", !.found = {e \in Newest : e > backfill.after}]
  /\ unread' = {e \in 1..logged : e > backfill.after} \ Newest
  /\ holed' = (holed \/ unread' # {})
  /\ UNCHANGED <<store, socket, hello, subscribed, connCursor, openedAt, toClient, client, dropsLeft,
                 owedFrom>>

\* The query rejects: a warning is all that comes of it.  What it would have
\* found is lost, unless its notification is yet to be handled.
BackfillFails ==
  /\ backfill.pc = "querying"
  /\ dropsLeft > 0 /\ dropsLeft' = dropsLeft - 1
  /\ backfill' = NoBackfill
  /\ unread' = {e \in 1..logged : e > backfill.after} \ toFanOut
  /\ holed' = (holed \/ unread' # {})
  /\ UNCHANGED <<store, socket, hello, subscribed, connCursor, openedAt, toClient, client, owedFrom>>

\* Events one after another, oldest first (there is one such sequence).
OldestFirst(events) ==
  {q \in [1..Cardinality(events) -> events] :
     /\ events = {q[i] : i \in DOMAIN q}
     /\ \A i, j \in DOMAIN q : i < j => q[i] < q[j]}

\* All in one go.
BackfillSend ==
  /\ backfill.pc = "found"
  /\ backfill' = NoBackfill
  /\ \E q \in OldestFirst(backfill.found) : toClient' = toClient \o q
  /\ UNCHANGED <<store, socket, hello, subscribed, connCursor, openedAt, client, dropsLeft, unread, owedFrom, holed>>

-----------------------------------------------------------------------------
(* The client                                                              *)

\* handleMessage: the cursor follows the last event received, not the largest.
Receive ==
  /\ toClient # <<>>
  /\ toClient' = Tail(toClient)
  /\ lastEventSeen' = Head(toClient)
  /\ got' = got \cup {Head(toClient)}
  /\ UNCHANGED <<store, link, dropsLeft, unread, owedFrom, holed>>

-----------------------------------------------------------------------------

PushNext ==
  \/ AppendAtHub \/ \E e \in Pushed : FanOut(e)
  \/ Open \/ Authenticated \/ AuthenticationFails \/ DropConnection
  \/ HelloUnheard \/ HelloHeard
  \/ BackfillQuery \/ BackfillFails \/ BackfillSend
  \/ Receive

PushSpec == PushInit /\ [][PushNext]_pushVars

-----------------------------------------------------------------------------
(* Properties                                                              *)

\* A connection whose subscribe was heard with a cursor accounts for every
\* event after that cursor, whichever events are appended, fanned out or
\* queried meanwhile: the client has it, it is on its way, the hub has yet to
\* handle it, or it is older than the newest events a query reads (backfill
\* and fanOut of HubModeWebSocketHub).
ConnectionComplete ==
  socket = "open" /\ subscribed /\ connCursor > 0 =>
    \A e \in (connCursor + 1)..logged :
      \/ e \in got \cup toFanOut \cup backfill.found \cup unread
      \/ backfill.pc = "querying"
      \/ \E i \in DOMAIN toClient : toClient[i] = e

\* The connection is up and everything it was to bring has been received.
Quiet ==
  /\ socket = "open" /\ hello = NoHello /\ backfill.pc = "none"
  /\ toClient = <<>> /\ toFanOut = {}

\* Over any number of reconnections, on a connection whose subscribe was heard
\* the client misses no event appended since its first, unless a query failed
\* or ended at its limit, or a connection was lost when a later event had
\* overtaken one still due (resubscribeAll with _lastSeenEventId, and backfill).
NothingMissed == Quiet /\ subscribed /\ ~holed => Missing(logged) = {}

\* "the cursor sent in the subscribe message on reconnect guarantees the hub
\* replays any events missed during the disconnect window" (header of
\* hub-client/ws-client.ts).
MissedIsReplayed == Quiet /\ lastEventSeen > 0 => Missing(logged) = {}
=============================================================================

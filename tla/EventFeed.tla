----------------------------- MODULE EventFeed -----------------------------
(***************************************************************************)
(* The live feed of the event log: PostgresEventStore.append and subscribe *)
(* (domain/src/events/store.ts) over NotifyClient (events/notify.ts).      *)
(*                                                                         *)
(* An append takes an id, inserts its row and commits; the trigger of the  *)
(* table notifies whoever listens then.  The client backfills from the     *)
(* cursor of its first subscriber, listens, fetches the row of every       *)
(* notification and, once a minute, reads the rows after the last event it *)
(* has backfilled.  What a dropped connection misses, only that poll can   *)
(* make up for.  EventIds are ordered as uuidv7 are: by when append was called, *)
(* not by when the row was committed.                                      *)
(*                                                                         *)
(* What fails in start or for a notification is caught and logged; what    *)
(* fails in the poll is caught by nobody and ends the process, of which    *)
(* only the rows remain.                                                   *)
(***************************************************************************)
EXTENDS Integers, FiniteSets

CONSTANTS
  LastId,      \* appends, numbered by their ids
  Batch,       \* rows a backfill reads at most (LIMIT 1000)
  Handlers,    \* subscribers
  Cursors,     \* cursors subscribers come with: 0 is before every event
  NoCursor,    \* null
  MaxFaults    \* connections dropped, queries failed, handlers that throw

ASSUME FeedAssumption ==
  /\ LastId \in Nat /\ Batch \in Nat \ {0} /\ MaxFaults \in Nat
  /\ NoCursor = -1
  /\ Cursors \subseteq (0..LastId) \cup {NoCursor}

EventIds == 1..LastId
Positions == (0..LastId) \cup {NoCursor}

VARIABLES
  appended,   \* ids taken so far
  open,       \* ids whose row is not committed yet
  committed,  \* the rows of the events table
  handlers,   \* handlers registered
  phase,      \* the client: "off", "querying", "backfilling", "listening" or
              \* "dead"; "ended" when its process has ended
  lastSeen,   \* cursor, then lastSeenEventId
  polling,    \* is a periodic poll being dispatched?
  batch,      \* rows read by the running backfill, not dispatched yet
  connected,  \* is the LISTEN connection up?
  notified,   \* notifications whose row is being fetched
  seen,       \* per handler, the events it was called with
  since,      \* history, per handler: lastSeen when it subscribed
  dispatches, \* per event, how often the process dispatched it
  steppedOver,\* history: ids the poll had passed before their row was there
  faultsLeft

feedVars == <<appended, open, committed, handlers, phase, lastSeen, polling, batch,
              connected, notified, seen, since, dispatches, steppedOver, faultsLeft>>
log      == <<appended, open, committed>>
subscribers == <<handlers, since>>
progress == <<phase, lastSeen, polling, batch>>
delivery == <<seen, dispatches>>

FeedTypeOK ==
  /\ appended \in 0..LastId
  /\ open \subseteq EventIds /\ committed \subseteq EventIds
  /\ handlers \subseteq Handlers
  /\ phase \in {"off", "querying", "backfilling", "listening", "dead", "ended"}
  /\ lastSeen \in Positions
  /\ polling \in BOOLEAN /\ connected \in BOOLEAN
  /\ batch \subseteq EventIds /\ notified \subseteq EventIds /\ steppedOver \subseteq EventIds
  /\ seen \in [Handlers -> SUBSET EventIds]
  /\ since \in [Handlers -> Positions]
  /\ dispatches \in [EventIds -> Nat]
  /\ faultsLeft \in 0..MaxFaults

FeedInit ==
  /\ appended = 0 /\ open = {} /\ committed = {}
  /\ handlers = {} /\ seen = [h \in Handlers |-> {}]
  /\ since = [h \in Handlers |-> NoCursor]
  /\ phase = "off" /\ lastSeen = NoCursor /\ polling = FALSE /\ batch = {}
  /\ connected = FALSE /\ notified = {}
  /\ dispatches = [e \in EventIds |-> 0]
  /\ steppedOver = {} /\ faultsLeft = MaxFaults

Fault == faultsLeft > 0 /\ faultsLeft' = faultsLeft - 1

-----------------------------------------------------------------------------
(* append                                                                  *)

AppendBegin ==
  /\ appended < LastId
  /\ appended' = appended + 1
  /\ open' = open \cup {appended + 1}
  /\ UNCHANGED <<committed, subscribers, progress, connected, notified, delivery, steppedOver, faultsLeft>>

\* The INSERT commits and its trigger notifies the connection that listens.
Commit(e) ==
  /\ e \in open
  /\ open' = open \ {e}
  /\ committed' = committed \cup {e}
  /\ notified' = IF connected THEN notified \cup {e} ELSE notified
  /\ UNCHANGED <<appended, subscribers, progress, connected, delivery, steppedOver, faultsLeft>>

AppendFails(e) ==
  /\ e \in open
  /\ open' = open \ {e}
  /\ UNCHANGED <<appended, committed, subscribers, progress, connected, notified, delivery,
                 steppedOver, faultsLeft>>

-----------------------------------------------------------------------------
(* dispatch: the handlers registered by now, up to one that throws          *)

DispatchTo(e, reached) ==
  /\ seen' = [h \in Handlers |-> IF h \in reached THEN seen[h] \cup {e} ELSE seen[h]]
  /\ dispatches' = [dispatches EXCEPT ![e] = @ + 1]

\* backfillSince: the first rows after a position, none after null.
RowsAfter(position) ==
  IF position = NoCursor THEN {}
  ELSE LET later == {e \in committed : e > position}
       IN  {e \in later : Cardinality({d \in later : d < e}) < Batch}

FirstOfBatch(e) == e \in batch /\ \A d \in batch : e <= d

-----------------------------------------------------------------------------
(* start: only the first subscriber's cursor counts                         *)

Subscribe(h, cursor) ==
  /\ phase # "ended" /\ h \notin handlers
  /\ handlers' = handlers \cup {h}
  /\ IF phase = "off"
     THEN phase' = "querying" /\ lastSeen' = cursor
     ELSE UNCHANGED <<phase, lastSeen>>
  /\ since' = [since EXCEPT ![h] = lastSeen']
  /\ UNCHANGED <<log, polling, batch, connected, notified, delivery, steppedOver, faultsLeft>>

StartQuery ==
  /\ phase = "querying"
  /\ phase' = "backfilling"
  /\ batch' = RowsAfter(lastSeen)
  /\ UNCHANGED <<log, subscribers, lastSeen, polling, connected, notified, delivery,
                 steppedOver, faultsLeft>>

\* lastSeenEventId starts at the cursor, whatever the backfill dispatches.
StartDispatch(e) ==
  /\ phase = "backfilling" /\ FirstOfBatch(e)
  /\ batch' = batch \ {e}
  /\ DispatchTo(e, handlers)
  /\ UNCHANGED <<log, subscribers, phase, lastSeen, polling, connected, notified,
                 steppedOver, faultsLeft>>

Listen ==
  /\ phase = "backfilling" /\ batch = {}
  /\ phase' = "listening"
  /\ connected' = TRUE
  /\ UNCHANGED <<log, subscribers, lastSeen, polling, batch, notified, delivery,
                 steppedOver, faultsLeft>>

\* A query, LISTEN or a handler fails: `connected` stays set, so that no later
\* subscribe starts the client again.
StartFails ==
  /\ phase \in {"querying", "backfilling"}
  /\ Fault
  /\ phase' = "dead"
  /\ batch' = {}
  /\ UNCHANGED <<log, subscribers, lastSeen, polling, connected, notified, delivery, steppedOver>>

-----------------------------------------------------------------------------
(* notifications                                                           *)

FetchNotified(e) ==
  /\ e \in notified
  /\ notified' = notified \ {e}
  /\ DispatchTo(e, handlers)
  /\ UNCHANGED <<log, subscribers, progress, connected, steppedOver, faultsLeft>>

\* The query rejects, or a handler throws and the ones after it are not called.
FetchFails(e, reached) ==
  /\ e \in notified
  /\ Fault
  /\ notified' = notified \ {e}
  /\ DispatchTo(e, reached)
  /\ UNCHANGED <<log, subscribers, progress, connected, steppedOver>>

Drop ==
  /\ connected
  /\ Fault
  /\ connected' = FALSE
  /\ UNCHANGED <<log, subscribers, progress, notified, delivery, steppedOver>>

\* postgres.js connects and listens again by itself.
Relisten ==
  /\ phase = "listening" /\ ~connected
  /\ connected' = TRUE
  /\ UNCHANGED <<log, subscribers, progress, notified, delivery, steppedOver, faultsLeft>>

-----------------------------------------------------------------------------
(* the poll, once a minute                                                 *)

\* Mutant: the poll only runs while the connection is down.
PollWhileDown ==
  /\ phase = "listening" /\ ~polling /\ ~connected
  /\ RowsAfter(lastSeen) # {}
  /\ polling' = TRUE
  /\ batch' = RowsAfter(lastSeen)
  /\ UNCHANGED <<log, subscribers, phase, lastSeen, connected, notified, delivery,
                 steppedOver, faultsLeft>>

PollQuery ==
  /\ phase = "listening" /\ ~polling
  /\ RowsAfter(lastSeen) # {}
  /\ polling' = TRUE
  /\ batch' = RowsAfter(lastSeen)
  /\ UNCHANGED <<log, subscribers, phase, lastSeen, connected, notified, delivery,
                 steppedOver, faultsLeft>>

\* Mutant: a poll does not move lastSeenEventId on.
PollDispatchInPlace(e) ==
  /\ polling /\ FirstOfBatch(e)
  /\ DispatchTo(e, handlers)
  /\ batch' = batch \ {e}
  /\ polling' = (batch' # {})
  /\ UNCHANGED <<log, subscribers, phase, lastSeen, connected, notified, steppedOver, faultsLeft>>

\* Mutant: lastSeenEventId is moved to the last row read before the others
\* have been dispatched.
PollDispatchAhead(e) ==
  /\ polling /\ FirstOfBatch(e)
  /\ DispatchTo(e, handlers)
  /\ lastSeen' \in {d \in batch : \A b \in batch : b <= d}
  /\ batch' = batch \ {e}
  /\ polling' = (batch' # {})
  /\ steppedOver' = steppedOver \cup {d \in EventIds : lastSeen < d /\ d < e}
  /\ UNCHANGED <<log, subscribers, phase, connected, notified, faultsLeft>>

PollDispatch(e) ==
  /\ polling /\ FirstOfBatch(e)
  /\ DispatchTo(e, handlers)
  /\ lastSeen' = e
  /\ batch' = batch \ {e}
  /\ polling' = (batch' # {})
  /\ steppedOver' = steppedOver \cup {d \in EventIds : lastSeen < d /\ d < e}
  /\ UNCHANGED <<log, subscribers, phase, connected, notified, faultsLeft>>

-----------------------------------------------------------------------------
(* Nothing catches what fails in the poll: the rejection is unhandled, which *)
(* ends the process (the default of Node; the daemon shuts down).            *)

\* The handlers, the client and the notifications it had are gone with it.
ProcessEnds ==
  /\ phase' = "ended"
  /\ handlers' = {} /\ notified' = {} /\ batch' = {}
  /\ polling' = FALSE /\ connected' = FALSE
  /\ UNCHANGED <<log, since, lastSeen, steppedOver>>

\* The query rejects.  There is none after null.
PollQueryFails ==
  /\ phase = "listening" /\ ~polling /\ lastSeen # NoCursor
  /\ Fault
  /\ ProcessEnds
  /\ UNCHANGED delivery

\* A handler throws, after some of the handlers have been called.
PollFails(e, reached) ==
  /\ polling /\ FirstOfBatch(e)
  /\ Fault
  /\ DispatchTo(e, reached)
  /\ ProcessEnds

\* A new process, with a client that has no subscriber yet.
NewProcess ==
  /\ phase = "ended"
  /\ phase' = "off" /\ lastSeen' = NoCursor
  /\ seen' = [h \in Handlers |-> {}] /\ since' = [h \in Handlers |-> NoCursor]
  /\ dispatches' = [e \in EventIds |-> 0] /\ steppedOver' = {}
  /\ UNCHANGED <<log, handlers, polling, batch, connected, notified, faultsLeft>>

-----------------------------------------------------------------------------

\* What the client does of itself, without a fault.
ClientStep ==
  \/ StartQuery \/ Listen \/ Relisten \/ PollQuery
  \/ \E e \in EventIds : StartDispatch(e) \/ FetchNotified(e) \/ PollDispatch(e)

FeedNext ==
  \/ ClientStep
  \/ AppendBegin
  \/ \E e \in EventIds : Commit(e) \/ AppendFails(e)
  \/ \E h \in Handlers, cursor \in Cursors : Subscribe(h, cursor)
  \/ StartFails \/ Drop \/ PollQueryFails \/ NewProcess
  \/ \E e \in EventIds, reached \in SUBSET handlers : FetchFails(e, reached) \/ PollFails(e, reached)

FeedSpec == FeedInit /\ [][FeedNext]_feedVars

\* The client's timers, queries and callbacks run; an INSERT ends.
FeedFairness ==
  /\ WF_feedVars(ClientStep)
  /\ \A e \in EventIds : WF_feedVars(Commit(e) \/ AppendFails(e))

FairFeedSpec == FeedSpec /\ FeedFairness

-----------------------------------------------------------------------------
(* Properties                                                              *)

\* Every handler was called with every event lastSeenEventId has passed since
\* it subscribed, whichever notifications were lost or failed in between, but
\* for rows committed after the poll had passed them (NotifyClient.start, the
\* periodic poll).
PolledWasSeen ==
  phase = "listening" =>
    \A h \in handlers, e \in committed :
      since[h] < e /\ e <= lastSeen => e \in seen[h] \cup steppedOver

\* Faults aside a process dispatches an event twice at most: for its
\* notification or by the first backfill, and by one poll.
DispatchedTwiceAtMost ==
  \A e \in EventIds : dispatches[e] <= 2 + (MaxFaults - faultsLeft)

\* Does a handler that has subscribed wait for an event being appended?
Awaited(e, h) == e \in open /\ h \in handlers /\ phase = "listening"
\* It is called with it, or there is nothing to call it with, or the row came
\* later than one the poll had passed, or the process has ended.
Settled(e, h) ==
  \/ e \in seen[h] \/ e \notin open \cup committed
  \/ e \in steppedOver \/ phase = "ended"

\* Once the client listens, every event reaches every handler subscribed by
\* then for as long as the process runs, although connections drop and fetches
\* of notified rows fail ("Defensive periodic backfill every 60s in case NOTIFY
\* was dropped. Tracks latest seen event_id across handlers.",
\* NotifyClient.start).
EveryEventDelivered ==
  \A e \in EventIds, h \in Handlers : Awaited(e, h) ~> Settled(e, h)

\* The same of a client whose first subscriber came with a cursor: a dropped
\* connection or a failed fetch is made up for by the poll.  A query or a
\* handler that fails in the poll is not: it ends the process.
DeliveredAfterCursor ==
  \A e \in EventIds, h \in Handlers :
    Awaited(e, h) /\ lastSeen # NoCursor ~> Settled(e, h)
=============================================================================

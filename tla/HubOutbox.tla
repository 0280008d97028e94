----------------------------- MODULE HubOutbox -----------------------------
(***************************************************************************)
(* The persistent outbox towards the hub (hub-client/outbox.ts,            *)
(* PersistentHubOutbox), its caller appendWithOutboxFallback               *)
(* (domain/src/events/store.ts) and the connection state of the client it  *)
(* sends through (hub-client/client.ts).                                   *)
(*                                                                         *)
(* Appends of events run concurrently with each other and with the one     *)
(* drain that the draining flag admits; each is cut at its awaits.  A      *)
(* request that got no usable answer may still arrive at the hub later.    *)
(***************************************************************************)
EXTENDS Naturals, FiniteSets

CONSTANTS
  Events,       \* events handed to appendWithOutboxFallback
  MaxRetries,   \* HubOutboxOptions.maxRetries
  MaxFaults,    \* bound: database calls that reject
  MaxRestarts,  \* bound: restarts of the process
  NoRow         \* the drain's row while it is idle

ASSUME OutboxAssumption ==
  /\ IsFiniteSet(Events)
  /\ MaxRetries \in Nat \ {0}
  /\ MaxFaults \in Nat
  /\ MaxRestarts \in Nat
  /\ NoRow \notin Events

VARIABLES
  pc,         \* step of each event's append
  seq,        \* local_outbox.seq of its row, 0 without a row
  attempts,   \* local_outbox.attempts
  flushed,    \* rows whose flushed_at is set
  lastError,  \* local_outbox.last_error of its row
  owned,      \* ownedSeqs
  drain,      \* local state of drain(); idle when draining is false
  conn,       \* HubClientImpl._connectionState
  late,       \* requests without an answer that may still arrive
  arrived,    \* events the hub has
  sent,       \* history: requests made for each event
  faults,     \* number of database calls that have rejected
  restarts    \* number of restarts

table == <<seq, attempts, flushed, lastError>>
hub   == <<late, arrived>>
vars  == <<pc, table, owned, drain, conn, hub, sent, faults, restarts>>

AppendSteps == {"new", "sending", "inserting", "owning", "queued", "direct",
                "dropped", "stranded"}
DrainSteps  == {"idle", "reading", "sending", "confirming", "rejecting",
                "counting", "catching", "sleeping"}
IdleDrain == [pc |-> "idle", row |-> NoRow, plan |-> {}, count |-> 0]
DrainType ==
  {IdleDrain} \cup [pc : DrainSteps \ {"idle"}, row : Events, plan : SUBSET Events,
                    count : 0..(MaxRetries - 1)]

TypeOK ==
  /\ pc \in [Events -> AppendSteps]
  /\ seq \in [Events -> Nat]
  /\ attempts \in [Events -> 0..MaxRetries]
  /\ flushed \subseteq Events
  /\ lastError \in [Events -> {"none", "failed", "rejected", "dismissed"}]
  /\ owned \subseteq Events
  /\ drain \in DrainType
  /\ conn \in {"connected", "offline"}
  /\ late \subseteq Events /\ arrived \subseteq Events
  /\ sent \in [Events -> Nat]
  /\ faults \in 0..MaxFaults
  /\ restarts \in 0..MaxRestarts

Init ==
  /\ pc = [e \in Events |-> "new"]
  /\ seq = [e \in Events |-> 0]
  /\ attempts = [e \in Events |-> 0]
  /\ flushed = {}
  /\ lastError = [e \in Events |-> "none"]
  /\ owned = {}
  /\ drain = IdleDrain
  /\ conn = "connected"
  /\ late = {} /\ arrived = {}
  /\ sent = [e \in Events |-> 0]
  /\ faults = 0 /\ restarts = 0

-----------------------------------------------------------------------------
\* A database call rejects.
Fault == faults < MaxFaults /\ faults' = faults + 1

\* markStatus after each request: an answer that is not ok counts as offline.
\* A request without a usable answer may have been delivered, or still be.
AnswerOk(e)    == conn' = "connected" /\ arrived' = arrived \cup {e} /\ UNCHANGED late
AnswerError    == conn' = "offline" /\ UNCHANGED hub
AnswerNever(e) == conn' = "offline" /\ late' = late \cup {e} /\ UNCHANGED arrived

\* The loop head of drain(): it goes on in seq order while there are rows and
\* the client counts as connected.
Continue(plan) ==
  \/ /\ plan = {} \/ conn # "connected"
     /\ drain' = IdleDrain
  \/ /\ conn = "connected"
     /\ \E e \in plan :
          /\ \A f \in plan : seq[e] <= seq[f]
          /\ drain' = [pc |-> "reading", row |-> e, plan |-> plan \ {e}, count |-> 0]

-----------------------------------------------------------------------------
(* appendWithOutboxFallback                                                *)

\* The local write is done and the payload is clean.
Append(e) ==
  /\ pc[e] = "new"
  /\ IF conn = "offline"
     THEN /\ pc' = [pc EXCEPT ![e] = "inserting"]
          /\ UNCHANGED sent
     ELSE /\ pc' = [pc EXCEPT ![e] = "sending"]
          /\ sent' = [sent EXCEPT ![e] = @ + 1]
  /\ UNCHANGED <<table, owned, drain, conn, hub, faults, restarts>>

\* Whatever goes wrong with the direct call, the event is enqueued.
DirectAnswer(e) ==
  /\ pc[e] = "sending"
  /\ \/ AnswerOk(e) /\ pc' = [pc EXCEPT ![e] = "direct"]
     \/ AnswerError /\ pc' = [pc EXCEPT ![e] = "inserting"]
     \/ AnswerNever(e) /\ pc' = [pc EXCEPT ![e] = "inserting"]
  /\ UNCHANGED <<table, owned, drain, sent, faults, restarts>>

\* enqueue inserts the row; the database gives it the next seq.
InsertRow(e) ==
  /\ pc[e] = "inserting"
  /\ \/ /\ seq' = [seq EXCEPT ![e] = Cardinality({f \in Events : seq[f] > 0}) + 1]
        /\ pc' = [pc EXCEPT ![e] = "owning"]
        /\ UNCHANGED faults
     \/ /\ Fault
        /\ pc' = [pc EXCEPT ![e] = "dropped"]
        /\ UNCHANGED seq
  /\ UNCHANGED <<attempts, flushed, lastError, owned, drain, conn, hub, sent, restarts>>

\* The insert has returned: the row is owned and drain() is called.
OwnRow(e) ==
  /\ pc[e] = "owning"
  /\ pc' = [pc EXCEPT ![e] = "queued"]
  /\ owned' = owned \cup {e}
  /\ IF drain = IdleDrain THEN Continue(owned \cup {e}) ELSE UNCHANGED drain
  /\ UNCHANGED <<table, conn, hub, sent, faults, restarts>>

-----------------------------------------------------------------------------
(* drain and flushRow                                                      *)

TimerDrain ==
  /\ drain = IdleDrain
  /\ conn = "connected" /\ owned # {}
  /\ Continue(owned)
  /\ UNCHANGED <<pc, table, owned, conn, hub, sent, faults, restarts>>

\* Mutant: one attempt more than maxRetries.
SettledOnceMore(e) == e \in flushed \/ attempts[e] > MaxRetries

\* A row the drain need not send: flushed, dismissed or out of attempts.
Settled(e) == e \in flushed \/ attempts[e] >= MaxRetries

\* Mutant: an exhausted row stays in ownedSeqs.
ReadRowKeepsExhausted ==
  /\ drain.pc = "reading"
  /\ LET e == drain.row IN
       \/ /\ Settled(e)
          /\ Continue(drain.plan)
          /\ UNCHANGED <<owned, sent, faults>>
       \/ /\ ~Settled(e)
          /\ drain' = [drain EXCEPT !.pc = "sending", !.count = attempts[e]]
          /\ sent' = [sent EXCEPT ![e] = @ + 1]
          /\ UNCHANGED <<owned, faults>>
       \/ /\ Fault
          /\ drain' = IdleDrain
          /\ UNCHANGED <<owned, sent>>
  /\ UNCHANGED <<pc, table, conn, hub, restarts>>

\* A settled row leaves ownedSeqs; any other is sent.
ReadRow ==
  /\ drain.pc = "reading"
  /\ LET e == drain.row IN
       \/ /\ Settled(e)
          /\ owned' = owned \ {e}
          /\ Continue(drain.plan)
          /\ UNCHANGED <<sent, faults>>
       \/ /\ ~Settled(e)
          /\ drain' = [drain EXCEPT !.pc = "sending", !.count = attempts[e]]
          /\ sent' = [sent EXCEPT ![e] = @ + 1]
          /\ UNCHANGED <<owned, faults>>
       \/ /\ Fault
          /\ drain' = IdleDrain
          /\ UNCHANGED <<owned, sent>>
  /\ UNCHANGED <<pc, table, conn, hub, restarts>>

\* Mutant: a 5xx answer passes for a success.
DrainAnswerLax ==
  /\ drain.pc = "sending"
  /\ \/ AnswerOk(drain.row) /\ drain' = [drain EXCEPT !.pc = "confirming"]
     \/ AnswerError /\ \E next \in {"rejecting", "confirming"} :
                          drain' = [drain EXCEPT !.pc = next]
     \/ AnswerNever(drain.row) /\ drain' = [drain EXCEPT !.pc = "counting"]
  /\ UNCHANGED <<pc, table, owned, sent, faults, restarts>>

DrainAnswer ==
  /\ drain.pc = "sending"
  /\ \/ AnswerOk(drain.row) /\ drain' = [drain EXCEPT !.pc = "confirming"]
     \/ AnswerError /\ \E next \in {"rejecting", "counting"} :
                          drain' = [drain EXCEPT !.pc = next]
     \/ AnswerNever(drain.row) /\ drain' = [drain EXCEPT !.pc = "counting"]
  /\ UNCHANGED <<pc, table, owned, sent, faults, restarts>>

\* The hub has it: flushed_at is set and last_error cleared.
ConfirmRow ==
  /\ drain.pc = "confirming"
  /\ \/ /\ flushed' = flushed \cup {drain.row}
        /\ lastError' = [lastError EXCEPT ![drain.row] = "none"]
        /\ owned' = owned \ {drain.row}
        /\ Continue(drain.plan)
        /\ UNCHANGED faults
     \/ /\ Fault
        /\ drain' = [drain EXCEPT !.pc = "catching"]
        /\ UNCHANGED <<flushed, lastError, owned>>
  /\ UNCHANGED <<pc, seq, attempts, conn, hub, sent, restarts>>

\* 4xx: the row is left to the operator.
RejectRow ==
  /\ drain.pc = "rejecting"
  /\ \/ /\ attempts' = [attempts EXCEPT ![drain.row] = drain.count + 1]
        /\ lastError' = [lastError EXCEPT ![drain.row] = "rejected"]
        /\ owned' = owned \ {drain.row}
        /\ Continue(drain.plan)
        /\ UNCHANGED faults
     \/ /\ Fault
        /\ drain' = [drain EXCEPT !.pc = "catching"]
        /\ UNCHANGED <<attempts, lastError, owned>>
  /\ UNCHANGED <<pc, seq, flushed, conn, hub, sent, restarts>>

\* Mutant: a row that failed is no longer owned.
CountAttemptDisowns ==
  /\ drain.pc \in {"counting", "catching"}
  /\ \/ /\ attempts' = [attempts EXCEPT ![drain.row] = drain.count + 1]
        /\ lastError' = [lastError EXCEPT ![drain.row] = "failed"]
        /\ owned' = owned \ {drain.row}
        /\ drain' = [drain EXCEPT !.pc = "sleeping"]
        /\ UNCHANGED faults
     \/ /\ Fault
        /\ drain' = IF drain.pc = "counting" THEN [drain EXCEPT !.pc = "catching"]
                    ELSE IdleDrain
        /\ UNCHANGED <<attempts, lastError, owned>>
  /\ UNCHANGED <<pc, seq, flushed, conn, hub, sent, restarts>>

\* A transient failure, or the catch block; a second rejection there ends the
\* drain.
CountAttempt ==
  /\ drain.pc \in {"counting", "catching"}
  /\ \/ /\ attempts' = [attempts EXCEPT ![drain.row] = drain.count + 1]
        /\ lastError' = [lastError EXCEPT ![drain.row] = "failed"]
        /\ drain' = [drain EXCEPT !.pc = "sleeping"]
        /\ UNCHANGED faults
     \/ /\ Fault
        /\ drain' = IF drain.pc = "counting" THEN [drain EXCEPT !.pc = "catching"]
                    ELSE IdleDrain
        /\ UNCHANGED <<attempts, lastError>>
  /\ UNCHANGED <<pc, seq, flushed, owned, conn, hub, sent, restarts>>

\* The back-off is over.
WakeUp ==
  /\ drain.pc = "sleeping"
  /\ Continue(drain.plan)
  /\ UNCHANGED <<pc, table, owned, conn, hub, sent, faults, restarts>>

-----------------------------------------------------------------------------
(* Around the outbox                                                       *)

\* An operator drops a row, which may be settled by now or in flight.
Dismiss(e) ==
  /\ seq[e] > 0
  /\ flushed' = flushed \cup {e}
  /\ lastError' = [lastError EXCEPT ![e] = "dismissed"]
  /\ owned' = owned \ {e}
  /\ UNCHANGED <<pc, seq, attempts, drain, conn, hub, sent, faults, restarts>>

\* Another request through the same client changes the connection state.
OtherCall ==
  /\ conn' \in {"connected", "offline"} \ {conn}
  /\ UNCHANGED <<pc, table, owned, drain, hub, sent, faults, restarts>>

LateArrival(e) ==
  /\ e \in late
  /\ late' = late \ {e}
  /\ arrived' = arrived \cup {e}
  /\ UNCHANGED <<pc, table, owned, drain, conn, sent, faults, restarts>>

\* The requests that are under way when the process dies.
Underway ==
  {e \in Events : pc[e] = "sending" \/ (drain.pc = "sending" /\ drain.row = e)}

\* The rows stay; ownedSeqs, which says which of them to send, does not.
Restart ==
  /\ restarts < MaxRestarts
  /\ restarts' = restarts + 1
  /\ pc' = [e \in Events |->
              CASE pc[e] \in {"sending", "inserting"} -> "dropped"
                [] pc[e] = "owning" \/ e \in owned -> "stranded"
                [] OTHER -> pc[e]]
  /\ owned' = {}
  /\ drain' = IdleDrain
  /\ conn' = "connected"
  /\ late' = late \cup Underway
  /\ UNCHANGED <<table, arrived, sent, faults>>

-----------------------------------------------------------------------------
AppendStep(e) == Append(e) \/ DirectAnswer(e) \/ InsertRow(e) \/ OwnRow(e)
DrainStep == ReadRow \/ DrainAnswer \/ ConfirmRow \/ RejectRow \/ CountAttempt \/ WakeUp

Next ==
  \/ \E e \in Events : AppendStep(e) \/ Dismiss(e) \/ LateArrival(e)
  \/ TimerDrain \/ DrainStep
  \/ OtherCall \/ Restart

Spec == Init /\ [][Next]_vars

\* The drain's own awaits end (a request has a timeout), and a timer that
\* fires for ever finds the client connected now and then.
FairSpec == Spec /\ WF_vars(DrainStep) /\ SF_vars(TimerDrain)

-----------------------------------------------------------------------------
\* Whatever fails, an event is not sent more often than maxRetries allows:
\* the direct call, maxRetries attempts, and one more for each database error
\* that kept an attempt from being counted.
SendsBounded == \A e \in Events : sent[e] <= 1 + MaxRetries + faults

\* Within one run of the process, a row that waits is in ownedSeqs until it is
\* flushed, refused with a 4xx or out of attempts: none is silently forgotten,
\* whatever order inserts, drains, dismissals and errors come in.
NothingForgotten ==
  \A e \in Events :
    pc[e] = "queued" /\ e \notin flushed /\ e \notin owned
      => attempts[e] >= MaxRetries \/ lastError[e] = "rejected"

\* The outbox counts an event as confirmed only when the hub has it, and
\* nothing that was given up waits again: the code implements HubMirror.
Confirmed == {e \in Events : pc[e] = "direct" \/ (e \in flushed /\ lastError[e] = "none")}
Pending ==
  {e \in Events \ flushed : e \in owned \/ pc[e] \in {"sending", "inserting", "owning"}}
StageOf ==
  [e \in Events |-> IF pc[e] = "new" THEN "new"
                    ELSE IF e \in Confirmed THEN "confirmed"
                    ELSE IF e \in Pending THEN "pending" ELSE "abandoned"]

Mirror == INSTANCE HubMirror
            WITH stage <- StageOf, mirrored <- arrived
ImplementsHubMirror == Mirror!MirrorSpec

\* If the client keeps coming back to connected, every row that is waiting is
\* settled or given up in the end, also behind rows that keep failing.
EveryRowSettles ==
  []<>(conn = "connected") => \A e \in Events : (e \in owned) ~> (e \notin owned)
=============================================================================

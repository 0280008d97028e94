----------------------------- MODULE Links_proofs -----------------------------
(***************************************************************************)
(* Proofs about the links to other machines: the model providers behind    *)
(* ProviderCircuits, the work queue of DaemonQueue, the push of HubPush and*)
(* the database connection of EventFeed, for chains, queues, logs and      *)
(* subscribers of any number.                                              *)
(***************************************************************************)
EXTENDS ProviderCircuits, DaemonQueue, HubPush, EventFeed, FiniteSetTheorems, TLAPS

-----------------------------------------------------------------------------
(* ProviderCircuits                                                        *)

USE CircuitsAssumption

\* The steps of a call but for the record of its answer.
LEMMA GoOnTyped ==
  ASSUME CircuitsTypeOK, UNCHANGED world,
         NEW c \in Senders, NEW from \in 0..ChainLength, GoOn(c, from)
  PROVE  CircuitsTypeOK'
<1>1. ASSUME NEW p \in Providers,
             circuit' = [circuit EXCEPT ![p] = IF @ = "open" THEN "half-open" ELSE @],
             sending' = [sending EXCEPT ![c] = [pc |-> "waiting", at |-> p, sound |-> healthy[p]]],
             UNCHANGED <<failures, nextProbe>>
      PROVE  CircuitsTypeOK'
  BY <1>1 DEF CircuitsTypeOK, Providers, world
<1>2. CASE sending' = [sending EXCEPT ![c] = Idle] /\ UNCHANGED circuits
  BY <1>2 DEF CircuitsTypeOK, Providers, world, circuits, Idle
<1> QED
  BY <1>1, <1>2 DEF GoOn

LEMMA RecordTyped ==
  ASSUME CircuitsTypeOK, NEW p \in Providers, RecordSuccess(p) \/ RecordFailure(p)
  PROVE  /\ circuit' \in [Providers -> {"closed", "open", "half-open"}]
         /\ failures' \in [Providers -> 0..Threshold]
         /\ nextProbe' \in [Providers -> {"null", "later", "due"}]
<1>1. FailuresAfter(p) \in 0..Threshold
  BY DEF FailuresAfter, CircuitsTypeOK
<1> QED
  BY <1>1 DEF RecordSuccess, RecordFailure, CircuitsTypeOK

\* Every reachable state of calls and circuits is well typed.
THEOREM CircuitsTypeCorrect == CircuitsSpec => []CircuitsTypeOK
<1>1. CircuitsInit => CircuitsTypeOK
  BY DEF CircuitsInit, CircuitsTypeOK, Idle, Providers
<1>2. CircuitsTypeOK /\ [CircuitsNext]_circuitVars => CircuitsTypeOK'
  <2> SUFFICES ASSUME CircuitsTypeOK, [CircuitsNext]_circuitVars PROVE CircuitsTypeOK'
    OBVIOUS
  <2>1. ASSUME NEW c \in Senders, SendBegins(c) PROVE CircuitsTypeOK'
    BY <2>1, GoOnTyped DEF SendBegins
  <2>2. ASSUME NEW c \in Senders, SendSucceeds(c) PROVE CircuitsTypeOK'
    <3>1. sending[c].at \in Providers
      BY <2>2 DEF SendSucceeds, CircuitsTypeOK
    <3> QED
      BY <2>2, <3>1, RecordTyped DEF SendSucceeds, CircuitsTypeOK, Idle, world
  <2>3. ASSUME NEW c \in Senders, SendFails(c) PROVE CircuitsTypeOK'
    <3>1. sending[c].at \in Providers
      BY <2>3 DEF SendFails, CircuitsTypeOK
    <3>2. CASE sending' = [sending EXCEPT ![c] = Idle]
      BY <2>3, <3>1, <3>2, RecordTyped DEF SendFails, CircuitsTypeOK, Idle, world
    <3>3. CASE sending' = [sending EXCEPT ![c].pc = "choosing"]
      BY <2>3, <3>1, <3>3, RecordTyped DEF SendFails, CircuitsTypeOK, world
    <3> QED
      BY <2>3, <3>2, <3>3 DEF SendFails
  <2>4. ASSUME NEW c \in Senders, NextProvider(c) PROVE CircuitsTypeOK'
    <3>1. sending[c].at \in 0..ChainLength
      BY DEF CircuitsTypeOK
    <3> QED
      BY <2>4, <3>1, GoOnTyped DEF NextProvider
  <2>5. ASSUME NEW p \in Providers, ProbeTimeComes(p) PROVE CircuitsTypeOK'
    BY <2>5 DEF ProbeTimeComes, CircuitsTypeOK, world
  <2>6. ASSUME NEW p \in Providers, ProviderChanges(p) PROVE CircuitsTypeOK'
    BY <2>6 DEF ProviderChanges, CircuitsTypeOK, circuits
  <2>7. CASE UNCHANGED circuitVars
    BY <2>7 DEF circuitVars, circuits, world, CircuitsTypeOK
  <2> QED
    BY <2>1, <2>2, <2>3, <2>4, <2>5, <2>6, <2>7 DEF CircuitsNext, SendEnds
<1> QED
  BY <1>1, <1>2, PTL DEF CircuitsSpec

\* A circuit is closed exactly while its provider has failed fewer than
\* Threshold times in a row, and has a time for its next probe exactly while
\* it is not, whichever late answers come in (CircuitBreaker).
THEOREM CircuitsConsistent == CircuitsSpec => []CircuitConsistent
<1>1. CircuitsInit => CircuitConsistent
  BY DEF CircuitsInit, CircuitConsistent, Providers
<1>2. CircuitsTypeOK /\ CircuitConsistent /\ [CircuitsNext]_circuitVars => CircuitConsistent'
  <2> SUFFICES ASSUME CircuitsTypeOK, CircuitConsistent, [CircuitsNext]_circuitVars
               PROVE  CircuitConsistent'
    OBVIOUS
  <2>1. ASSUME NEW c \in Senders, NEW from, GoOn(c, from) PROVE CircuitConsistent'
    <3>1. ASSUME NEW p \in Providers, MayAttempt(p),
                 circuit' = [circuit EXCEPT ![p] = IF @ = "open" THEN "half-open" ELSE @],
                 UNCHANGED <<failures, nextProbe>>
          PROVE  CircuitConsistent'
      BY <3>1 DEF CircuitConsistent, CircuitsTypeOK, MayAttempt
    <3>2. CASE UNCHANGED circuits
      BY <3>2 DEF CircuitConsistent, circuits
    <3> QED
      BY <2>1, <3>1, <3>2 DEF GoOn
  <2>2. ASSUME NEW p \in Providers, RecordSuccess(p) PROVE CircuitConsistent'
    BY <2>2 DEF RecordSuccess, CircuitConsistent, CircuitsTypeOK
  <2>3. ASSUME NEW p \in Providers, RecordFailure(p) PROVE CircuitConsistent'
    <3>1. /\ FailuresAfter(p) \in 0..Threshold
          /\ failures[p] = Threshold => FailuresAfter(p) = Threshold
      BY DEF FailuresAfter, CircuitsTypeOK
    <3>2. /\ failures[p] \in 0..Threshold /\ failures'[p] = FailuresAfter(p)
          /\ failures[p] < Threshold => FailuresAfter(p) = failures[p] + 1
          /\ \A q \in Providers \ {p} : /\ circuit'[q] = circuit[q]
                                       /\ failures'[q] = failures[q]
                                       /\ nextProbe'[q] = nextProbe[q]
      BY <2>3, <3>1 DEF RecordFailure, FailuresAfter, CircuitsTypeOK
    <3>3. CASE circuit[p] = "half-open"
      BY <2>3, <3>1, <3>2, <3>3 DEF RecordFailure, CircuitConsistent, CircuitsTypeOK
    <3>4. CASE circuit[p] = "closed"
      BY <2>3, <3>1, <3>2, <3>4 DEF RecordFailure, CircuitConsistent, CircuitsTypeOK
    <3>5. CASE circuit[p] = "open"
      <4>1. /\ failures[p] = Threshold
            /\ nextProbe[p] # "null"
        BY <3>2, <3>5 DEF CircuitConsistent
      <4>2. /\ circuit' = circuit
            /\ nextProbe' = nextProbe
            /\ failures'[p] = failures[p]
        BY <2>3, <3>1, <3>2, <3>5, <4>1 DEF RecordFailure, CircuitsTypeOK
      <4>3. \A q \in Providers : failures'[q] = failures[q]
        BY <3>2, <4>2
      <4> QED
        BY <4>2, <4>3 DEF CircuitConsistent
    <3> QED
      BY <3>3, <3>4, <3>5 DEF CircuitsTypeOK
  <2>4. ASSUME NEW p \in Providers, ProbeTimeComes(p) PROVE CircuitConsistent'
    BY <2>4 DEF ProbeTimeComes, CircuitConsistent, CircuitsTypeOK
  <2>5. CASE UNCHANGED circuits
    BY <2>5 DEF CircuitConsistent, circuits
  <2>6. \A c \in Senders : sending[c].pc = "waiting" => sending[c].at \in Providers
    BY DEF CircuitsTypeOK
  <2> QED
    BY <2>1, <2>2, <2>3, <2>4, <2>5, <2>6
    DEF CircuitsNext, SendEnds, SendBegins, SendSucceeds, SendFails, NextProvider,
        ProviderChanges, circuitVars
<1> QED
  BY <1>1, <1>2, CircuitsTypeCorrect, PTL DEF CircuitsSpec

HIDE CircuitsAssumption

-----------------------------------------------------------------------------
(* DaemonQueue                                                             *)

USE QueueAssumption

Hidden(taken) ==
  [m \in Messages |-> IF m \in taken THEN received[m] + 1 ELSE received[m]]
Deliveries(taken) == {Delivery(m, received'[m], "handling") : m \in taken}

LEMMA HideTyped ==
  ASSUME QueueTypeOK, NEW taken \in SUBSET Receivable, Hide(taken)
  PROVE  /\ place' \in [Messages -> {"queued", "hidden", "deleted", "dead"}]
         /\ received' \in [Messages -> 0..MaxReceive]
         /\ \A m \in taken : m \in Messages /\ received'[m] \in Receipts
         /\ \A m \in Messages : place'[m] = "deleted" => place[m] = "deleted"
<1>1. taken \subseteq Messages /\ \A m \in taken : received[m] < MaxReceive
  BY DEF Receivable
<1>2. received' = Hidden(taken)
  BY DEF Hide, Hidden
<1>3. received \in [Messages -> 0..MaxReceive] /\ MaxReceive \in Nat
  BY DEF QueueTypeOK
<1>4. \A m \in Messages : Hidden(taken)[m] \in 0..MaxReceive
  BY <1>1, <1>3 DEF Hidden
<1>5. Hidden(taken) \in [Messages -> 0..MaxReceive]
  BY <1>4 DEF Hidden
<1>6. \A m \in taken : received'[m] \in Receipts
  BY <1>1, <1>2, <1>3 DEF Hidden, Receipts
<1>7. /\ place' \in [Messages -> {"queued", "hidden", "deleted", "dead"}]
      /\ \A m \in Messages : place'[m] = "deleted" => place[m] = "deleted"
  BY <1>1 DEF Hide, QueueTypeOK
<1> QED
  BY <1>1, <1>2, <1>5, <1>6, <1>7

LEMMA MoveTyped ==
  ASSUME QueueTypeOK, NEW d \in inflight, NEW pc \in {"handling", "deleting", "returning"},
         Move(d, pc)
  PROVE  /\ inflight' \subseteq [msg : Messages, receipt : Receipts,
                                 pc : {"handling", "deleting", "returning"}]
         /\ d.msg \in Messages
  BY DEF Move, QueueTypeOK

-----------------------------------------------------------------------------
(* The places a receive has asked for are kept free until it ends.          *)

PlacesInv ==
  /\ IsFiniteSet(inflight)
  /\ Cardinality(inflight) + asked <= MaxConcurrency

LEMMA AddBound ==
  ASSUME NEW S, NEW x, IsFiniteSet(S)
  PROVE  /\ IsFiniteSet(S \cup {x})
         /\ Cardinality(S \cup {x}) <= Cardinality(S) + 1
<1>1. Cardinality(S) \in Nat
  BY FS_CardinalityType
<1>2. /\ IsFiniteSet(S \cup {x})
      /\ Cardinality(S \cup {x}) = IF x \in S THEN Cardinality(S) ELSE Cardinality(S) + 1
  BY FS_AddElement, Zenon
<1> QED
  BY <1>1, <1>2

LEMMA UnionBound ==
  ASSUME NEW S, NEW T, IsFiniteSet(S), IsFiniteSet(T)
  PROVE  /\ IsFiniteSet(S \cup T)
         /\ Cardinality(S \cup T) <= Cardinality(S) + Cardinality(T)
<1>1. IsFiniteSet(S \cap T)
  BY FS_Subset, S \cap T \in SUBSET S
<1>2. Cardinality(S) \in Nat /\ Cardinality(T) \in Nat /\ Cardinality(S \cap T) \in Nat
  BY <1>1, FS_CardinalityType
<1>3. Cardinality(S \cup T) = Cardinality(S) + Cardinality(T) - Cardinality(S \cap T)
  BY FS_Union
<1> QED
  BY <1>2, <1>3, FS_Union

LEMMA MoveKeepsPlaces ==
  ASSUME PlacesInv, asked \in Nat, NEW d \in inflight, NEW pc, Move(d, pc), asked' = asked
  PROVE  PlacesInv'
<1>1. /\ IsFiniteSet(inflight \ {d})
      /\ Cardinality(inflight \ {d}) = Cardinality(inflight) - 1
  BY FS_RemoveElement DEF PlacesInv
<1>2. /\ IsFiniteSet(inflight')
      /\ Cardinality(inflight') <= Cardinality(inflight \ {d}) + 1
  BY <1>1, AddBound DEF Move
<1>3. Cardinality(inflight) \in Nat /\ Cardinality(inflight') \in Nat
  BY <1>2, FS_CardinalityType DEF PlacesInv
<1> QED
  BY <1>1, <1>2, <1>3 DEF PlacesInv

LEMMA RemovalKeepsPlaces ==
  ASSUME PlacesInv, asked \in Nat, inflight' \in SUBSET inflight, asked' \in 0..asked
  PROVE  PlacesInv'
<1>1. IsFiniteSet(inflight') /\ Cardinality(inflight') <= Cardinality(inflight)
  BY FS_Subset DEF PlacesInv
<1>2. Cardinality(inflight) \in Nat /\ Cardinality(inflight') \in Nat
  BY <1>1, FS_CardinalityType DEF PlacesInv
<1> QED
  BY <1>1, <1>2 DEF PlacesInv

LEMMA ReceiptKeepsPlaces ==
  ASSUME QueueTypeOK, PlacesInv, NEW taken \in SUBSET Receivable, ReceiveMessages(taken)
  PROVE  PlacesInv'
<1>1. IsFiniteSet(taken)
  <2>1. taken \in SUBSET Messages
    BY DEF Receivable
  <2> QED
    BY <2>1, FS_Subset
<1>2. /\ IsFiniteSet(Deliveries(taken))
      /\ Cardinality(Deliveries(taken)) <= Cardinality(taken)
  <2> DEFINE f == [m \in taken |-> Delivery(m, received'[m], "handling")]
  <2>1. f \in Surjection(taken, Deliveries(taken))
    BY DEF Surjection, Deliveries
  <2> QED
    BY <1>1, <2>1, FS_Surjection
<1>3. /\ IsFiniteSet(inflight \cup Deliveries(taken))
      /\ Cardinality(inflight \cup Deliveries(taken))
           <= Cardinality(inflight) + Cardinality(Deliveries(taken))
  BY <1>2, UnionBound DEF PlacesInv
<1>4. /\ inflight' = inflight \cup Deliveries(taken)
      /\ asked' = 0 /\ Cardinality(taken) <= asked /\ asked \in Nat
  BY DEF ReceiveMessages, Deliveries, QueueTypeOK
<1>5. /\ Cardinality(inflight) \in Nat /\ Cardinality(inflight') \in Nat
      /\ Cardinality(taken) \in Nat /\ Cardinality(Deliveries(taken)) \in Nat
  BY <1>1, <1>2, <1>3, <1>4, FS_CardinalityType DEF PlacesInv
<1> QED
  BY <1>2, <1>3, <1>4, <1>5 DEF PlacesInv

LEMMA PlacesStep ==
  ASSUME QueueTypeOK, PlacesInv, [QueueNext]_queueVars
  PROVE  PlacesInv'
<1>0. asked \in Nat
  BY DEF QueueTypeOK
<1>1. CASE UNCHANGED <<inflight, asked>>
  BY <1>1 DEF PlacesInv
<1>2. CASE Ask
  <2>1. Cardinality(inflight) \in Nat
    BY FS_CardinalityType DEF PlacesInv
  <2> QED
    BY <1>2, <2>1 DEF Ask, PlacesInv
<1>3. ASSUME NEW taken \in SUBSET Receivable, ReceiveFails(taken) PROVE PlacesInv'
  BY <1>0, <1>3, RemovalKeepsPlaces DEF ReceiveFails
<1>4. ASSUME NEW taken \in SUBSET Receivable, ReceiveMessages(taken) PROVE PlacesInv'
  BY <1>4, ReceiptKeepsPlaces
<1>5. ASSUME NEW d \in inflight, HandleNext(d) PROVE PlacesInv'
  <2>1. CASE HandlerReturns(d)
    BY <1>0, <2>1, MoveKeepsPlaces DEF HandlerReturns
  <2>2. CASE HandlerThrows(d)
    BY <1>0, <2>2, MoveKeepsPlaces DEF HandlerThrows
  <2>3. CASE DeleteFails(d)
    BY <1>0, <2>3, MoveKeepsPlaces DEF DeleteFails
  <2>4. CASE Delete(d) \/ ReturnMessage(d)
    BY <1>0, <2>4, RemovalKeepsPlaces DEF Delete, ReturnMessage
  <2> QED
    BY <1>5, <2>1, <2>2, <2>3, <2>4 DEF HandleNext
<1>6. CASE Shutdown
  BY <1>0, <1>6, RemovalKeepsPlaces DEF Shutdown
<1> QED
  BY <1>1, <1>2, <1>3, <1>4, <1>5, <1>6
  DEF QueueNext, VisibilityTimesOut, Redrive, queueVars

-----------------------------------------------------------------------------
(* Type correctness; the free places of Ask are a number only while the set  *)
(* of deliveries is finite.                                                 *)

LEMMA TypeStep ==
  ASSUME QueueTypeOK, PlacesInv, [QueueNext]_queueVars
  PROVE  QueueTypeOK'
<1>1. ASSUME NEW m \in Messages, VisibilityTimesOut(m) \/ Redrive(m) PROVE QueueTypeOK'
  BY <1>1 DEF VisibilityTimesOut, Redrive, QueueTypeOK
<1>2. CASE Ask
  <2>1. PICK n \in Nat : n = Cardinality(inflight) /\ n < MaxConcurrency
    BY <1>2, FS_CardinalityType DEF Ask, PlacesInv
  <2> QED
    BY <1>2, <2>1 DEF Ask, QueueTypeOK
<1>3. ASSUME NEW taken \in SUBSET Receivable, ReceiveMessages(taken) PROVE QueueTypeOK'
  <2>1. Hide(taken)
    BY <1>3 DEF ReceiveMessages
  <2>2. Deliveries(taken) \subseteq [msg : Messages, receipt : Receipts,
                                    pc : {"handling", "deleting", "returning"}]
    BY <2>1, HideTyped DEF Deliveries, Delivery
  <2>3. inflight' = inflight \cup Deliveries(taken)
    BY <1>3 DEF ReceiveMessages, Deliveries
  <2> QED
    BY <1>3, <2>1, <2>2, <2>3, HideTyped DEF ReceiveMessages, QueueTypeOK
<1>4. ASSUME NEW taken \in SUBSET Receivable, ReceiveFails(taken) PROVE QueueTypeOK'
  <2>1. Hide(taken)
    BY <1>4 DEF ReceiveFails
  <2> QED
    BY <1>4, <2>1, HideTyped DEF ReceiveFails, QueueTypeOK
<1>5. ASSUME NEW d \in inflight, HandleNext(d) PROVE QueueTypeOK'
  <2>1. CASE HandlerReturns(d)
    BY <2>1, MoveTyped DEF HandlerReturns, QueueTypeOK
  <2>2. CASE HandlerThrows(d) \/ DeleteFails(d)
    BY <2>2, MoveTyped DEF HandlerThrows, DeleteFails, QueueTypeOK
  <2>3. CASE Delete(d)
    BY <2>3 DEF Delete, QueueTypeOK
  <2>4. CASE ReturnMessage(d)
    BY <2>4 DEF ReturnMessage, QueueTypeOK
  <2> QED
    BY <1>5, <2>1, <2>2, <2>3, <2>4 DEF HandleNext
<1>6. CASE Shutdown
  BY <1>6 DEF Shutdown, QueueTypeOK
<1>7. CASE UNCHANGED queueVars
  BY <1>7 DEF queueVars, QueueTypeOK
<1> QED
  BY <1>1, <1>2, <1>3, <1>4, <1>5, <1>6, <1>7 DEF QueueNext

\* Every reachable state of queue and consumer is well typed.
THEOREM QueueTypeCorrect == QueueSpec => []QueueTypeOK
<1>1. QueueInit => QueueTypeOK /\ PlacesInv
  BY FS_EmptySet DEF QueueInit, QueueTypeOK, PlacesInv
<1>2. QueueTypeOK /\ PlacesInv /\ [QueueNext]_queueVars => (QueueTypeOK /\ PlacesInv)'
  BY TypeStep, PlacesStep
<1> QED
  BY <1>1, <1>2, PTL DEF QueueSpec

\* The consumer never handles more than maxConcurrency deliveries, whichever
\* handlers outlive the visibility of their message (SqsConsumer.tick).
THEOREM ConcurrencyIsBounded == QueueSpec => []ConcurrencyBounded
<1>1. QueueInit => QueueTypeOK /\ PlacesInv
  BY FS_EmptySet DEF QueueInit, QueueTypeOK, PlacesInv
<1>2. QueueTypeOK /\ PlacesInv /\ [QueueNext]_queueVars => (QueueTypeOK /\ PlacesInv)'
  BY TypeStep, PlacesStep
<1>3. QueueTypeOK /\ PlacesInv => ConcurrencyBounded
  <2> SUFFICES ASSUME QueueTypeOK, PlacesInv PROVE ConcurrencyBounded
    OBVIOUS
  <2>1. Cardinality(inflight) \in Nat /\ asked \in Nat
    BY FS_CardinalityType DEF PlacesInv, QueueTypeOK
  <2> QED
    BY <2>1 DEF PlacesInv, ConcurrencyBounded
<1> QED
  BY <1>1, <1>2, <1>3, PTL DEF QueueSpec

-----------------------------------------------------------------------------
(* A delivery that is about to delete its message has had it handled.       *)

DeletingWasHandled == \A d \in inflight : d.pc = "deleting" => d.msg \in handled

HandledInv == DeletedWasHandled /\ DeletingWasHandled

LEMMA MoveKeepsHandled ==
  ASSUME DeletingWasHandled, NEW d \in inflight, NEW pc, Move(d, pc),
         handled \subseteq handled', pc = "deleting" => d.msg \in handled',
         d \in [msg : Messages, receipt : Receipts, pc : {"handling", "deleting", "returning"}]
  PROVE  DeletingWasHandled'
  BY DEF DeletingWasHandled, Move

\* Messages are deleted only after their handler has returned, whichever of
\* their deliveries deletes them (SqsConsumer.handleMessage).
THEOREM DeletionsFollowHandling == QueueSpec => []DeletedWasHandled
<1>1. QueueInit => HandledInv
  BY DEF QueueInit, HandledInv, DeletedWasHandled, DeletingWasHandled
<1>2. QueueTypeOK /\ HandledInv /\ [QueueNext]_queueVars => HandledInv'
  <2> SUFFICES ASSUME QueueTypeOK, HandledInv, [QueueNext]_queueVars PROVE HandledInv'
    OBVIOUS
  <2> USE DEF HandledInv
  <2>1. ASSUME NEW m \in Messages, VisibilityTimesOut(m) \/ Redrive(m) PROVE HandledInv'
    BY <2>1 DEF VisibilityTimesOut, Redrive, QueueTypeOK, DeletedWasHandled, DeletingWasHandled
  <2>2. CASE Ask \/ Shutdown
    BY <2>2 DEF Ask, Shutdown, DeletedWasHandled, DeletingWasHandled
  <2>3. ASSUME NEW taken \in SUBSET Receivable, ReceiveMessages(taken) \/ ReceiveFails(taken)
        PROVE  HandledInv'
    <3>1. Hide(taken) /\ handled' = handled
      BY <2>3 DEF ReceiveMessages, ReceiveFails
    <3>2. inflight' \subseteq inflight \cup Deliveries(taken)
      BY <2>3 DEF ReceiveMessages, ReceiveFails, Deliveries
    <3>3. \A d \in Deliveries(taken) : d.pc = "handling"
      BY DEF Deliveries, Delivery
    <3>4. DeletingWasHandled'
      BY <3>1, <3>2, <3>3 DEF DeletingWasHandled
    <3> QED
      BY <3>1, <3>4, HideTyped DEF DeletedWasHandled
  <2>4. ASSUME NEW d \in inflight, HandleNext(d) PROVE HandledInv'
    <3>1. d \in [msg : Messages, receipt : Receipts, pc : {"handling", "deleting", "returning"}]
      BY DEF QueueTypeOK
    <3>2. CASE HandlerReturns(d)
      <4>1. DeletingWasHandled'
        BY <3>1, <3>2, MoveKeepsHandled DEF HandlerReturns
      <4> QED
        BY <3>2, <4>1 DEF HandlerReturns, DeletedWasHandled
    <3>3. CASE HandlerThrows(d) \/ DeleteFails(d)
      <4>1. Move(d, "returning") /\ UNCHANGED <<place, handled>>
        BY <3>3 DEF HandlerThrows, DeleteFails
      <4>2. DeletingWasHandled'
        BY <3>1, <4>1, MoveKeepsHandled
      <4> QED
        BY <4>1, <4>2 DEF DeletedWasHandled
    <3>4. CASE Delete(d)
      <4>1. d.msg \in handled /\ inflight' \subseteq inflight /\ handled' = handled
        BY <3>4 DEF Delete, DeletingWasHandled
      <4>2. \A m \in Messages : place'[m] = "deleted" => m = d.msg \/ place[m] = "deleted"
        BY <3>1, <3>4 DEF Delete, QueueTypeOK
      <4> QED
        BY <4>1, <4>2 DEF DeletedWasHandled, DeletingWasHandled
    <3>5. CASE ReturnMessage(d)
      BY <3>5 DEF ReturnMessage, DeletedWasHandled, DeletingWasHandled
    <3> QED
      BY <2>4, <3>2, <3>3, <3>4, <3>5 DEF HandleNext
  <2>5. CASE UNCHANGED queueVars
    BY <2>5 DEF queueVars, DeletedWasHandled, DeletingWasHandled
  <2> QED
    BY <2>1, <2>2, <2>3, <2>4, <2>5 DEF QueueNext
<1> QED
  BY <1>1, <1>2, QueueTypeCorrect, PTL DEF QueueSpec, HandledInv

HIDE QueueAssumption

-----------------------------------------------------------------------------
(* HubPush: sequences of events                                            *)

USE PushAssumption

\* The members of a sequence.
Elems(s) == {s[i] : i \in DOMAIN s}

\* Its members as the sequence grows, and as the client takes the first.
LEMMA ElemsAppend ==
  ASSUME NEW s \in Seq(Pushed), NEW e \in Pushed
  PROVE  Append(s, e) \in Seq(Pushed) /\ Elems(Append(s, e)) = Elems(s) \cup {e}
<1>1. /\ DOMAIN Append(s, e) = 1..(Len(s) + 1) /\ DOMAIN s = 1..Len(s) /\ Len(s) \in Nat
      /\ Append(s, e)[Len(s) + 1] = e
      /\ \A i \in 1..Len(s) : Append(s, e)[i] = s[i]
  OBVIOUS
<1> QED
  BY <1>1 DEF Elems

LEMMA ElemsConcat ==
  ASSUME NEW s \in Seq(Pushed), NEW q \in Seq(Pushed)
  PROVE  s \o q \in Seq(Pushed) /\ Elems(s \o q) = Elems(s) \cup Elems(q)
<1>1. /\ DOMAIN (s \o q) = 1..(Len(s) + Len(q))
      /\ DOMAIN s = 1..Len(s) /\ Len(s) \in Nat /\ DOMAIN q = 1..Len(q) /\ Len(q) \in Nat
      /\ \A i \in 1..Len(s) : (s \o q)[i] = s[i]
      /\ \A i \in 1..Len(q) : (s \o q)[Len(s) + i] = q[i]
      /\ \A i \in 1..(Len(s) + Len(q)) : i \in 1..Len(s) \/ i - Len(s) \in 1..Len(q)
  OBVIOUS
<1>2. ASSUME NEW i \in DOMAIN (s \o q) PROVE (s \o q)[i] \in Elems(s) \cup Elems(q)
  <2>1. CASE i \in 1..Len(s)
    BY <1>1, <2>1 DEF Elems
  <2>2. CASE i - Len(s) \in 1..Len(q)
    <3>1. (s \o q)[i] = q[i - Len(s)]
      BY <1>1, <2>2
    <3> QED
      BY <1>1, <2>2, <3>1 DEF Elems
  <2> QED
    BY <1>1, <2>1, <2>2
<1>3. ASSUME NEW i \in DOMAIN s PROVE s[i] \in Elems(s \o q)
  BY <1>1 DEF Elems
<1>4. ASSUME NEW i \in DOMAIN q PROVE q[i] \in Elems(s \o q)
  <2>1. Len(s) + i \in DOMAIN (s \o q) /\ (s \o q)[Len(s) + i] = q[i]
    BY <1>1
  <2> QED
    BY <2>1 DEF Elems
<1> QED
  BY <1>2, <1>3, <1>4 DEF Elems

LEMMA ElemsTail ==
  ASSUME NEW s \in Seq(Pushed), s # <<>>
  PROVE  /\ Head(s) \in Pushed /\ Tail(s) \in Seq(Pushed)
         /\ Elems(s) = {Head(s)} \cup Elems(Tail(s))
<1>1. /\ Len(s) \in Nat \ {0} /\ DOMAIN s = 1..Len(s) /\ DOMAIN Tail(s) = 1..(Len(s) - 1)
      /\ Head(s) = s[1]
      /\ \A i \in 1..(Len(s) - 1) : Tail(s)[i] = s[i + 1]
  OBVIOUS
<1>2. Head(s) \in Pushed /\ Tail(s) \in Seq(Pushed)
  OBVIOUS
<1>3. ASSUME NEW i \in DOMAIN s PROVE s[i] \in {Head(s)} \cup Elems(Tail(s))
  <2>1. CASE i = 1
    BY <1>1, <2>1
  <2>2. CASE i # 1
    <3>1. i - 1 \in DOMAIN Tail(s) /\ Tail(s)[i - 1] = s[i]
      BY <1>1, <2>2
    <3> QED
      BY <3>1 DEF Elems
  <2> QED
    BY <2>1, <2>2
<1>4. Head(s) \in Elems(s)
  BY <1>1 DEF Elems
<1>5. ASSUME NEW i \in DOMAIN Tail(s) PROVE Tail(s)[i] \in Elems(s)
  <2>1. i + 1 \in DOMAIN s /\ Tail(s)[i] = s[i + 1]
    BY <1>1
  <2> QED
    BY <2>1 DEF Elems
<1> QED
  BY <1>2, <1>3, <1>4, <1>5 DEF Elems

LEMMA ElemsEmpty == Elems(<<>>) = {}
BY DEF Elems

\* What a backfill sends is what it found, whatever the order.
LEMMA SentInOrder ==
  ASSUME NEW events \in SUBSET Pushed, NEW q \in OldestFirst(events)
  PROVE  q \in Seq(Pushed) /\ Elems(q) = events
<1>1. Cardinality(events) \in Nat
  <2>1. IsFiniteSet(Pushed)
    BY FS_Interval, 1 \in Int, LastEvent \in Int DEF Pushed
  <2>2. IsFiniteSet(events)
    BY <2>1, FS_Subset
  <2> QED
    BY <2>2, FS_CardinalityType
<1>2. q \in [1..Cardinality(events) -> events] /\ events = {q[i] : i \in DOMAIN q}
  BY DEF OldestFirst
<1>3. q \in [1..Cardinality(events) -> Pushed]
  BY <1>2
<1> QED
  BY <1>1, <1>2, <1>3 DEF Elems

-----------------------------------------------------------------------------
(* The invariant of HubPush.  Shape says what may be on the connection, and  *)
(* CursorServed and NothingLost where the events owed to the client are: for *)
(* the connection, and for the client over all its connections.              *)

Sent == Elems(toClient)

\* What is on its way to the client is an event of the log.
OnlyLogged ==
  /\ Sent \subseteq 1..logged
  /\ backfill.found \subseteq 1..logged
  /\ openedAt <= logged

\* A subscribe carries the client's cursor, and nothing is sent before it is heard.
HelloFirst ==
  /\ hello # NoHello => /\ hello = lastEventSeen /\ connCursor = hello
                        /\ ~subscribed /\ socket # "none"
  /\ subscribed => socket = "open"
  /\ ~subscribed => toClient = <<>> /\ backfill = NoBackfill
  /\ subscribed /\ connCursor = 0 => openedAt <= owedFrom

\* A running query is for what follows the connection's cursor.
QueryAtCursor ==
  /\ backfill.pc = "querying" => backfill.after = connCursor
  /\ backfill.pc # "found" => backfill.found = {}

\* What the client has or is on its way to it.
UnderWay == got \cup toFanOut \cup backfill.found \cup Sent

\* Every event after the cursor is accounted for.
CursorServed ==
  subscribed /\ connCursor > 0 =>
    \A e \in (connCursor + 1)..logged :
      e \in UnderWay \cup unread \/ backfill.pc = "querying"

\* Every event owed to the client has reached it by its cursor, or is under way.
NothingLost ==
  ~holed =>
    /\ subscribed => \A e \in (owedFrom + 1)..logged :
         e \in UnderWay \/ (backfill.pc = "querying" /\ e > backfill.after)
    /\ ~subscribed => Missing(lastEventSeen) = {}

Shape == PushTypeOK /\ OnlyLogged /\ HelloFirst /\ QueryAtCursor
PushInv == Shape /\ CursorServed /\ NothingLost

LEMMA ShapeStep ==
  ASSUME Shape, [PushNext]_pushVars
  PROVE  Shape'
<1> USE DEF Shape, Sent
<1>0. NoBackfill \in [pc : {"none", "querying", "found"}, after : 0..LastEvent, found : SUBSET Pushed]
  BY DEF NoBackfill
<1>1. CASE AppendAtHub
  <2> USE <1>1 DEF AppendAtHub, link, client
  <2>1. PushTypeOK'
    BY DEF PushTypeOK
  <2>2. OnlyLogged'
    BY DEF OnlyLogged, PushTypeOK
  <2> QED
    BY <2>1, <2>2 DEF HelloFirst, QueryAtCursor
<1>2. ASSUME NEW e \in Pushed, FanOut(e) PROVE Shape'
  <2> USE <1>2 DEF FanOut, link, client
  <2>1. e \in 1..logged
    BY DEF PushTypeOK
  <2>2. toClient' = toClient \/ (subscribed /\ socket = "open" /\ toClient' = Append(toClient, e))
    OBVIOUS
  <2>3. toClient' \in Seq(Pushed) /\ Elems(toClient') \subseteq Elems(toClient) \cup {e}
    BY <2>2, ElemsAppend DEF PushTypeOK
  <2>4. PushTypeOK'
    BY <2>2, <2>3 DEF PushTypeOK
  <2>5. OnlyLogged'
    BY <2>1, <2>3 DEF OnlyLogged
  <2>6. HelloFirst'
    BY <2>2 DEF HelloFirst
  <2> QED
    BY <2>4, <2>5, <2>6 DEF QueryAtCursor
<1>3. CASE Open
  <2> USE <1>3 DEF Open, store, client
  <2>1. PushTypeOK'
    BY DEF PushTypeOK, NoHello
  <2>2. HelloFirst'
    BY DEF HelloFirst, NoHello, PushTypeOK
  <2>3. QueryAtCursor'
    BY DEF QueryAtCursor, PushTypeOK, NoBackfill
  <2> QED
    BY <2>1, <2>2, <2>3 DEF OnlyLogged
<1>4. CASE Authenticated
  <2> USE <1>4 DEF Authenticated, store, client
  <2>1. PushTypeOK'
    BY DEF PushTypeOK
  <2>2. HelloFirst'
    BY DEF HelloFirst
  <2> QED
    BY <2>1, <2>2 DEF OnlyLogged, QueryAtCursor, PushTypeOK
<1>5. CASE AuthenticationFails \/ DropConnection
  <2> USE <1>5 DEF AuthenticationFails, DropConnection, Disconnect, store, client
  <2>1. toClient' = <<>> /\ unread' = {}
    OBVIOUS
  <2>2. toClient' \in Seq(Pushed) /\ unread' \subseteq Pushed
    <3>1. <<>> \in Seq(Pushed)
      OBVIOUS
    <3> QED
      BY <2>1, <3>1, Zenon
  <2>3. dropsLeft' \in 0..MaxDrops
    BY DEF PushTypeOK
  <2>4. hello' \in NoHello..LastEvent /\ connCursor' \in 0..LastEvent /\ openedAt' \in 0..LastEvent
    BY DEF NoHello
  <2>5. holed' \in BOOLEAN
    BY Zenon
  <2>6. PushTypeOK'
    BY <1>0, <2>2, <2>3, <2>4, <2>5 DEF PushTypeOK
  <2>7. OnlyLogged'
    BY ElemsEmpty DEF OnlyLogged, PushTypeOK, NoBackfill
  <2> QED
    BY <2>6, <2>7 DEF HelloFirst, QueryAtCursor, NoBackfill
<1>6. CASE HelloUnheard
  BY <1>6 DEF HelloUnheard, store, client, PushTypeOK, OnlyLogged, HelloFirst, QueryAtCursor,
        NoHello
<1>7. CASE HelloHeard
  <2> USE <1>7 DEF HelloHeard, store, client
  <2>1. PushTypeOK'
    BY DEF PushTypeOK, NoHello
  <2>2. OnlyLogged'
    BY DEF OnlyLogged
  <2>3. HelloFirst'
    BY DEF HelloFirst, OnlyLogged, PushTypeOK, NoHello
  <2>4. QueryAtCursor'
    BY DEF QueryAtCursor
  <2> QED
    BY <2>1, <2>2, <2>3, <2>4
<1>8. CASE BackfillQuery
  <2> USE <1>8 DEF BackfillQuery, store, client
  <2>0. PICK found \in SUBSET (1..logged) :
          backfill' = [backfill EXCEPT !.pc = "found", !.found = found]
    BY DEF Newest
  <2>1. unread' \subseteq Pushed /\ found \subseteq Pushed
    BY DEF PushTypeOK, Pushed
  <2>2. backfill' \in [pc : {"none", "querying", "found"}, after : 0..LastEvent, found : SUBSET Pushed]
    BY <2>0, <2>1 DEF PushTypeOK
  <2>3. socket # "none"
    BY DEF PushTypeOK, NoBackfill
  <2>4. holed' \in BOOLEAN
    BY Zenon
  <2>5. PushTypeOK'
    BY <2>1, <2>2, <2>3, <2>4 DEF PushTypeOK
  <2>6. OnlyLogged'
    BY <2>0 DEF OnlyLogged, PushTypeOK
  <2>7. HelloFirst'
    BY DEF HelloFirst, NoBackfill
  <2> QED
    BY <2>0, <2>5, <2>6, <2>7 DEF QueryAtCursor, PushTypeOK
<1>9. CASE BackfillFails
  <2> USE <1>9 DEF BackfillFails, store, client
  <2>1. unread' \subseteq Pushed
    BY DEF PushTypeOK, Pushed
  <2>2. holed' \in BOOLEAN
    BY Zenon DEF PushTypeOK
  <2>3. dropsLeft' \in 0..MaxDrops
    BY DEF PushTypeOK
  <2>4. PushTypeOK'
    BY <1>0, <2>1, <2>2, <2>3 DEF PushTypeOK
  <2>5. OnlyLogged'
    BY DEF OnlyLogged, NoBackfill
  <2> QED
    BY <2>4, <2>5 DEF HelloFirst, QueryAtCursor, NoBackfill
<1>10. CASE BackfillSend
  <2> USE <1>10 DEF BackfillSend, store, client
  <2>1. PICK q \in OldestFirst(backfill.found) : toClient' = toClient \o q
    OBVIOUS
  <2>2. /\ toClient' \in Seq(Pushed)
        /\ Elems(toClient') = Elems(toClient) \cup backfill.found
    <3>1. backfill.found \in SUBSET Pushed
      BY DEF PushTypeOK
    <3>2. q \in Seq(Pushed) /\ Elems(q) = backfill.found
      BY <2>1, <3>1, SentInOrder
    <3> QED
      BY <2>1, <3>2, ElemsConcat DEF PushTypeOK
  <2>3. subscribed
    BY DEF HelloFirst, NoBackfill
  <2>4. PushTypeOK'
    BY <1>0, <2>2, <2>3 DEF PushTypeOK, HelloFirst
  <2>5. OnlyLogged'
    BY <2>2 DEF OnlyLogged, NoBackfill
  <2> QED
    BY <2>3, <2>4, <2>5 DEF HelloFirst, QueryAtCursor, NoBackfill
<1>11. CASE Receive
  <2> USE <1>11 DEF Receive, store, link
  <2>1. /\ Head(toClient) \in Pushed /\ Tail(toClient) \in Seq(Pushed)
        /\ Elems(toClient) = {Head(toClient)} \cup Elems(toClient')
    BY ElemsTail DEF PushTypeOK
  <2>2. Head(toClient) \in 1..logged /\ subscribed
    BY <2>1 DEF OnlyLogged, HelloFirst
  <2>3. socket # "none" /\ got' \subseteq 1..logged /\ lastEventSeen' \in 1..logged
    BY <2>2 DEF PushTypeOK, HelloFirst
  <2>4. /\ socket # "none" /\ got' \subseteq 1..logged /\ lastEventSeen' \in 0..LastEvent
        /\ toClient' \in Seq(Pushed)
    BY <2>1, <2>3 DEF PushTypeOK
  <2>5. PushTypeOK'
    BY <2>4 DEF PushTypeOK
  <2>6. OnlyLogged'
    BY <2>1 DEF OnlyLogged
  <2> QED
    BY <2>2, <2>5, <2>6 DEF HelloFirst, QueryAtCursor
<1>12. CASE UNCHANGED pushVars
  BY <1>12 DEF pushVars, PushTypeOK, OnlyLogged, HelloFirst, QueryAtCursor
<1> QED
  BY <1>1, <1>2, <1>3, <1>4, <1>5, <1>6, <1>7, <1>8, <1>9, <1>10, <1>11, <1>12 DEF PushNext

\* A step after which no event under way is lost from it.
\* A step that only moves events along what is under way loses none.
LEMMA KeptUnderWay ==
  ASSUME PushInv, UnderWay \subseteq UnderWay', ~subscribed => ~subscribed',
         subscribed => backfill'.pc = backfill.pc /\ backfill'.after = backfill.after,
         UNCHANGED <<logged, unread, owedFrom, connCursor, holed>>,
         ~subscribed => UNCHANGED <<got, lastEventSeen>>, subscribed' = subscribed
  PROVE  CursorServed' /\ NothingLost'
BY DEF PushInv, CursorServed, NothingLost, Missing

LEMMA ServedStep ==
  ASSUME PushInv, [PushNext]_pushVars
  PROVE  CursorServed' /\ NothingLost'
<1>0. /\ logged \in Nat /\ owedFrom \in Nat /\ connCursor \in Nat /\ hello \in Int
      /\ openedAt \in Nat /\ lastEventSeen \in Nat
  BY DEF PushInv, Shape, PushTypeOK, NoHello
<1>1. CASE AppendAtHub
  <2>1. UnderWay' = UnderWay \cup {logged + 1}
    BY <1>1 DEF AppendAtHub, UnderWay, Sent, link, client
  <2>2. \A e, n : e \in n..(logged + 1) /\ n \in Nat => e = logged + 1 \/ e \in n..logged
    BY <1>0
  <2> QED
    BY <1>0, <1>1, <2>1 DEF PushInv, CursorServed, NothingLost, Missing, AppendAtHub, link, client
<1>2. ASSUME NEW e \in Pushed, FanOut(e) PROVE CursorServed' /\ NothingLost'
  <2>1. CASE ~subscribed
    BY <1>2, <2>1 DEF PushInv, CursorServed, NothingLost, Missing, FanOut, link, client
  <2>2. CASE subscribed /\ (connCursor # 0 \/ e > openedAt)
    <3>1. toClient' = Append(toClient, e)
      BY <1>2, <2>2 DEF FanOut, PushInv, Shape, HelloFirst
    <3>2. Elems(toClient') = Elems(toClient) \cup {e}
      BY <3>1, ElemsAppend DEF PushInv, Shape, PushTypeOK
    <3>3. UnderWay \subseteq UnderWay'
      BY <1>2, <3>2 DEF UnderWay, Sent, FanOut, link, client
    <3> QED
      BY <1>2, <3>3, KeptUnderWay DEF FanOut, link, client
  <2>3. CASE subscribed /\ connCursor = 0 /\ ~(e > openedAt)
    <3>1. e <= owedFrom
      BY <1>0, <2>3 DEF PushInv, Shape, HelloFirst, Pushed
    <3>2. UnderWay \ {e} \subseteq UnderWay'
      BY <1>2, <2>3 DEF UnderWay, Sent, FanOut, link, client
    <3> QED
      BY <1>0, <1>2, <2>3, <3>1, <3>2 DEF PushInv, CursorServed, NothingLost, FanOut, link,
            client, Pushed
  <2> QED
    BY <2>1, <2>2, <2>3
<1>3. CASE Open \/ Authenticated \/ HelloUnheard
  <2>1. /\ ~subscribed /\ ~subscribed'
        /\ UNCHANGED <<got, lastEventSeen, owedFrom, holed>>
    BY <1>3 DEF Open, Authenticated, HelloUnheard, PushInv, Shape, HelloFirst, client
  <2> QED
    BY <2>1 DEF PushInv, CursorServed, NothingLost, Missing
<1>4. CASE AuthenticationFails \/ DropConnection
  <2>1. /\ ~subscribed' /\ UNCHANGED <<got, lastEventSeen, owedFrom>>
        /\ holed' = (holed \/ Missing(lastEventSeen) # {})
    BY <1>4 DEF AuthenticationFails, DropConnection, Disconnect, client
  <2>2. ~holed' => Missing(lastEventSeen) = {}
    BY <2>1, Zenon
  <2> QED
    BY <2>1, <2>2 DEF CursorServed, NothingLost, Missing
<1>5. CASE HelloHeard
  <2>1. /\ hello = lastEventSeen /\ connCursor = hello /\ ~subscribed /\ subscribed'
        /\ UNCHANGED <<got, lastEventSeen, logged, toFanOut, toClient, unread, holed>>
    BY <1>5 DEF HelloHeard, store, client, PushInv, Shape, HelloFirst
  <2>2. CASE hello > 0
    <3>1. /\ connCursor' = hello /\ backfill'.pc = "querying" /\ backfill'.after = hello
          /\ owedFrom' = owedFrom
      BY <1>5, <2>1, <2>2 DEF HelloHeard
    <3>2. ~holed => \A e \in (owedFrom + 1)..hello : e \in got
      BY <2>1 DEF PushInv, NothingLost, Missing
    <3>3. ~holed => \A e \in (owedFrom + 1)..logged : e \in got \/ e > hello
      BY <1>0, <2>1, <3>2
    <3> QED
      BY <2>1, <3>1, <3>3 DEF CursorServed, NothingLost, UnderWay
  <2>3. CASE ~(hello > 0)
    <3>1. connCursor' = 0 /\ owedFrom' = logged
      BY <1>0, <1>5, <2>1, <2>3 DEF HelloHeard
    <3> QED
      BY <1>0, <2>1, <3>1 DEF CursorServed, NothingLost
  <2> QED
    BY <2>2, <2>3
<1>6. CASE BackfillQuery
  <2>1. /\ backfill.pc = "querying" /\ backfill.found = {} /\ backfill.after = connCursor
        /\ subscribed /\ connCursor \in Nat
    BY <1>0, <1>6 DEF BackfillQuery, PushInv, Shape, HelloFirst, QueryAtCursor, NoBackfill
  <2>2. /\ backfill'.pc = "found" /\ backfill'.found = {e \in Newest : e > connCursor}
        /\ unread' = {e \in 1..logged : e > connCursor} \ Newest
        /\ UNCHANGED <<got, logged, toFanOut, toClient, subscribed, connCursor, owedFrom>>
    BY <1>6, <2>1 DEF BackfillQuery, store, client, PushInv, Shape, PushTypeOK
  <2>3. \A e \in 1..logged : e > connCursor => e \in UnderWay' \cup unread'
    BY <2>2 DEF UnderWay
  <2>4. UnderWay \subseteq UnderWay'
    BY <2>1, <2>2 DEF UnderWay, Sent
  <2>5. ~holed' => ~holed /\ unread' = {}
    BY <1>6, Zenon DEF BackfillQuery
  <2>6. CursorServed'
    BY <1>0, <2>2, <2>3 DEF CursorServed
  <2>7. NothingLost'
    <3> SUFFICES ASSUME ~holed', NEW e \in (owedFrom + 1)..logged PROVE e \in UnderWay'
      BY <2>1, <2>2 DEF NothingLost
    <3>1. e \in UnderWay \/ e > connCursor
      BY <2>1, <2>5 DEF PushInv, NothingLost
    <3> QED
      BY <1>0, <2>3, <2>4, <2>5, <3>1
  <2> QED
    BY <2>6, <2>7
<1>7. CASE BackfillFails
  <2>1. /\ backfill.pc = "querying" /\ backfill.after = connCursor /\ backfill.found = {}
        /\ unread' = {e \in 1..logged : e > connCursor} \ toFanOut
        /\ holed' = (holed \/ unread' # {}) /\ subscribed
        /\ UNCHANGED <<logged, connCursor, subscribed, owedFrom, got, toFanOut, toClient>>
    BY <1>7 DEF BackfillFails, PushInv, Shape, QueryAtCursor, HelloFirst, NoBackfill, store, client
  <2>2. UnderWay \subseteq UnderWay' /\ toFanOut \subseteq UnderWay'
    BY <2>1 DEF UnderWay, Sent
  <2>3. CursorServed'
    BY <1>0, <2>1, <2>2 DEF CursorServed
  <2>4. ASSUME ~holed', NEW e \in (owedFrom + 1)..logged PROVE e \in UnderWay'
    <3>1. ~holed /\ unread' = {} /\ subscribed
      BY <2>1, <2>4
    <3>2. e \in UnderWay \/ e > connCursor
      BY <2>1, <3>1 DEF PushInv, NothingLost
    <3>3. e \in 1..logged
      BY <1>0
    <3> QED
      BY <2>1, <2>2, <3>1, <3>2, <3>3
  <2>5. NothingLost'
    BY <2>1, <2>4 DEF NothingLost
  <2> QED
    BY <2>3, <2>5
<1>8. CASE BackfillSend
  <2>1. PICK q \in OldestFirst(backfill.found) : toClient' = toClient \o q
    BY <1>8 DEF BackfillSend
  <2>2. Elems(toClient') = Elems(toClient) \cup backfill.found
    <3>1. backfill.found \in SUBSET Pushed /\ toClient \in Seq(Pushed)
      BY DEF PushInv, Shape, PushTypeOK
    <3>2. q \in Seq(Pushed) /\ Elems(q) = backfill.found
      BY <2>1, <3>1, SentInOrder
    <3> QED
      BY <2>1, <3>1, <3>2, ElemsConcat
  <2>3. UnderWay \subseteq UnderWay'
    BY <1>8, <2>2 DEF UnderWay, Sent, BackfillSend, store, client
  <2>4. subscribed /\ backfill.pc = "found"
    BY <1>8 DEF BackfillSend, PushInv, Shape, HelloFirst, NoBackfill
  <2>5. UNCHANGED <<logged, unread, owedFrom, connCursor, holed, subscribed>>
    BY <1>8 DEF BackfillSend, store
  <2> QED
    BY <2>3, <2>4, <2>5 DEF PushInv, CursorServed, NothingLost
<1>9. CASE Receive
  <2>1. Elems(toClient) = {Head(toClient)} \cup Elems(toClient')
    BY <1>9, ElemsTail DEF Receive, PushInv, Shape, PushTypeOK
  <2>2. UnderWay \subseteq UnderWay'
    BY <1>9, <2>1 DEF UnderWay, Sent, Receive, store, link
  <2>3. subscribed
    BY <1>9 DEF Receive, PushInv, Shape, HelloFirst
  <2> QED
    BY <1>9, <2>2, <2>3, KeptUnderWay DEF Receive, store, link
<1>10. CASE UNCHANGED pushVars
  BY <1>10 DEF pushVars, PushInv, CursorServed, NothingLost, UnderWay, Sent, Missing
<1> QED
  BY <1>1, <1>2, <1>3, <1>4, <1>5, <1>6, <1>7, <1>8, <1>9, <1>10 DEF PushNext

LEMMA PushStart == PushInit => PushInv
<1> SUFFICES ASSUME PushInit PROVE PushInv
  OBVIOUS
<1> USE DEF PushInit, Disconnected
<1>1. <<>> \in Seq(Pushed)
  OBVIOUS
<1>2. PushTypeOK
  <2>1. hello \in NoHello..LastEvent
    BY DEF NoHello
  <2>2. backfill \in [pc : {"none", "querying", "found"}, after : 0..LastEvent, found : SUBSET Pushed]
    BY DEF NoBackfill
  <2>3. toClient \in Seq(Pushed)
    BY <1>1, Zenon
  <2>4. logged \in 0..LastEvent /\ dropsLeft \in 0..MaxDrops
    OBVIOUS
  <2>5. connCursor \in 0..LastEvent /\ openedAt \in 0..LastEvent /\ lastEventSeen \in 0..LastEvent
        /\ owedFrom \in 0..LastEvent
    OBVIOUS
  <2>6. /\ toFanOut = {} /\ got = {} /\ unread = {} /\ socket = "none" /\ subscribed = FALSE
        /\ holed = FALSE /\ toClient = <<>> /\ backfill = NoBackfill /\ hello = NoHello
    OBVIOUS
  <2> HIDE DEF PushInit, Disconnected
  <2> QED
    BY <2>1, <2>2, <2>3, <2>4, <2>5, <2>6 DEF PushTypeOK
<1>3. OnlyLogged
  BY ElemsEmpty DEF OnlyLogged, Sent, NoBackfill
<1>4. HelloFirst /\ QueryAtCursor
  BY DEF HelloFirst, QueryAtCursor, NoBackfill
<1>5. CursorServed /\ NothingLost
  BY DEF CursorServed, NothingLost, Missing
<1> QED
  BY <1>2, <1>3, <1>4, <1>5 DEF PushInv, Shape

LEMMA PushInvariant == PushSpec => []PushInv
<1>1. PushInv /\ [PushNext]_pushVars => PushInv'
  BY ShapeStep, ServedStep DEF PushInv
<1> QED
  BY <1>1, PushStart, PTL DEF PushSpec

\* Every reachable state of the hub's log, the connection and the client is well
\* typed, for logs of any length and any number of lost connections.
THEOREM PushTypeCorrect == PushSpec => []PushTypeOK
<1>1. PushInv => PushTypeOK
  BY DEF PushInv, Shape
<1> QED
  BY <1>1, PushInvariant, PTL

\* On a connection that has heard the client's cursor every later event is
\* accounted for, however fan-out and backfill overlap (HubModeWebSocketHub).
THEOREM ConnectionsComplete == PushSpec => []ConnectionComplete
<1>1. PushInv => ConnectionComplete
  BY DEF PushInv, CursorServed, ConnectionComplete, UnderWay, Sent, Elems
<1> QED
  BY <1>1, PushInvariant, PTL

\* Over any number of reconnections a client that is up and quiet has missed no
\* event, unless one of the losses the model names occurred (resubscribeAll).
THEOREM NoPushMissed == PushSpec => []NothingMissed
<1>1. PushInv => NothingMissed
  BY ElemsEmpty DEF PushInv, Shape, NothingLost, QueryAtCursor, UnderWay, Sent, Quiet,
        NothingMissed, Missing
<1> QED
  BY <1>1, PushInvariant, PTL

-----------------------------------------------------------------------------
(* EventFeed                                                               *)

USE FeedAssumption

LEMMA DispatchTyped ==
  ASSUME FeedTypeOK, NEW e \in EventIds, NEW reached \in SUBSET Handlers, DispatchTo(e, reached)
  PROVE  /\ seen' \in [Handlers -> SUBSET EventIds]
         /\ dispatches' \in [EventIds -> Nat]
         /\ \A h \in Handlers : seen[h] \subseteq seen'[h] /\ (h \in reached => e \in seen'[h])
         /\ dispatches'[e] = dispatches[e] + 1
         /\ \A d \in EventIds \ {e} : dispatches'[d] = dispatches[d]
  BY DEF FeedTypeOK, DispatchTo

LEMMA RowsTyped ==
  ASSUME FeedTypeOK, NEW position \in Positions
  PROVE  /\ RowsAfter(position) \subseteq committed
         /\ \A e \in RowsAfter(position) : e > position
<1>1. CASE position = NoCursor
  BY <1>1 DEF RowsAfter
<1>2. CASE position # NoCursor
  <2> DEFINE later == {e \in committed : e > position}
  <2>1. RowsAfter(position) = {e \in later : Cardinality({d \in later : d < e}) < Batch}
    BY <1>2 DEF RowsAfter
  <2> QED
    BY <2>1, Zenon
<1> QED
  BY <1>1, <1>2

\* Every reachable state of log, client and subscribers is well typed.
THEOREM FeedTypeCorrect == FeedSpec => []FeedTypeOK
<1>1. FeedInit => FeedTypeOK
  <2> SUFFICES ASSUME FeedInit PROVE FeedTypeOK
    OBVIOUS
  <2>1. polling \in BOOLEAN /\ connected \in BOOLEAN
    BY DEF FeedInit
  <2>2. lastSeen \in Positions /\ since \in [Handlers -> Positions]
    BY DEF FeedInit, Positions
  <2>3. seen \in [Handlers -> SUBSET EventIds] /\ dispatches \in [EventIds -> Nat]
    BY DEF FeedInit
  <2> QED
    BY <2>1, <2>2, <2>3 DEF FeedInit, FeedTypeOK
<1>2. FeedTypeOK /\ [FeedNext]_feedVars => FeedTypeOK'
  <2> SUFFICES ASSUME FeedTypeOK, [FeedNext]_feedVars PROVE FeedTypeOK'
    OBVIOUS
  <2> USE DEF FeedTypeOK
  <2>1. CASE AppendBegin
    BY <2>1 DEF AppendBegin, subscribers, progress, delivery, EventIds
  <2>2. ASSUME NEW e \in EventIds, Commit(e) \/ AppendFails(e) PROVE FeedTypeOK'
    BY <2>2 DEF Commit, AppendFails, subscribers, progress, delivery
  <2>3. ASSUME NEW h \in Handlers, NEW cursor \in Cursors, Subscribe(h, cursor)
        PROVE  FeedTypeOK'
    <3>1. cursor \in Positions
      BY DEF Positions
    <3>2. lastSeen' \in Positions /\ phase' \in {"off", "querying", "backfilling", "listening", "dead", "ended"}
      BY <2>3, <3>1 DEF Subscribe
    <3>3. since' \in [Handlers -> Positions]
      BY <2>3, <3>2 DEF Subscribe
    <3> QED
      BY <2>3, <3>2, <3>3 DEF Subscribe, log, delivery
  <2>4. CASE StartQuery \/ Listen \/ Relisten \/ PollQuery \/ StartFails \/ Drop
    <3> USE DEF StartQuery, Listen, Relisten, PollQuery, StartFails, Drop
    <3>1. batch' \subseteq EventIds
      BY <2>4, RowsTyped DEF progress
    <3>2. polling' \in BOOLEAN /\ connected' \in BOOLEAN
      BY <2>4 DEF progress
    <3>3. faultsLeft' \in 0..MaxFaults
      BY <2>4 DEF Fault
    <3>4. phase' \in {"off", "querying", "backfilling", "listening", "dead", "ended"}
      BY <2>4 DEF progress
    <3>5. UNCHANGED <<appended, open, committed, handlers, since, lastSeen, notified, seen,
                      dispatches, steppedOver>>
      BY <2>4 DEF log, subscribers, delivery, progress
    <3> QED
      BY <3>1, <3>2, <3>3, <3>4, <3>5
  <2>5. ASSUME NEW e \in EventIds, StartDispatch(e) \/ FetchNotified(e) PROVE FeedTypeOK'
    <3>1. DispatchTo(e, handlers) /\ handlers \in SUBSET Handlers
      BY <2>5 DEF StartDispatch, FetchNotified
    <3> QED
      BY <2>5, <3>1, DispatchTyped DEF StartDispatch, FetchNotified, log, subscribers, progress
  <2>6. ASSUME NEW e \in EventIds, PollDispatch(e) PROVE FeedTypeOK'
    <3>1. DispatchTo(e, handlers) /\ handlers \in SUBSET Handlers
      BY <2>6 DEF PollDispatch
    <3>2. e \in Positions
      BY DEF EventIds, Positions
    <3>3. polling' \in BOOLEAN
      BY <2>6 DEF PollDispatch
    <3>4. steppedOver' \subseteq EventIds
      BY <2>6 DEF PollDispatch
    <3>5. /\ UNCHANGED <<appended, open, committed, handlers, since, phase, connected,
                         notified, faultsLeft>>
          /\ lastSeen' = e /\ batch' = batch \ {e}
      BY <2>6 DEF PollDispatch, log, subscribers
    <3> QED
      BY <3>1, <3>2, <3>3, <3>4, <3>5, DispatchTyped
  <2>7. ASSUME NEW e \in EventIds, NEW reached \in SUBSET handlers, FetchFails(e, reached)
        PROVE  FeedTypeOK'
    <3>1. DispatchTo(e, reached) /\ reached \in SUBSET Handlers
      BY <2>7 DEF FetchFails
    <3>2. faultsLeft' \in 0..MaxFaults
      BY <2>7 DEF FetchFails, Fault
    <3>3. /\ UNCHANGED <<appended, open, committed, handlers, since, phase, lastSeen, polling,
                         batch, connected, steppedOver>>
          /\ notified' \subseteq notified
      BY <2>7 DEF FetchFails, log, subscribers, progress
    <3> QED
      BY <3>1, <3>2, <3>3, DispatchTyped
  <2>8. CASE PollQueryFails \/ \E e \in EventIds, reached \in SUBSET handlers : PollFails(e, reached)
    <3>1. faultsLeft' \in 0..MaxFaults
      BY <2>8 DEF PollQueryFails, PollFails, Fault
    <3>2. seen' \in [Handlers -> SUBSET EventIds] /\ dispatches' \in [EventIds -> Nat]
      BY <2>8, DispatchTyped DEF PollQueryFails, PollFails, delivery
    <3>3. ProcessEnds
      BY <2>8 DEF PollQueryFails, PollFails
    <3> QED
      BY <3>1, <3>2, <3>3 DEF ProcessEnds, log
  <2>9. CASE NewProcess
    <3>1. NoCursor \in Positions
      BY DEF Positions
    <3> QED
      BY <2>9, <3>1 DEF NewProcess, log
  <2>10. CASE UNCHANGED feedVars
    BY <2>10 DEF feedVars
  <2> QED
    BY <2>1, <2>2, <2>3, <2>4, <2>5, <2>6, <2>7, <2>8, <2>9, <2>10 DEF FeedNext, ClientStep
<1> QED
  BY <1>1, <1>2, PTL DEF FeedSpec

-----------------------------------------------------------------------------
(* What lastSeenEventId has passed, subscribers have seen: whether the row  *)
(* is there or not, and before the client listens as well.  A process that  *)
(* has ended has none, nor has the next one at first.                       *)

PassedWasSeen ==
  /\ phase \in {"off", "ended"} => handlers = {}
  /\ \A h \in handlers, e \in EventIds :
       since[h] < e /\ e <= lastSeen => e \in seen[h] \cup steppedOver

LEMMA MoreIsSeen ==
  ASSUME FeedTypeOK, PassedWasSeen,
         UNCHANGED <<handlers, since, lastSeen>>, steppedOver \subseteq steppedOver',
         phase' \in {"off", "ended"} => phase' = phase,
         \A h \in Handlers : seen[h] \subseteq seen'[h]
  PROVE  PassedWasSeen'
  BY DEF FeedTypeOK, PassedWasSeen

\* Every handler was called with every event lastSeenEventId has passed since
\* it subscribed, but for rows committed too late, whichever notifications are
\* lost or fail and however often its process ends (NotifyClient.start, the
\* periodic poll).
THEOREM PollMissesNothing == FeedSpec => []PolledWasSeen
<1>1. FeedInit => PassedWasSeen
  BY DEF FeedInit, PassedWasSeen
<1>2. FeedTypeOK /\ PassedWasSeen /\ [FeedNext]_feedVars => PassedWasSeen'
  <2> SUFFICES ASSUME FeedTypeOK, PassedWasSeen, [FeedNext]_feedVars PROVE PassedWasSeen'
    OBVIOUS
  <2>1. ASSUME UNCHANGED <<subscribers, lastSeen, seen, steppedOver>>,
               phase' \in {"off", "ended"} => phase' = phase
        PROVE  PassedWasSeen'
    BY <2>1 DEF PassedWasSeen, subscribers
  <2>2. ASSUME NEW h \in Handlers, NEW cursor \in Cursors, Subscribe(h, cursor)
        PROVE  PassedWasSeen'
    <3>1. /\ handlers' = handlers \cup {h} /\ since'[h] = lastSeen'
          /\ phase # "off" => lastSeen' = lastSeen
          /\ phase' \notin {"off", "ended"}
          /\ \A g \in Handlers \ {h} : since'[g] = since[g]
          /\ UNCHANGED <<seen, steppedOver>>
      BY <2>2 DEF Subscribe, FeedTypeOK, delivery
    <3>2. lastSeen' \in Int
      BY <2>2 DEF Subscribe, FeedTypeOK, Positions
    <3>3. ASSUME NEW g \in handlers', NEW e \in EventIds,
                 since'[g] < e, e <= lastSeen'
          PROVE  e \in seen'[g] \cup steppedOver'
      <4>1. g # h /\ g \in handlers
        BY <3>1, <3>2, <3>3 DEF EventIds
      <4> QED
        BY <3>1, <3>3, <4>1 DEF PassedWasSeen, FeedTypeOK
    <3> QED
      BY <3>1, <3>3 DEF PassedWasSeen
  <2>3. ASSUME NEW e \in EventIds, StartDispatch(e) \/ FetchNotified(e) PROVE PassedWasSeen'
    <3>1. DispatchTo(e, handlers) /\ handlers \in SUBSET Handlers
      BY <2>3 DEF StartDispatch, FetchNotified, FeedTypeOK
    <3> QED
      BY <2>3, <3>1, DispatchTyped, MoreIsSeen DEF StartDispatch, FetchNotified, subscribers, progress
  <2>4. ASSUME NEW e \in EventIds, PollDispatch(e) PROVE PassedWasSeen'
    <3>1. DispatchTo(e, handlers) /\ handlers \in SUBSET Handlers
      BY <2>4 DEF PollDispatch, FeedTypeOK
    <3>2. /\ UNCHANGED <<handlers, since, phase>>
          /\ lastSeen' = e
          /\ steppedOver' = steppedOver \cup {d \in EventIds : lastSeen < d /\ d < e}
      BY <2>4 DEF PollDispatch, subscribers
    <3>3. lastSeen \in Int
      BY DEF FeedTypeOK, Positions
    <3>4. ASSUME NEW h \in handlers, NEW d \in EventIds, since[h] < d, d <= e
          PROVE  d \in seen'[h] \cup steppedOver'
      <4>1. CASE d = e
        BY <3>1, <4>1, DispatchTyped
      <4>2. CASE d <= lastSeen
        BY <3>1, <3>2, <3>4, <4>2, DispatchTyped DEF PassedWasSeen
      <4>3. CASE lastSeen < d /\ d < e
        BY <3>2, <4>3
      <4> QED
        BY <3>3, <3>4, <4>1, <4>2, <4>3 DEF EventIds
    <3> QED
      BY <3>2, <3>4 DEF PassedWasSeen
  <2>5. ASSUME NEW e \in EventIds, NEW reached \in SUBSET handlers, FetchFails(e, reached)
        PROVE  PassedWasSeen'
    <3>1. DispatchTo(e, reached) /\ reached \in SUBSET Handlers
      BY <2>5 DEF FetchFails, FeedTypeOK
    <3> QED
      BY <2>5, <3>1, DispatchTyped, MoreIsSeen DEF FetchFails, subscribers, progress
  <2>6. CASE PollQueryFails \/ \E e \in EventIds, reached \in SUBSET handlers : PollFails(e, reached)
    BY <2>6 DEF PollQueryFails, PollFails, ProcessEnds, PassedWasSeen
  <2>7. CASE NewProcess
    BY <2>7 DEF NewProcess, PassedWasSeen
  <2> QED
    BY <2>1, <2>2, <2>3, <2>4, <2>5, <2>6, <2>7
    DEF FeedNext, ClientStep, AppendBegin, Commit, AppendFails, StartQuery, Listen, Relisten,
        PollQuery, StartFails, Drop, feedVars, subscribers, progress, delivery
<1>3. FeedTypeOK /\ PassedWasSeen => PolledWasSeen
  BY DEF FeedTypeOK, PassedWasSeen, PolledWasSeen
<1> QED
  BY <1>1, <1>2, <1>3, FeedTypeCorrect, PTL DEF FeedSpec

-----------------------------------------------------------------------------
(* An event has a dispatch left for its notification, or the first backfill,*)
(* and one for the poll that has not passed it.                             *)

FirstDue(e) == IF \/ e \notin committed \/ e \in notified
                  \/ phase \in {"off", "querying"}
                  \/ phase = "backfilling" /\ e \in batch
               THEN 1 ELSE 0
PollDue(e) == IF e > lastSeen THEN 1 ELSE 0

WithinBudget ==
  \A e \in EventIds : dispatches[e] + FirstDue(e) + PollDue(e) <= 2 + (MaxFaults - faultsLeft)

RowsOnce ==
  /\ open \cup committed \subseteq 1..appended /\ open \cap committed = {}
  /\ notified \cup batch \subseteq committed

PhasesApart ==
  /\ phase = "off" => lastSeen = NoCursor
  /\ phase # "listening" => notified = {} /\ connected = FALSE /\ polling = FALSE
  /\ polling = TRUE => \A e \in batch : e > lastSeen

BudgetInv == WithinBudget /\ RowsOnce /\ PhasesApart

LEMMA RowsOnceStep ==
  ASSUME FeedTypeOK, BudgetInv, [FeedNext]_feedVars
  PROVE  RowsOnce'
<1> USE DEF BudgetInv, RowsOnce
<1>1. CASE AppendBegin
  BY <1>1 DEF AppendBegin, FeedTypeOK, progress
<1>2. ASSUME NEW e \in EventIds, Commit(e) \/ AppendFails(e) PROVE RowsOnce'
  BY <1>2 DEF Commit, AppendFails, progress
<1>3. ASSUME NEW e \in EventIds, PollDispatch(e) PROVE RowsOnce'
  BY <1>3 DEF PollDispatch, log
<1>4. ASSUME UNCHANGED log, notified' \subseteq notified, batch' \subseteq batch \cup committed
      PROVE  RowsOnce'
  BY <1>4 DEF log
<1>5. RowsAfter(lastSeen) \subseteq committed
  BY RowsTyped DEF FeedTypeOK
<1>6. CASE StartQuery \/ Listen \/ Relisten \/ PollQuery \/ StartFails \/ Drop
  BY <1>4, <1>5, <1>6 DEF StartQuery, Listen, Relisten, PollQuery, StartFails, Drop, progress
<1>7. ASSUME NEW e \in EventIds, StartDispatch(e) \/ FetchNotified(e) PROVE RowsOnce'
  BY <1>4, <1>7 DEF StartDispatch, FetchNotified, progress
<1>8. ASSUME NEW e \in EventIds, NEW reached, FetchFails(e, reached) \/ PollFails(e, reached)
      PROVE  RowsOnce'
  BY <1>4, <1>8 DEF FetchFails, PollFails, ProcessEnds, progress
<1>9. ASSUME NEW h \in Handlers, NEW cursor \in Cursors, Subscribe(h, cursor) PROVE RowsOnce'
  BY <1>4, <1>9 DEF Subscribe
<1>10. CASE PollQueryFails \/ NewProcess
  BY <1>4, <1>10 DEF PollQueryFails, ProcessEnds, NewProcess
<1>11. CASE UNCHANGED feedVars
  BY <1>11 DEF feedVars
<1> QED
  BY <1>1, <1>2, <1>3, <1>6, <1>7, <1>8, <1>9, <1>10, <1>11 DEF FeedNext, ClientStep

LEMMA PhasesApartStep ==
  ASSUME FeedTypeOK, BudgetInv, [FeedNext]_feedVars
  PROVE  PhasesApart'
<1> USE DEF BudgetInv, PhasesApart
<1>1. ASSUME UNCHANGED <<phase, lastSeen, polling, batch, connected>>,
             phase # "listening" => notified' = {}
      PROVE  PhasesApart'
  BY <1>1
<1>2. ASSUME NEW e \in EventIds, Commit(e) PROVE PhasesApart'
  BY <1>1, <1>2 DEF Commit, progress
<1>3. CASE AppendBegin \/ \E e \in EventIds : AppendFails(e)
  BY <1>1, <1>3 DEF AppendBegin, AppendFails, progress
<1>4. ASSUME NEW h \in Handlers, NEW cursor \in Cursors, Subscribe(h, cursor)
      PROVE  PhasesApart'
  <2>1. UNCHANGED <<polling, batch, connected, notified>>
    BY <1>4 DEF Subscribe
  <2>2. CASE phase = "off"
    BY <1>4, <2>1, <2>2 DEF Subscribe
  <2>3. CASE phase # "off"
    BY <1>1, <1>4, <2>1, <2>3 DEF Subscribe
  <2> QED
    BY <2>2, <2>3
<1>5. CASE StartQuery \/ StartFails
  BY <1>5 DEF StartQuery, StartFails
<1>6. CASE Listen
  BY <1>6 DEF Listen
<1>7. CASE Relisten \/ Drop
  BY <1>7 DEF Relisten, Drop, progress
<1>8. CASE PollQuery
  <2>1. \A e \in RowsAfter(lastSeen) : e > lastSeen
    BY RowsTyped DEF FeedTypeOK
  <2>2. batch' = RowsAfter(lastSeen) /\ phase = "listening"
        /\ UNCHANGED <<phase, lastSeen>>
    BY <1>8 DEF PollQuery
  <2> QED
    BY <2>1, <2>2
<1>9. ASSUME NEW e \in EventIds, StartDispatch(e) PROVE PhasesApart'
  BY <1>9 DEF StartDispatch
<1>10. ASSUME NEW e \in EventIds, FetchNotified(e) PROVE PhasesApart'
  BY <1>1, <1>10 DEF FetchNotified, progress
<1>11. ASSUME NEW e \in EventIds, PollDispatch(e) PROVE PhasesApart'
  <2>1. /\ phase = "listening" /\ phase' = phase /\ lastSeen' = e /\ batch' = batch \ {e}
        /\ \A d \in batch : e <= d
    BY <1>11 DEF PollDispatch, FirstOfBatch
  <2>2. batch \subseteq EventIds
    BY DEF FeedTypeOK
  <2> QED
    BY <2>1, <2>2 DEF EventIds
<1>12. ASSUME NEW e \in EventIds, NEW reached, FetchFails(e, reached) PROVE PhasesApart'
  BY <1>1, <1>12 DEF FetchFails, progress
<1>13. CASE PollQueryFails \/ \E e \in EventIds, reached \in SUBSET handlers : PollFails(e, reached)
  BY <1>13 DEF PollQueryFails, PollFails, ProcessEnds
<1>14. CASE NewProcess
  BY <1>14 DEF NewProcess
<1>15. CASE UNCHANGED feedVars
  BY <1>1, <1>15 DEF feedVars
<1> QED
  BY <1>2, <1>3, <1>4, <1>5, <1>6, <1>7, <1>8, <1>9, <1>10, <1>11, <1>12, <1>13, <1>14, <1>15
  DEF FeedNext, ClientStep

LEMMA NoMoreDue ==
  ASSUME FeedTypeOK, BudgetInv, UNCHANGED dispatches, faultsLeft' \in 0..faultsLeft,
         \A e \in EventIds : FirstDue(e)' <= FirstDue(e) /\ PollDue(e)' <= PollDue(e)
  PROVE  WithinBudget'
<1> SUFFICES ASSUME NEW e \in EventIds
             PROVE  dispatches'[e] + FirstDue(e)' + PollDue(e)' <= 2 + (MaxFaults - faultsLeft')
  BY DEF WithinBudget
<1>1. dispatches[e] + FirstDue(e) + PollDue(e) <= 2 + (MaxFaults - faultsLeft)
  BY DEF BudgetInv, WithinBudget
<1>2. /\ FirstDue(e) \in 0..1 /\ PollDue(e) \in 0..1
      /\ FirstDue(e)' \in 0..1 /\ PollDue(e)' \in 0..1
  BY DEF FirstDue, PollDue
<1>3. dispatches[e] \in Nat /\ faultsLeft \in 0..MaxFaults
  BY DEF FeedTypeOK
<1> QED
  BY <1>1, <1>2, <1>3

\* A dispatch of e is paid for by one that was due, or by a fault.
LEMMA DispatchPaid ==
  ASSUME FeedTypeOK, BudgetInv, NEW e \in EventIds, NEW reached \in SUBSET Handlers,
         DispatchTo(e, reached), faultsLeft' \in 0..faultsLeft,
         \A d \in EventIds : FirstDue(d)' <= FirstDue(d) /\ PollDue(d)' <= PollDue(d),
         FirstDue(e)' < FirstDue(e) \/ PollDue(e)' < PollDue(e) \/ faultsLeft' < faultsLeft
  PROVE  WithinBudget'
<1> SUFFICES ASSUME NEW d \in EventIds
             PROVE  dispatches'[d] + FirstDue(d)' + PollDue(d)' <= 2 + (MaxFaults - faultsLeft')
  BY DEF WithinBudget
<1>1. dispatches[d] + FirstDue(d) + PollDue(d) <= 2 + (MaxFaults - faultsLeft)
  BY DEF BudgetInv, WithinBudget
<1>2. /\ FirstDue(d) \in 0..1 /\ PollDue(d) \in 0..1
      /\ FirstDue(d)' \in 0..1 /\ PollDue(d)' \in 0..1
  BY DEF FirstDue, PollDue
<1>3. dispatches[d] \in Nat /\ faultsLeft \in 0..MaxFaults
  BY DEF FeedTypeOK
<1>4. dispatches'[d] = IF d = e THEN dispatches[d] + 1 ELSE dispatches[d]
  BY DispatchTyped
<1>5. CASE d = e
  BY <1>1, <1>2, <1>3, <1>4, <1>5
<1>6. CASE d # e
  BY <1>1, <1>2, <1>3, <1>4, <1>6
<1> QED
  BY <1>5, <1>6

LEMMA BudgetStep ==
  ASSUME FeedTypeOK, BudgetInv, [FeedNext]_feedVars
  PROVE  WithinBudget'
<1>0. /\ faultsLeft \in 0..MaxFaults /\ lastSeen \in Int /\ NoCursor = -1
      /\ handlers \in SUBSET Handlers
  BY DEF FeedTypeOK, Positions
<1>1. CASE AppendBegin \/ \E e \in EventIds : AppendFails(e)
  BY <1>0, <1>1, NoMoreDue
  DEF AppendBegin, AppendFails, progress, delivery, FirstDue, PollDue
<1>2. ASSUME NEW e \in EventIds, Commit(e) PROVE WithinBudget'
  <2>1. e \notin committed
    BY <1>2 DEF Commit, BudgetInv, RowsOnce
  <2> QED
    BY <1>0, <1>2, <2>1, NoMoreDue DEF Commit, progress, delivery, FirstDue, PollDue
<1>3. ASSUME NEW h \in Handlers, NEW cursor \in Cursors, Subscribe(h, cursor)
      PROVE  WithinBudget'
  <2>1. UNCHANGED <<committed, notified, batch, dispatches, faultsLeft>>
    BY <1>3 DEF Subscribe, log, delivery
  <2>2. CASE phase = "off"
    <3>1. lastSeen = NoCursor /\ lastSeen' = cursor /\ phase' = "querying" /\ cursor >= -1
      BY <1>3, <2>2 DEF Subscribe, BudgetInv, PhasesApart
    <3>2. cursor \in Int
      BY <1>0
    <3> QED
      BY <1>0, <2>1, <2>2, <3>1, <3>2, NoMoreDue DEF FirstDue, PollDue, EventIds
  <2>3. CASE phase # "off"
    BY <1>0, <1>3, <2>1, <2>3, NoMoreDue DEF Subscribe, FirstDue, PollDue
  <2> QED
    BY <2>2, <2>3
<1>4. CASE StartQuery
  <2>1. /\ phase = "querying" /\ phase' = "backfilling"
        /\ UNCHANGED <<committed, notified, lastSeen, dispatches, faultsLeft>>
    BY <1>4 DEF StartQuery, log, delivery
  <2> QED
    BY <1>0, <2>1, NoMoreDue DEF FirstDue, PollDue
<1>5. CASE Listen \/ Relisten \/ Drop
  BY <1>0, <1>5, NoMoreDue
  DEF Listen, Relisten, Drop, Fault, log, progress, delivery, FirstDue, PollDue
<1>6. CASE PollQuery
  <2>1. /\ phase = "listening"
        /\ UNCHANGED <<committed, notified, phase, lastSeen, dispatches, faultsLeft>>
    BY <1>6 DEF PollQuery, log, delivery
  <2> QED
    BY <1>0, <2>1, NoMoreDue DEF FirstDue, PollDue
<1>7. CASE StartFails
  <2>1. /\ phase' = "dead" /\ UNCHANGED <<committed, notified, lastSeen, dispatches>>
        /\ faultsLeft' \in 0..faultsLeft
    BY <1>0, <1>7 DEF StartFails, Fault, log, delivery
  <2> QED
    BY <1>0, <2>1, NoMoreDue DEF FirstDue, PollDue
<1>8. ASSUME NEW e \in EventIds, StartDispatch(e) PROVE WithinBudget'
  <2>1. /\ phase = "backfilling" /\ e \in batch /\ batch' = batch \ {e}
        /\ UNCHANGED <<committed, notified, phase, lastSeen, faultsLeft>>
        /\ DispatchTo(e, handlers)
    BY <1>8 DEF StartDispatch, FirstOfBatch, log
  <2>2. e \in committed /\ e \notin notified
    BY <2>1 DEF BudgetInv, RowsOnce, PhasesApart
  <2> QED
    BY <1>0, <2>1, <2>2, DispatchPaid DEF FirstDue, PollDue
<1>9. ASSUME NEW e \in EventIds, FetchNotified(e) PROVE WithinBudget'
  <2>1. /\ e \in notified /\ notified' = notified \ {e}
        /\ UNCHANGED <<committed, batch, phase, lastSeen, faultsLeft>>
        /\ DispatchTo(e, handlers)
    BY <1>9 DEF FetchNotified, log, progress
  <2>2. e \in committed /\ phase = "listening"
    BY <2>1 DEF BudgetInv, RowsOnce, PhasesApart
  <2> QED
    BY <1>0, <2>1, <2>2, DispatchPaid DEF FirstDue, PollDue
<1>10. ASSUME NEW e \in EventIds, PollDispatch(e) PROVE WithinBudget'
  <2>1. /\ e \in batch /\ polling = TRUE /\ lastSeen' = e
        /\ UNCHANGED <<committed, notified, phase, faultsLeft>>
        /\ DispatchTo(e, handlers)
    BY <1>10 DEF PollDispatch, FirstOfBatch, log, FeedTypeOK
  <2>2. e > lastSeen /\ phase = "listening"
    BY <2>1 DEF BudgetInv, PhasesApart
  <2> QED
    BY <1>0, <2>1, <2>2, DispatchPaid DEF FirstDue, PollDue, EventIds
<1>11. ASSUME NEW e \in EventIds, NEW reached \in SUBSET handlers, FetchFails(e, reached)
       PROVE  WithinBudget'
  <2>1. /\ notified' \subseteq notified /\ faultsLeft' \in 0..faultsLeft
        /\ faultsLeft' < faultsLeft
        /\ UNCHANGED <<committed, batch, phase, lastSeen>>
        /\ DispatchTo(e, reached)
    BY <1>0, <1>11 DEF FetchFails, Fault, log, progress
  <2>2. reached \in SUBSET Handlers
    BY <1>0
  <2> QED
    BY <1>0, <2>1, <2>2, DispatchPaid DEF FirstDue, PollDue
<1>12. ASSUME NEW e \in EventIds, NEW reached \in SUBSET handlers, PollFails(e, reached)
       PROVE  WithinBudget'
  <2>1. /\ faultsLeft' \in 0..faultsLeft /\ faultsLeft' < faultsLeft
        /\ batch' = {} /\ notified' = {} /\ phase' = "ended"
        /\ UNCHANGED <<committed, lastSeen>>
        /\ DispatchTo(e, reached)
    BY <1>0, <1>12 DEF PollFails, ProcessEnds, Fault, log
  <2>2. reached \in SUBSET Handlers
    BY <1>0
  <2> QED
    BY <1>0, <2>1, <2>2, DispatchPaid DEF FirstDue, PollDue
<1>13. CASE PollQueryFails
  <2>1. /\ faultsLeft' \in 0..faultsLeft /\ notified' = {} /\ phase' = "ended"
        /\ UNCHANGED <<committed, lastSeen, dispatches>>
    BY <1>0, <1>13 DEF PollQueryFails, ProcessEnds, Fault, log, delivery
  <2> QED
    BY <1>0, <2>1, NoMoreDue DEF FirstDue, PollDue
<1>14. CASE NewProcess
  <2>1. dispatches' = [e \in EventIds |-> 0] /\ faultsLeft' = faultsLeft
    BY <1>14 DEF NewProcess
  <2>2. \A e \in EventIds : FirstDue(e)' <= 1 /\ PollDue(e)' <= 1
    BY DEF FirstDue, PollDue
  <2> QED
    BY <1>0, <2>1, <2>2 DEF WithinBudget, FirstDue, PollDue
<1>15. CASE UNCHANGED feedVars
  BY <1>0, <1>15, NoMoreDue DEF feedVars, FirstDue, PollDue
<1> QED
  BY <1>1, <1>2, <1>3, <1>4, <1>5, <1>6, <1>7, <1>8, <1>9, <1>10, <1>11, <1>12, <1>13, <1>14, <1>15
  DEF FeedNext, ClientStep

\* Faults aside an event is dispatched twice at most, however notifications,
\* the first backfill and the poll interleave (NotifyClient.dispatch).
THEOREM DispatchesBounded == FeedSpec => []DispatchedTwiceAtMost
<1>1. FeedInit => BudgetInv
  <2> SUFFICES ASSUME FeedInit PROVE BudgetInv
    OBVIOUS
  <2>1. WithinBudget
    BY DEF FeedInit, WithinBudget, FirstDue, PollDue
  <2>2. RowsOnce /\ PhasesApart
    BY DEF FeedInit, RowsOnce, PhasesApart
  <2> QED
    BY <2>1, <2>2 DEF BudgetInv
<1>2. FeedTypeOK /\ BudgetInv /\ [FeedNext]_feedVars => BudgetInv'
  BY BudgetStep, RowsOnceStep, PhasesApartStep DEF BudgetInv
<1>3. FeedTypeOK /\ BudgetInv => DispatchedTwiceAtMost
  <2> SUFFICES ASSUME FeedTypeOK, BudgetInv, NEW e \in EventIds
               PROVE  dispatches[e] <= 2 + (MaxFaults - faultsLeft)
    BY DEF DispatchedTwiceAtMost
  <2>1. FirstDue(e) \in 0..1 /\ PollDue(e) \in 0..1 /\ dispatches[e] \in Nat
    BY DEF FirstDue, PollDue, FeedTypeOK
  <2> QED
    BY <2>1 DEF BudgetInv, WithinBudget, FeedTypeOK
<1> QED
  BY <1>1, <1>2, <1>3, FeedTypeCorrect, PTL DEF FeedSpec
=============================================================================

----------------------------- MODULE DaemonQueue -----------------------------
(***************************************************************************)
(* The daemon's work queue: SqsConsumer (orchestrator-daemon/src/           *)
(* sqs-consumer.ts) and the shutdown of its process (main.ts).  The queue   *)
(* itself is external: a message that is received is hidden until its       *)
(* visibility times out, and goes to the dead letters instead of being      *)
(* received more than maxReceiveCount times.                                *)
(*                                                                         *)
(* One loop receives, up to the free places; the handlers run beside it.    *)
(* A handler that outlives the timeout meets the next delivery of its own   *)
(* message, and either may delete it.                                       *)
(***************************************************************************)
EXTENDS Integers, FiniteSets

CONSTANTS
  Messages,
  MaxConcurrency,  \* maxConcurrency
  MaxBatch,        \* messages one receive may ask for (10)
  MaxReceive,      \* maxReceiveCount of the redrive policy
  MaxShutdowns     \* bound: restarts of the daemon

ASSUME QueueAssumption ==
  /\ IsFiniteSet(Messages)
  /\ {MaxConcurrency, MaxBatch, MaxReceive} \subseteq Nat \ {0}
  /\ MaxShutdowns \in Nat

VARIABLES
  place,     \* of each message: "queued", "hidden", "deleted" or "dead"
  received,  \* ApproximateReceiveCount, which tells its receipts apart too
  asked,     \* MaxNumberOfMessages of the receive under way, 0 without one
  inflight,  \* the deliveries being handled
  handled,   \* history: messages whose handler has returned
  restartsLeft

queueVars == <<place, received, asked, inflight, handled, restartsLeft>>

Receipts == 1..MaxReceive
Delivery(m, n, pc) == [msg |-> m, receipt |-> n, pc |-> pc]

QueueTypeOK ==
  /\ place \in [Messages -> {"queued", "hidden", "deleted", "dead"}]
  /\ received \in [Messages -> 0..MaxReceive]
  /\ asked \in 0..MaxBatch
  /\ inflight \subseteq [msg : Messages, receipt : Receipts,
                         pc : {"handling", "deleting", "returning"}]
  /\ handled \subseteq Messages
  /\ restartsLeft \in 0..MaxShutdowns

QueueInit ==
  /\ place = [m \in Messages |-> "queued"]
  /\ received = [m \in Messages |-> 0]
  /\ asked = 0 /\ inflight = {}
  /\ handled = {} /\ restartsLeft = MaxShutdowns

-----------------------------------------------------------------------------
(* The queue                                                               *)

VisibilityTimesOut(m) ==
  /\ place[m] = "hidden"
  /\ place' = [place EXCEPT ![m] = "queued"]
  /\ UNCHANGED <<received, asked, inflight, handled, restartsLeft>>

Redrive(m) ==
  /\ place[m] = "queued" /\ received[m] = MaxReceive
  /\ place' = [place EXCEPT ![m] = "dead"]
  /\ UNCHANGED <<received, asked, inflight, handled, restartsLeft>>

Receivable == {m \in Messages : place[m] = "queued" /\ received[m] < MaxReceive}

Hide(batch) ==
  /\ place' = [m \in Messages |-> IF m \in batch THEN "hidden" ELSE place[m]]
  /\ received' = [m \in Messages |-> IF m \in batch THEN received[m] + 1 ELSE received[m]]

-----------------------------------------------------------------------------
(* tick                                                                    *)

\* Mutant: the places that are taken are not subtracted.
AskForAll ==
  /\ asked = 0
  /\ Cardinality(inflight) < MaxConcurrency
  /\ asked' = IF MaxConcurrency < MaxBatch THEN MaxConcurrency ELSE MaxBatch
  /\ UNCHANGED <<place, received, inflight, handled, restartsLeft>>

Ask ==
  /\ asked = 0
  /\ Cardinality(inflight) < MaxConcurrency
  /\ LET free == MaxConcurrency - Cardinality(inflight)
     IN  asked' = IF free < MaxBatch THEN free ELSE MaxBatch
  /\ UNCHANGED <<place, received, inflight, handled, restartsLeft>>

\* The long poll ends, with nothing at worst.
ReceiveMessages(batch) ==
  /\ asked > 0 /\ batch \subseteq Receivable /\ Cardinality(batch) <= asked
  /\ asked' = 0
  /\ Hide(batch)
  /\ inflight' = inflight \cup {Delivery(m, received'[m], "handling") : m \in batch}
  /\ UNCHANGED <<handled, restartsLeft>>

\* The answer is lost: the messages are hidden and nobody has them.
ReceiveFails(batch) ==
  /\ asked > 0 /\ batch \subseteq Receivable /\ Cardinality(batch) <= asked
  /\ asked' = 0
  /\ Hide(batch)
  /\ UNCHANGED <<inflight, handled, restartsLeft>>

-----------------------------------------------------------------------------
(* handleMessage                                                           *)

Move(d, pc) == inflight' = (inflight \ {d}) \cup {[d EXCEPT !.pc = pc]}

\* Mutant: the message is deleted before its handler is called.
DeleteFirst(d) ==
  /\ d.pc = "handling"
  /\ Move(d, "deleting")
  /\ UNCHANGED <<place, received, asked, handled, restartsLeft>>

HandlerReturns(d) ==
  /\ d.pc = "handling"
  /\ handled' = handled \cup {d.msg}
  /\ Move(d, "deleting")
  /\ UNCHANGED <<place, received, asked, restartsLeft>>

HandlerThrows(d) ==
  /\ d.pc = "handling"
  /\ Move(d, "returning")
  /\ UNCHANGED <<place, received, asked, handled, restartsLeft>>

\* With a receipt that is not the last one the call may do nothing.
Delete(d) ==
  /\ d.pc = "deleting"
  /\ inflight' = inflight \ {d}
  /\ \/ place' = [place EXCEPT ![d.msg] = IF @ = "dead" THEN @ ELSE "deleted"]
     \/ d.receipt # received[d.msg] /\ UNCHANGED place
  /\ UNCHANGED <<received, asked, handled, restartsLeft>>

\* The message was handled, and is treated as if it had failed.
DeleteFails(d) ==
  /\ d.pc = "deleting"
  /\ Move(d, "returning")
  /\ UNCHANGED <<place, received, asked, handled, restartsLeft>>

\* Mutant: the delivery keeps its place.
KeepPlace(d) ==
  /\ d.pc = "returning"
  /\ UNCHANGED queueVars

\* changeVisibility(30), whose own failure is swallowed: the message is hidden
\* for some more time either way.
ReturnMessage(d) ==
  /\ d.pc = "returning"
  /\ inflight' = inflight \ {d}
  /\ UNCHANGED <<place, received, asked, handled, restartsLeft>>

-----------------------------------------------------------------------------

\* shutdown ends the process without waiting for the consumer to drain.
Shutdown ==
  /\ restartsLeft > 0 /\ restartsLeft' = restartsLeft - 1
  /\ asked' = 0 /\ inflight' = {}
  /\ UNCHANGED <<place, received, handled>>

HandleNext(d) ==
  HandlerReturns(d) \/ HandlerThrows(d) \/ Delete(d) \/ DeleteFails(d) \/ ReturnMessage(d)

QueueNext ==
  \/ \E m \in Messages : VisibilityTimesOut(m) \/ Redrive(m)
  \/ Ask \/ \E batch \in SUBSET Receivable : ReceiveMessages(batch) \/ ReceiveFails(batch)
  \/ \E d \in inflight : HandleNext(d)
  \/ Shutdown

QueueSpec == QueueInit /\ [][QueueNext]_queueVars

\* A handler ends, hidden messages come back, the loop goes on, and a message
\* that is there to be received again and again is received.
ReceiveOf(m) == \E batch \in SUBSET Receivable :
                  m \in batch /\ (ReceiveMessages(batch) \/ ReceiveFails(batch))
QueueFairness ==
  /\ WF_queueVars(Ask)
  /\ WF_queueVars(\E d \in inflight : HandleNext(d))
  /\ \A m \in Messages : /\ WF_queueVars(VisibilityTimesOut(m) \/ Redrive(m))
                         /\ SF_queueVars(ReceiveOf(m))

-----------------------------------------------------------------------------
(* Properties                                                              *)

\* No more than MaxConcurrency deliveries are handled at a time, redeliveries
\* of messages whose handlers outlive the timeout included (tick).
ConcurrencyBounded == Cardinality(inflight) <= MaxConcurrency

\* "messages are deleted only after successful handling" (header of
\* sqs-consumer.ts), although two deliveries of a message may be at work.
DeletedWasHandled == \A m \in Messages : place[m] = "deleted" => m \in handled

\* Every message is deleted or among the dead letters in the end, whatever
\* fails, times out or is cut off by a shutdown.
EveryMessageSettles == \A m \in Messages : <>[](place[m] \in {"deleted", "dead"})
=============================================================================

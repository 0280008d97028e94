------------------------------ MODULE TaskDag ------------------------------
(***************************************************************************)
(* buildDAG (orchestration/dag.ts): Kahn's algorithm over the tasks of a   *)
(* sprint and their dependency rows, run by SprintService before the rows  *)
(* of a commitment are inserted (assertAcyclic).  One action per iteration *)
(* of the main loop.  The queue is kept as a set: the sort of the roots    *)
(* and of the released successors fixes one of the orders allowed here.    *)
(***************************************************************************)
EXTENDS Integers, Sequences, FiniteSets

CONSTANTS
  Ids,        \* task ids
  Candidates  \* dependency rows to build graphs from: [pred, succ, blocking]

ASSUME CandidatesAssumption ==
  /\ IsFiniteSet(Ids)
  /\ Candidates \subseteq [pred : Ids, succ : Ids, blocking : BOOLEAN]

VARIABLES
  nodes,      \* the tasks given
  edges,      \* the rows given
  inDegree,   \* blocking predecessors not emitted yet, per node
  queue,      \* nodes whose in-degree has reached 0, not emitted yet
  topoOrder,  \* nodes emitted, in order
  outcome     \* "none", "scanning", "sorting", "sorted", "unknown" or "cycle"

vars == <<nodes, edges, inDegree, queue, topoOrder, outcome>>

\* predecessorsOf and the blocking part of successorsOf.
Preds(n) == {m \in nodes : \E e \in edges : e.blocking /\ e.pred = m /\ e.succ = n}
Succs(n) == {m \in nodes : n \in Preds(m)}

Emitted == {topoOrder[i] : i \in DOMAIN topoOrder}

TypeOK ==
  /\ nodes \subseteq Ids
  /\ edges \subseteq Candidates
  /\ inDegree \in [nodes -> Nat]
  /\ queue \subseteq nodes
  /\ topoOrder \in Seq(nodes)
  /\ outcome \in {"scanning", "sorting", "sorted", "unknown", "cycle"}

Init ==
  /\ nodes \in SUBSET Ids
  /\ edges \in SUBSET Candidates
  /\ inDegree = [n \in nodes |-> 0]
  /\ queue = {}
  /\ topoOrder = <<>>
  /\ outcome = "scanning"

\* A row, informational or not, that names a task not given ends it all.
UnknownTask == \E e \in edges : e.pred \notin nodes \/ e.succ \notin nodes

RejectUnknown ==
  /\ outcome = "scanning"
  /\ UnknownTask
  /\ outcome' = "unknown"
  /\ UNCHANGED <<nodes, edges, inDegree, queue, topoOrder>>

\* Mutant: rows are counted, not the set of predecessors, and informational
\* rows with them.
CountPredecessorsOfAnyRow ==
  /\ outcome = "scanning"
  /\ ~UnknownTask
  /\ inDegree' = [n \in nodes |-> Cardinality({e \in edges : e.succ = n})]
  /\ queue' = {n \in nodes : inDegree'[n] = 0}
  /\ outcome' = "sorting"
  /\ UNCHANGED <<nodes, edges, topoOrder>>

CountPredecessors ==
  /\ outcome = "scanning"
  /\ ~UnknownTask
  /\ inDegree' = [n \in nodes |-> Cardinality(Preds(n))]
  /\ queue' = {n \in nodes : Preds(n) = {}}
  /\ outcome' = "sorting"
  /\ UNCHANGED <<nodes, edges, topoOrder>>

\* Mutant: a successor is released when its last but one predecessor goes.
EmitEarly(n) ==
  /\ outcome = "sorting"
  /\ n \in queue
  /\ topoOrder' = Append(topoOrder, n)
  /\ inDegree' = [m \in nodes |-> IF m \in Succs(n) THEN inDegree[m] - 1 ELSE inDegree[m]]
  /\ queue' = (queue \ {n}) \cup {m \in Succs(n) : inDegree[m] = 2}
  /\ UNCHANGED <<nodes, edges, outcome>>

\* One iteration: emit a node and release the successors it was the last
\* predecessor of.
Emit(n) ==
  /\ outcome = "sorting"
  /\ n \in queue
  /\ topoOrder' = Append(topoOrder, n)
  /\ inDegree' = [m \in nodes |-> IF m \in Succs(n) THEN inDegree[m] - 1 ELSE inDegree[m]]
  /\ queue' = (queue \ {n}) \cup {m \in Succs(n) : inDegree[m] = 1}
  /\ UNCHANGED <<nodes, edges, outcome>>

Finish ==
  /\ outcome = "sorting"
  /\ queue = {}
  /\ outcome' = IF Len(topoOrder) = Cardinality(nodes) THEN "sorted" ELSE "cycle"
  /\ UNCHANGED <<nodes, edges, inDegree, queue, topoOrder>>

Next == RejectUnknown \/ CountPredecessors \/ Finish \/ \E n \in Ids : Emit(n)

Spec == Init /\ [][Next]_vars

-----------------------------------------------------------------------------
(* Properties                                                              *)

\* A set of tasks that each wait for another one of the set: it exists in a
\* finite graph exactly when there is a cycle.
SelfSupporting(S) == \A n \in S : Preds(n) \cap S # {}
Cyclic == \E S \in SUBSET nodes : S # {} /\ SelfSupporting(S)

\* Whatever has been emitted lists no task twice and none before one of its
\* blocking predecessors (doc of buildDAG's topoOrder).
PredecessorsFirst ==
  \A j \in DOMAIN topoOrder :
    /\ \A i \in 1..(j - 1) : topoOrder[i] # topoOrder[j]
    /\ \A p \in Preds(topoOrder[j]) : \E i \in 1..(j - 1) : topoOrder[i] = p

\* buildDAG returns an order exactly for the graphs without a cycle, and the
\* order then holds every task; it throws for every graph with one.
VerdictExact ==
  /\ outcome = "sorted" => ~Cyclic /\ Emitted = nodes
  /\ outcome = "cycle" => Cyclic
=============================================================================

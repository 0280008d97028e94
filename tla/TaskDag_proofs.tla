--------------------------- MODULE TaskDag_proofs ---------------------------
(***************************************************************************)
(* buildDAG is correct for every graph: the order it emits puts every      *)
(* blocking predecessor first, and it fails on exactly the graphs that     *)
(* have a cycle.                                                           *)
(***************************************************************************)
EXTENDS TaskDag, FiniteSetTheorems, TLAPS

\* What the counters and the queue stand for while nodes are emitted.
Bookkeeping ==
  outcome \in {"sorting", "sorted", "cycle"} =>
    /\ \A m \in nodes : inDegree[m] = Cardinality(Preds(m) \ Emitted)
    /\ \A m \in nodes : m \in queue <=> m \notin Emitted /\ Preds(m) \subseteq Emitted

\* No task of a self-supporting set is ever emitted.
CyclesStay == \A S \in SUBSET nodes : SelfSupporting(S) => S \cap Emitted = {}

IInv ==
  /\ TypeOK
  /\ outcome \in {"scanning", "unknown"} => topoOrder = <<>>
  /\ Bookkeeping
  /\ PredecessorsFirst
  /\ Len(topoOrder) = Cardinality(Emitted)
  /\ CyclesStay
  /\ outcome = "sorted" => Emitted = nodes
  /\ outcome = "cycle" => queue = {} /\ Emitted # nodes

-----------------------------------------------------------------------------
(* Lemmas about the operators.                                             *)

\* The nodes, and hence every set of predecessors, are finite.
LEMMA FiniteNodes ==
  ASSUME TypeOK
  PROVE  /\ IsFiniteSet(nodes)
         /\ \A m : IsFiniteSet(Preds(m)) /\ Preds(m) \subseteq nodes
         /\ \A m : IsFiniteSet(Preds(m) \ Emitted)
<1>1. IsFiniteSet(nodes)
  BY CandidatesAssumption, FS_Subset DEF TypeOK
<1>2. \A m : Preds(m) \subseteq nodes
  BY DEF Preds
<1>3. \A m : IsFiniteSet(Preds(m)) /\ IsFiniteSet(Preds(m) \ Emitted)
  <2> TAKE m
  <2>1. Preds(m) \in SUBSET nodes /\ Preds(m) \ Emitted \in SUBSET nodes
    BY <1>2
  <2>2. QED BY <1>1, <2>1, FS_Subset
<1>4. QED BY <1>1, <1>2, <1>3

\* Emitting a node adds it to the emitted ones and changes no predecessor set.
LEMMA EmitEffect ==
  ASSUME TypeOK, NEW n \in Ids, Emit(n)
  PROVE  /\ n \in nodes
         /\ Len(topoOrder') = Len(topoOrder) + 1
         /\ topoOrder'[Len(topoOrder) + 1] = n
         /\ \A i \in 1..Len(topoOrder) : topoOrder'[i] = topoOrder[i]
         /\ Emitted' = Emitted \cup {n}
         /\ \A m : Preds(m)' = Preds(m)
<1>1. n \in nodes /\ topoOrder \in Seq(nodes) /\ topoOrder' = Append(topoOrder, n)
  BY DEF Emit, TypeOK
<1>2. /\ Len(topoOrder') = Len(topoOrder) + 1
      /\ topoOrder'[Len(topoOrder) + 1] = n
      /\ \A i \in 1..Len(topoOrder) : topoOrder'[i] = topoOrder[i]
      /\ DOMAIN topoOrder = 1..Len(topoOrder)
      /\ DOMAIN topoOrder' = 1..(Len(topoOrder) + 1)
      /\ Len(topoOrder) \in Nat
  BY <1>1
<1>3. Emitted' = Emitted \cup {n}
  BY <1>2 DEF Emitted
<1>4. \A m : Preds(m)' = Preds(m)
  BY DEF Emit, Preds
<1>5. QED BY <1>1, <1>2, <1>3, <1>4

-----------------------------------------------------------------------------
(* The invariant is inductive.                                             *)

LEMMA InitIInv == Init => IInv
<1> SUFFICES ASSUME Init PROVE IInv
  OBVIOUS
<1>2. topoOrder = <<>> /\ DOMAIN topoOrder = {} /\ Len(topoOrder) = 0
  BY SMT DEF Init
<1>3. Emitted = {}
  BY <1>2 DEF Emitted
<1>4. TypeOK
  BY DEF Init, TypeOK
<1>5. Len(topoOrder) = Cardinality(Emitted)
  BY <1>2, <1>3, FS_EmptySet
<1>6. PredecessorsFirst
  BY <1>2 DEF PredecessorsFirst
<1>7. QED
  BY <1>2, <1>3, <1>4, <1>5, <1>6 DEF IInv, Init, Bookkeeping, CyclesStay

LEMMA RejectIInv == IInv /\ RejectUnknown => IInv'
  BY DEF IInv, RejectUnknown, TypeOK, Bookkeeping, PredecessorsFirst, CyclesStay,
         SelfSupporting, Preds, Emitted

LEMMA CountIInv == IInv /\ CountPredecessors => IInv'
<1> SUFFICES ASSUME IInv, CountPredecessors PROVE IInv'
  OBVIOUS
<1>2. topoOrder = <<>> /\ Emitted = {} /\ Emitted' = {}
  BY DEF IInv, CountPredecessors, Emitted
<1>3. \A m : Preds(m)' = Preds(m)
  BY DEF CountPredecessors, Preds
<1>4. TypeOK'
  <2>1. \A m \in nodes : Cardinality(Preds(m)) \in Nat
    BY FiniteNodes, FS_CardinalityType DEF IInv
  <2>2. QED BY <2>1 DEF IInv, TypeOK, CountPredecessors
<1>5. Bookkeeping'
  <2>1. \A m : Preds(m) \ {} = Preds(m)
    OBVIOUS
  <2>2. QED BY <1>2, <1>3, <2>1 DEF Bookkeeping, CountPredecessors, IInv, TypeOK
<1>6. PredecessorsFirst'
  BY <1>2 DEF PredecessorsFirst, CountPredecessors
<1>7. Len(topoOrder') = Cardinality(Emitted')
  BY <1>2, FS_EmptySet DEF CountPredecessors
<1>8. CyclesStay'
  BY <1>2 DEF CyclesStay
<1>9. QED
  BY <1>4, <1>5, <1>6, <1>7, <1>8 DEF IInv, CountPredecessors

LEMMA FinishIInv == IInv /\ Finish => IInv'
<1> SUFFICES ASSUME IInv, Finish PROVE IInv'
  OBVIOUS
<1>2. /\ Emitted' = Emitted
      /\ \A m : Preds(m)' = Preds(m)
      /\ UNCHANGED <<nodes, edges, inDegree, queue, topoOrder>>
  BY DEF Finish, Emitted, Preds
<1>3. TypeOK' /\ Bookkeeping' /\ PredecessorsFirst' /\ CyclesStay'
  BY <1>2 DEF IInv, TypeOK, Bookkeeping, PredecessorsFirst, CyclesStay, SelfSupporting, Finish
<1>4. Emitted \in SUBSET nodes
  BY DEF IInv, TypeOK, Emitted
<1>5. Len(topoOrder) = Cardinality(nodes) <=> Emitted = nodes
  BY <1>4, FiniteNodes, FS_Subset DEF IInv
<1>6. QED
  BY <1>2, <1>3, <1>5 DEF IInv, Finish

LEMMA EmitIInv == ASSUME NEW n \in Ids PROVE IInv /\ Emit(n) => IInv'
<1> SUFFICES ASSUME IInv, Emit(n) PROVE IInv'
  OBVIOUS
<1>2. /\ n \in nodes /\ n \in queue
      /\ Emitted' = Emitted \cup {n}
      /\ Len(topoOrder') = Len(topoOrder) + 1
      /\ topoOrder'[Len(topoOrder) + 1] = n
      /\ \A i \in 1..Len(topoOrder) : topoOrder'[i] = topoOrder[i]
      /\ \A m : Preds(m)' = Preds(m)
      /\ nodes' = nodes
  BY EmitEffect DEF IInv, Emit
<1>3. n \notin Emitted /\ Preds(n) \subseteq Emitted
  BY <1>2 DEF IInv, Bookkeeping, Emit
<1>4. Emitted \subseteq nodes /\ IsFiniteSet(Emitted)
  <2>1. Emitted \in SUBSET nodes
    BY DEF IInv, TypeOK, Emitted
  <2>2. QED BY <2>1, FiniteNodes, FS_Subset DEF IInv
<1>5. \A m \in nodes : /\ inDegree[m] \in Nat
                       /\ inDegree[m] = Cardinality(Preds(m) \ Emitted)
                       /\ inDegree'[m] = Cardinality(Preds(m) \ Emitted')
                       /\ (inDegree[m] = 1 /\ m \in Succs(n)) =>
                            Preds(m) \subseteq Emitted'
                       /\ (m \in Succs(n) /\ Preds(m) \subseteq Emitted') =>
                            inDegree[m] = 1
  <2> TAKE m \in nodes
  <2>2. inDegree[m] \in Nat /\ inDegree[m] = Cardinality(Preds(m) \ Emitted)
    BY DEF IInv, TypeOK, Bookkeeping, Emit
  <2>3. IsFiniteSet(Preds(m) \ Emitted)
    BY FiniteNodes DEF IInv
  <2>4. Preds(m) \ Emitted' = (Preds(m) \ Emitted) \ {n}
    BY <1>2
  <2>5. m \in Succs(n) <=> n \in Preds(m) \ Emitted
    BY <1>3 DEF Succs
  <2>6. /\ IsFiniteSet(Preds(m) \ Emitted')
        /\ Cardinality(Preds(m) \ Emitted') =
             IF n \in Preds(m) \ Emitted THEN Cardinality(Preds(m) \ Emitted) - 1
                                         ELSE Cardinality(Preds(m) \ Emitted)
    BY <2>3, <2>4, FS_RemoveElement
  <2>7. inDegree'[m] = IF m \in Succs(n) THEN inDegree[m] - 1 ELSE inDegree[m]
    BY DEF Emit
  <2>8. Cardinality(Preds(m) \ Emitted') = 0 <=> Preds(m) \ Emitted' = {}
    BY <2>6, FS_EmptySet
  <2>9. QED BY <2>2, <2>5, <2>6, <2>7, <2>8
<1>6. TypeOK'
  <2>1. \A m \in nodes : inDegree'[m] \in Nat
    <3> TAKE m \in nodes
    <3>2. IsFiniteSet(Preds(m) \ Emitted')
      BY <1>2, FiniteNodes, FS_Subset, Preds(m) \ Emitted' \in SUBSET (Preds(m) \ Emitted) DEF IInv
    <3>3. QED BY <1>5, <3>2, FS_CardinalityType
  <2>2. inDegree' \in [nodes -> Nat]
    BY <2>1 DEF Emit
  <2>3. topoOrder' \in Seq(nodes)
    BY <1>2 DEF Emit, IInv, TypeOK
  <2>4. queue' \subseteq nodes
    BY DEF Emit, Succs, IInv, TypeOK
  <2>5. QED BY <2>2, <2>3, <2>4 DEF Emit, IInv, TypeOK
<1>7. Bookkeeping'
  <2>1. \A m \in nodes : inDegree'[m] = Cardinality(Preds(m)' \ Emitted')
    BY <1>2, <1>5
  <2>2. \A m \in nodes : m \in queue' <=> m \notin Emitted' /\ Preds(m)' \subseteq Emitted'
    <3> TAKE m \in nodes
    <3>2. m \in queue' <=> (m \in queue /\ m # n) \/ (m \in Succs(n) /\ inDegree[m] = 1)
      BY <1>3 DEF Emit
    <3>3. m \in queue <=> m \notin Emitted /\ Preds(m) \subseteq Emitted
      BY DEF IInv, Bookkeeping, Emit
    <3>4. m \in Succs(n) <=> n \in Preds(m)
      BY DEF Succs
    <3>5. m \in Emitted /\ m # n => Preds(m) \subseteq Emitted
      BY DEF IInv, PredecessorsFirst, TypeOK, Emitted
    <3>6. QED BY <1>2, <1>3, <1>5, <3>2, <3>3, <3>4, <3>5
  <2>3. QED BY <1>2, <2>1, <2>2 DEF Bookkeeping
<1>8. PredecessorsFirst'
  <2>1. /\ DOMAIN topoOrder' = 1..(Len(topoOrder) + 1)
        /\ DOMAIN topoOrder = 1..Len(topoOrder)
        /\ Len(topoOrder) \in Nat
    BY <1>2 DEF Emit, IInv, TypeOK
  <2> SUFFICES ASSUME NEW j \in 1..(Len(topoOrder) + 1)
               PROVE  /\ \A i \in 1..(j - 1) : topoOrder'[i] # topoOrder'[j]
                      /\ \A p \in Preds(topoOrder[j])' :
                           \E i \in 1..(j - 1) : topoOrder'[i] = p
    BY <2>1 DEF PredecessorsFirst
  <2>2. Preds(topoOrder[j])' = Preds(topoOrder'[j])
    BY DEF Preds, Emit
  <2>3. CASE j \in 1..Len(topoOrder)
    <3>1. topoOrder'[j] = topoOrder[j]
      BY <1>2, <2>3
    <3>2. \A i \in 1..(j - 1) : topoOrder'[i] = topoOrder[i]
      BY <1>2, <2>1, <2>3
    <3>3. /\ \A i \in 1..(j - 1) : topoOrder[i] # topoOrder[j]
          /\ \A p \in Preds(topoOrder[j]) : \E i \in 1..(j - 1) : topoOrder[i] = p
      BY <2>1, <2>3 DEF IInv, PredecessorsFirst
    <3>4. QED BY <2>2, <3>1, <3>2, <3>3
  <2>4. CASE j = Len(topoOrder) + 1
    <3>1. 1..(j - 1) = 1..Len(topoOrder) /\ topoOrder'[j] = n
      BY <1>2, <2>1, <2>4
    <3>2. Emitted = {topoOrder[i] : i \in 1..Len(topoOrder)}
      BY <2>1 DEF Emitted
    <3>3. QED BY <1>2, <1>3, <2>2, <3>1, <3>2
  <2>5. QED BY <2>1, <2>3, <2>4
<1>9. Len(topoOrder') = Cardinality(Emitted')
  BY <1>2, <1>3, <1>4, FS_AddElement DEF IInv
<1>10. CyclesStay'
  <2> SUFFICES ASSUME NEW S \in SUBSET nodes, SelfSupporting(S)
               PROVE  S \cap Emitted' = {}
    BY <1>2 DEF CyclesStay, SelfSupporting
  <2>2. S \cap Emitted = {}
    BY DEF IInv, CyclesStay
  <2>3. n \notin S
    BY <1>3, <2>2 DEF SelfSupporting
  <2>4. QED BY <1>2, <2>2, <2>3
<1>11. QED
  BY <1>6, <1>7, <1>8, <1>9, <1>10 DEF IInv, Emit

LEMMA StutterIInv == IInv /\ UNCHANGED vars => IInv'
<1> SUFFICES ASSUME IInv, UNCHANGED vars PROVE IInv'
  OBVIOUS
<1>1. /\ UNCHANGED <<nodes, edges, inDegree, queue, topoOrder, outcome>>
      /\ Emitted' = Emitted
      /\ \A m : Preds(m)' = Preds(m)
  BY DEF vars, Emitted, Preds
<1>2. TypeOK' /\ Bookkeeping' /\ CyclesStay'
  BY <1>1 DEF IInv, TypeOK, Bookkeeping, CyclesStay, SelfSupporting
<1>3. PredecessorsFirst'
  BY <1>1 DEF IInv, PredecessorsFirst, Preds, vars
<1>4. QED BY <1>1, <1>2, <1>3 DEF IInv

\* The strengthened invariant holds throughout.
THEOREM Inductive == Spec => []IInv
<1>1. IInv /\ [Next]_vars => IInv'
  BY RejectIInv, CountIInv, FinishIInv, EmitIInv, StutterIInv DEF Next
<1>2. QED BY InitIInv, <1>1, PTL DEF Spec

-----------------------------------------------------------------------------
\* Type correctness (TypeOK of TaskDag).
THEOREM TypeCorrect == Spec => []TypeOK
<1>1. IInv => TypeOK
  BY DEF IInv
<1>2. QED BY Inductive, <1>1, PTL

\* No task is emitted before one of its blocking predecessors, or twice.
THEOREM OrderSound == Spec => []PredecessorsFirst
<1>1. IInv => PredecessorsFirst
  BY DEF IInv
<1>2. QED BY Inductive, <1>1, PTL

\* buildDAG returns a complete order for the acyclic graphs and throws for the
\* others: the tasks left over support each other.
THEOREM VerdictCorrect == Spec => []VerdictExact
<1>1. IInv => VerdictExact
  <2> SUFFICES ASSUME IInv PROVE VerdictExact
    OBVIOUS
  <2>2. ASSUME outcome = "sorted" PROVE ~Cyclic /\ Emitted = nodes
    <3>1. Emitted = nodes
      BY <2>2 DEF IInv
    <3>2. \A S \in SUBSET nodes : SelfSupporting(S) => S = {}
      BY <3>1 DEF IInv, CyclesStay
    <3>3. QED BY <3>1, <3>2 DEF Cyclic
  <2>3. ASSUME outcome = "cycle" PROVE Cyclic
    <3>1. Emitted \subseteq nodes /\ Emitted # nodes /\ queue = {}
      BY <2>3 DEF IInv, TypeOK, Emitted
    <3>2. SelfSupporting(nodes \ Emitted)
      <4> SUFFICES ASSUME NEW m \in nodes \ Emitted
                     PROVE  Preds(m) \cap (nodes \ Emitted) # {}
        BY DEF SelfSupporting
      <4>2. ~(Preds(m) \subseteq Emitted)
        BY <2>3, <3>1 DEF IInv, Bookkeeping
      <4>3. Preds(m) \subseteq nodes
        BY DEF Preds
      <4>4. QED BY <4>2, <4>3
    <3>3. QED BY <3>1, <3>2 DEF Cyclic
  <2>4. QED BY <2>2, <2>3 DEF VerdictExact
<1>2. QED BY Inductive, <1>1, PTL
=============================================================================

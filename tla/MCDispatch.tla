----------------------------- MODULE MCDispatch -----------------------------
(* Instances of Dispatch for TLC. *)
EXTENDS Dispatch, TLC

CONSTANTS t1, t2, s1, w1, w2, k1, k2, d1

\* Sessions are interchangeable.
WorkerSymmetry == Permutations(Workers)

\* A single task.
Solo       == [t \in {t1} |-> s1]
RankOne    == [t \in {t1} |-> 0]
OnePending == [t \in {t1} |-> "pending"]
PathOne    == [t \in {t1} |-> {1}]

\* Tasks are picked in the order t1, t2; both belong to one sprint.
TwoTasks    == {t1, t2}
OneSprint   == [t \in TwoTasks |-> s1]
T1First     == [t \in TwoTasks |-> IF t = t1 THEN 0 ELSE 1]
AllPending  == [t \in TwoTasks |-> "pending"]

\* Write-path regions: overlapping, or apart.
Overlapping == [t \in TwoTasks |-> {1}]
Apart       == [t \in TwoTasks |-> IF t = t1 THEN {1} ELSE {2}]

NoEdges     == {}
T1BeforeT2  == {[pred |-> t1, succ |-> t2, blocking |-> TRUE]}
=============================================================================

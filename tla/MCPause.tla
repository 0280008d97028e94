------------------------------ MODULE MCPause ------------------------------
(* Instances of Pause for TLC. *)
EXTENDS Pause, TLC

CONSTANTS t1, t2, s1, w1, w2, k1, d1, c1, c2

\* Sessions are interchangeable.
WorkerSymmetry == Permutations(Workers)

Solo     == [t \in {t1} |-> s1]
RankOne  == [t \in {t1} |-> 0]
OneReady == [t \in {t1} |-> "ready"]
PathOne  == [t \in {t1} |-> {1}]

TwoTasks    == {t1, t2}
OneSprint   == [t \in TwoTasks |-> s1]
T1First     == [t \in TwoTasks |-> IF t = t1 THEN 0 ELSE 1]
AllPending  == [t \in TwoTasks |-> "pending"]
AllReady    == [t \in TwoTasks |-> "ready"]
Apart       == [t \in TwoTasks |-> IF t = t1 THEN {1} ELSE {2}]
NoEdges     == {}
=============================================================================

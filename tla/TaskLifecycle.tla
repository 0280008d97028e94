--------------------------- MODULE TaskLifecycle ---------------------------
(***************************************************************************)
(* The vocabulary of the orchestration core: task states and the           *)
(* transition table, worker statuses, and the ready set of a task graph    *)
(* (orchestration/types.ts, orchestration/dag.ts).  No state lives here;   *)
(* the component modules extend this one.                                  *)
(***************************************************************************)
EXTENDS Integers, FiniteSets

TaskStates ==
  {"pending", "ready", "in_progress", "in_review",
   "blocked", "failed", "escalated", "done"}

\* VALID_TRANSITIONS, keyed by the state a task leaves.
ValidTransitions ==
  [ pending     |-> {"ready"},
    ready       |-> {"in_progress"},
    in_progress |-> {"in_review", "blocked", "failed", "escalated"},
    in_review   |-> {"done", "failed"},
    blocked     |-> {"ready"},
    failed      |-> {"ready", "escalated"},
    escalated   |-> {"ready"},
    done        |-> {} ]

IsValidTaskTransition(from, to) == to \in ValidTransitions[from]

\* agent_workers.status, with "absent" for a session that has no row.
WorkerStatuses == {"connecting", "active", "idle", "terminating", "terminated"}
RowStatuses    == WorkerStatuses \cup {"absent"}

\* What countActiveWorkers and collectBusyPaths call an alive worker.
AliveStatuses == {"connecting", "active", "idle"}

\* The states pickFeasibleTask loads; "done" rows are not among them.
LoadedStates == {"pending", "ready", "in_progress", "in_review", "blocked"}

-----------------------------------------------------------------------------
(* The ready set of dag.ts.  `rows` are the tasks that were loaded,        *)
(* `stateOf` their states, `edges` the dependency rows.  A predecessor     *)
(* that was not loaded has no state, hence is not "done".                  *)

BlockingPreds(t, edges) ==
  {e.pred : e \in {x \in edges : x.succ = t /\ x.blocking}}

\* Mutant: the state of the task itself is not looked at.
ComputeReadySetAnyState(rows, stateOf, edges) ==
  {t \in rows : \A p \in BlockingPreds(t, edges) : p \in rows /\ stateOf[p] = "done"}

ComputeReadySet(rows, stateOf, edges) ==
  {t \in rows :
     /\ stateOf[t] \in {"pending", "ready"}
     /\ \A p \in BlockingPreds(t, edges) : p \in rows /\ stateOf[p] = "done"}
=============================================================================

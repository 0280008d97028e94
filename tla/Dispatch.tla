------------------------------ MODULE Dispatch ------------------------------
(***************************************************************************)
(* The dispatch core of the orchestrator: Scheduler.tick and allocateSlot  *)
(* (orchestration/scheduler.ts), spawn (orchestration/spawn.ts), the       *)
(* task.complete and task.fail tools (orchestration/registry-bootstrap.ts),*)
(* worker.heartbeat (mcp/tools/worker_heartbeat.ts), the heartbeat monitor *)
(* (orchestration/monitor.ts) and the defect hook that re-opens a task     *)
(* (hooks/post-defect-reported.ts), over the tables they share.            *)
(*                                                                         *)
(* Every step that follows an await of the source is an action of its own, *)
(* so a tick, a tool call and a monitor poll interleave as they do on the  *)
(* event loop.  Nothing in the source keeps two ticks from overlapping:    *)
(* Ticks is the set of tick() invocations that may be in flight at once.   *)
(***************************************************************************)
EXTENDS TaskLifecycle

CONSTANTS
  Tasks,              \* rows of the tasks table
  Sprints,            \* sprints given to addSprint
  Workers,            \* session ids; one is used up by every capability issued
  Ticks,              \* concurrent tick() invocations
  Defects,            \* concurrent runs of the defect hook
  NoTask,             \* "no task"
  NoWorker,           \* "no session"
  MaxWorkers,         \* SchedulerOptions.maxWorkers
  IterationLimit,     \* ITERATION_LIMIT of the defect hook
  Faults,             \* may an awaited call throw?
  HeartbeatStatuses,  \* statuses a worker reports about itself
  Outcomes,           \* tools a worker calls: "complete", "fail"
  InitialState,       \* states the tasks are inserted in
  SprintOf,           \* tasks.sprint_id
  Rank,               \* position by (ordering, created_at): the FIFO order
  Paths,              \* declared_write_paths, as the regions their globs cover
  Edges               \* task_dependencies: [pred, succ, blocking]

ASSUME ConstantsAssumption ==
  /\ MaxWorkers \in Nat \ {0}
  /\ IterationLimit \in Nat
  /\ Faults \in BOOLEAN
  /\ HeartbeatStatuses \subseteq WorkerStatuses
  /\ Outcomes \subseteq {"complete", "fail"}
  /\ InitialState \in [Tasks -> {"pending", "ready"}]
  /\ SprintOf \in [Tasks -> Sprints]
  /\ Rank \in [Tasks -> Nat]
  /\ \A t, u \in Tasks : t # u => Rank[t] # Rank[u]
  /\ Edges \subseteq [pred : Tasks, succ : Tasks, blocking : BOOLEAN]
  /\ NoTask \notin Tasks
  /\ NoWorker \notin Workers
  /\ IsFiniteSet(Workers)

VARIABLES
  taskState,   \* tasks.state
  iteration,   \* tasks.iteration_count
  row,         \* agent_workers.status
  boundTask,   \* the task a session's capability was issued for
  cap,         \* capability of a session: "none", "issued" or "revoked"
  proc,        \* OS process: "none", "started", "connected" or "exited"
  fresh,       \* alive rows whose last heartbeat is within HEARTBEAT_TIMEOUT_MS
  tracked,     \* sessions whose ChildProcess the monitor holds
  termed,      \* those of them whose ChildProcess has .killed set
  tool,        \* step of the session's task.complete / task.fail call
  monitor,     \* step of the monitor for a session
  paused,      \* worker_pool_state.paused
  defect,      \* what each run of the defect hook has read
  tick,        \* local state of each tick() invocation
  revived      \* history: alive rows a heartbeat took out of a draining status

tables   == <<taskState, iteration, row, cap>>
procs    == <<boundTask, proc, fresh, tracked, termed>>
actors   == <<tool, monitor, tick, defect>>
vars     == <<taskState, iteration, row, boundTask, cap, proc, fresh, tracked,
              termed, tool, monitor, paused, defect, tick, revived>>

-----------------------------------------------------------------------------
(* Types                                                                   *)

TickSteps == {"idle", "counting", "picking", "choosing", "issuing", "marking",
              "spawning", "registering", "announcing"}
IdleTick  == [pc |-> "idle", slots |-> 0, rest |-> {}, ready |-> {},
              task |-> NoTask, worker |-> NoWorker]
ToolSteps == {"none", "complete", "fail", "completing", "failing",
              "report", "retire"}
MonitorSteps == {"none", "stale", "marked", "grace"}
NoReport   == [task |-> NoTask, count |-> 0]
DefectType == {NoReport} \cup [task : Tasks, count : 0..(IterationLimit - 1)]

TickType == [pc : TickSteps, slots : 0..MaxWorkers, rest : SUBSET Sprints,
             ready : SUBSET Tasks, task : Tasks \cup {NoTask},
             worker : Workers \cup {NoWorker}]

TypeOK ==
  /\ taskState \in [Tasks -> TaskStates]
  /\ iteration \in [Tasks -> 0..IterationLimit]
  /\ row \in [Workers -> RowStatuses]
  /\ boundTask \in [Workers -> Tasks \cup {NoTask}]
  /\ cap \in [Workers -> {"none", "issued", "revoked"}]
  /\ proc \in [Workers -> {"none", "started", "connected", "exited"}]
  /\ fresh \subseteq Workers
  /\ tracked \subseteq Workers
  /\ termed \subseteq Workers
  /\ tool \in [Workers -> ToolSteps]
  /\ monitor \in [Workers -> MonitorSteps]
  /\ paused \in BOOLEAN
  /\ defect \in [Defects -> DefectType]
  /\ tick \in [Ticks -> TickType]
  /\ revived \subseteq Workers

Init ==
  /\ taskState = InitialState
  /\ iteration = [t \in Tasks |-> 0]
  /\ row = [w \in Workers |-> "absent"]
  /\ boundTask = [w \in Workers |-> NoTask]
  /\ cap = [w \in Workers |-> "none"]
  /\ proc = [w \in Workers |-> "none"]
  /\ fresh = {} /\ tracked = {} /\ termed = {}
  /\ tool = [w \in Workers |-> "none"]
  /\ monitor = [w \in Workers |-> "none"]
  /\ paused = FALSE
  /\ defect = [d \in Defects |-> NoReport]
  /\ tick = [k \in Ticks |-> IdleTick]
  /\ revived = {}

-----------------------------------------------------------------------------
(* Queries                                                                 *)

AliveRows == {w \in Workers : row[w] \in AliveStatuses}
Running   == {w \in Workers : proc[w] \in {"started", "connected"}}
Unused    == {w \in Workers : cap[w] = "none"}

\* Mutants: a worker that still connects is not busy; a task needs no worker
\* to be busy.
BusyTasksOfActive == {t \in Tasks : /\ taskState[t] = "in_progress"
                                    /\ \E w \in Workers : /\ row[w] = "active"
                                                          /\ boundTask[w] = t}
BusyTasksInProgress == {t \in Tasks : taskState[t] = "in_progress"}

\* collectBusyPaths: in-progress tasks joined with an alive worker row.
BusyTasks == {t \in Tasks : /\ taskState[t] = "in_progress"
                            /\ \E w \in AliveRows : boundTask[w] = t}

\* WorktreeManager.conflict on the abstract path regions.
Conflict(t, u) == Paths[t] \cap Paths[u] # {}

SprintRows(s) == {t \in Tasks : SprintOf[t] = s /\ taskState[t] \in LoadedStates}

Feasible(ready) == {t \in ready : \A b \in BusyTasks : ~Conflict(t, b)}

-----------------------------------------------------------------------------
(* Scheduler.tick.  pickSprint's weighted choice is any sprint here; the   *)
(* order in which the other sprints are tried afterwards is any order.     *)

\* Mutant: the flag is not read.
TickBeginUnpaused(k) ==
  /\ tick[k].pc = "idle"
  /\ tick' = [tick EXCEPT ![k].pc = "counting"]
  /\ UNCHANGED <<tables, procs, tool, monitor, paused, defect, revived>>

\* worker_pool_state.paused is read here and not again.
TickBegin(k) ==
  /\ tick[k].pc = "idle"
  /\ ~paused
  /\ tick' = [tick EXCEPT ![k].pc = "counting"]
  /\ UNCHANGED <<tables, procs, tool, monitor, paused, defect, revived>>

\* The loop of tick() with n slots left: it ends, or turns to any sprint.
Picking(n)  == [IdleTick EXCEPT !.pc = "picking", !.slots = n, !.rest = Sprints]
NextPick(n) == IF n <= 0 THEN IdleTick ELSE Picking(n)

\* Mutant: only 'active' rows take a slot.
TickCountActive(k) ==
  /\ tick[k].pc = "counting"
  /\ LET busy == Cardinality({w \in Workers : row[w] = "active"}) IN
       tick' = [tick EXCEPT ![k] = NextPick(MaxWorkers - busy)]
  /\ UNCHANGED <<tables, procs, tool, monitor, paused, defect, revived>>

\* countActiveWorkers; no slot free, no tick.
TickCount(k) ==
  /\ tick[k].pc = "counting"
  /\ tick' = [tick EXCEPT ![k] = NextPick(MaxWorkers - Cardinality(AliveRows))]
  /\ UNCHANGED <<tables, procs, tool, monitor, paused, defect, revived>>

\* pickFeasibleTask up to computeReadySet: load one sprint's rows.
LoadSprint(k, s) ==
  /\ tick[k].pc = "picking"
  /\ s \in tick[k].rest
  /\ tick' = [tick EXCEPT
       ![k].pc = "choosing",
       ![k].rest = @ \ {s},
       ![k].ready = ComputeReadySet(SprintRows(s), taskState, Edges)]
  /\ UNCHANGED <<tables, procs, tool, monitor, paused, defect, revived>>

\* The rest of pickFeasibleTask: read the busy paths, take the first ready
\* task that conflicts with none of them, else try another sprint or stop.
ChooseTask(k) ==
  /\ tick[k].pc = "choosing"
  /\ LET c == Feasible(tick[k].ready) IN
       \/ \E t \in c :
            /\ \A u \in c : Rank[t] <= Rank[u]
            /\ tick' = [tick EXCEPT ![k].pc = "issuing", ![k].ready = {}, ![k].task = t]
       \/ /\ c = {} /\ tick[k].rest # {}
          /\ tick' = [tick EXCEPT ![k].pc = "picking", ![k].ready = {}]
       \/ /\ c = {} /\ tick[k].rest = {}
          /\ tick' = [tick EXCEPT ![k] = IdleTick]
  /\ UNCHANGED <<tables, procs, tool, monitor, paused, defect, revived>>

-----------------------------------------------------------------------------
(* allocateSlot and spawn, for the chosen task.                            *)

\* capabilityAuthority.issue, then worktrees.create: the rows and git steps of
\* the worktree belong to another component, its failure is AbortTick's.
IssueCapability(k, w) ==
  /\ tick[k].pc = "issuing"
  /\ w \in Unused
  /\ cap' = [cap EXCEPT ![w] = "issued"]
  /\ boundTask' = [boundTask EXCEPT ![w] = tick[k].task]
  /\ tick' = [tick EXCEPT ![k].pc = "marking", ![k].worker = w]
  /\ UNCHANGED <<taskState, iteration, row, proc, fresh, tracked, termed, tool,
                 monitor, paused, defect, revived>>

\* The UPDATE has no condition on the state the row is in by now.
MarkInProgress(k) ==
  /\ tick[k].pc = "marking"
  /\ taskState' = [taskState EXCEPT ![tick[k].task] = "in_progress"]
  /\ tick' = [tick EXCEPT ![k].pc = "spawning"]
  /\ UNCHANGED <<iteration, row, cap, procs, tool, monitor, paused, defect, revived>>

StartProcess(k) ==
  /\ tick[k].pc = "spawning"
  /\ proc' = [proc EXCEPT ![tick[k].worker] = "started"]
  /\ tick' = [tick EXCEPT ![k].pc = "registering"]
  /\ UNCHANGED <<tables, boundTask, fresh, tracked, termed, tool, monitor,
                 paused, defect, revived>>

\* The agent_workers row is written only once the process runs.
RegisterWorker(k) ==
  /\ tick[k].pc = "registering"
  /\ row' = [row EXCEPT ![tick[k].worker] = "connecting"]
  /\ fresh' = fresh \cup {tick[k].worker}
  /\ tick' = [tick EXCEPT ![k].pc = "announcing"]
  /\ UNCHANGED <<taskState, iteration, cap, boundTask, proc, tracked, termed,
                 tool, monitor, paused, defect, revived>>

\* Mutant: the loop's condition is not tested again.
TrackWorkerUnchecked(k) ==
  /\ tick[k].pc = "announcing"
  /\ tracked' = tracked \cup {tick[k].worker}
  /\ tick' = [tick EXCEPT ![k] = Picking(tick[k].slots - 1)]
  /\ UNCHANGED <<tables, boundTask, proc, fresh, termed, tool, monitor, paused, defect,
                 revived>>

\* AgentSpawned and the lifecycle events are appended, spawn returns, the
\* monitor gets the handle and the slot is spent.
TrackWorker(k) ==
  /\ tick[k].pc = "announcing"
  /\ tracked' = tracked \cup {tick[k].worker}
  /\ tick' = [tick EXCEPT ![k] = NextPick(tick[k].slots - 1)]
  /\ UNCHANGED <<tables, boundTask, proc, fresh, termed, tool, monitor, paused, defect,
                 revived>>

\* Any awaited call of a tick may reject; the error leaves tick() and nothing
\* already written is undone.
AbortTick(k) ==
  /\ Faults
  /\ tick[k].pc # "idle"
  /\ tick' = [tick EXCEPT ![k] = IdleTick]
  /\ UNCHANGED <<tables, procs, tool, monitor, paused, defect, revived>>

-----------------------------------------------------------------------------
(* The worker process and its calls through the MCP gateway.               *)

\* The bundle is verified, revocation included, when the worker connects.
Connect(w) ==
  /\ proc[w] = "started"
  /\ cap[w] = "issued"
  /\ proc' = [proc EXCEPT ![w] = "connected"]
  /\ UNCHANGED <<tables, boundTask, fresh, tracked, termed, actors, paused, revived>>

\* A row leaves the alive statuses; its heartbeats are not looked at there.
LeaveAlive(w, s) ==
  /\ row' = [row EXCEPT ![w] = s]
  /\ fresh' = fresh \ {w}
  /\ revived' = revived \ {w}

\* worker.heartbeat writes the reported status over whatever the row holds.
Heartbeat(w, s) ==
  /\ proc[w] = "connected"
  /\ row[w] # "absent"
  /\ IF s \in AliveStatuses
     THEN /\ row' = [row EXCEPT ![w] = s]
          /\ fresh' = fresh \cup {w}
          /\ revived' = IF w \in AliveRows THEN revived ELSE revived \cup {w}
     ELSE LeaveAlive(w, s)
  /\ UNCHANGED <<taskState, iteration, cap, boundTask, proc, tracked, termed,
                 actors, paused>>

\* HEARTBEAT_TIMEOUT_MS passes without a heartbeat: the worker hangs or died.
HeartbeatLapse(w) ==
  /\ w \in fresh
  /\ fresh' = fresh \ {w}
  /\ UNCHANGED <<tables, boundTask, proc, tracked, termed, actors, paused, revived>>

\* The process ends: done, crashed or signalled.  child 'exit' unregisters it.
ProcessExit(w) ==
  /\ w \in Running
  /\ proc' = [proc EXCEPT ![w] = "exited"]
  /\ tracked' = tracked \ {w}
  /\ termed' = termed \ {w}
  /\ UNCHANGED <<tables, boundTask, fresh, actors, paused, revived>>

\* Mutant: task.fail queues the task again.
ToolTargetRequeue(step) == IF step \in {"complete", "completing"} THEN "done" ELSE "ready"

ToolTarget(step) == IF step \in {"complete", "completing"} THEN "done" ELSE "failed"

\* assertWorkerNotDraining: no row, or any status but 'terminating', passes.
CallTool(w, op) ==
  /\ proc[w] = "connected"
  /\ tool[w] = "none"
  /\ row[w] # "terminating"
  /\ tool' = [tool EXCEPT ![w] = op]
  /\ UNCHANGED <<tables, procs, monitor, tick, paused, defect, revived>>

\* The transaction of both tools, first statement: a SELECT that takes no
\* lock.  A task already in the target state is reported again; any other
\* state that does not lead there rejects the call.
ReadTask(w) ==
  /\ tool[w] \in {"complete", "fail"}
  /\ LET s == taskState[boundTask[w]] IN
       tool' = [tool EXCEPT ![w] =
         CASE IsValidTaskTransition(s, "failed") ->
                IF @ = "complete" THEN "completing" ELSE "failing"
           [] s = ToolTarget(@) -> "report"
           [] OTHER -> "none"]
  /\ UNCHANGED <<tables, procs, monitor, tick, paused, defect, revived>>

\* Second statement: the UPDATE names only the task id.
WriteTask(w) ==
  /\ tool[w] \in {"completing", "failing"}
  /\ taskState' = [taskState EXCEPT ![boundTask[w]] = ToolTarget(tool[w])]
  /\ tool' = [tool EXCEPT ![w] = "report"]
  /\ UNCHANGED <<iteration, row, cap, procs, monitor, tick, paused, defect, revived>>

\* TaskCompleted or TaskFailed is appended and the capability revoked; a
\* revoke that fails is logged and passed over.
ReportOutcome(w) ==
  /\ tool[w] = "report"
  /\ \/ cap' = [cap EXCEPT ![w] = "revoked"]
     \/ Faults /\ UNCHANGED cap
  /\ tool' = [tool EXCEPT ![w] = "retire"]
  /\ UNCHANGED <<taskState, iteration, row, procs, monitor, tick, paused, defect, revived>>

\* The session's row, if there is one by now, becomes 'terminated'.
RetireWorker(w) ==
  /\ tool[w] = "retire"
  /\ IF row[w] = "absent" THEN UNCHANGED <<row, fresh, revived>>
                          ELSE LeaveAlive(w, "terminated")
  /\ tool' = [tool EXCEPT ![w] = "none"]
  /\ UNCHANGED <<taskState, iteration, cap, boundTask, proc, tracked, termed,
                 monitor, tick, paused, defect>>

\* An awaited call of the handler rejects: what was committed stays.
AbortTool(w) ==
  /\ Faults
  /\ tool[w] # "none"
  /\ tool' = [tool EXCEPT ![w] = "none"]
  /\ UNCHANGED <<tables, procs, monitor, tick, paused, defect, revived>>

-----------------------------------------------------------------------------
(* WorkerMonitor.tick, and the timer it starts.                            *)

\* Mutant: workers that never connected are not candidates.
MonitorScanActive ==
  LET stale == {w \in Workers \ fresh : row[w] \in {"active", "idle"} /\ monitor[w] = "none"}
  IN  /\ stale # {}
      /\ monitor' = [w \in Workers |-> IF w \in stale THEN "stale" ELSE monitor[w]]
      /\ UNCHANGED <<tables, procs, tool, tick, paused, defect, revived>>

\* The candidates of one poll, judged by the heartbeats read with them.
MonitorScan ==
  LET stale == {w \in AliveRows \ fresh : monitor[w] = "none"}
  IN  /\ stale # {}
      /\ monitor' = [w \in Workers |-> IF w \in stale THEN "stale" ELSE monitor[w]]
      /\ UNCHANGED <<tables, procs, tool, tick, paused, defect, revived>>

\* The loop handles one candidate at a time.
MonitorMark(w) ==
  /\ monitor[w] = "stale"
  /\ \A v \in Workers : monitor[v] # "marked"
  /\ LeaveAlive(w, "terminating")
  /\ monitor' = [monitor EXCEPT ![w] = "marked"]
  /\ UNCHANGED <<taskState, iteration, cap, boundTask, proc, tracked, termed,
                 tool, tick, paused, defect>>

\* The poll of w ends, and its other candidates with it: an await rejected.
EndPoll(w) ==
  monitor' = [v \in Workers |->
    IF v = w \/ monitor[v] = "stale" THEN "none" ELSE monitor[v]]

\* AgentTimedOut is appended.  A live child it holds gets SIGTERM and the
\* grace timer; any other worker is terminated at once, and AgentFailed
\* appended.
MonitorSignal(w) ==
  /\ monitor[w] = "marked"
  /\ IF w \in tracked \cap Running /\ w \notin termed
     THEN /\ termed' = termed \cup {w}
          /\ monitor' = [monitor EXCEPT ![w] = "grace"]
          /\ UNCHANGED <<row, fresh, revived>>
     ELSE /\ LeaveAlive(w, "terminated")
          /\ \/ monitor' = [monitor EXCEPT ![w] = "none"]
             \/ Faults /\ EndPoll(w)
          /\ UNCHANGED termed
  /\ UNCHANGED <<taskState, iteration, cap, boundTask, proc, tracked, tool, tick,
                 paused, defect>>

\* The grace timer: SIGKILL if the child counts as still alive, then the row
\* is terminated and the handle dropped.  child.killed is set by SIGTERM.  An
\* await that rejects ends it there.
StillAlive(w) == w \in Running /\ w \notin termed

MonitorReap(w) ==
  /\ monitor[w] = "grace"
  /\ proc' = [proc EXCEPT ![w] = IF StillAlive(w) THEN "exited" ELSE @]
  /\ \/ /\ LeaveAlive(w, "terminated")
        /\ tracked' = tracked \ {w} /\ termed' = termed \ {w}
     \/ /\ Faults
        /\ LeaveAlive(w, "terminated") \/ UNCHANGED <<row, fresh, revived>>
        /\ UNCHANGED <<tracked, termed>>
  /\ monitor' = [monitor EXCEPT ![w] = "none"]
  /\ UNCHANGED <<taskState, iteration, cap, boundTask, tool, tick, paused, defect>>

\* Marking the row or appending AgentTimedOut rejects: a row that was marked
\* stays 'terminating'.
AbortMonitor(w) ==
  /\ Faults
  /\ \/ monitor[w] = "marked"
     \/ monitor[w] = "stale" /\ \A v \in Workers : monitor[v] # "marked"
  /\ EndPoll(w)
  /\ UNCHANGED <<tables, procs, tool, tick, paused, defect, revived>>

-----------------------------------------------------------------------------
(* onDefectReported, started by a post hook that does not wait for it: the *)
(* operator reports a defect on a delivered task, or another one on a task *)
(* already re-opened.                                                      *)

\* The task is read; at the limit nothing is re-opened.
ReadDefectTask(d, t) ==
  /\ defect[d] = NoReport
  /\ taskState[t] = "done" \/ iteration[t] > 0
  /\ iteration[t] < IterationLimit
  /\ defect' = [defect EXCEPT ![d] = [task |-> t, count |-> iteration[t]]]
  /\ UNCHANGED <<tables, procs, tool, monitor, tick, paused, revived>>

\* The UPDATE writes the count that was read, plus one.
ReopenTask(d) ==
  /\ defect[d] # NoReport
  /\ taskState' = [taskState EXCEPT ![defect[d].task] = "ready"]
  /\ iteration' = [iteration EXCEPT ![defect[d].task] = defect[d].count + 1]
  /\ defect' = [defect EXCEPT ![d] = NoReport]
  /\ UNCHANGED <<row, cap, procs, tool, monitor, tick, paused, revived>>

AbortDefect(d) ==
  /\ Faults
  /\ defect[d] # NoReport
  /\ defect' = [defect EXCEPT ![d] = NoReport]
  /\ UNCHANGED <<tables, procs, tool, monitor, tick, paused, revived>>

-----------------------------------------------------------------------------
TickStep(k) ==
  \/ TickBegin(k) \/ TickCount(k) \/ ChooseTask(k)
  \/ MarkInProgress(k) \/ StartProcess(k) \/ RegisterWorker(k) \/ TrackWorker(k)
  \/ \E s \in Sprints : LoadSprint(k, s)
  \/ \E w \in Workers : IssueCapability(k, w)

ToolStep(w) == ReadTask(w) \/ WriteTask(w) \/ ReportOutcome(w) \/ RetireWorker(w)

MonitorStep(w) == MonitorMark(w) \/ MonitorSignal(w) \/ MonitorReap(w)

WorkerStep(w) ==
  \/ Connect(w) \/ HeartbeatLapse(w) \/ ProcessExit(w) \/ AbortTool(w) \/ AbortMonitor(w)
  \/ \E s \in HeartbeatStatuses : Heartbeat(w, s)
  \/ \E op \in Outcomes : CallTool(w, op)

DefectStep(d) ==
  \/ ReopenTask(d) \/ AbortDefect(d)
  \/ \E t \in Tasks : ReadDefectTask(d, t)

Next ==
  \/ \E k \in Ticks : TickStep(k) \/ AbortTick(k)
  \/ \E w \in Workers : WorkerStep(w) \/ ToolStep(w) \/ MonitorStep(w)
  \/ MonitorScan
  \/ \E d \in Defects : DefectStep(d)

Spec == Init /\ [][Next]_vars

(* Fairness.  A tick, a tool call or a monitor poll that has begun goes on; *)
(* polls repeat (setInterval) and ticks are taken to repeat; a one-shot     *)
(* worker process ends sooner or later, and a dead one stops beating.       *)
DeadWorkerLapses(w) == proc[w] = "exited" /\ HeartbeatLapse(w)

Fairness ==
  /\ \A k \in Ticks : WF_vars(TickStep(k))
  /\ \A w \in Workers : /\ WF_vars(ToolStep(w))
                        /\ WF_vars(MonitorStep(w))
                        /\ WF_vars(ProcessExit(w))
                        /\ WF_vars(DeadWorkerLapses(w))
  /\ WF_vars(MonitorScan)

FairSpec == Spec /\ Fairness

-----------------------------------------------------------------------------
(* Properties                                                              *)

\* The scheduler never has more than maxWorkers workers alive at once
\* (SchedulerOptions.maxWorkers), counting out the rows a late heartbeat took
\* back from 'terminating' or 'terminated', which the tick could not foresee.
WithinMaxWorkers == Cardinality(AliveRows \ revived) <= MaxWorkers

\* Ticks that overlap each count for themselves: together they may have up to
\* maxWorkers workers alive each, and no more than that.
WithinMaxWorkersPerTick ==
  Cardinality(AliveRows \ revived) <= MaxWorkers * Cardinality(Ticks)

\* The sessions a task was handed to and registered for.
SessionsOf(t) == {w \in Workers : boundTask[w] = t /\ row[w] # "absent"}

\* A task is handed to a worker at most once, and once more for each time a
\* defect re-opened it: no tick works from a stale copy of the ready set.
DispatchedOncePerOpening ==
  \A t \in Tasks : Cardinality(SessionsOf(t)) <= 1 + iteration[t]

\* Ticks that overlap may each hand out a task they have seen waiting: one
\* session for each of them and each opening, and no more than that.
DispatchedOncePerTick ==
  \A t \in Tasks : Cardinality(SessionsOf(t)) <= Cardinality(Ticks) * (1 + iteration[t])

\* Two in-progress tasks whose declared write paths overlap never both have
\* an alive worker (feasibility rule (2) of scheduler.ts).
HasWorker(t) == \E w \in AliveRows \ revived : boundTask[w] = t
WritersDisjoint ==
  \A t, u \in Tasks :
    t # u /\ Conflict(t, u) /\ taskState[t] = "in_progress" /\ taskState[u] = "in_progress"
      => ~(HasWorker(t) /\ HasWorker(u))

\* Outside the scheduler's own pending -> in_progress, the tools' atomic
\* in_progress -> in_review -> done and a defect's re-opening, a task moves
\* along VALID_TRANSITIONS (types.ts).
TableTransitions ==
  [][\A t \in Tasks :
       \/ taskState'[t] = taskState[t]
       \/ iteration'[t] # iteration[t]
       \/ IsValidTaskTransition(taskState[t], taskState'[t])
       \/ <<taskState[t], taskState'[t]>> \in
            {<<"pending", "in_progress">>, <<"in_progress", "done">>}]_vars

\* A worker the monitor force-terminates after the grace period is dead: an
\* unhonoured SIGTERM is followed by SIGKILL (monitor.ts header).
ReapedIsDead ==
  [][\A w \in Workers :
       monitor[w] = "grace" /\ monitor'[w] = "none" => proc'[w] = "exited"]_vars

\* The slot of a worker whose process is gone is given back: its row does not
\* stay alive (WorkerMonitor.tick).
DeadWorkersReaped ==
  \A w \in Workers :
    (proc[w] = "exited" /\ row[w] \in AliveStatuses) ~> row[w] \notin AliveStatuses

\* A waiting task without blocking predecessors is eventually started.
EveryRootDispatched ==
  \A t \in Tasks :
    (taskState[t] \in {"pending", "ready"} /\ BlockingPreds(t, Edges) = {})
      ~> taskState[t] \notin {"pending", "ready"}

\* A waiting task whose blocking predecessors are all done, and stay done, is
\* eventually started ("blocking predecessors all 'done'", scheduler.ts).
Eligible(t) == /\ taskState[t] \in {"pending", "ready"}
               /\ \A p \in BlockingPreds(t, Edges) : taskState[p] = "done"
EverySuccessorDispatched == \A t \in Tasks : ~<>[]Eligible(t)
=============================================================================

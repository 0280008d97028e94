--------------------------- MODULE Dispatch_proofs ---------------------------
(***************************************************************************)
(* Theorems about Dispatch, for every instance: type correctness; with any *)
(* finite number of ticks that overlap, the worker limit and the sessions  *)
(* of an opening for each of them; and where ticks do not overlap, the     *)
(* limit and one session per opening as such, disjoint writers and the     *)
(* transition table.                                                       *)
(***************************************************************************)
EXTENDS Dispatch, Sums_proofs, FiniteSetTheorems, TLAPS

\* The steps of a tick that hold a free slot, and those that hold a session.
SlotSteps   == TickSteps \ {"idle", "counting"}
WorkerSteps == {"marking", "spawning", "registering", "announcing"}

\* Type correctness needs to know what a tick holds.
TickHolds ==
  \A k \in Ticks : /\ tick[k].pc \in SlotSteps => tick[k].slots \in 1..MaxWorkers
                   /\ tick[k].pc \in WorkerSteps => tick[k].worker \in Workers

TInv == TypeOK /\ TickHolds

\* Everything but the ticks.
TablesType ==
  /\ taskState \in [Tasks -> TaskStates]
  /\ iteration \in [Tasks -> 0..IterationLimit]
  /\ row \in [Workers -> RowStatuses]
  /\ boundTask \in [Workers -> Tasks \cup {NoTask}]
  /\ cap \in [Workers -> {"none", "issued", "revoked"}]
  /\ proc \in [Workers -> {"none", "started", "connected", "exited"}]
  /\ fresh \subseteq Workers /\ tracked \subseteq Workers /\ termed \subseteq Workers
  /\ tool \in [Workers -> ToolSteps]
  /\ monitor \in [Workers -> MonitorSteps]
  /\ paused \in BOOLEAN
  /\ defect \in [Defects -> DefectType]
  /\ revived \subseteq Workers


-----------------------------------------------------------------------------
(* Lemmas about the state a step may reach.                                *)

LEMMA IdleTickType == IdleTick \in TickType /\ IdleTick.pc = "idle"
  BY ConstantsAssumption DEF IdleTick, TickType, TickSteps

\* TInv is typed tables and sound ticks.
LEMMA TInvParts == TInv <=> TablesType /\ tick \in [Ticks -> TickType] /\ TickHolds
  BY DEF TInv, TypeOK, TablesType

\* Replacing the local state of one tick by one that keeps TInv keeps TInv.
LEMMA TickUpdate ==
  ASSUME TInv, TablesType', NEW k \in Ticks, NEW r \in TickType,
         r.pc \in SlotSteps => r.slots \in 1..MaxWorkers,
         r.pc \in WorkerSteps => r.worker \in Workers,
         tick' = [tick EXCEPT ![k] = r]
  PROVE  TInv'
<1>1. (tick \in [Ticks -> TickType])'
  BY DEF TInv, TypeOK
<1>2. TickHolds'
  BY DEF TInv, TypeOK, TickHolds
<1>3. QED BY <1>1, <1>2 DEF TInv, TypeOK, TablesType

\* The number of alive rows is a natural number.
LEMMA AliveFinite ==
  /\ IsFiniteSet(AliveRows)
  /\ Cardinality(AliveRows) \in Nat
<1>1. AliveRows \in SUBSET Workers
  BY DEF AliveRows
<1>2. QED BY <1>1, ConstantsAssumption, FS_Subset, FS_CardinalityType

\* A tick that goes on to its next pick with n slots, or ends.
LEMMA NextPickType ==
  ASSUME NEW n \in Int, n <= MaxWorkers
  PROVE  /\ NextPick(n) \in TickType
         /\ NextPick(n).pc = IF n <= 0 THEN "idle" ELSE "picking"
         /\ n > 0 => NextPick(n).slots = n
<1>1. CASE n <= 0
  BY <1>1, IdleTickType DEF NextPick
<1>2. CASE ~(n <= 0)
  <2>1. NextPick(n) = [pc |-> "picking", slots |-> n, rest |-> Sprints, ready |-> {},
                       task |-> NoTask, worker |-> NoWorker]
    BY <1>2 DEF NextPick, Picking, IdleTick
  <2>2. n \in 0..MaxWorkers
    BY <1>2, ConstantsAssumption
  <2>3. QED BY <1>2, <2>1, <2>2 DEF TickType, TickSteps
<1>3. QED BY <1>1, <1>2

\* Such a tick keeps TInv.
LEMMA NextPickUpdate ==
  ASSUME TInv, TablesType', NEW k \in Ticks, NEW n \in Int, n <= MaxWorkers,
         tick' = [tick EXCEPT ![k] = NextPick(n)]
  PROVE  TInv'
<1>1. NextPick(n).pc \in SlotSteps => NextPick(n).slots \in 1..MaxWorkers
  BY NextPickType, ConstantsAssumption DEF SlotSteps
<1>2. NextPick(n).pc \notin WorkerSteps
  BY NextPickType DEF WorkerSteps
<1>3. QED BY <1>1, <1>2, NextPickType, TickUpdate

LEMMA LeaveAliveType ==
  ASSUME TInv, NEW w \in Workers, NEW s \in WorkerStatuses, LeaveAlive(w, s)
  PROVE  row' \in [Workers -> RowStatuses] /\ fresh' \subseteq Workers /\ revived' \subseteq Workers
  BY DEF TInv, TypeOK, LeaveAlive, RowStatuses

-----------------------------------------------------------------------------
(* Every step keeps TInv.                                                  *)

\* Moving the counter of a tick that holds a session to a later such step.
LEMMA NextPc ==
  ASSUME TInv, NEW k \in Ticks, NEW p \in WorkerSteps, tick[k].pc \in WorkerSteps,
         TablesType', tick' = [tick EXCEPT ![k].pc = p]
  PROVE  TInv'
<1> DEFINE r == [tick[k] EXCEPT !.pc = p]
<1>1. tick[k] \in TickType /\ tick \in [Ticks -> TickType]
  BY DEF TInv, TypeOK
<1>2. /\ r \in TickType
      /\ r.slots = tick[k].slots
      /\ r.worker = tick[k].worker
  BY <1>1 DEF TickType, WorkerSteps, TickSteps
<1>3. tick[k].slots \in 1..MaxWorkers /\ tick[k].worker \in Workers
  BY DEF TInv, TickHolds, WorkerSteps, SlotSteps, TickSteps
<1>4. tick' = [tick EXCEPT ![k] = r]
  BY <1>1
<1>5. QED BY <1>2, <1>3, <1>4, TickUpdate

LEMMA TickStepType ==
  ASSUME TInv, NEW k \in Ticks, TickStep(k) \/ AbortTick(k)
  PROVE  TInv'
<1>0. TablesType /\ TickHolds /\ tick[k] \in TickType /\ tick \in [Ticks -> TickType]
  BY TInvParts DEF TInv, TypeOK
<1>1. CASE TickBegin(k)
  <2>1. TablesType'
    BY <1>0, <1>1 DEF TickBegin, TablesType, tables, procs
  <2>2. [tick[k] EXCEPT !.pc = "counting"] \in TickType
    BY <1>0 DEF TickType, TickSteps
  <2>3. tick' = [tick EXCEPT ![k] = [tick[k] EXCEPT !.pc = "counting"]]
    BY <1>1, <1>0 DEF TickBegin
  <2>4. [tick[k] EXCEPT !.pc = "counting"].pc \notin SlotSteps \cup WorkerSteps
    BY <1>0 DEF TickType, SlotSteps, WorkerSteps, TickSteps
  <2>5. QED BY <2>1, <2>2, <2>3, <2>4, TickUpdate
<1>2. CASE TickCount(k)
  <2>1. TablesType'
    BY <1>0, <1>2 DEF TickCount, TablesType, tables, procs
  <2>2. MaxWorkers - Cardinality(AliveRows) \in Int
          /\ MaxWorkers - Cardinality(AliveRows) <= MaxWorkers
    BY AliveFinite, ConstantsAssumption
  <2>3. QED BY <1>2, <2>1, <2>2, NextPickUpdate DEF TickCount
<1>3. ASSUME NEW s \in Sprints, LoadSprint(k, s) PROVE TInv'
  <2> DEFINE r == [tick[k] EXCEPT !.pc = "choosing", !.rest = @ \ {s},
                    !.ready = ComputeReadySet(SprintRows(s), taskState, Edges)]
  <2>1. TablesType'
    BY <1>0, <1>3 DEF LoadSprint, TablesType, tables, procs
  <2>2. ComputeReadySet(SprintRows(s), taskState, Edges) \subseteq Tasks
    BY DEF ComputeReadySet, SprintRows
  <2>3. tick' = [tick EXCEPT ![k] = r]
    BY <1>3, <1>0 DEF LoadSprint
  <2>4. r \in TickType /\ r.pc = "choosing" /\ r.slots = tick[k].slots
    BY <1>0, <2>2 DEF TickType, TickSteps
  <2>5. tick[k].slots \in 1..MaxWorkers
    BY <1>0, <1>3 DEF LoadSprint, TickHolds, SlotSteps, TickSteps
  <2>6. QED BY <2>1, <2>3, <2>4, <2>5, TickUpdate DEF WorkerSteps
<1>4. CASE ChooseTask(k)
  <2>1. TablesType'
    BY <1>0, <1>4 DEF ChooseTask, TablesType, tables, procs
  <2>2. tick[k].slots \in 1..MaxWorkers
    BY <1>0, <1>4 DEF ChooseTask, TickHolds, SlotSteps, TickSteps
  <2>3. ASSUME NEW t \in Tasks,
               tick' = [tick EXCEPT ![k].pc = "issuing", ![k].ready = {}, ![k].task = t]
        PROVE  TInv'
    <3> DEFINE r == [tick[k] EXCEPT !.pc = "issuing", !.ready = {}, !.task = t]
    <3>1. r \in TickType /\ r.pc = "issuing" /\ r.slots = tick[k].slots
      BY <1>0 DEF TickType, TickSteps
    <3>2. tick' = [tick EXCEPT ![k] = r]
      BY <2>3, <1>0
    <3>3. QED BY <2>1, <2>2, <3>1, <3>2, TickUpdate DEF WorkerSteps
  <2>4. ASSUME tick' = [tick EXCEPT ![k].pc = "picking", ![k].ready = {}]
        PROVE  TInv'
    <3> DEFINE r == [tick[k] EXCEPT !.pc = "picking", !.ready = {}]
    <3>1. r \in TickType /\ r.pc = "picking" /\ r.slots = tick[k].slots
      BY <1>0 DEF TickType, TickSteps
    <3>2. tick' = [tick EXCEPT ![k] = r]
      BY <2>4, <1>0
    <3>3. QED BY <2>1, <2>2, <3>1, <3>2, TickUpdate DEF WorkerSteps
  <2>5. ASSUME tick' = [tick EXCEPT ![k] = IdleTick] PROVE TInv'
    BY <2>1, <2>5, IdleTickType, TickUpdate DEF SlotSteps, WorkerSteps
  <2>6. Feasible(tick[k].ready) \subseteq Tasks
    BY <1>0 DEF Feasible, TickType
  <2>7. QED BY <1>4, <2>3, <2>4, <2>5, <2>6 DEF ChooseTask
<1>5. ASSUME NEW w \in Workers, IssueCapability(k, w) PROVE TInv'
  <2> DEFINE r == [tick[k] EXCEPT !.pc = "marking", !.worker = w]
  <2>1. TablesType'
    BY <1>0, <1>5 DEF IssueCapability, TablesType, TickType
  <2>2. r \in TickType /\ r.pc = "marking" /\ r.slots = tick[k].slots /\ r.worker = w
    BY <1>0 DEF TickType, TickSteps
  <2>3. tick[k].slots \in 1..MaxWorkers
    BY <1>0, <1>5 DEF IssueCapability, TickHolds, SlotSteps, TickSteps
  <2>4. tick' = [tick EXCEPT ![k] = r]
    BY <1>0, <1>5 DEF IssueCapability
  <2>5. QED BY <2>1, <2>2, <2>3, <2>4, TickUpdate
<1>6. CASE MarkInProgress(k)
  <2>1. TablesType'
    BY <1>0, <1>6 DEF MarkInProgress, TablesType, TaskStates, procs
  <2>2. QED BY <1>6, <2>1, <1>0, NextPc DEF MarkInProgress, WorkerSteps
<1>7. CASE StartProcess(k)
  <2>1. TablesType'
    BY <1>0, <1>7 DEF StartProcess, TablesType, tables
  <2>2. QED BY <1>7, <2>1, <1>0, NextPc DEF StartProcess, WorkerSteps
<1>8. CASE RegisterWorker(k)
  <2>1. tick[k].worker \in Workers
    BY <1>0, <1>8 DEF RegisterWorker, TickHolds, WorkerSteps
  <2>2. TablesType'
    BY <1>0, <1>8, <2>1 DEF RegisterWorker, TablesType, RowStatuses, WorkerStatuses
  <2>3. QED BY <1>8, <2>2, <1>0, NextPc DEF RegisterWorker, WorkerSteps
<1>9. CASE TrackWorker(k)
  <2>1. tick[k].worker \in Workers /\ tick[k].slots \in 1..MaxWorkers
    BY <1>0, <1>9 DEF TrackWorker, TickHolds, WorkerSteps, SlotSteps, TickSteps
  <2>2. TablesType'
    BY <1>0, <1>9, <2>1 DEF TrackWorker, TablesType, tables
  <2>3. tick[k].slots - 1 \in Int /\ tick[k].slots - 1 <= MaxWorkers
    BY <2>1, ConstantsAssumption
  <2>4. QED BY <1>9, <2>2, <2>3, NextPickUpdate DEF TrackWorker
<1>10. CASE AbortTick(k)
  <2>1. TablesType'
    BY <1>0, <1>10 DEF AbortTick, TablesType, tables, procs
  <2>2. QED BY <1>10, <2>1, IdleTickType, TickUpdate DEF AbortTick, SlotSteps, WorkerSteps
<1>11. QED
  BY <1>1, <1>2, <1>3, <1>4, <1>5, <1>6, <1>7, <1>8, <1>9, <1>10 DEF TickStep

\* The actions of a session: no tick moves, the tables stay typed.
LEMMA WorkerStepType ==
  ASSUME TInv, NEW w \in Workers, WorkerStep(w) \/ ToolStep(w) \/ MonitorStep(w)
  PROVE  TablesType' /\ UNCHANGED tick
<1>0. TablesType
  BY TInvParts
<1> USE DEF TablesType, tables, procs, actors
<1>1. CASE Connect(w)
  BY <1>0, <1>1 DEF Connect
<1>2. CASE HeartbeatLapse(w)
  BY <1>0, <1>2 DEF HeartbeatLapse
<1>3. CASE ProcessExit(w)
  BY <1>0, <1>3 DEF ProcessExit
<1>4. CASE AbortTool(w)
  BY <1>0, <1>4 DEF AbortTool, ToolSteps
<1>5. CASE AbortMonitor(w)
  BY <1>0, <1>5 DEF AbortMonitor, EndPoll, MonitorSteps
<1>6. ASSUME NEW s \in HeartbeatStatuses, Heartbeat(w, s) PROVE TablesType' /\ UNCHANGED tick
  <2>1. s \in WorkerStatuses
    BY ConstantsAssumption
  <2>2. CASE s \in AliveStatuses
    BY <1>0, <1>6, <2>1, <2>2 DEF Heartbeat, RowStatuses
  <2>3. CASE s \notin AliveStatuses
    BY <1>0, <1>6, <2>1, <2>3, LeaveAliveType DEF Heartbeat
  <2>4. QED BY <2>2, <2>3
<1>7. ASSUME NEW op \in Outcomes, CallTool(w, op) PROVE TablesType' /\ UNCHANGED tick
  <2>1. op \in ToolSteps
    BY ConstantsAssumption DEF ToolSteps
  <2>2. QED BY <1>0, <1>7, <2>1 DEF CallTool
<1>8. CASE ReadTask(w)
  BY <1>0, <1>8 DEF ReadTask, ToolSteps
<1>9. CASE WriteTask(w)
  <2>1. ToolTarget(tool[w]) \in TaskStates
    BY DEF ToolTarget, TaskStates
  <2>2. QED BY <1>0, <1>9, <2>1 DEF WriteTask, ToolSteps
<1>10. CASE ReportOutcome(w)
  BY <1>0, <1>10 DEF ReportOutcome, ToolSteps
<1>11. CASE RetireWorker(w)
  <2>1. CASE row[w] = "absent"
    BY <1>0, <1>11, <2>1 DEF RetireWorker, ToolSteps
  <2>2. CASE row[w] # "absent"
    BY <1>0, <1>11, <2>2, LeaveAliveType DEF RetireWorker, ToolSteps, WorkerStatuses
  <2>3. QED BY <2>1, <2>2
<1>12. CASE MonitorMark(w)
  BY <1>0, <1>12, LeaveAliveType DEF MonitorMark, MonitorSteps, WorkerStatuses
<1>13. CASE MonitorSignal(w)
  <2>1. CASE w \in tracked \cap Running /\ w \notin termed
    BY <1>0, <1>13, <2>1 DEF MonitorSignal, MonitorSteps
  <2>2. CASE ~(w \in tracked \cap Running /\ w \notin termed)
    <3>1. monitor' \in [Workers -> MonitorSteps]
      BY <1>0, <1>13, <2>2 DEF MonitorSignal, EndPoll, MonitorSteps
    <3>2. LeaveAlive(w, "terminated") /\ "terminated" \in WorkerStatuses
      BY <1>13, <2>2 DEF MonitorSignal, WorkerStatuses
    <3>3. QED BY <1>0, <1>13, <2>2, <3>1, <3>2, LeaveAliveType DEF MonitorSignal
  <2>3. QED BY <2>1, <2>2
<1>14. CASE MonitorReap(w)
  BY <1>0, <1>14, LeaveAliveType DEF MonitorReap, MonitorSteps, WorkerStatuses
<1>15. QED
  BY <1>1, <1>2, <1>3, <1>4, <1>5, <1>6, <1>7, <1>8, <1>9, <1>10, <1>11, <1>12,
     <1>13, <1>14 DEF WorkerStep, ToolStep, MonitorStep

LEMMA GlobalStepType ==
  ASSUME TInv, MonitorScan \/ (\E d \in Defects : DefectStep(d)) \/ UNCHANGED vars
  PROVE  TablesType' /\ UNCHANGED tick
<1>0. TablesType
  BY TInvParts
<1> USE DEF TablesType, tables, procs, actors
<1>1. CASE MonitorScan
  BY <1>0, <1>1 DEF MonitorScan, MonitorSteps
<1>2. ASSUME NEW d \in Defects, DefectStep(d) PROVE TablesType' /\ UNCHANGED tick
  <2>1. ASSUME NEW t \in Tasks, ReadDefectTask(d, t) PROVE TablesType' /\ UNCHANGED tick
    <3>1. [task |-> t, count |-> iteration[t]] \in DefectType
      BY <1>0, <2>1, ConstantsAssumption DEF ReadDefectTask, DefectType
    <3>2. QED BY <1>0, <2>1, <3>1 DEF ReadDefectTask
  <2>2. CASE ReopenTask(d)
    <3>1. defect[d].task \in Tasks /\ defect[d].count + 1 \in 0..IterationLimit
      BY <1>0, <2>2, ConstantsAssumption DEF ReopenTask, DefectType
    <3>2. NoReport \in DefectType
      BY DEF DefectType
    <3>3. taskState' \in [Tasks -> TaskStates] /\ iteration' \in [Tasks -> 0..IterationLimit]
      BY <1>0, <2>2, <3>1 DEF ReopenTask, TaskStates
    <3>4. QED BY <1>0, <2>2, <3>2, <3>3 DEF ReopenTask
  <2>3. CASE AbortDefect(d)
    BY <1>0, <2>3 DEF AbortDefect, DefectType
  <2>4. QED BY <1>2, <2>1, <2>2, <2>3 DEF DefectStep
<1>3. CASE UNCHANGED vars
  BY <1>0, <1>3 DEF vars
<1>4. QED BY <1>1, <1>2, <1>3

LEMMA InitType == Init => TInv
<1> SUFFICES ASSUME Init PROVE TInv
  OBVIOUS
<1>1. TablesType
  <2>1. taskState \in [Tasks -> TaskStates]
    BY ConstantsAssumption DEF Init, TaskStates
  <2>2. iteration \in [Tasks -> 0..IterationLimit]
    BY ConstantsAssumption DEF Init
  <2>3. row \in [Workers -> RowStatuses]
    BY DEF Init, RowStatuses
  <2>4. QED BY <2>1, <2>2, <2>3 DEF Init, TablesType, ToolSteps, MonitorSteps, DefectType
<1>2. tick \in [Ticks -> TickType] /\ \A k \in Ticks : tick[k].pc = "idle"
  BY IdleTickType DEF Init
<1>3. TickHolds
  BY <1>2 DEF TickHolds, SlotSteps, WorkerSteps
<1>4. QED BY <1>1, <1>2, <1>3, TInvParts

LEMMA NextType == TInv /\ [Next]_vars => TInv'
<1> SUFFICES ASSUME TInv, [Next]_vars PROVE TInv'
  OBVIOUS
<1>1. ASSUME TablesType', UNCHANGED tick PROVE TInv'
  BY <1>1 DEF TInv, TypeOK, TablesType, TickHolds
<1>2. ASSUME NEW k \in Ticks, TickStep(k) \/ AbortTick(k) PROVE TInv'
  BY <1>2, TickStepType
<1>3. ASSUME NEW w \in Workers, WorkerStep(w) \/ ToolStep(w) \/ MonitorStep(w)
      PROVE  TInv'
  BY <1>1, <1>3, WorkerStepType
<1>4. CASE MonitorScan \/ (\E d \in Defects : DefectStep(d)) \/ UNCHANGED vars
  BY <1>1, <1>4, GlobalStepType
<1>5. QED BY <1>2, <1>3, <1>4 DEF Next

\* The tables and the local states of ticks, tool calls and the monitor stay
\* within their types, and a tick that allocates holds a free slot (TypeOK).
THEOREM TypeCorrect == Spec => []TypeOK
<1>1. TInv => TypeOK
  BY DEF TInv
<1>2. Spec => []TInv
  BY InitType, NextType, PTL DEF Spec
<1>3. QED BY <1>1, <1>2, PTL

-----------------------------------------------------------------------------
(* The worker limit.  The rows that count and the slots the ticks hold     *)
(* never exceed maxWorkers for each tick together: a tick counts before it *)
(* allocates, and whatever else runs in between can only take rows out of  *)
(* the alive statuses.                                                     *)

Counted == AliveRows \ revived

\* Slots of a tick that have no row yet: the one being announced has one.
Reserved(r) ==
  CASE r.pc \in {"idle", "counting"} -> 0
    [] r.pc = "announcing" -> r.slots - 1
    [] OTHER -> r.slots

Reservation == [k \in Ticks |-> Reserved(tick[k])]

SlotInv ==
  Cardinality(Counted) + SumOver(Reservation, Ticks) <= MaxWorkers * Cardinality(Ticks)

\* What a tick reserves when it goes on to its next pick.
LEMMA NextPickReserved ==
  ASSUME NEW n \in Int, n <= MaxWorkers
  PROVE  Reserved(NextPick(n)) = IF n <= 0 THEN 0 ELSE n
  BY NextPickType DEF Reserved

LEMMA CountedFinite == IsFiniteSet(Counted) /\ Cardinality(Counted) \in Nat
<1>1. Counted \in SUBSET Workers
  BY DEF Counted, AliveRows
<1>2. QED BY <1>1, ConstantsAssumption, FS_Subset, FS_CardinalityType

LEMMA CountedFinitePrimed == IsFiniteSet(Counted') /\ Cardinality(Counted') \in Nat
<1>1. Counted' \in SUBSET Workers
  BY DEF Counted, AliveRows
<1>2. QED BY <1>1, ConstantsAssumption, FS_Subset, FS_CardinalityType

\* One more element is at most one more in number.
LEMMA AddOne ==
  ASSUME NEW S, IsFiniteSet(S), NEW x
  PROVE  /\ IsFiniteSet(S \cup {x})
         /\ Cardinality(S \cup {x}) \in Nat
         /\ Cardinality(S \cup {x}) <= Cardinality(S) + 1
<1>1. /\ IsFiniteSet(S \cup {x})
      /\ Cardinality(S \cup {x}) = IF x \in S THEN Cardinality(S) ELSE Cardinality(S) + 1
  BY FS_AddElement
<1>2. Cardinality(S) \in Nat
  BY FS_CardinalityType
<1>3. QED BY <1>1, <1>2

LEMMA CountedShrinks ==
  ASSUME Counted' \subseteq Counted
  PROVE  Cardinality(Counted') <= Cardinality(Counted)
  BY CountedFinite, FS_Subset

\* A row that leaves the alive statuses counts no more.
LEMMA LeaveAliveShrinks ==
  ASSUME TInv, NEW w \in Workers, NEW s \in WorkerStatuses \ AliveStatuses, LeaveAlive(w, s)
  PROVE  Counted' \subseteq Counted
  BY DEF TInv, TypeOK, LeaveAlive, Counted, AliveRows

\* A heartbeat from a row that was not alive adds it to both sets.
LEMMA HeartbeatShrinks ==
  ASSUME TInv, NEW w \in Workers, NEW s \in HeartbeatStatuses, Heartbeat(w, s)
  PROVE  Counted' \subseteq Counted
<1>1. s \in WorkerStatuses
  BY ConstantsAssumption
<1>2. CASE s \in AliveStatuses
  BY <1>2 DEF TInv, TypeOK, Heartbeat, Counted, AliveRows
<1>3. CASE s \notin AliveStatuses
  BY <1>1, <1>3, LeaveAliveShrinks DEF Heartbeat
<1>4. QED BY <1>2, <1>3

\* Whatever happens outside the ticks, no further row counts.
LEMMA OtherStepsShrink ==
  ASSUME TInv,
         \/ \E w \in Workers : WorkerStep(w) \/ ToolStep(w) \/ MonitorStep(w)
         \/ MonitorScan
         \/ \E d \in Defects : DefectStep(d)
         \/ UNCHANGED vars
  PROVE  Counted' \subseteq Counted /\ UNCHANGED tick
<1>1. UNCHANGED tick
  BY WorkerStepType, GlobalStepType
<1>2. ASSUME UNCHANGED <<row, revived>> PROVE Counted' \subseteq Counted
  BY <1>2 DEF Counted, AliveRows
<1>3. ASSUME NEW w \in Workers, WorkerStep(w) PROVE Counted' \subseteq Counted
  <2>1. ASSUME NEW s \in HeartbeatStatuses, Heartbeat(w, s) PROVE Counted' \subseteq Counted
    BY <2>1, HeartbeatShrinks
  <2>2. CASE Connect(w) \/ HeartbeatLapse(w) \/ ProcessExit(w) \/ AbortTool(w)
               \/ AbortMonitor(w) \/ \E op \in Outcomes : CallTool(w, op)
    BY <1>2, <2>2 DEF Connect, HeartbeatLapse, ProcessExit, AbortTool, AbortMonitor,
                      CallTool, tables
  <2>3. QED BY <1>3, <2>1, <2>2 DEF WorkerStep
<1>4. ASSUME NEW w \in Workers, ToolStep(w) PROVE Counted' \subseteq Counted
  <2>1. CASE RetireWorker(w)
    <3>1. "terminated" \in WorkerStatuses \ AliveStatuses
      BY DEF WorkerStatuses, AliveStatuses
    <3>2. QED BY <1>2, <2>1, <3>1, LeaveAliveShrinks DEF RetireWorker
  <2>2. CASE ReadTask(w) \/ WriteTask(w) \/ ReportOutcome(w)
    BY <1>2, <2>2 DEF ReadTask, WriteTask, ReportOutcome, tables
  <2>3. QED BY <1>4, <2>1, <2>2 DEF ToolStep
<1>5. ASSUME NEW w \in Workers, MonitorStep(w) PROVE Counted' \subseteq Counted
  <2>1. {"terminating", "terminated"} \subseteq WorkerStatuses \ AliveStatuses
    BY DEF WorkerStatuses, AliveStatuses
  <2>2. UNCHANGED <<row, revived>> \/ \E s \in {"terminating", "terminated"} : LeaveAlive(w, s)
    BY <1>5 DEF MonitorStep, MonitorMark, MonitorSignal, MonitorReap
  <2>3. QED BY <1>2, <2>1, <2>2, LeaveAliveShrinks
<1>6. CASE MonitorScan \/ (\E d \in Defects : DefectStep(d)) \/ UNCHANGED vars
  BY <1>1, <1>2, <1>6 DEF MonitorScan, DefectStep, ReadDefectTask, ReopenTask, AbortDefect,
        vars, tables
<1>7. QED BY <1>1, <1>3, <1>4, <1>5, <1>6

\* The step of a tick spends one of its slots for a row, or gives slots up.
\* A tick that counts reserves what it finds free.
WithinReserve(k) ==
  \/ Cardinality(Counted') + Reserved(tick[k]') <= Cardinality(Counted) + Reserved(tick[k])
  \/ Cardinality(Counted') + Reserved(tick[k]') <= MaxWorkers

LEMMA TickStepSlots ==
  ASSUME TInv, NEW k \in Ticks, TickStep(k) \/ AbortTick(k)
  PROVE  WithinReserve(k)
<1>0. /\ tick[k] \in TickType /\ tick \in [Ticks -> TickType]
      /\ tick[k].pc \in SlotSteps => tick[k].slots \in 1..MaxWorkers
  BY DEF TInv, TypeOK, TickHolds
<1>1. tick[k].slots \in Int /\ tick[k].pc \in TickSteps /\ MaxWorkers \in Nat
  BY <1>0, ConstantsAssumption DEF TickType
<1>2. IdleTick.pc = "idle" /\ Reserved(IdleTick) = 0
  BY DEF IdleTick, Reserved
<1>3. Reserved(tick[k]) \in Nat
  BY <1>0, <1>1 DEF Reserved, SlotSteps
<1>4. ASSUME UNCHANGED <<row, revived>> PROVE Cardinality(Counted') = Cardinality(Counted)
  BY <1>4 DEF Counted, AliveRows
<1>5. ASSUME UNCHANGED <<row, revived>>, tick[k]' = IdleTick
      PROVE  WithinReserve(k)
  BY <1>2, <1>3, <1>4, <1>5, CountedFinite DEF WithinReserve
<1>6. CASE TickBegin(k)
  <2>1. tick[k]' = [tick[k] EXCEPT !.pc = "counting"] /\ UNCHANGED <<row, revived>>
    BY <1>0, <1>6 DEF TickBegin, tables
  <2>2. Reserved(tick[k]') = 0
    BY <1>0, <2>1 DEF Reserved, TickType
  <2>3. QED BY <1>3, <1>4, <2>1, <2>2, CountedFinite DEF WithinReserve
<1>7. CASE TickCount(k)
  <2> DEFINE free == MaxWorkers - Cardinality(AliveRows)
  <2>1. UNCHANGED <<row, revived>> /\ tick[k]' = NextPick(free)
    BY <1>0, <1>7 DEF TickCount, tables
  <2>2. Cardinality(Counted) <= Cardinality(AliveRows)
    BY AliveFinite, FS_Subset DEF Counted
  <2>3. free \in Int /\ free <= MaxWorkers
    BY <1>1, AliveFinite
  <2>4. Reserved(tick[k]') = IF free <= 0 THEN 0 ELSE free
    BY <2>1, <2>3, NextPickReserved
  <2>5. QED BY <1>1, <1>3, <1>4, <2>1, <2>2, <2>4, AliveFinite, CountedFinite DEF WithinReserve
<1>8. ASSUME UNCHANGED <<row, revived>>, tick[k].pc \in SlotSteps,
             tick[k]'.slots = tick[k].slots,
             tick[k]'.pc \in SlotSteps \ {"announcing"}, tick[k].pc # "announcing"
      PROVE  WithinReserve(k)
  <2>1. Reserved(tick[k]') = tick[k].slots /\ Reserved(tick[k]) = tick[k].slots
    BY <1>0, <1>8 DEF Reserved, SlotSteps
  <2>2. QED BY <1>1, <1>4, <1>8, <2>1, CountedFinite DEF WithinReserve
<1>9. ASSUME NEW s \in Sprints, LoadSprint(k, s)
      PROVE  WithinReserve(k)
  <2>1. /\ tick[k]'.slots = tick[k].slots /\ tick[k]'.pc = "choosing" /\ tick[k].pc = "picking"
        /\ UNCHANGED <<row, revived>>
    BY <1>0, <1>9 DEF LoadSprint, TickType, tables
  <2>2. QED BY <1>8, <2>1 DEF SlotSteps, TickSteps
<1>10. CASE ChooseTask(k)
  <2>1. UNCHANGED <<row, revived>> /\ tick[k].pc = "choosing"
    BY <1>10 DEF ChooseTask, tables
  <2>2. \/ tick[k]' = IdleTick
        \/ tick[k]'.slots = tick[k].slots /\ tick[k]'.pc \in {"issuing", "picking"}
    BY <1>0, <1>10 DEF ChooseTask, TickType
  <2>3. QED BY <1>5, <1>8, <2>1, <2>2 DEF SlotSteps, TickSteps
<1>11. ASSUME NEW w \in Workers, IssueCapability(k, w)
       PROVE  WithinReserve(k)
  <2>1. /\ tick[k]'.slots = tick[k].slots /\ tick[k]'.pc = "marking" /\ tick[k].pc = "issuing"
        /\ UNCHANGED <<row, revived>>
    BY <1>0, <1>11 DEF IssueCapability, TickType
  <2>2. QED BY <1>8, <2>1 DEF SlotSteps, TickSteps
<1>12. CASE MarkInProgress(k)
  <2>1. /\ tick[k]'.slots = tick[k].slots /\ tick[k]'.pc = "spawning" /\ tick[k].pc = "marking"
        /\ UNCHANGED <<row, revived>>
    BY <1>0, <1>12 DEF MarkInProgress, TickType
  <2>2. QED BY <1>8, <2>1 DEF SlotSteps, TickSteps
<1>13. CASE StartProcess(k)
  <2>1. /\ tick[k]'.slots = tick[k].slots /\ tick[k]'.pc = "registering"
        /\ tick[k].pc = "spawning" /\ UNCHANGED <<row, revived>>
    BY <1>0, <1>13 DEF StartProcess, TickType, tables
  <2>2. QED BY <1>8, <2>1 DEF SlotSteps, TickSteps
<1>14. CASE RegisterWorker(k)
  <2>1. /\ tick[k]'.slots = tick[k].slots /\ tick[k]'.pc = "announcing"
        /\ tick[k].pc = "registering"
    BY <1>0, <1>14 DEF RegisterWorker, TickType
  <2>2. Reserved(tick[k]') = tick[k].slots - 1 /\ Reserved(tick[k]) = tick[k].slots
    BY <2>1 DEF Reserved
  <2>3. Counted' \in SUBSET (Counted \cup {tick[k].worker})
    BY <1>0, <1>14 DEF RegisterWorker, Counted, AliveRows, TInv, TypeOK
  <2>4. /\ IsFiniteSet(Counted \cup {tick[k].worker})
        /\ Cardinality(Counted \cup {tick[k].worker}) \in Nat
        /\ Cardinality(Counted \cup {tick[k].worker}) <= Cardinality(Counted) + 1
    BY CountedFinite, AddOne
  <2>5. Cardinality(Counted') <= Cardinality(Counted) + 1
    BY <2>3, <2>4, CountedFinite, CountedFinitePrimed, FS_Subset
  <2>6. QED BY <1>1, <2>2, <2>5, CountedFinite, CountedFinitePrimed DEF WithinReserve
<1>15. CASE TrackWorker(k)
  <2>1. /\ UNCHANGED <<row, revived>> /\ tick[k].pc = "announcing"
        /\ tick[k]' = NextPick(tick[k].slots - 1)
    BY <1>0, <1>15 DEF TrackWorker, tables
  <2>2. tick[k].slots \in 1..MaxWorkers
    BY <1>0, <2>1 DEF SlotSteps, TickSteps
  <2>3. tick[k].slots - 1 \in Int /\ tick[k].slots - 1 <= MaxWorkers
    BY <1>1, <2>2
  <2>4. Reserved(tick[k]') = tick[k].slots - 1
    BY <2>1, <2>2, <2>3, NextPickReserved
  <2>5. Reserved(tick[k]) = tick[k].slots - 1
    BY <2>1 DEF Reserved
  <2>6. QED BY <1>1, <1>4, <2>1, <2>4, <2>5, CountedFinite DEF WithinReserve
<1>16. CASE AbortTick(k)
  <2>1. tick[k]' = IdleTick /\ UNCHANGED <<row, revived>>
    BY <1>0, <1>16 DEF AbortTick, tables
  <2>2. QED BY <1>5, <2>1
<1>17. QED
  BY <1>6, <1>7, <1>9, <1>10, <1>11, <1>12, <1>13, <1>14, <1>15, <1>16 DEF TickStep

\* What a step of a tick leaves of the others, and what one reserves.
LEMMA OtherTicksStay ==
  ASSUME TInv, NEW k \in Ticks, TickStep(k) \/ AbortTick(k)
  PROVE  \A j \in Ticks \ {k} : tick'[j] = tick[j]
  BY DEF TickStep, TickBegin, TickCount, LoadSprint, ChooseTask, IssueCapability, MarkInProgress,
         StartProcess, RegisterWorker, TrackWorker, AbortTick, TInv, TypeOK

LEMMA ReservedType == ASSUME TInv, NEW k \in Ticks PROVE Reserved(tick[k]) \in 0..MaxWorkers
<1>1. /\ tick[k] \in TickType /\ tick[k].pc \in TickSteps /\ MaxWorkers \in Nat
      /\ tick[k].pc \in SlotSteps => tick[k].slots \in 1..MaxWorkers
  BY ConstantsAssumption DEF TInv, TypeOK, TickHolds, TickType
<1>2. QED BY <1>1 DEF Reserved, SlotSteps

ReservationsTyped == \A k \in Ticks : Reserved(tick[k]) \in 0..MaxWorkers

LEMMA ReservationsTypedNow == TInv => ReservationsTyped
  BY ReservedType DEF ReservationsTyped

LEMMA ReservationsTypedNext == TInv' => ReservationsTyped'
  BY ReservationsTypedNow, PTL

\* Nothing but the ticks takes up slots.
LEMMA FewerSlots ==
  ASSUME IsFiniteSet(Ticks), TInv, SlotInv, Counted' \subseteq Counted, UNCHANGED tick
  PROVE  SlotInv'
<1>1. Cardinality(Counted') <= Cardinality(Counted)
  BY CountedShrinks
<1>2. Reservation' = Reservation
  BY DEF Reservation
<1>3. SumOver(Reservation, Ticks) \in Int
  BY ReservedType, SumOverInt DEF Reservation
<1>4. MaxWorkers * Cardinality(Ticks) \in Int
  BY FS_CardinalityType, ConstantsAssumption
<1>5. QED BY <1>1, <1>2, <1>3, <1>4, CountedFinite, CountedFinitePrimed DEF SlotInv

LEMMA SlotInit == ASSUME IsFiniteSet(Ticks) PROVE Init => SlotInv
<1> SUFFICES ASSUME Init PROVE SlotInv
  OBVIOUS
<1>1. Cardinality(Counted) = 0
  BY FS_EmptySet DEF Init, Counted, AliveRows, AliveStatuses
<1>2. \A k \in Ticks : Reservation[k] \in Int /\ Reservation[k] <= 0
  BY DEF Init, IdleTick, Reserved, Reservation
<1>3. SumOver(Reservation, Ticks) \in Int /\ SumOver(Reservation, Ticks) <= Cardinality(Ticks) * 0
  BY <1>2, SumOverInt, SumOverAtMost
<1>4. Cardinality(Ticks) \in Nat /\ MaxWorkers \in Nat
  BY FS_CardinalityType, ConstantsAssumption
<1>5. MaxWorkers * Cardinality(Ticks) \in Nat /\ Cardinality(Ticks) * 0 = 0
  BY <1>4
<1>6. QED BY <1>1, <1>3, <1>5 DEF SlotInv

LEMMA SlotNext ==
  ASSUME IsFiniteSet(Ticks)
  PROVE  TInv /\ SlotInv /\ [Next]_vars => SlotInv'
<1> SUFFICES ASSUME TInv, SlotInv, [Next]_vars PROVE SlotInv'
  OBVIOUS
<1>0. TInv'
  BY NextType
<1>1. \A k \in Ticks : /\ Reservation[k] = Reserved(tick[k]) /\ Reservation'[k] = Reserved(tick'[k])
                       /\ Reservation[k] \in 0..MaxWorkers /\ Reservation'[k] \in 0..MaxWorkers
  BY <1>0, ReservationsTypedNow, ReservationsTypedNext DEF ReservationsTyped, Reservation
<1>2. SumOver(Reservation, Ticks) \in Int
  BY <1>1, SumOverInt
<1>3. MaxWorkers \in Nat /\ Cardinality(Ticks) \in Nat /\ MaxWorkers * Cardinality(Ticks) \in Nat
  BY FS_CardinalityType, ConstantsAssumption
<1>4. ASSUME NEW k \in Ticks, TickStep(k) \/ AbortTick(k) PROVE SlotInv'
  <2> DEFINE others == Ticks \ {k}
  <2>1. IsFiniteSet(others)
    BY FS_Subset
  <2>2. SumOver(Reservation, Ticks) = Reservation[k] + SumOver(Reservation, others)
    BY <1>1, SumOverTakeOut
  <2>3. SumOver(Reservation', Ticks) = Reservation'[k] + SumOver(Reservation', others)
    BY <1>1, SumOverTakeOut
  <2>4. SumOver(Reservation', others) = SumOver(Reservation, others)
    <3>1. \A j \in others : Reservation[j] \in Int /\ Reservation'[j] = Reservation[j]
      BY <1>1, <1>4, OtherTicksStay
    <3>2. QED BY <2>1, <3>1, SumOverSame
  <2>5. SumOver(Reservation, others) \in Int
    BY <1>1, <2>1, SumOverInt
  <2>6. SumOver(Reservation, others) <= MaxWorkers * Cardinality(Ticks) - MaxWorkers
    <3>1. Cardinality(others) = Cardinality(Ticks) - 1
      BY FS_RemoveElement
    <3>2. SumOver(Reservation, others) <= Cardinality(others) * MaxWorkers
      <4>1. \A j \in others : Reservation[j] \in Int /\ Reservation[j] <= MaxWorkers
        BY <1>1, <1>3
      <4>2. MaxWorkers \in Int
        BY <1>3
      <4> HIDE DEF others
      <4>3. QED BY <2>1, <4>1, <4>2, SumOverAtMost
    <3> DEFINE spare == (Cardinality(Ticks) - 1) * MaxWorkers
               limit == MaxWorkers * Cardinality(Ticks)
    <3>3. spare = limit - MaxWorkers /\ spare \in Int /\ limit \in Int
      BY <1>3
    <3>4. SumOver(Reservation, others) <= spare
      BY <3>1, <3>2
    <3> HIDE DEF others, spare, limit
    <3>5. SumOver(Reservation, others) <= limit - MaxWorkers
      BY <3>3, <3>4
    <3>6. QED BY <3>5 DEF limit
  <2>7. /\ Cardinality(Counted') + Reservation'[k] <= Cardinality(Counted) + Reservation[k]
           \/ Cardinality(Counted') + Reservation'[k] <= MaxWorkers
        /\ Reservation[k] \in Int /\ Reservation'[k] \in Int
    BY <1>1, <1>4, TickStepSlots DEF WithinReserve
  <2> HIDE DEF others
  <2>8. Cardinality(Counted') + (Reservation'[k] + SumOver(Reservation, others))
          <= MaxWorkers * Cardinality(Ticks)
    BY <1>3, <2>2, <2>5, <2>6, <2>7, CountedFinite, CountedFinitePrimed DEF SlotInv
  <2>9. QED BY <2>3, <2>4, <2>8 DEF SlotInv
<1>5. CASE \/ \E w \in Workers : WorkerStep(w) \/ ToolStep(w) \/ MonitorStep(w)
           \/ MonitorScan
           \/ \E d \in Defects : DefectStep(d)
           \/ UNCHANGED vars
  BY <1>5, OtherStepsShrink, FewerSlots
<1>6. QED BY <1>4, <1>5 DEF Next

LEMMA SlotsWithin ==
  ASSUME IsFiniteSet(Ticks)
  PROVE  SlotInv /\ TInv => WithinMaxWorkersPerTick
<1> SUFFICES ASSUME SlotInv, TInv PROVE WithinMaxWorkersPerTick
  OBVIOUS
<1>1. SumOver(Reservation, Ticks) \in Nat
  <2>1. \A k \in Ticks : Reservation[k] \in Nat
    BY ReservedType DEF Reservation
  <2>2. QED BY <2>1, SumOverNat
<1>2. MaxWorkers * Cardinality(Ticks) \in Nat
  BY FS_CardinalityType, ConstantsAssumption
<1>3. QED BY <1>1, <1>2, CountedFinite DEF WithinMaxWorkersPerTick, Counted, SlotInv

\* However many ticks overlap, the workers alive never exceed maxWorkers for
\* each of them (WithinMaxWorkersPerTick), whatever fails, dies or heartbeats
\* meanwhile.
THEOREM OverlappingTicksWithinLimit ==
  ASSUME IsFiniteSet(Ticks)
  PROVE  Spec => []WithinMaxWorkersPerTick
<1>1. SlotInv /\ TInv => WithinMaxWorkersPerTick
  BY SlotsWithin
<1>2. Init => TInv /\ SlotInv
  BY InitType, SlotInit
<1>3. TInv /\ SlotInv /\ [Next]_vars => TInv' /\ SlotInv'
  BY NextType, SlotNext
<1>4. QED BY <1>1, <1>2, <1>3, PTL DEF Spec

LEMMA OneTick ==
  ASSUME NEW theTick, Ticks = {theTick}
  PROVE  /\ IsFiniteSet(Ticks) /\ Cardinality(Ticks) = 1
         /\ WithinMaxWorkersPerTick => WithinMaxWorkers
<1>1. IsFiniteSet(Ticks) /\ Cardinality(Ticks) = 1
  BY FS_Singleton
<1>2. QED BY <1>1, ConstantsAssumption DEF WithinMaxWorkersPerTick, WithinMaxWorkers

\* If no two ticks overlap, the workers alive never exceed maxWorkers
\* (WithinMaxWorkers), whatever fails, dies or heartbeats meanwhile.
THEOREM SingleTickWithinMaxWorkers ==
  ASSUME NEW theTick, Ticks = {theTick}
  PROVE  Spec => []WithinMaxWorkers
<1>1. Spec => []WithinMaxWorkersPerTick
  BY OneTick, OverlappingTicksWithinLimit
<1>2. WithinMaxWorkersPerTick => WithinMaxWorkers
  BY OneTick
<1>3. QED BY <1>1, <1>2, PTL

-----------------------------------------------------------------------------
(* The rows of the sessions.  A session is issued to one task and keeps it; *)
(* a row, once written, stays; ticks and the monitor hold sessions that     *)
(* have got that far.                                                       *)

TickSession(k) ==
  /\ tick[k].pc \in {"issuing"} \cup WorkerSteps => tick[k].task \in Tasks
  /\ tick[k].pc \in WorkerSteps => /\ cap[tick[k].worker] # "none"
                                   /\ boundTask[tick[k].worker] = tick[k].task

RowsInv ==
  /\ \A w \in Workers : row[w] # "absent" => cap[w] # "none"
  /\ \A w \in Workers : monitor[w] # "none" => row[w] # "absent"
  /\ \A k \in Ticks : TickSession(k)

\* What becomes of a session in a step that registers none: its capability and
\* its task stay once they are there, its row stays or stays away, and the
\* monitor takes up rows only.
SessionKept(w) ==
  /\ cap[w] # "none" => cap'[w] # "none" /\ boundTask'[w] = boundTask[w]
  /\ row'[w] = "absent" <=> row[w] = "absent"
  /\ monitor'[w] # "none" => monitor[w] # "none" \/ row[w] # "absent"

LEMMA LeaveAliveKeepsRows ==
  ASSUME TInv, NEW w \in Workers, row[w] # "absent", NEW s \in WorkerStatuses, LeaveAlive(w, s)
  PROVE  \A v \in Workers : row'[v] = "absent" <=> row[v] = "absent"
  BY DEF TInv, TypeOK, LeaveAlive, WorkerStatuses

LEMMA OtherStepsKeepSessions ==
  ASSUME TInv, RowsInv,
         \/ \E w \in Workers : WorkerStep(w) \/ ToolStep(w) \/ MonitorStep(w)
         \/ MonitorScan
         \/ \E d \in Defects : DefectStep(d)
         \/ UNCHANGED vars
  PROVE  \A w \in Workers : SessionKept(w)
<1>1. /\ cap \in [Workers -> {"none", "issued", "revoked"}]
      /\ row \in [Workers -> RowStatuses] /\ monitor \in [Workers -> MonitorSteps]
      /\ \A w \in Workers : monitor[w] # "none" => row[w] # "absent"
  BY DEF TInv, TypeOK, RowsInv
<1>2. ASSUME UNCHANGED <<row, boundTask>>, cap' = cap, monitor' = monitor
      PROVE  \A w \in Workers : SessionKept(w)
  BY <1>2 DEF SessionKept
<1>3. {"terminating", "terminated"} \subseteq WorkerStatuses
  BY DEF WorkerStatuses
<1>4. ASSUME NEW w \in Workers, row[w] # "absent",
             UNCHANGED <<row, fresh, revived>> \/ \E s \in WorkerStatuses : LeaveAlive(w, s),
             UNCHANGED <<cap, boundTask>>,
             \A v \in Workers : monitor'[v] # "none" => v = w \/ monitor[v] # "none"
      PROVE  \A v \in Workers : SessionKept(v)
  BY <1>4, LeaveAliveKeepsRows DEF SessionKept
<1>5. ASSUME NEW w \in Workers, WorkerStep(w) PROVE \A v \in Workers : SessionKept(v)
  <2>1. ASSUME NEW s \in HeartbeatStatuses, Heartbeat(w, s)
        PROVE  \A v \in Workers : SessionKept(v)
    <3>1. s \in WorkerStatuses /\ row[w] # "absent"
      BY <2>1, ConstantsAssumption DEF Heartbeat
    <3>2. CASE s \in AliveStatuses
      <4>1. row' = [row EXCEPT ![w] = s] /\ s # "absent" /\ UNCHANGED <<cap, boundTask, monitor>>
        BY <2>1, <3>1, <3>2 DEF Heartbeat, actors, AliveStatuses
      <4>2. QED BY <1>1, <3>1, <4>1 DEF SessionKept
    <3>3. CASE s \notin AliveStatuses
      BY <1>4, <2>1, <3>1, <3>3 DEF Heartbeat, actors
    <3>4. QED BY <3>2, <3>3
  <2>2. CASE Connect(w) \/ HeartbeatLapse(w) \/ ProcessExit(w) \/ AbortTool(w)
               \/ \E op \in Outcomes : CallTool(w, op)
    BY <1>2, <2>2 DEF Connect, HeartbeatLapse, ProcessExit, AbortTool, CallTool, tables,
                      procs, actors
  <2>3. CASE AbortMonitor(w)
    <3>1. /\ UNCHANGED <<row, boundTask, cap>>
          /\ \A v \in Workers : monitor'[v] = "none" \/ monitor'[v] = monitor[v]
      BY <1>1, <2>3 DEF AbortMonitor, EndPoll, tables, procs
    <3>2. QED BY <3>1 DEF SessionKept
  <2>4. QED BY <1>5, <2>1, <2>2, <2>3 DEF WorkerStep
<1>6. ASSUME NEW w \in Workers, ToolStep(w) PROVE \A v \in Workers : SessionKept(v)
  <2>1. CASE ReadTask(w) \/ WriteTask(w)
    BY <1>2, <2>1 DEF ReadTask, WriteTask, tables, procs
  <2>2. CASE ReportOutcome(w)
    <3>1. UNCHANGED <<row, boundTask, monitor>>
      BY <2>2 DEF ReportOutcome, procs
    <3>2. \A v \in Workers : cap'[v] = cap[v] \/ cap'[v] = "revoked"
      BY <1>1, <2>2 DEF ReportOutcome
    <3>3. QED BY <3>1, <3>2 DEF SessionKept
  <2>3. CASE RetireWorker(w)
    <3>1. CASE row[w] = "absent"
      BY <1>2, <2>3, <3>1 DEF RetireWorker
    <3>2. CASE row[w] # "absent"
      BY <1>3, <1>4, <2>3, <3>2 DEF RetireWorker
    <3>3. QED BY <3>1, <3>2
  <2>4. QED BY <1>6, <2>1, <2>2, <2>3 DEF ToolStep
<1>7. ASSUME NEW w \in Workers, MonitorStep(w) PROVE \A v \in Workers : SessionKept(v)
  <2>1. monitor[w] # "none" /\ row[w] # "absent" /\ UNCHANGED <<cap, boundTask>>
    BY <1>1, <1>7 DEF MonitorStep, MonitorMark, MonitorSignal, MonitorReap
  <2>2. UNCHANGED <<row, fresh, revived>> \/ \E s \in WorkerStatuses : LeaveAlive(w, s)
    BY <1>3, <1>7 DEF MonitorStep, MonitorMark, MonitorSignal, MonitorReap
  <2>3. \A v \in Workers : monitor'[v] # "none" => v = w \/ monitor[v] # "none"
    BY <1>1, <1>7 DEF MonitorStep, MonitorMark, MonitorSignal, MonitorReap, EndPoll
  <2>4. QED BY <1>4, <2>1, <2>2, <2>3
<1>8. CASE MonitorScan
  <2>1. UNCHANGED <<row, cap, boundTask>>
    BY <1>8 DEF MonitorScan, tables, procs
  <2>2. \A v \in Workers : monitor'[v] # "none" => monitor[v] # "none" \/ row[v] # "absent"
    BY <1>8 DEF MonitorScan, AliveRows, AliveStatuses
  <2>3. QED BY <2>1, <2>2 DEF SessionKept
<1>9. CASE (\E d \in Defects : DefectStep(d)) \/ UNCHANGED vars
  BY <1>2, <1>9 DEF DefectStep, ReadDefectTask, ReopenTask, AbortDefect, vars, tables, procs
<1>10. QED BY <1>5, <1>6, <1>7, <1>8, <1>9

\* What a step of a tick does with its task and session.
LEMMA TickStepMoves ==
  ASSUME TInv, NEW k \in Ticks, TickStep(k) \/ AbortTick(k)
  PROVE  /\ \A j \in Ticks \ {k} : tick'[j] = tick[j]
         /\ \/ tick'[k].pc \notin {"issuing"} \cup WorkerSteps
            \/ /\ tick'[k].pc = "issuing" /\ tick'[k].task \in Tasks
            \/ /\ tick'[k].pc \in WorkerSteps /\ tick'[k].task = tick[k].task
               /\ tick[k].pc = "issuing"
               /\ tick'[k].worker \in Unused
               /\ IssueCapability(k, tick'[k].worker)
            \/ /\ {tick[k].pc, tick'[k].pc} \subseteq WorkerSteps
               /\ tick'[k].task = tick[k].task /\ tick'[k].worker = tick[k].worker
               /\ ~\E w \in Workers : IssueCapability(k, w)
         /\ tick[k].pc # "issuing" \/ tick'[k].pc \notin WorkerSteps => UNCHANGED <<cap, boundTask>>
         /\ RegisterWorker(k) \/ UNCHANGED row
         /\ UNCHANGED monitor
<1>1. tick \in [Ticks -> TickType] /\ tick[k] \in TickType
  BY DEF TInv, TypeOK
<1>2. UNCHANGED monitor /\ \A j \in Ticks \ {k} : tick'[j] = tick[j]
  BY <1>1 DEF TickStep, TickBegin, TickCount, LoadSprint, ChooseTask, IssueCapability,
              MarkInProgress, StartProcess, RegisterWorker, TrackWorker, AbortTick
<1>3. \A n \in Int : NextPick(n).pc \in {"idle", "picking"}
  BY DEF NextPick, Picking, IdleTick
<1> DEFINE Moved ==
      /\ \/ tick'[k].pc \notin {"issuing"} \cup WorkerSteps
         \/ /\ tick'[k].pc = "issuing" /\ tick'[k].task \in Tasks
         \/ /\ tick'[k].pc \in WorkerSteps /\ tick'[k].task = tick[k].task
            /\ tick[k].pc = "issuing"
            /\ tick'[k].worker \in Unused
            /\ IssueCapability(k, tick'[k].worker)
         \/ /\ {tick[k].pc, tick'[k].pc} \subseteq WorkerSteps
            /\ tick'[k].task = tick[k].task /\ tick'[k].worker = tick[k].worker
            /\ ~\E w \in Workers : IssueCapability(k, w)
      /\ tick[k].pc # "issuing" \/ tick'[k].pc \notin WorkerSteps => UNCHANGED <<cap, boundTask>>
      /\ RegisterWorker(k) \/ UNCHANGED row
<1> SUFFICES Moved
  BY <1>2
<1>4. CASE TickBegin(k)
  BY <1>1, <1>4 DEF TickBegin, TickType, WorkerSteps, tables, procs
<1>5. CASE TickCount(k)
  <2>1. MaxWorkers - Cardinality(AliveRows) \in Int
    BY AliveFinite, ConstantsAssumption
  <2>2. QED BY <1>1, <1>3, <1>5, <2>1 DEF TickCount, WorkerSteps, tables, procs
<1>6. ASSUME NEW s \in Sprints, LoadSprint(k, s) PROVE Moved
  BY <1>1, <1>6 DEF LoadSprint, TickType, WorkerSteps, tables, procs
<1>7. CASE ChooseTask(k)
  <2>1. Feasible(tick[k].ready) \subseteq Tasks
    BY <1>1 DEF Feasible, TickType
  <2>2. \/ tick'[k].pc = "issuing" /\ tick'[k].task \in Tasks
        \/ tick'[k].pc \in {"picking", "idle"}
    BY <1>1, <1>7, <2>1, IdleTickType DEF ChooseTask, TickType
  <2>3. UNCHANGED <<row, cap, boundTask>>
    BY <1>7 DEF ChooseTask, tables, procs
  <2>4. tick'[k].pc \notin WorkerSteps
    BY <2>2 DEF WorkerSteps
  <2>5. QED BY <2>2, <2>3, <2>4
<1>8. ASSUME NEW w \in Workers, IssueCapability(k, w) PROVE Moved
  <2>1. /\ tick'[k].pc = "marking" /\ tick'[k].task = tick[k].task /\ tick'[k].worker = w
        /\ w \in Unused /\ tick[k].pc = "issuing" /\ UNCHANGED row
    BY <1>1, <1>8 DEF IssueCapability, TickType
  <2>2. QED BY <1>8, <2>1 DEF WorkerSteps
<1>9. CASE MarkInProgress(k)
  BY <1>1, <1>9 DEF MarkInProgress, TickType, WorkerSteps, IssueCapability, procs
<1>10. CASE StartProcess(k)
  BY <1>1, <1>10 DEF StartProcess, TickType, WorkerSteps, IssueCapability, tables
<1>11. CASE RegisterWorker(k)
  BY <1>1, <1>11 DEF RegisterWorker, TickType, WorkerSteps, IssueCapability
<1>12. CASE TrackWorker(k)
  <2>1. tick[k].slots - 1 \in Int
    BY <1>1, ConstantsAssumption DEF TickType
  <2>2. QED BY <1>1, <1>3, <1>12, <2>1 DEF TrackWorker, WorkerSteps, tables
<1>13. CASE AbortTick(k)
  BY <1>1, <1>13, IdleTickType DEF AbortTick, WorkerSteps, tables, procs
<1>14. QED
  BY <1>4, <1>5, <1>6, <1>7, <1>8, <1>9, <1>10, <1>11, <1>12, <1>13 DEF TickStep

LEMMA RowsInit == Init => RowsInv
  BY DEF Init, RowsInv, TickSession, IdleTick, WorkerSteps

LEMMA RowsNext == TInv /\ RowsInv /\ [Next]_vars => RowsInv'
<1> SUFFICES ASSUME TInv, RowsInv, [Next]_vars PROVE RowsInv'
  OBVIOUS
<1>0. /\ cap \in [Workers -> {"none", "issued", "revoked"}] /\ row \in [Workers -> RowStatuses]
      /\ boundTask \in [Workers -> Tasks \cup {NoTask}]
      /\ \A j \in Ticks : tick[j].pc \in WorkerSteps => tick[j].worker \in Workers
  BY DEF TInv, TypeOK, TickHolds
<1>1. ASSUME UNCHANGED tick, \A w \in Workers : SessionKept(w) PROVE RowsInv'
  BY <1>0, <1>1 DEF RowsInv, SessionKept, TickSession
<1>2. ASSUME NEW k \in Ticks, TickStep(k) \/ AbortTick(k) PROVE RowsInv'
  <2>0. USE TickStepMoves, <1>2
  <2>1. \A w \in Workers : cap[w] # "none" => cap'[w] # "none" /\ boundTask'[w] = boundTask[w]
    <3>1. CASE UNCHANGED <<cap, boundTask>>
      BY <3>1
    <3>2. CASE ~UNCHANGED <<cap, boundTask>>
      <4>1. tick'[k].worker \in Unused /\ IssueCapability(k, tick'[k].worker)
        BY <3>2 DEF WorkerSteps
      <4>2. QED BY <4>1, <1>0 DEF IssueCapability, Unused
    <3>3. QED BY <3>1, <3>2
  <2>2. \A w \in Workers : row'[w] # "absent" => cap'[w] # "none"
    <3>1. CASE UNCHANGED row
      BY <2>1, <3>1 DEF RowsInv
    <3>2. CASE RegisterWorker(k)
      BY <1>0, <2>1, <3>2 DEF RowsInv, RegisterWorker, TickSession, WorkerSteps
    <3>3. QED BY <3>1, <3>2
  <2>3. \A w \in Workers : monitor'[w] # "none" => row'[w] # "absent"
    <3>1. CASE UNCHANGED row
      BY <3>1 DEF RowsInv
    <3>2. CASE RegisterWorker(k)
      BY <1>0, <3>2 DEF RowsInv, RegisterWorker
    <3>3. QED BY <3>1, <3>2
  <2>4. ASSUME NEW j \in Ticks \ {k} PROVE TickSession(j)'
    BY <1>0, <2>1, <2>4 DEF RowsInv, TickSession
  <2>5. TickSession(k)'
    <3>1. CASE tick'[k].pc \notin {"issuing"} \cup WorkerSteps
      BY <3>1 DEF TickSession
    <3>2. CASE tick'[k].pc = "issuing" /\ tick'[k].task \in Tasks
      BY <3>2 DEF TickSession, WorkerSteps
    <3>3. CASE /\ tick'[k].pc \in WorkerSteps /\ tick'[k].task = tick[k].task
               /\ tick[k].pc = "issuing" /\ tick'[k].worker \in Unused
               /\ IssueCapability(k, tick'[k].worker)
      <4> DEFINE w == tick'[k].worker
      <4>1. w \in Workers /\ cap'[w] = "issued" /\ boundTask'[w] = tick[k].task
        BY <1>0, <3>3 DEF IssueCapability, Unused
      <4>2. tick[k].task \in Tasks
        BY <3>3 DEF RowsInv, TickSession
      <4>3. QED BY <3>3, <4>1, <4>2 DEF TickSession
    <3>4. CASE /\ {tick[k].pc, tick'[k].pc} \subseteq WorkerSteps
               /\ tick'[k].task = tick[k].task /\ tick'[k].worker = tick[k].worker
      BY <1>0, <2>1, <3>4 DEF RowsInv, TickSession
    <3>5. QED BY <3>1, <3>2, <3>3, <3>4
  <2>6. QED BY <2>2, <2>3, <2>4, <2>5 DEF RowsInv
<1>3. CASE \/ \E w \in Workers : WorkerStep(w) \/ ToolStep(w) \/ MonitorStep(w)
           \/ MonitorScan
           \/ \E d \in Defects : DefectStep(d)
           \/ UNCHANGED vars
  BY <1>1, <1>3, OtherStepsKeepSessions, OtherStepsShrink
<1>4. QED BY <1>2, <1>3 DEF Next

\* A tick's own steps keep the sessions, but where it registers one.
LEMMA TickStepsKeepSessions ==
  ASSUME TInv, RowsInv, NEW k \in Ticks, TickStep(k) \/ AbortTick(k)
  PROVE  UNCHANGED row => \A w \in Workers : SessionKept(w)
<1>1. cap \in [Workers -> {"none", "issued", "revoked"}]
      /\ boundTask \in [Workers -> Tasks \cup {NoTask}]
  BY DEF TInv, TypeOK
<1>2. UNCHANGED monitor
  BY TickStepMoves
<1>3. CASE UNCHANGED <<cap, boundTask>>
  BY <1>2, <1>3 DEF SessionKept
<1>4. CASE ~UNCHANGED <<cap, boundTask>>
  <2>1. tick'[k].worker \in Unused /\ IssueCapability(k, tick'[k].worker)
    BY <1>4, TickStepMoves DEF WorkerSteps
  <2>2. QED BY <1>1, <1>2, <2>1 DEF SessionKept, IssueCapability, Unused
<1>5. QED BY <1>3, <1>4

LEMMA SessionsFinite ==
  ASSUME NEW t
  PROVE  /\ IsFiniteSet(SessionsOf(t)) /\ Cardinality(SessionsOf(t)) \in Nat
         /\ IsFiniteSet(SessionsOf(t)') /\ Cardinality(SessionsOf(t)') \in Nat
<1>1. SessionsOf(t) \in SUBSET Workers /\ SessionsOf(t)' \in SUBSET Workers
  BY DEF SessionsOf
<1>2. QED BY <1>1, ConstantsAssumption, FS_Subset, FS_CardinalityType

\* A task's sessions are those it had, if no row is written.
LEMMA SessionsSame ==
  ASSUME RowsInv, \A w \in Workers : SessionKept(w), NEW t
  PROVE  SessionsOf(t)' = SessionsOf(t)
  BY DEF SessionsOf, SessionKept, RowsInv

\* What happens to a task outside the ticks: a tool decides it, or a run of the
\* defect hook re-opens it.
LEMMA OtherStepsTasks ==
  ASSUME TInv,
         \/ \E w \in Workers : WorkerStep(w) \/ ToolStep(w) \/ MonitorStep(w)
         \/ MonitorScan
         \/ \E d \in Defects : DefectStep(d)
         \/ UNCHANGED vars
  PROVE  \/ UNCHANGED <<iteration, defect>>
              /\ \A t \in Tasks : taskState'[t] \in {taskState[t], "done", "failed"}
         \/ \E d \in Defects : DefectStep(d)
<1> USE DEF TInv, TypeOK, tables, procs, actors
<1>1. ASSUME NEW w \in Workers, WriteTask(w)
      PROVE  UNCHANGED <<iteration, defect>>
              /\ \A t \in Tasks : taskState'[t] \in {taskState[t], "done", "failed"}
  BY <1>1 DEF WriteTask, ToolTarget
<1>2. ASSUME NEW w \in Workers, WorkerStep(w) PROVE UNCHANGED <<taskState, iteration, defect>>
  BY <1>2 DEF WorkerStep, Connect, HeartbeatLapse, ProcessExit, AbortTool, AbortMonitor,
              Heartbeat, CallTool
<1>3. ASSUME NEW w \in Workers, ReadTask(w) \/ ReportOutcome(w) \/ RetireWorker(w)
      PROVE  UNCHANGED <<taskState, iteration, defect>>
  BY <1>3 DEF ReadTask, ReportOutcome, RetireWorker
<1>4. ASSUME NEW w \in Workers, MonitorStep(w) PROVE UNCHANGED <<taskState, iteration, defect>>
  BY <1>4 DEF MonitorStep, MonitorMark, MonitorSignal, MonitorReap
<1>5. CASE MonitorScan \/ UNCHANGED vars
  BY <1>5 DEF MonitorScan, vars
<1>6. ASSUME UNCHANGED <<taskState, iteration, defect>>
      PROVE  UNCHANGED <<iteration, defect>>
              /\ \A t \in Tasks : taskState'[t] \in {taskState[t], "done", "failed"}
  BY <1>6
<1>7. QED BY <1>1, <1>2, <1>3, <1>4, <1>5, <1>6 DEF ToolStep

-----------------------------------------------------------------------------
(* The sessions of a task against its openings.  A session registered, one  *)
(* a tick has started, and the chance a tick has to start one more, each    *)
(* count as one: with n ticks an opening is good for n of them.             *)

Open(t) == IF taskState[t] \in {"pending", "ready"} THEN 1 ELSE 0

\* The tick has started the task and not yet registered its worker.
HeldBy(k, t) ==
  IF tick[k].pc \in {"spawning", "registering"} /\ tick[k].task = t THEN 1 ELSE 0

\* The tick has read the task as ready and not yet started it.
ChosenBy(k, t) ==
  \/ tick[k].pc = "choosing" /\ t \in tick[k].ready
  \/ tick[k].pc \in {"issuing", "marking"} /\ tick[k].task = t

\* The sessions the tick may still register for the task before it is next
\* re-opened: any tick may start one while the task is open, and one that has
\* chosen it even when it no longer is.
Claim(k, t) == HeldBy(k, t) + (IF Open(t) = 1 \/ ChosenBy(k, t) THEN 1 ELSE 0)

Claims(t) == [k \in Ticks |-> Claim(k, t)]

\* Each opening is good for a session of every tick.
OpeningOf(t) ==
  Cardinality(SessionsOf(t)) + SumOver(Claims(t), Ticks)
    <= Cardinality(Ticks) * (1 + iteration[t])

\* The count a run of the hook has read is the count that stands.
CountsRead ==
  \A d \in Defects : defect[d] # NoReport => defect[d].count = iteration[defect[d].task]

OpeningInv == CountsRead /\ \A t \in Tasks : OpeningOf(t)

LEMMA ClaimType ==
  ASSUME NEW k, NEW t
  PROVE  /\ Claim(k, t) \in Nat /\ Claim(k, t)' \in Nat
         /\ {Open(t), Open(t)', HeldBy(k, t), HeldBy(k, t)'} \subseteq {0, 1}
  BY DEF Claim, HeldBy, Open

LEMMA ClaimsInt ==
  ASSUME NEW t, IsFiniteSet(Ticks)
  PROVE  /\ \A k \in Ticks : /\ Claims(t)[k] = Claim(k, t) /\ Claims(t)[k] \in Int
                             /\ Claims(t)'[k] = Claim(k, t)' /\ Claims(t)'[k] \in Int
         /\ SumOver(Claims(t), Ticks) \in Nat /\ SumOver(Claims(t)', Ticks) \in Nat
<1>1. \A k \in Ticks : /\ Claims(t)[k] = Claim(k, t) /\ Claims(t)[k] \in Nat
                       /\ Claims(t)'[k] = Claim(k, t)' /\ Claims(t)'[k] \in Nat
  BY ClaimType DEF Claims
<1>2. SumOver(Claims(t), Ticks) \in Nat
  BY <1>1, SumOverNat
<1>3. SumOver(Claims(t)', Ticks) \in Nat
  BY <1>1, SumOverNat
<1>4. QED BY <1>1, <1>2, <1>3

LEMMA OpeningInit == ASSUME IsFiniteSet(Ticks) PROVE Init => OpeningInv
<1> SUFFICES ASSUME Init PROVE OpeningInv
  OBVIOUS
<1>1. CountsRead
  BY DEF Init, CountsRead
<1> SUFFICES ASSUME NEW t \in Tasks PROVE OpeningOf(t)
  BY <1>1 DEF OpeningInv
<1>2. Cardinality(SessionsOf(t)) = 0
  <2>1. SessionsOf(t) = {}
    BY DEF Init, SessionsOf
  <2>2. QED BY <2>1, FS_EmptySet
<1>3. \A k \in Ticks : Claims(t)[k] \in Int /\ Claims(t)[k] <= 1
  BY ClaimsInt DEF Init, IdleTick, Claims, Claim, HeldBy, ChosenBy
<1>4. SumOver(Claims(t), Ticks) <= Cardinality(Ticks) * 1
  BY <1>3, SumOverAtMost
<1>5. Cardinality(Ticks) \in Nat /\ SumOver(Claims(t), Ticks) \in Nat /\ iteration[t] = 0
  BY FS_CardinalityType, ClaimsInt DEF Init
<1>6. QED BY <1>2, <1>4, <1>5 DEF OpeningOf

\* Nothing that leaves the sessions and the count alone and lays no new claim
\* disturbs an opening; a re-opening lays one for each tick, and counts itself.
LEMMA OpeningKept ==
  ASSUME IsFiniteSet(Ticks), TInv, NEW t \in Tasks, OpeningOf(t),
         SessionsOf(t)' = SessionsOf(t), iteration'[t] = iteration[t],
         \A k \in Ticks : Claim(k, t)' <= Claim(k, t)
  PROVE  OpeningOf(t)'
<1>1. \A k \in Ticks : /\ Claims(t)[k] \in Int /\ Claims(t)'[k] \in Int
                       /\ Claims(t)'[k] <= Claims(t)[k] + 0
  BY ClaimsInt
<1>2. SumOver(Claims(t)', Ticks) <= SumOver(Claims(t), Ticks) + Cardinality(Ticks) * 0
  BY <1>1, SumOverRaised
<1>3. /\ Cardinality(Ticks) \in Nat /\ Cardinality(SessionsOf(t)) \in Nat
      /\ SumOver(Claims(t), Ticks) \in Nat /\ SumOver(Claims(t)', Ticks) \in Nat
  BY FS_CardinalityType, SessionsFinite, ClaimsInt
<1>4. SumOver(Claims(t)', Ticks) <= SumOver(Claims(t), Ticks)
  BY <1>2, <1>3
<1>5. iteration[t] \in Nat /\ Cardinality(Ticks) * (1 + iteration[t]) \in Nat
  BY <1>3, ConstantsAssumption DEF TInv, TypeOK
<1>6. QED BY <1>3, <1>4, <1>5 DEF OpeningOf

LEMMA OpeningRaised ==
  ASSUME IsFiniteSet(Ticks), TInv, NEW t \in Tasks, OpeningOf(t),
         SessionsOf(t)' = SessionsOf(t), iteration'[t] = iteration[t] + 1,
         \A k \in Ticks : Claim(k, t)' <= Claim(k, t) + 1
  PROVE  OpeningOf(t)'
<1>1. \A k \in Ticks : /\ Claims(t)[k] \in Int /\ Claims(t)'[k] \in Int
                       /\ Claims(t)'[k] <= Claims(t)[k] + 1
  BY ClaimsInt
<1>2. SumOver(Claims(t)', Ticks) <= SumOver(Claims(t), Ticks) + Cardinality(Ticks) * 1
  BY <1>1, SumOverRaised
<1>3. /\ Cardinality(Ticks) \in Nat /\ Cardinality(SessionsOf(t)) \in Nat
      /\ SumOver(Claims(t), Ticks) \in Nat /\ SumOver(Claims(t)', Ticks) \in Nat
  BY FS_CardinalityType, SessionsFinite, ClaimsInt
<1>4. iteration[t] \in Nat
  BY ConstantsAssumption DEF TInv, TypeOK
<1>5. Cardinality(Ticks) * (1 + (iteration[t] + 1))
        = Cardinality(Ticks) * (1 + iteration[t]) + Cardinality(Ticks)
  BY <1>3, <1>4
<1>6. Cardinality(Ticks) * (1 + iteration[t]) \in Nat
  BY <1>3, <1>4
<1>7. QED BY <1>2, <1>3, <1>5, <1>6 DEF OpeningOf

\* A claim that is spent pays for the session it is spent on.
LEMMA ClaimSpent ==
  ASSUME IsFiniteSet(Ticks), TInv, NEW t \in Tasks, OpeningOf(t),
         Cardinality(SessionsOf(t)') <= Cardinality(SessionsOf(t)) + 1,
         iteration'[t] = iteration[t],
         NEW k \in Ticks, Claim(k, t)' = Claim(k, t) - 1,
         \A j \in Ticks \ {k} : Claim(j, t)' = Claim(j, t)
  PROVE  OpeningOf(t)'
<1>1. /\ \A j \in Ticks : Claims(t)[j] \in Int /\ Claims(t)'[j] \in Int
      /\ \A j \in Ticks \ {k} : Claims(t)'[j] = Claims(t)[j]
  BY ClaimsInt
<1>2. SumOver(Claims(t)', Ticks)
        = SumOver(Claims(t), Ticks) + (Claims(t)'[k] - Claims(t)[k])
  BY <1>1, SumOverChanged
<1>3. Claims(t)'[k] - Claims(t)[k] = -1
  BY ClaimsInt
<1>4. /\ Cardinality(Ticks) \in Nat /\ Cardinality(SessionsOf(t)) \in Nat
      /\ Cardinality(SessionsOf(t)') \in Nat
      /\ SumOver(Claims(t), Ticks) \in Nat /\ SumOver(Claims(t)', Ticks) \in Nat
  BY FS_CardinalityType, SessionsFinite, ClaimsInt
<1>5. iteration[t] \in Nat /\ Cardinality(Ticks) * (1 + iteration[t]) \in Nat
  BY <1>4, ConstantsAssumption DEF TInv, TypeOK
<1>6. QED BY <1>2, <1>3, <1>4, <1>5 DEF OpeningOf

\* The defect hook re-opens a task with a count one higher, if no other run of
\* it has been there in between.
LEMMA DefectStepKeepsOpenings ==
  ASSUME IsFiniteSet(Ticks), NEW theDefect, Defects = {theDefect},
         TInv, RowsInv, OpeningInv, DefectStep(theDefect)
  PROVE  OpeningInv'
<1> DEFINE d == theDefect
<1>0. /\ taskState \in [Tasks -> TaskStates] /\ iteration \in [Tasks -> 0..IterationLimit]
      /\ defect \in [Defects -> DefectType] /\ d \in Defects /\ IterationLimit \in Nat
  BY ConstantsAssumption DEF TInv, TypeOK
<1>1. \A t \in Tasks : SessionsOf(t)' = SessionsOf(t)
  BY OtherStepsKeepSessions, SessionsSame
<1>2. UNCHANGED tick
  BY DEF DefectStep, ReadDefectTask, ReopenTask, AbortDefect
<1>3. \A t \in Tasks, k \in Ticks : HeldBy(k, t)' = HeldBy(k, t) /\ (ChosenBy(k, t)' <=> ChosenBy(k, t))
  BY <1>2 DEF HeldBy, ChosenBy
<1>4. ASSUME UNCHANGED <<taskState, iteration>> PROVE \A t \in Tasks : OpeningOf(t)'
  <2>1. \A t \in Tasks : Open(t)' = Open(t) /\ iteration'[t] = iteration[t]
    BY <1>4 DEF Open
  <2>2. \A t \in Tasks, k \in Ticks : Claim(k, t)' <= Claim(k, t)
    BY <1>3, <2>1, ClaimType DEF Claim
  <2>3. QED BY <1>1, <2>1, <2>2, OpeningKept DEF OpeningInv
<1>5. ASSUME NEW t \in Tasks, ReadDefectTask(d, t) PROVE OpeningInv'
  <2>1. defect'[d] = [task |-> t, count |-> iteration[t]] /\ UNCHANGED <<taskState, iteration>>
    BY <1>0, <1>5 DEF ReadDefectTask, tables
  <2>2. CountsRead'
    BY <2>1 DEF CountsRead
  <2>3. QED BY <1>4, <2>1, <2>2 DEF OpeningInv
<1>6. CASE AbortDefect(d)
  <2>1. defect'[d] = NoReport /\ UNCHANGED <<taskState, iteration>>
    BY <1>0, <1>6 DEF AbortDefect, tables
  <2>2. CountsRead'
    BY <2>1 DEF CountsRead
  <2>3. QED BY <1>4, <2>1, <2>2 DEF OpeningInv
<1>7. CASE ReopenTask(d)
  <2>1. PICK u \in Tasks : u = defect[d].task /\ defect[d].count = iteration[u]
    BY <1>0, <1>7 DEF ReopenTask, OpeningInv, CountsRead, DefectType
  <2>2. /\ defect'[d] = NoReport
        /\ taskState' = [taskState EXCEPT ![u] = "ready"]
        /\ iteration' = [iteration EXCEPT ![u] = iteration[u] + 1]
    BY <1>0, <1>7, <2>1 DEF ReopenTask
  <2>3. CountsRead'
    BY <2>2 DEF CountsRead
  <2>4. ASSUME NEW t \in Tasks \ {u} PROVE OpeningOf(t)'
    <3>1. iteration'[t] = iteration[t] /\ Open(t)' = Open(t)
      BY <1>0, <2>2 DEF Open
    <3>2. \A k \in Ticks : Claim(k, t)' <= Claim(k, t)
      BY <1>3, <3>1, ClaimType DEF Claim
    <3>3. QED BY <1>1, <3>1, <3>2, OpeningKept DEF OpeningInv
  <2>5. OpeningOf(u)'
    <3>1. iteration'[u] = iteration[u] + 1
      BY <1>0, <2>2
    <3>2. \A k \in Ticks : Claim(k, u)' <= Claim(k, u) + 1
      BY <1>3, <2>1, ClaimType DEF Claim
    <3>3. QED BY <1>1, <2>1, <3>1, <3>2, OpeningRaised DEF OpeningInv
  <2>6. QED BY <2>3, <2>4, <2>5 DEF OpeningInv
<1>8. QED BY <1>5, <1>6, <1>7 DEF DefectStep

\* A tick chooses open tasks, starts the one it has chosen and registers a
\* session for the one it has started.
LEMMA TickStepKeepsOpenings ==
  ASSUME IsFiniteSet(Ticks), TInv, RowsInv, OpeningInv, NEW k \in Ticks,
         TickStep(k) \/ AbortTick(k)
  PROVE  OpeningInv'
<1>0. /\ taskState \in [Tasks -> TaskStates] /\ iteration \in [Tasks -> 0..IterationLimit]
      /\ tick \in [Ticks -> TickType] /\ tick[k] \in TickType
      /\ IterationLimit \in Nat /\ row \in [Workers -> RowStatuses]
  BY ConstantsAssumption DEF TInv, TypeOK
<1>1. UNCHANGED <<iteration, defect>>
  BY DEF TickStep, TickBegin, TickCount, LoadSprint, ChooseTask, IssueCapability,
         MarkInProgress, StartProcess, RegisterWorker, TrackWorker, AbortTick, tables
<1>2. CountsRead'
  BY <1>1 DEF OpeningInv, CountsRead
<1> SUFFICES ASSUME NEW t \in Tasks PROVE OpeningOf(t)'
  BY <1>2 DEF OpeningInv
<1>3. \A j \in Ticks \ {k} : HeldBy(j, t)' = HeldBy(j, t) /\ (ChosenBy(j, t)' <=> ChosenBy(j, t))
  BY OtherTicksStay DEF HeldBy, ChosenBy
<1>4. OpeningOf(t) /\ iteration[t] \in Nat /\ Cardinality(SessionsOf(t)) \in Nat
  BY <1>0, SessionsFinite DEF OpeningInv
<1>5. ASSUME UNCHANGED row PROVE SessionsOf(t)' = SessionsOf(t)
  BY <1>5, TickStepsKeepSessions, SessionsSame
<1>6. ASSUME Open(t)' = 1 => Open(t) = 1 PROVE \A j \in Ticks \ {k} : Claim(j, t)' <= Claim(j, t)
  BY <1>3, <1>6, ClaimType DEF Claim
<1>7. ASSUME UNCHANGED row, Open(t)' = 1 => Open(t) = 1, Claim(k, t)' <= Claim(k, t)
      PROVE  OpeningOf(t)'
  <2>1. \A j \in Ticks : Claim(j, t)' <= Claim(j, t)
    BY <1>6, <1>7
  <2>2. QED BY <1>1, <1>4, <1>5, <1>7, <2>1, OpeningKept
<1>8. ASSUME UNCHANGED <<row, taskState>>, HeldBy(k, t)' = 1 => HeldBy(k, t) = 1,
             ChosenBy(k, t)' => ChosenBy(k, t) \/ Open(t) = 1
      PROVE  OpeningOf(t)'
  <2>1. Open(t)' = Open(t)
    BY <1>8 DEF Open
  <2>2. Claim(k, t)' <= Claim(k, t)
    BY <1>8, <2>1, ClaimType DEF Claim
  <2>3. QED BY <1>7, <1>8, <2>1, <2>2
<1>9. ASSUME UNCHANGED <<row, taskState>>, tick'[k].pc \in {"idle", "counting", "picking", "announcing"}
      PROVE  OpeningOf(t)'
  <2>1. HeldBy(k, t)' = 0 /\ ~ChosenBy(k, t)'
    BY <1>9 DEF HeldBy, ChosenBy
  <2>2. QED BY <1>8, <1>9, <2>1
<1>10. CASE TickBegin(k) \/ TickCount(k) \/ TrackWorker(k) \/ AbortTick(k)
  <2>1. \A n : NextPick(n).pc \in {"idle", "picking"}
    BY DEF NextPick, Picking, IdleTick
  <2>2. tick'[k].pc \in {"idle", "counting", "picking"}
    BY <1>0, <1>10, <2>1, IdleTickType DEF TickBegin, TickCount, TrackWorker, AbortTick, TickType
  <2>3. UNCHANGED <<row, taskState>>
    BY <1>10 DEF TickBegin, TickCount, TrackWorker, AbortTick, tables
  <2>4. QED BY <1>9, <2>2, <2>3
<1>11. ASSUME NEW s \in Sprints, LoadSprint(k, s) PROVE OpeningOf(t)'
  <2>1. /\ tick'[k].pc = "choosing" /\ UNCHANGED <<row, taskState>>
        /\ tick'[k].ready = ComputeReadySet(SprintRows(s), taskState, Edges)
    BY <1>0, <1>11 DEF LoadSprint, TickType, tables
  <2>2. ChosenBy(k, t)' => Open(t) = 1
    BY <2>1 DEF ChosenBy, ComputeReadySet, Open
  <2>3. HeldBy(k, t)' = 0
    BY <2>1 DEF HeldBy
  <2>4. QED BY <1>8, <2>1, <2>2, <2>3
<1>12. CASE ChooseTask(k)
  <2>1. UNCHANGED <<row, taskState>> /\ tick[k].pc = "choosing"
    BY <1>12 DEF ChooseTask, tables
  <2>2. \/ tick'[k].pc = "issuing" /\ tick'[k].task \in tick[k].ready
        \/ tick'[k].pc \in {"picking", "idle"}
    BY <1>0, <1>12, IdleTickType DEF ChooseTask, TickType, Feasible
  <2>3. HeldBy(k, t)' = 0 /\ (ChosenBy(k, t)' => ChosenBy(k, t))
    BY <2>1, <2>2 DEF HeldBy, ChosenBy
  <2>4. QED BY <1>8, <2>1, <2>3
<1>13. ASSUME NEW w \in Workers, IssueCapability(k, w) PROVE OpeningOf(t)'
  <2>1. /\ UNCHANGED <<row, taskState>> /\ tick[k].pc = "issuing"
        /\ tick'[k].pc = "marking" /\ tick'[k].task = tick[k].task
    BY <1>0, <1>13 DEF IssueCapability, TickType
  <2>2. HeldBy(k, t)' = 0 /\ (ChosenBy(k, t)' => ChosenBy(k, t))
    BY <2>1 DEF HeldBy, ChosenBy
  <2>3. QED BY <1>8, <2>1, <2>2
<1>14. CASE MarkInProgress(k)
  <2>1. /\ tick[k].pc = "marking" /\ tick'[k].pc = "spawning" /\ tick'[k].task = tick[k].task
        /\ UNCHANGED row
        /\ taskState' = [taskState EXCEPT ![tick[k].task] = "in_progress"]
    BY <1>0, <1>14 DEF MarkInProgress, TickType
  <2>2. Open(t)' = 1 => Open(t) = 1
    BY <1>0, <2>1 DEF Open
  <2>3. ~ChosenBy(k, t)' /\ HeldBy(k, t) = 0
    BY <2>1 DEF ChosenBy, HeldBy
  <2>4. CASE t = tick[k].task
    <3>1. Open(t)' = 0 /\ ChosenBy(k, t)
      BY <1>0, <2>1, <2>4 DEF Open, ChosenBy
    <3>2. Claim(k, t)' <= Claim(k, t)
      BY <2>3, <3>1, ClaimType DEF Claim
    <3>3. QED BY <1>7, <2>1, <2>2, <3>2
  <2>5. CASE t # tick[k].task
    <3>1. HeldBy(k, t)' = 0
      BY <2>1, <2>5 DEF HeldBy
    <3>2. Claim(k, t)' <= Claim(k, t)
      BY <2>2, <2>3, <3>1, ClaimType DEF Claim
    <3>3. QED BY <1>7, <2>1, <2>2, <3>2
  <2>6. QED BY <2>4, <2>5
<1>15. CASE StartProcess(k)
  <2>1. /\ UNCHANGED <<row, taskState>> /\ tick[k].pc = "spawning"
        /\ tick'[k].pc = "registering" /\ tick'[k].task = tick[k].task
    BY <1>0, <1>15 DEF StartProcess, TickType, tables
  <2>2. HeldBy(k, t)' = HeldBy(k, t) /\ ~ChosenBy(k, t)'
    BY <2>1 DEF HeldBy, ChosenBy
  <2>3. QED BY <1>8, <2>1, <2>2
<1>16. CASE RegisterWorker(k)
  <2> DEFINE w == tick[k].worker
  <2>1. /\ tick[k].pc = "registering" /\ tick'[k].pc = "announcing"
        /\ row' = [row EXCEPT ![w] = "connecting"] /\ UNCHANGED <<taskState, boundTask>>
    BY <1>0, <1>16 DEF RegisterWorker, TickType
  <2>2. w \in Workers /\ boundTask[w] = tick[k].task
    BY <2>1 DEF TInv, TickHolds, RowsInv, TickSession, WorkerSteps
  <2>3. /\ Open(t)' = Open(t) /\ HeldBy(k, t)' = 0 /\ ~ChosenBy(k, t)' /\ ~ChosenBy(k, t)
        /\ iteration'[t] = iteration[t]
    BY <1>1, <2>1 DEF Open, HeldBy, ChosenBy
  <2>4. CASE t = tick[k].task
    <3>1. HeldBy(k, t) = 1
      BY <2>1, <2>4 DEF HeldBy
    <3>2. Claim(k, t)' = Claim(k, t) - 1
      BY <2>3, <3>1, ClaimType DEF Claim
    <3>3. \A j \in Ticks \ {k} : Claim(j, t)' = Claim(j, t)
      BY <1>3, <2>3 DEF Claim
    <3>4. SessionsOf(t)' \in SUBSET (SessionsOf(t) \cup {w})
      BY <1>0, <2>1 DEF SessionsOf
    <3>5. /\ IsFiniteSet(SessionsOf(t) \cup {w})
          /\ Cardinality(SessionsOf(t) \cup {w}) \in Nat
          /\ Cardinality(SessionsOf(t) \cup {w}) <= Cardinality(SessionsOf(t)) + 1
      BY SessionsFinite, AddOne
    <3>6. Cardinality(SessionsOf(t)') <= Cardinality(SessionsOf(t)) + 1
            /\ Cardinality(SessionsOf(t)') \in Nat
      BY <3>4, <3>5, <1>4, SessionsFinite, FS_Subset
    <3>7. QED BY <1>4, <2>3, <3>2, <3>3, <3>6, ClaimSpent
  <2>5. CASE t # tick[k].task
    <3>1. SessionsOf(t)' = SessionsOf(t)
      BY <1>0, <2>1, <2>2, <2>5 DEF SessionsOf
    <3>2. Claim(k, t)' <= Claim(k, t)
      BY <2>3, ClaimType DEF Claim
    <3>3. \A j \in Ticks : Claim(j, t)' <= Claim(j, t)
      BY <1>6, <2>3, <3>2
    <3>4. QED BY <1>4, <2>3, <3>1, <3>3, OpeningKept
  <2>6. QED BY <2>4, <2>5
<1>17. QED BY <1>10, <1>11, <1>12, <1>13, <1>14, <1>15, <1>16 DEF TickStep

LEMMA OpeningNext ==
  ASSUME IsFiniteSet(Ticks), NEW theDefect, Defects = {theDefect}
  PROVE  TInv /\ RowsInv /\ OpeningInv /\ [Next]_vars => OpeningInv'
<1> SUFFICES ASSUME TInv, RowsInv, OpeningInv, [Next]_vars PROVE OpeningInv'
  OBVIOUS
<1>1. ASSUME NEW k \in Ticks, TickStep(k) \/ AbortTick(k) PROVE OpeningInv'
  BY <1>1, TickStepKeepsOpenings
<1>2. ASSUME NEW d \in Defects, DefectStep(d) PROVE OpeningInv'
  BY <1>2, DefectStepKeepsOpenings
<1>3. CASE \/ \E w \in Workers : WorkerStep(w) \/ ToolStep(w) \/ MonitorStep(w)
           \/ MonitorScan
           \/ UNCHANGED vars
  <2>1. CASE \E d \in Defects : DefectStep(d)
    BY <1>2, <2>1
  <2>2. CASE ~\E d \in Defects : DefectStep(d)
    <3>1. UNCHANGED <<iteration, defect>>
            /\ \A t \in Tasks : taskState'[t] \in {taskState[t], "done", "failed"}
      BY <1>3, <2>2, OtherStepsTasks
    <3>2. UNCHANGED tick /\ \A t \in Tasks : SessionsOf(t)' = SessionsOf(t)
      BY <1>3, OtherStepsShrink, OtherStepsKeepSessions, SessionsSame
    <3>3. CountsRead'
      BY <3>1 DEF OpeningInv, CountsRead
    <3>4. ASSUME NEW t \in Tasks PROVE OpeningOf(t)'
      <4>1. /\ Open(t)' = 1 => Open(t) = 1
            /\ iteration'[t] = iteration[t]
        BY <3>1 DEF Open
      <4>2. \A k \in Ticks : HeldBy(k, t)' = HeldBy(k, t) /\ (ChosenBy(k, t)' <=> ChosenBy(k, t))
        BY <3>2 DEF HeldBy, ChosenBy
      <4>3. \A k \in Ticks : Claim(k, t)' <= Claim(k, t)
        BY <4>1, <4>2, ClaimType DEF Claim
      <4>4. QED BY <3>2, <4>1, <4>3, OpeningKept DEF OpeningInv
    <3>5. QED BY <3>3, <3>4 DEF OpeningInv
  <2>3. QED BY <2>1, <2>2
<1>4. QED BY <1>1, <1>2, <1>3 DEF Next

LEMMA OpeningsWithin ==
  ASSUME IsFiniteSet(Ticks)
  PROVE  TInv /\ OpeningInv => DispatchedOncePerTick
<1> SUFFICES ASSUME TInv, OpeningInv, NEW t \in Tasks
             PROVE  Cardinality(SessionsOf(t)) <= Cardinality(Ticks) * (1 + iteration[t])
  BY DEF DispatchedOncePerTick
<1>1. /\ Cardinality(Ticks) \in Nat /\ iteration[t] \in Nat /\ Cardinality(SessionsOf(t)) \in Nat
      /\ SumOver(Claims(t), Ticks) \in Nat
  BY FS_CardinalityType, SessionsFinite, ClaimsInt, ConstantsAssumption DEF TInv, TypeOK
<1>2. Cardinality(Ticks) * (1 + iteration[t]) \in Nat /\ OpeningOf(t)
  BY <1>1 DEF OpeningInv
<1>3. QED BY <1>1, <1>2 DEF OpeningOf

\* If no two runs of the defect hook overlap, a task is handed to no more
\* sessions than there are ticks for each time it is opened
\* (DispatchedOncePerTick), whatever the ticks read behind each other's backs
\* and whatever fails, dies or answers late.
THEOREM OverlappingTicksDispatchOnceEach ==
  ASSUME IsFiniteSet(Ticks), NEW theDefect, Defects = {theDefect}
  PROVE  Spec => []DispatchedOncePerTick
<1>1. TInv /\ OpeningInv => DispatchedOncePerTick
  BY OpeningsWithin
<1>2. Init => TInv /\ RowsInv /\ OpeningInv
  BY InitType, RowsInit, OpeningInit
<1>3. TInv /\ RowsInv /\ OpeningInv /\ [Next]_vars => TInv' /\ RowsInv' /\ OpeningInv'
  BY NextType, RowsNext, OpeningNext
<1>4. QED BY <1>1, <1>2, <1>3, PTL DEF Spec

LEMMA OneTickOpenings ==
  ASSUME NEW theTick, Ticks = {theTick}
  PROVE  TInv /\ DispatchedOncePerTick => DispatchedOncePerOpening
<1> SUFFICES ASSUME TInv, DispatchedOncePerTick, NEW t \in Tasks
             PROVE  Cardinality(SessionsOf(t)) <= 1 + iteration[t]
  BY DEF DispatchedOncePerOpening
<1>1. iteration[t] \in Nat
  BY ConstantsAssumption DEF TInv, TypeOK
<1>2. Cardinality(Ticks) = 1
  BY FS_Singleton
<1>3. Cardinality(SessionsOf(t)) <= Cardinality(Ticks) * (1 + iteration[t])
  BY DEF DispatchedOncePerTick
<1>4. QED BY <1>1, <1>2, <1>3

\* If no two ticks overlap and no two runs of the defect hook do, a task is
\* handed to one session for each time it is opened, whatever fails, dies or
\* answers late (DispatchedOncePerOpening).
THEOREM SingleTickDispatchesOnce ==
  ASSUME NEW theTick, Ticks = {theTick}, NEW theDefect, Defects = {theDefect}
  PROVE  Spec => []DispatchedOncePerOpening
<1>1. Spec => []DispatchedOncePerTick
  BY OneTick, OverlappingTicksDispatchOnceEach
<1>2. Init => TInv
  BY InitType
<1>3. TInv /\ [Next]_vars => TInv'
  BY NextType
<1>4. TInv /\ DispatchedOncePerTick => DispatchedOncePerOpening
  BY OneTickOpenings
<1>5. QED BY <1>1, <1>2, <1>3, <1>4, PTL DEF Spec

-----------------------------------------------------------------------------
(* Writers of overlapping paths.  A tick that has chosen a task has seen no *)
(* conflicting task with a worker, and while it is the only one nobody else *)
(* starts a task or registers a worker.                                     *)

\* No task but t that conflicts with it is in progress with a worker.
FreeToWrite(t) ==
  \A u \in Tasks \ {t} : Conflict(t, u) /\ taskState[u] = "in_progress" => ~HasWorker(u)

WritersInv ==
  \A k \in Ticks :
    tick[k].pc \in {"issuing", "marking", "spawning", "registering"} => FreeToWrite(tick[k].task)

LEMMA ConflictSymmetric == \A t, u \in Tasks : Conflict(t, u) <=> Conflict(u, t)
  BY DEF Conflict

\* No task gets a worker but by a registration.
LEMMA WorkersShrink ==
  ASSUME RowsInv, Counted' \subseteq Counted, \A w \in Workers : SessionKept(w), NEW t
  PROVE  HasWorker(t)' => HasWorker(t)
<1> SUFFICES ASSUME NEW w \in Counted', boundTask'[w] = t PROVE HasWorker(t)
  BY DEF HasWorker, Counted
<1>1. w \in Counted /\ row[w] # "absent" /\ w \in Workers
  BY DEF Counted, AliveRows, AliveStatuses
<1>2. boundTask'[w] = boundTask[w]
  BY <1>1 DEF RowsInv, SessionKept
<1>3. QED BY <1>1, <1>2 DEF HasWorker, Counted

\* A step that gives no task a worker and starts none, but for a task that is
\* free to write.
LEMMA WritersKept ==
  ASSUME WritersDisjoint, NEW t \in Tasks, FreeToWrite(t),
         \A u \in Tasks \ {t} : /\ HasWorker(u)' => HasWorker(u)
                                /\ taskState'[u] = "in_progress" => taskState[u] = "in_progress"
  PROVE  WritersDisjoint' /\ FreeToWrite(t)'
<1>1. \A x, u \in Tasks : Conflict(x, u)' <=> Conflict(x, u)
  BY DEF Conflict
<1>2. FreeToWrite(t)'
  BY <1>1 DEF FreeToWrite
<1>3. ASSUME NEW x \in Tasks, NEW u \in Tasks, x # u, Conflict(x, u),
             taskState'[x] = "in_progress", taskState'[u] = "in_progress",
             HasWorker(x)', HasWorker(u)'
      PROVE  FALSE
  <2>1. CASE t \in {x, u}
    BY <1>3, <2>1, ConflictSymmetric DEF FreeToWrite
  <2>2. CASE t \notin {x, u}
    BY <1>3, <2>2 DEF WritersDisjoint
  <2>3. QED BY <2>1, <2>2
<1>4. QED BY <1>1, <1>2, <1>3 DEF WritersDisjoint

\* A step that gives no task a worker and starts none.
LEMMA WritersShrink ==
  ASSUME WritersDisjoint,
         \A u \in Tasks : /\ HasWorker(u)' => HasWorker(u)
                          /\ taskState'[u] = "in_progress" => taskState[u] = "in_progress"
  PROVE  WritersDisjoint' /\ \A t \in Tasks : FreeToWrite(t) => FreeToWrite(t)'
<1>1. \A x, u \in Tasks : Conflict(x, u)' <=> Conflict(x, u)
  BY DEF Conflict
<1>2. QED BY <1>1 DEF WritersDisjoint, FreeToWrite

LEMMA TickStepKeepsWriters ==
  ASSUME NEW theTick, Ticks = {theTick}, TInv, RowsInv, WritersDisjoint, WritersInv,
         TickStep(theTick) \/ AbortTick(theTick)
  PROVE  WritersDisjoint' /\ WritersInv'
<1> DEFINE k == theTick
<1>0. /\ taskState \in [Tasks -> TaskStates] /\ row \in [Workers -> RowStatuses]
      /\ tick \in [Ticks -> TickType] /\ k \in Ticks /\ tick[k] \in TickType
  BY DEF TInv, TypeOK
<1>1. WritersInv' <=>
        (tick'[k].pc \in {"issuing", "marking", "spawning", "registering"} => FreeToWrite(tick[k].task)')
  BY DEF WritersInv
<1>2. ASSUME UNCHANGED <<row, revived>> PROVE \A u \in Tasks : HasWorker(u)' => HasWorker(u)
  <2>1. Counted' \subseteq Counted
    BY <1>2 DEF Counted, AliveRows
  <2>2. QED BY <1>2, <2>1, TickStepsKeepSessions, WorkersShrink
<1>3. ASSUME UNCHANGED <<row, revived, taskState>>
      PROVE  WritersDisjoint' /\ \A t \in Tasks : FreeToWrite(t) => FreeToWrite(t)'
  BY <1>2, <1>3, WritersShrink
<1>4. ASSUME UNCHANGED <<row, revived, taskState>>,
             tick'[k].pc \notin {"issuing", "marking", "spawning", "registering"}
      PROVE  WritersDisjoint' /\ WritersInv'
  BY <1>1, <1>3, <1>4
<1>5. CASE TickBegin(k) \/ TickCount(k) \/ TrackWorker(k) \/ AbortTick(k)
  <2>1. \A n : NextPick(n).pc \in {"idle", "picking"}
    BY DEF NextPick, Picking, IdleTick
  <2>2. tick'[k].pc \in {"idle", "counting", "picking"}
    BY <1>0, <1>5, <2>1, IdleTickType DEF TickBegin, TickCount, TrackWorker, AbortTick, TickType
  <2>3. UNCHANGED <<row, revived, taskState>>
    BY <1>5 DEF TickBegin, TickCount, TrackWorker, AbortTick, tables
  <2>4. QED BY <1>4, <2>2, <2>3
<1>6. ASSUME NEW s \in Sprints, LoadSprint(k, s) PROVE WritersDisjoint' /\ WritersInv'
  <2>1. tick'[k].pc = "choosing" /\ UNCHANGED <<row, revived, taskState>>
    BY <1>0, <1>6 DEF LoadSprint, TickType, tables
  <2>2. QED BY <1>4, <2>1
<1>7. CASE ChooseTask(k)
  <2>1. UNCHANGED <<row, revived, taskState>>
    BY <1>7 DEF ChooseTask, tables
  <2>2. CASE \E t \in Feasible(tick[k].ready) : tick'[k].pc = "issuing" /\ tick'[k].task = t
    <3>1. PICK t \in Feasible(tick[k].ready) : tick'[k].pc = "issuing" /\ tick'[k].task = t
      BY <2>2
    <3>2. t \in Tasks /\ FreeToWrite(t)
      BY <1>0 DEF Feasible, BusyTasks, FreeToWrite, HasWorker, TickType
    <3>3. WritersDisjoint' /\ FreeToWrite(t)'
      BY <1>3, <2>1, <3>2
    <3>4. QED BY <3>1, <3>3 DEF WritersInv
  <2>3. CASE tick'[k].pc \in {"picking", "idle"}
    BY <1>4, <2>1, <2>3
  <2>4. QED BY <1>0, <1>7, <2>2, <2>3, IdleTickType DEF ChooseTask, TickType
<1>8. PICK t : t = tick[k].task
  OBVIOUS
<1>9. ASSUME tick[k].pc \in {"issuing", "marking", "spawning", "registering"}
      PROVE  t \in Tasks /\ FreeToWrite(t)
  BY <1>8, <1>9 DEF WritersInv, RowsInv, TickSession, WorkerSteps
<1>10. ASSUME tick'[k].task = t, FreeToWrite(t)' PROVE WritersInv'
  BY <1>10 DEF WritersInv
<1>11. ASSUME NEW w \in Workers, IssueCapability(k, w) PROVE WritersDisjoint' /\ WritersInv'
  <2>1. /\ UNCHANGED <<row, revived, taskState>> /\ tick[k].pc = "issuing"
        /\ tick'[k].task = tick[k].task
    BY <1>0, <1>11 DEF IssueCapability, TickType
  <2>2. QED BY <1>3, <1>8, <1>9, <1>10, <2>1
<1>12. CASE MarkInProgress(k)
  <2>1. /\ tick[k].pc = "marking" /\ tick'[k].task = tick[k].task
        /\ UNCHANGED <<row, revived>>
        /\ taskState' = [taskState EXCEPT ![t] = "in_progress"]
    BY <1>0, <1>8, <1>12 DEF MarkInProgress, TickType
  <2>2. \A u \in Tasks \ {t} : taskState'[u] = taskState[u]
    BY <1>0, <2>1
  <2>3. QED BY <1>2, <1>8, <1>9, <1>10, <2>1, <2>2, WritersKept
<1>13. CASE StartProcess(k)
  <2>1. /\ UNCHANGED <<row, revived, taskState>> /\ tick[k].pc = "spawning"
        /\ tick'[k].task = tick[k].task
    BY <1>0, <1>13 DEF StartProcess, TickType, tables
  <2>2. QED BY <1>3, <1>8, <1>9, <1>10, <2>1
<1>14. CASE RegisterWorker(k)
  <2>1. PICK w \in Workers : w = tick[k].worker /\ boundTask[w] = t
    BY <1>8, <1>14 DEF RegisterWorker, TInv, TickHolds, RowsInv, TickSession, WorkerSteps
  <2>2. /\ tick[k].pc = "registering" /\ tick'[k].task = tick[k].task
        /\ row' = [row EXCEPT ![w] = "connecting"]
        /\ UNCHANGED <<taskState, boundTask, revived>>
    BY <1>0, <1>14, <2>1 DEF RegisterWorker, TickType
  <2>3. \A u \in Tasks \ {t} : HasWorker(u)' => HasWorker(u)
    BY <1>0, <2>1, <2>2 DEF HasWorker, AliveRows
  <2>4. QED BY <1>8, <1>9, <1>10, <2>2, <2>3, WritersKept
<1>15. QED BY <1>5, <1>6, <1>7, <1>11, <1>12, <1>13, <1>14 DEF TickStep

LEMMA WritersNext ==
  ASSUME NEW theTick, Ticks = {theTick}
  PROVE  TInv /\ RowsInv /\ WritersDisjoint /\ WritersInv /\ [Next]_vars
           => WritersDisjoint' /\ WritersInv'
<1> SUFFICES ASSUME TInv, RowsInv, WritersDisjoint, WritersInv, [Next]_vars
             PROVE  WritersDisjoint' /\ WritersInv'
  OBVIOUS
<1>1. ASSUME NEW k \in Ticks, TickStep(k) \/ AbortTick(k) PROVE WritersDisjoint' /\ WritersInv'
  BY <1>1, TickStepKeepsWriters
<1>2. CASE \/ \E w \in Workers : WorkerStep(w) \/ ToolStep(w) \/ MonitorStep(w)
           \/ MonitorScan
           \/ \E d \in Defects : DefectStep(d)
           \/ UNCHANGED vars
  <2>1. UNCHANGED tick /\ \A u \in Tasks : HasWorker(u)' => HasWorker(u)
    BY <1>2, OtherStepsShrink, OtherStepsKeepSessions, WorkersShrink
  <2>2. \A u \in Tasks : taskState'[u] = "in_progress" => taskState[u] = "in_progress"
    <3>1. CASE \E d \in Defects : DefectStep(d)
      BY <3>1 DEF DefectStep, ReadDefectTask, ReopenTask, AbortDefect, tables, TInv, TypeOK
    <3>2. CASE ~\E d \in Defects : DefectStep(d)
      BY <1>2, <3>2, OtherStepsTasks
    <3>3. QED BY <3>1, <3>2
  <2>3. WritersDisjoint' /\ \A t \in Tasks : FreeToWrite(t) => FreeToWrite(t)'
    BY <2>1, <2>2, WritersShrink
  <2>4. \A k \in Ticks : tick[k].pc \in {"issuing", "marking", "spawning", "registering"}
          => tick[k].task \in Tasks
    BY DEF RowsInv, TickSession, WorkerSteps
  <2>5. ASSUME NEW k \in Ticks,
               tick'[k].pc \in {"issuing", "marking", "spawning", "registering"}
        PROVE  FreeToWrite(tick[k].task)'
    <3>1. PICK t \in Tasks : t = tick[k].task /\ t = tick'[k].task
      BY <2>1, <2>4, <2>5
    <3>2. FreeToWrite(t)'
      BY <2>1, <2>3, <2>5, <3>1 DEF WritersInv
    <3>3. QED BY <3>1, <3>2
  <2>6. QED BY <2>3, <2>5 DEF WritersInv
<1>3. QED BY <1>1, <1>2 DEF Next

LEMMA WritersInit == Init => WritersDisjoint /\ WritersInv
  BY DEF Init, WritersDisjoint, WritersInv, HasWorker, AliveRows, AliveStatuses, IdleTick

\* If no two ticks overlap, no two tasks in progress whose write paths overlap
\* both have a worker (WritersDisjoint): the busy paths a tick has read are good
\* until it has registered the worker it chose by them.
THEOREM SingleTickWritersDisjoint ==
  ASSUME NEW theTick, Ticks = {theTick}
  PROVE  Spec => []WritersDisjoint
<1>1. Init => TInv /\ RowsInv /\ WritersDisjoint /\ WritersInv
  BY InitType, RowsInit, WritersInit
<1>2. /\ TInv /\ RowsInv /\ WritersDisjoint /\ WritersInv /\ [Next]_vars
        => TInv' /\ RowsInv' /\ WritersDisjoint' /\ WritersInv'
  BY NextType, RowsNext, WritersNext
<1>3. QED BY <1>1, <1>2, PTL DEF Spec

-----------------------------------------------------------------------------
(* Fresh sessions.  Until it registers it, a tick's session is its own and  *)
(* has no row.                                                              *)

FreshInv ==
  /\ \A k \in Ticks :
       tick[k].pc \in {"marking", "spawning", "registering"} => row[tick[k].worker] = "absent"
  /\ \A j, k \in Ticks :
       j # k /\ tick[j].pc \in WorkerSteps /\ tick[k].pc \in WorkerSteps
         => tick[j].worker # tick[k].worker

LEMMA FreshInit == Init => FreshInv
  BY DEF Init, FreshInv, IdleTick, WorkerSteps

LEMMA FreshKept ==
  ASSUME TInv, FreshInv, UNCHANGED tick, \A w \in Workers : SessionKept(w)
  PROVE  FreshInv'
  BY DEF TInv, TickHolds, WorkerSteps, FreshInv, SessionKept

LEMMA FreshNext == TInv /\ RowsInv /\ FreshInv /\ [Next]_vars => FreshInv'
<1> SUFFICES ASSUME TInv, RowsInv, FreshInv, [Next]_vars PROVE FreshInv'
  OBVIOUS
<1>0. /\ row \in [Workers -> RowStatuses] /\ tick \in [Ticks -> TickType]
      /\ \A j \in Ticks : tick[j].pc \in WorkerSteps =>
           tick[j].worker \in Workers /\ cap[tick[j].worker] # "none"
  BY DEF TInv, TypeOK, TickHolds, RowsInv, TickSession
<1>1. ASSUME NEW k \in Ticks, TickStep(k) \/ AbortTick(k) PROVE FreshInv'
  <2>1. /\ \A j \in Ticks \ {k} : tick'[j] = tick[j]
        /\ tick'[k].pc \in WorkerSteps =>
             \/ tick'[k].worker \in Unused
             \/ tick[k].pc \in WorkerSteps /\ tick'[k].worker = tick[k].worker
    BY <1>1, TickStepMoves DEF WorkerSteps
  <2>2. \A j \in Ticks \ {k} :
          tick[j].pc \in WorkerSteps /\ tick'[k].pc \in WorkerSteps => tick[j].worker # tick'[k].worker
    BY <1>0, <2>1 DEF FreshInv, Unused
  <2>3. ASSUME NEW j \in Ticks \ {k}, tick[j].pc \in {"marking", "spawning", "registering"}
        PROVE  row'[tick[j].worker] = "absent"
    <3>1. row[tick[j].worker] = "absent" /\ tick[j].worker \in Workers
      BY <1>0, <2>3 DEF FreshInv, WorkerSteps
    <3>2. CASE UNCHANGED row
      BY <3>1, <3>2
    <3>3. CASE RegisterWorker(k)
      <4>1. tick[k].worker # tick[j].worker
        BY <2>3, <3>3 DEF RegisterWorker, FreshInv, WorkerSteps
      <4>2. QED BY <1>0, <3>1, <3>3, <4>1 DEF RegisterWorker
    <3>4. QED BY <1>1, <3>2, <3>3, TickStepMoves
  <2>4. ASSUME tick'[k].pc \in {"marking", "spawning", "registering"}
        PROVE  row'[tick'[k].worker] = "absent"
    <3>1. ~RegisterWorker(k)
      BY <1>0, <2>4 DEF RegisterWorker, TickType
    <3>2. UNCHANGED row
      BY <1>1, <3>1, TickStepMoves
    <3>3. CASE tick'[k].worker \in Unused
      BY <3>2, <3>3 DEF RowsInv, Unused
    <3>4. CASE tick[k].pc \in WorkerSteps /\ tick'[k].worker = tick[k].worker
      <4>1. tick[k].pc # "announcing"
        <5>1. ASSUME TrackWorker(k) \/ AbortTick(k) PROVE tick'[k].pc \in {"idle", "picking"}
          <6>1. \A n : NextPick(n).pc \in {"idle", "picking"}
            BY DEF NextPick, Picking, IdleTick
          <6>2. QED BY <1>0, <5>1, <6>1, IdleTickType DEF TrackWorker, AbortTick
        <5>2. QED BY <1>1, <2>4, <5>1
                  DEF TickStep, TickBegin, TickCount, LoadSprint, ChooseTask, IssueCapability,
                      MarkInProgress, StartProcess, RegisterWorker
      <4>2. QED BY <3>2, <3>4, <4>1 DEF FreshInv, WorkerSteps
    <3>5. QED BY <2>1, <2>4, <3>3, <3>4 DEF WorkerSteps
  <2>5. \A j \in Ticks :
          tick'[j].pc \in {"marking", "spawning", "registering"} => row'[tick'[j].worker] = "absent"
    BY <2>1, <2>3, <2>4
  <2>6. \A i, j \in Ticks :
          i # j /\ tick'[i].pc \in WorkerSteps /\ tick'[j].pc \in WorkerSteps
            => tick'[i].worker # tick'[j].worker
    BY <2>1, <2>2 DEF FreshInv
  <2>7. QED BY <2>5, <2>6 DEF FreshInv
<1>2. CASE \/ \E w \in Workers : WorkerStep(w) \/ ToolStep(w) \/ MonitorStep(w)
           \/ MonitorScan
           \/ \E d \in Defects : DefectStep(d)
           \/ UNCHANGED vars
  BY <1>2, OtherStepsShrink, OtherStepsKeepSessions, FreshKept
<1>3. QED BY <1>1, <1>2 DEF Next

-----------------------------------------------------------------------------
(* The transition table.  Where no task is re-opened, a task has one        *)
(* session with a process, which alone decides it; a tick starts it while   *)
(* it is open.                                                              *)

Undispatched(t) == taskState[t] \in {"pending", "ready"}

\* A process runs for a task that is no longer open, and no other does.
ProcessOf(w) ==
  /\ cap[w] # "none" /\ boundTask[w] \in Tasks /\ ~Undispatched(boundTask[w])
  /\ \A v \in Workers \ {w} : proc[v] # "none" => boundTask[v] # boundTask[w]

\* A tick that is about to start a process has started the task, which has none.
Starting(k) ==
  tick[k].pc = "spawning" =>
    /\ ~Undispatched(tick[k].task)
    /\ \A w \in Workers : proc[w] # "none" => boundTask[w] # tick[k].task

\* Some tick has read the task as ready and not yet started it.
Chosen(t) == \E k \in Ticks : ChosenBy(k, t)

LifecycleInv ==
  /\ \A w \in Workers : proc[w] # "none" => ProcessOf(w)
  /\ \A w \in Workers : tool[w] # "none" => proc[w] # "none"
  /\ \A w \in Workers : tool[w] \in {"completing", "failing"} =>
       taskState[boundTask[w]] \in {"in_progress", "in_review"}
  /\ \A t \in Tasks : Chosen(t) => Undispatched(t)
  /\ \A k \in Ticks : Starting(k)

LEMMA LifecycleInit == Init => LifecycleInv
  BY DEF Init, LifecycleInv, Starting, Chosen, ChosenBy, IdleTick

\* No run of the defect hook gets to re-open a task.
NoReopening == IterationLimit = 0 \/ Defects = {}

LEMMA NothingReopened ==
  ASSUME TInv, NoReopening, NEW d \in Defects, DefectStep(d)
  PROVE  UNCHANGED vars \/ UNCHANGED <<taskState, tool, proc>>
<1>1. defect[d] \in DefectType /\ IterationLimit = 0
  BY DEF TInv, TypeOK, NoReopening
<1>2. ~ReopenTask(d)
  BY <1>1 DEF ReopenTask, DefectType
<1>3. QED BY <1>2 DEF DefectStep, ReadDefectTask, AbortDefect, tables, procs

\* No process starts outside the ticks.
LEMMA OtherStepsProcs ==
  ASSUME TInv,
         \/ \E w \in Workers : WorkerStep(w) \/ ToolStep(w) \/ MonitorStep(w)
         \/ MonitorScan
         \/ \E d \in Defects : DefectStep(d)
         \/ UNCHANGED vars
  PROVE  \A v \in Workers : proc'[v] # "none" <=> proc[v] # "none"
<1>1. proc \in [Workers -> {"none", "started", "connected", "exited"}]
  BY DEF TInv, TypeOK
<1>2. ASSUME NEW w \in Workers, WorkerStep(w)
      PROVE  \A v \in Workers : proc'[v] # "none" <=> proc[v] # "none"
  BY <1>1, <1>2 DEF WorkerStep, Connect, Heartbeat, HeartbeatLapse, ProcessExit, AbortTool,
                    AbortMonitor, CallTool, Running, procs
<1>3. ASSUME NEW w \in Workers, ToolStep(w) PROVE UNCHANGED proc
  BY <1>3 DEF ToolStep, ReadTask, WriteTask, ReportOutcome, RetireWorker, procs
<1>4. ASSUME NEW w \in Workers, MonitorStep(w)
      PROVE  \A v \in Workers : proc'[v] # "none" <=> proc[v] # "none"
  BY <1>1, <1>4 DEF MonitorStep, MonitorMark, MonitorSignal, MonitorReap, StillAlive, Running
<1>5. CASE MonitorScan \/ (\E d \in Defects : DefectStep(d)) \/ UNCHANGED vars
  BY <1>5 DEF MonitorScan, DefectStep, ReadDefectTask, ReopenTask, AbortDefect, procs, vars
<1>6. QED BY <1>2, <1>3, <1>4, <1>5

Deciding == {"completing", "failing"}
Decidable(t) == taskState[t] \in {"in_progress", "in_review"}

\* What becomes of a session's tool call where no task is decided.
CallGoesOn(w) ==
  /\ tool'[w] # "none" => tool[w] # "none" \/ proc[w] # "none"
  /\ tool'[w] \in Deciding => tool[w] \in Deciding \/ Decidable(boundTask[w])

\* Outside the ticks a task is decided by its session's call, or left alone.
LEMMA OtherStepsCalls ==
  ASSUME TInv, LifecycleInv, NoReopening,
         \/ \E w \in Workers : WorkerStep(w) \/ ToolStep(w) \/ MonitorStep(w)
         \/ MonitorScan
         \/ \E d \in Defects : DefectStep(d)
         \/ UNCHANGED vars
  PROVE  \/ \E w \in Workers : WriteTask(w)
         \/ UNCHANGED taskState /\ \A w \in Workers : CallGoesOn(w)
<1>1. /\ tool \in [Workers -> ToolSteps] /\ taskState \in [Tasks -> TaskStates]
      /\ boundTask \in [Workers -> Tasks \cup {NoTask}]
  BY DEF TInv, TypeOK
<1>2. ASSUME UNCHANGED <<taskState, tool>>
      PROVE  UNCHANGED taskState /\ \A w \in Workers : CallGoesOn(w)
  BY <1>2 DEF CallGoesOn
<1>3. ASSUME NEW w \in Workers, WorkerStep(w)
      PROVE  UNCHANGED taskState /\ \A v \in Workers : CallGoesOn(v)
  <2>1. ASSUME NEW op \in Outcomes, CallTool(w, op)
        PROVE  UNCHANGED taskState /\ \A v \in Workers : CallGoesOn(v)
    <3>1. op \notin Deciding
      BY ConstantsAssumption DEF Deciding
    <3>2. QED BY <1>1, <2>1, <3>1 DEF CallTool, CallGoesOn, tables
  <2>2. CASE AbortTool(w)
    BY <1>1, <2>2 DEF AbortTool, CallGoesOn, tables, Deciding
  <2>3. CASE Connect(w) \/ HeartbeatLapse(w) \/ ProcessExit(w) \/ AbortMonitor(w)
               \/ \E s \in HeartbeatStatuses : Heartbeat(w, s)
    BY <1>2, <2>3 DEF Connect, HeartbeatLapse, ProcessExit, AbortMonitor, Heartbeat, tables,
          actors
  <2>4. QED BY <1>3, <2>1, <2>2, <2>3 DEF WorkerStep
<1>4. ASSUME NEW w \in Workers, ToolStep(w), ~WriteTask(w)
      PROVE  UNCHANGED taskState /\ \A v \in Workers : CallGoesOn(v)
  <2>1. CASE ReadTask(w)
    <3>1. /\ UNCHANGED taskState /\ tool[w] \in {"complete", "fail"}
          /\ \A v \in Workers \ {w} : tool'[v] = tool[v]
      BY <1>1, <2>1 DEF ReadTask, tables
    <3>2. tool'[w] \in Deciding => IsValidTaskTransition(taskState[boundTask[w]], "failed")
      BY <1>1, <2>1 DEF ReadTask, Deciding
    <3>3. taskState[boundTask[w]] \in TaskStates
      BY <1>1, <3>1 DEF LifecycleInv, ProcessOf
    <3>4. IsValidTaskTransition(taskState[boundTask[w]], "failed") => Decidable(boundTask[w])
      BY <3>3 DEF IsValidTaskTransition, ValidTransitions, TaskStates, Decidable
    <3>5. QED BY <3>1, <3>2, <3>4 DEF CallGoesOn
  <2>2. CASE ReportOutcome(w) \/ RetireWorker(w)
    BY <1>1, <2>2 DEF ReportOutcome, RetireWorker, CallGoesOn, Deciding
  <2>3. QED BY <1>4, <2>1, <2>2 DEF ToolStep
<1>5. ASSUME NEW w \in Workers, MonitorStep(w) PROVE UNCHANGED <<taskState, tool>>
  BY <1>5 DEF MonitorStep, MonitorMark, MonitorSignal, MonitorReap
<1>6. CASE MonitorScan \/ UNCHANGED vars
  BY <1>2, <1>6 DEF MonitorScan, tables, vars
<1>7. CASE \E d \in Defects : DefectStep(d)
  BY <1>2, <1>7, NothingReopened DEF vars
<1>8. QED BY <1>2, <1>3, <1>4, <1>5, <1>6, <1>7

LEMMA LifecycleKept ==
  ASSUME TInv, LifecycleInv, UNCHANGED <<tick, taskState>>, \A w \in Workers : SessionKept(w),
         \A w \in Workers : proc'[w] # "none" <=> proc[w] # "none",
         \A w \in Workers : CallGoesOn(w)
  PROVE  LifecycleInv'
<1>1. \A t : Undispatched(t)' = Undispatched(t) /\ Decidable(t)' = Decidable(t)
  BY DEF Undispatched, Decidable
<1>2. \A w \in Workers : proc[w] # "none" => /\ boundTask'[w] = boundTask[w]
                                              /\ cap'[w] # "none"
  BY DEF LifecycleInv, ProcessOf, SessionKept
<1>3. \A w \in Workers : proc'[w] # "none" => ProcessOf(w)'
  BY <1>1, <1>2 DEF LifecycleInv, ProcessOf
<1>4. \A w \in Workers : tool'[w] # "none" => proc'[w] # "none"
  BY DEF LifecycleInv, CallGoesOn
<1>5. \A w \in Workers : tool'[w] \in {"completing", "failing"} =>
        taskState'[boundTask'[w]] \in {"in_progress", "in_review"}
  BY <1>2, <1>4 DEF LifecycleInv, CallGoesOn, Deciding, Decidable
<1>6. \A t \in Tasks : Chosen(t)' => Undispatched(t)'
  BY <1>1 DEF LifecycleInv, Chosen, ChosenBy
<1>7. \A k \in Ticks : Starting(k)'
  BY <1>2 DEF LifecycleInv, Starting, Undispatched
<1>8. QED BY <1>3, <1>4, <1>5, <1>6, <1>7 DEF LifecycleInv

LEMMA WriteTaskLifecycle ==
  ASSUME TInv, RowsInv, LifecycleInv, NEW w \in Workers, WriteTask(w)
  PROVE  /\ LifecycleInv'
         /\ \A t \in Tasks : \/ taskState'[t] = taskState[t]
                             \/ Decidable(t) /\ taskState'[t] \in {"done", "failed"}
<1>0. /\ tool \in [Workers -> ToolSteps] /\ taskState \in [Tasks -> TaskStates]
  BY DEF TInv, TypeOK
<1>1. /\ UNCHANGED <<tick, proc, boundTask, cap>>
      /\ tool' = [tool EXCEPT ![w] = "report"] /\ tool[w] \in {"completing", "failing"}
      /\ taskState' = [taskState EXCEPT ![boundTask[w]] = ToolTarget(tool[w])]
      /\ ToolTarget(tool[w]) \in {"done", "failed"}
  BY DEF WriteTask, ToolTarget, procs
<1>2. /\ proc[w] # "none" /\ boundTask[w] \in Tasks /\ Decidable(boundTask[w])
      /\ ~Undispatched(boundTask[w])
  BY <1>1 DEF LifecycleInv, ProcessOf, Decidable
<1>3. \A t \in Tasks : \/ taskState'[t] = taskState[t]
                       \/ t = boundTask[w] /\ taskState'[t] \in {"done", "failed"}
  BY <1>0, <1>1
<1>4. \A t \in Tasks : ~Undispatched(t) => ~Undispatched(t)'
  BY <1>3 DEF Undispatched
<1>5. \A v \in Workers : proc'[v] # "none" => ProcessOf(v)'
  BY <1>1, <1>4 DEF LifecycleInv, ProcessOf
<1>6. \A v \in Workers : tool'[v] # "none" => proc'[v] # "none"
  BY <1>0, <1>1 DEF LifecycleInv
<1>7. ASSUME NEW v \in Workers, tool'[v] \in {"completing", "failing"}
      PROVE  taskState'[boundTask'[v]] \in {"in_progress", "in_review"}
  <2>1. v # w /\ tool[v] = tool'[v] /\ proc[v] # "none"
    BY <1>0, <1>1, <1>7 DEF LifecycleInv
  <2>2. boundTask[v] \in Tasks /\ boundTask[v] # boundTask[w]
    BY <1>2, <2>1 DEF LifecycleInv, ProcessOf
  <2>3. taskState[boundTask[v]] \in {"in_progress", "in_review"}
    BY <1>7, <2>1 DEF LifecycleInv
  <2>4. taskState'[boundTask[v]] = taskState[boundTask[v]]
    BY <1>3, <2>2
  <2>5. QED BY <1>1, <2>3, <2>4
<1>8. \A t \in Tasks : Chosen(t)' => Undispatched(t)'
  <2>1. \A t : Chosen(t)' = Chosen(t)
    BY <1>1 DEF Chosen, ChosenBy
  <2>2. \A t \in Tasks : Undispatched(t) => Undispatched(t)'
    BY <1>2, <1>3 DEF Undispatched
  <2>3. QED BY <2>1, <2>2 DEF LifecycleInv
<1>9. \A k \in Ticks : Starting(k)'
  <2>1. \A k \in Ticks : tick[k].pc = "spawning" => tick[k].task \in Tasks
    BY DEF RowsInv, TickSession, WorkerSteps
  <2>2. QED BY <1>1, <1>3, <2>1 DEF LifecycleInv, Starting, Undispatched
<1>10. LifecycleInv'
  BY <1>5, <1>6, <1>7, <1>8, <1>9 DEF LifecycleInv
<1>11. QED BY <1>2, <1>3, <1>10

\* The tick starts a task that is open, and a process for a task it has started.
LEMMA TickStepLifecycle ==
  ASSUME NEW theTick, Ticks = {theTick}, TInv, RowsInv, LifecycleInv,
         TickStep(theTick) \/ AbortTick(theTick)
  PROVE  /\ LifecycleInv'
         /\ \A t \in Tasks : \/ taskState'[t] = taskState[t]
                             \/ Undispatched(t) /\ taskState'[t] = "in_progress"
<1> DEFINE k == theTick
           Moves == \A t \in Tasks : \/ taskState'[t] = taskState[t]
                                     \/ Undispatched(t) /\ taskState'[t] = "in_progress"
<1>0. /\ taskState \in [Tasks -> TaskStates] /\ proc \in [Workers -> {"none", "started", "connected", "exited"}]
      /\ tick \in [Ticks -> TickType] /\ k \in Ticks /\ tick[k] \in TickType
      /\ boundTask \in [Workers -> Tasks \cup {NoTask}]
      /\ cap \in [Workers -> {"none", "issued", "revoked"}]
  BY DEF TInv, TypeOK
<1>1. UNCHANGED tool
  BY DEF TickStep, TickBegin, TickCount, LoadSprint, ChooseTask, IssueCapability,
         MarkInProgress, StartProcess, RegisterWorker, TrackWorker, AbortTick
<1>2. \A t : /\ Chosen(t) <=> \/ tick[k].pc = "choosing" /\ t \in tick[k].ready
                              \/ tick[k].pc \in {"issuing", "marking"} /\ tick[k].task = t
             /\ Chosen(t)' <=> \/ tick'[k].pc = "choosing" /\ t \in tick'[k].ready
                               \/ tick'[k].pc \in {"issuing", "marking"} /\ tick'[k].task = t
  BY DEF Chosen, ChosenBy
<1>3. ASSUME UNCHANGED <<taskState, proc, boundTask, cap>>, tick'[k].pc # "spawning",
             \A t \in Tasks : Chosen(t)' => Chosen(t) \/ Undispatched(t)
      PROVE  LifecycleInv' /\ Moves
  <2>1. \A w \in Workers : ProcessOf(w)' = ProcessOf(w)
    BY <1>3 DEF ProcessOf, Undispatched
  <2>2. \A t : Undispatched(t)' = Undispatched(t)
    BY <1>3 DEF Undispatched
  <2>3. \A j \in Ticks : Starting(j)'
    BY <1>3 DEF Starting
  <2>4. QED BY <1>1, <1>3, <2>1, <2>2, <2>3 DEF LifecycleInv
<1>4. ASSUME UNCHANGED <<taskState, proc, boundTask, cap>>,
             tick'[k].pc \in {"idle", "counting", "picking", "registering", "announcing"}
      PROVE  LifecycleInv' /\ Moves
  BY <1>2, <1>3, <1>4
<1>5. CASE TickBegin(k) \/ TickCount(k) \/ TrackWorker(k) \/ AbortTick(k)
  <2>1. \A n : NextPick(n).pc \in {"idle", "picking"}
    BY DEF NextPick, Picking, IdleTick
  <2>2. tick'[k].pc \in {"idle", "counting", "picking"}
    BY <1>0, <1>5, <2>1, IdleTickType DEF TickBegin, TickCount, TrackWorker, AbortTick, TickType
  <2>3. UNCHANGED <<taskState, proc, boundTask, cap>>
    BY <1>5 DEF TickBegin, TickCount, TrackWorker, AbortTick, tables, procs
  <2>4. QED BY <1>4, <2>2, <2>3
<1>6. ASSUME NEW s \in Sprints, LoadSprint(k, s) PROVE LifecycleInv' /\ Moves
  <2>1. /\ tick'[k].pc = "choosing" /\ UNCHANGED <<taskState, proc, boundTask, cap>>
        /\ tick'[k].ready = ComputeReadySet(SprintRows(s), taskState, Edges)
    BY <1>0, <1>6 DEF LoadSprint, TickType, tables, procs
  <2>2. \A t \in Tasks : Chosen(t)' => Undispatched(t)
    BY <1>2, <2>1 DEF ComputeReadySet, Undispatched
  <2>3. QED BY <1>3, <2>1, <2>2
<1>7. CASE ChooseTask(k)
  <2>1. UNCHANGED <<taskState, proc, boundTask, cap>> /\ tick[k].pc = "choosing"
    BY <1>7 DEF ChooseTask, tables, procs
  <2>2. \/ tick'[k].pc = "issuing" /\ tick'[k].task \in tick[k].ready
        \/ tick'[k].pc \in {"picking", "idle"}
    BY <1>0, <1>7, IdleTickType DEF ChooseTask, TickType, Feasible
  <2>3. QED BY <1>2, <1>3, <2>1, <2>2
<1>8. ASSUME NEW w \in Workers, IssueCapability(k, w) PROVE LifecycleInv' /\ Moves
  <2>1. /\ UNCHANGED <<taskState, proc>> /\ tick[k].pc = "issuing"
        /\ tick'[k].pc = "marking" /\ tick'[k].task = tick[k].task
        /\ cap' = [cap EXCEPT ![w] = "issued"]
        /\ boundTask' = [boundTask EXCEPT ![w] = tick[k].task]
        /\ cap[w] = "none"
    BY <1>0, <1>8 DEF IssueCapability, TickType, Unused
  <2>2. proc[w] = "none" /\ tool[w] = "none"
    BY <2>1 DEF LifecycleInv, ProcessOf
  <2>3. \A v \in Workers \ {w} : cap'[v] = cap[v] /\ boundTask'[v] = boundTask[v]
    BY <1>0, <2>1
  <2>4. \A v \in Workers : proc'[v] # "none" => ProcessOf(v)'
    BY <2>1, <2>2, <2>3 DEF LifecycleInv, ProcessOf, Undispatched
  <2>5. \A v \in Workers : tool'[v] # "none" => proc'[v] # "none"
    BY <1>1, <2>1 DEF LifecycleInv
  <2>6. \A v \in Workers : tool'[v] \in {"completing", "failing"} =>
          taskState'[boundTask'[v]] \in {"in_progress", "in_review"}
    BY <1>1, <2>1, <2>2, <2>3 DEF LifecycleInv
  <2>7. \A t \in Tasks : Chosen(t)' => Undispatched(t)'
    BY <1>2, <2>1 DEF LifecycleInv, Undispatched
  <2>8. \A j \in Ticks : Starting(j)'
    BY <2>1 DEF Starting
  <2>9. LifecycleInv'
    BY <2>4, <2>5, <2>6, <2>7, <2>8 DEF LifecycleInv
  <2>10. QED BY <2>1, <2>9
<1>9. CASE MarkInProgress(k)
  <2>1. PICK t \in Tasks : t = tick[k].task /\ Undispatched(t)
    BY <1>2, <1>9 DEF MarkInProgress, RowsInv, TickSession, WorkerSteps, LifecycleInv
  <2>2. /\ UNCHANGED <<proc, boundTask, cap>>
        /\ tick'[k].pc = "spawning" /\ tick'[k].task = t
        /\ taskState' = [taskState EXCEPT ![t] = "in_progress"]
    BY <1>0, <1>9, <2>1 DEF MarkInProgress, TickType, procs
  <2>3. taskState'[t] = "in_progress" /\ \A u \in Tasks \ {t} : taskState'[u] = taskState[u]
    BY <1>0, <2>2
  <2>4. \A w \in Workers : proc[w] # "none" => boundTask[w] \in Tasks \ {t}
    BY <2>1 DEF LifecycleInv, ProcessOf
  <2>5. \A w \in Workers : proc'[w] # "none" => ProcessOf(w)'
    BY <2>2, <2>3, <2>4 DEF LifecycleInv, ProcessOf, Undispatched
  <2>6. \A w \in Workers : tool'[w] # "none" => proc'[w] # "none"
    BY <1>1, <2>2 DEF LifecycleInv
  <2>7. \A w \in Workers : tool'[w] \in {"completing", "failing"} =>
          taskState'[boundTask'[w]] \in {"in_progress", "in_review"}
    BY <1>1, <2>2, <2>3, <2>4 DEF LifecycleInv
  <2>8. \A u \in Tasks : ~Chosen(u)'
    BY <1>2, <2>2
  <2>9. \A j \in Ticks : Starting(j)'
    BY <2>2, <2>3, <2>4 DEF Starting, Undispatched
  <2>10. LifecycleInv'
    BY <2>5, <2>6, <2>7, <2>8, <2>9 DEF LifecycleInv
  <2>11. QED BY <2>1, <2>3, <2>10
<1>10. CASE StartProcess(k)
  <2>1. PICK w \in Workers : /\ w = tick[k].worker /\ cap[w] # "none"
                             /\ boundTask[w] = tick[k].task /\ tick[k].task \in Tasks
    BY <1>10 DEF StartProcess, TInv, TickHolds, RowsInv, TickSession, WorkerSteps
  <2>2. /\ UNCHANGED <<taskState, boundTask, cap>> /\ tick'[k].pc = "registering"
        /\ tick[k].pc = "spawning" /\ proc' = [proc EXCEPT ![w] = "started"]
    BY <1>0, <1>10, <2>1 DEF StartProcess, TickType, tables
  <2>3. ~Undispatched(boundTask[w]) /\ \A v \in Workers : proc[v] # "none" => boundTask[v] # boundTask[w]
    BY <2>1, <2>2 DEF LifecycleInv, Starting
  <2>4. \A v \in Workers : proc'[v] # "none" => v = w \/ proc[v] # "none"
    BY <1>0, <2>2
  <2>5. \A v \in Workers : proc'[v] # "none" => ProcessOf(v)'
    BY <2>1, <2>2, <2>3, <2>4 DEF LifecycleInv, ProcessOf, Undispatched
  <2>6. \A v \in Workers : tool'[v] # "none" => proc'[v] # "none"
    BY <1>0, <1>1, <2>2 DEF LifecycleInv
  <2>7. \A v \in Workers : tool'[v] \in {"completing", "failing"} =>
          taskState'[boundTask'[v]] \in {"in_progress", "in_review"}
    BY <1>1, <2>2 DEF LifecycleInv
  <2>8. \A t \in Tasks : ~Chosen(t)'
    BY <1>2, <2>2
  <2>9. \A j \in Ticks : Starting(j)'
    BY <2>2 DEF Starting
  <2>10. LifecycleInv'
    BY <2>5, <2>6, <2>7, <2>8, <2>9 DEF LifecycleInv
  <2>11. QED BY <2>2, <2>10
<1>11. CASE RegisterWorker(k)
  <2>1. tick'[k].pc = "announcing" /\ UNCHANGED <<taskState, proc, boundTask, cap>>
    BY <1>0, <1>11 DEF RegisterWorker, TickType
  <2>2. QED BY <1>4, <2>1
<1>12. QED BY <1>5, <1>6, <1>7, <1>8, <1>9, <1>10, <1>11 DEF TickStep

\* What the table and its named exceptions allow one task in a step.
TaskMoves(t) ==
  \/ taskState'[t] = taskState[t]
  \/ Undispatched(t) /\ taskState'[t] = "in_progress"
  \/ Decidable(t) /\ taskState'[t] \in {"done", "failed"}

LEMMA LifecycleNext ==
  ASSUME NEW theTick, Ticks = {theTick}, NoReopening
  PROVE  TInv /\ RowsInv /\ LifecycleInv /\ [Next]_vars => LifecycleInv' /\ \A t \in Tasks : TaskMoves(t)
<1> SUFFICES ASSUME TInv, RowsInv, LifecycleInv, [Next]_vars
             PROVE  LifecycleInv' /\ \A t \in Tasks : TaskMoves(t)
  OBVIOUS
<1>1. ASSUME NEW k \in Ticks, TickStep(k) \/ AbortTick(k)
      PROVE  LifecycleInv' /\ \A t \in Tasks : TaskMoves(t)
  BY <1>1, TickStepLifecycle DEF TaskMoves
<1>2. ASSUME NEW w \in Workers, WriteTask(w) PROVE LifecycleInv' /\ \A t \in Tasks : TaskMoves(t)
  BY <1>2, WriteTaskLifecycle DEF TaskMoves
<1>3. CASE \/ \E w \in Workers : WorkerStep(w) \/ ToolStep(w) \/ MonitorStep(w)
           \/ MonitorScan
           \/ \E d \in Defects : DefectStep(d)
           \/ UNCHANGED vars
  <2>1. CASE UNCHANGED taskState /\ \A w \in Workers : CallGoesOn(w)
    <3>1. UNCHANGED tick /\ \A w \in Workers : SessionKept(w)
      BY <1>3, OtherStepsShrink, OtherStepsKeepSessions
    <3>2. \A w \in Workers : proc'[w] # "none" <=> proc[w] # "none"
      BY <1>3, OtherStepsProcs
    <3>3. LifecycleInv'
      BY <2>1, <3>1, <3>2, LifecycleKept
    <3>4. QED BY <2>1, <3>3 DEF TaskMoves
  <2>2. QED BY <1>2, <1>3, <2>1, OtherStepsCalls
<1>4. QED BY <1>1, <1>3 DEF Next

LEMMA MovesFollowTheTable ==
  ASSUME NEW t \in Tasks, taskState[t] \in TaskStates, TaskMoves(t)
  PROVE  \/ taskState'[t] = taskState[t]
         \/ iteration'[t] # iteration[t]
         \/ IsValidTaskTransition(taskState[t], taskState'[t])
         \/ <<taskState[t], taskState'[t]>> \in
              {<<"pending", "in_progress">>, <<"in_progress", "done">>}
  BY DEF TaskMoves, Undispatched, Decidable, IsValidTaskTransition, ValidTransitions

\* If no two ticks overlap and no defect re-opens a task, tasks move along
\* VALID_TRANSITIONS, but for the two steps the scheduler and the tools take
\* at once (TableTransitions): a late answer never overwrites a decided task.
THEOREM SingleTickTableTransitions ==
  ASSUME NEW theTick, Ticks = {theTick}, NoReopening
  PROVE  Spec => TableTransitions
<1>1. Init => TInv /\ RowsInv /\ LifecycleInv
  BY InitType, RowsInit, LifecycleInit
<1>2. TInv /\ RowsInv /\ LifecycleInv /\ [Next]_vars => TInv' /\ RowsInv' /\ LifecycleInv'
  BY NextType, RowsNext, LifecycleNext
<1>3. TInv /\ RowsInv /\ LifecycleInv /\ [Next]_vars =>
        [\A t \in Tasks :
           \/ taskState'[t] = taskState[t]
           \/ iteration'[t] # iteration[t]
           \/ IsValidTaskTransition(taskState[t], taskState'[t])
           \/ <<taskState[t], taskState'[t]>> \in
                {<<"pending", "in_progress">>, <<"in_progress", "done">>}]_vars
  BY LifecycleNext, MovesFollowTheTable DEF TInv, TypeOK
<1>4. QED BY <1>1, <1>2, <1>3, PTL DEF Spec, TableTransitions
=============================================================================

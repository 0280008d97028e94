---------------------------- MODULE Pause_proofs ----------------------------
(***************************************************************************)
(* Theorems about Pause: type correctness for every instance; for one call *)
(* at a time over one sprint, that the flag follows the status and that a  *)
(* drain leaves no worker behind; the bound on what a tick in flight still *)
(* hands out; and what Dispatch promises, kept beside pause and resume.    *)
(***************************************************************************)
EXTENDS Pause, Dispatch_proofs

-----------------------------------------------------------------------------
(* Every step of a call leaves the core well typed.                        *)

PauseInv == TInv /\ PauseTypeOK

\* A step that leaves the core alone.
LEMMA CoreKept == ASSUME TInv, UNCHANGED vars PROVE TInv'
  BY NextType

LEMMA CallBecomes ==
  ASSUME PauseTypeOK, NEW c \in Calls, NEW r \in CallType, call' = [call EXCEPT ![c] = r]
  PROVE  /\ call' \in [Calls -> CallType] /\ call'[c] = r
         /\ \A d \in Calls \ {c} : call'[d] = call[d]
  BY DEF PauseTypeOK

LEMMA NoCallType == NoCall \in CallType /\ NoCall.pc = "none"
  BY DEF NoCall, CallType, PauseSteps

\* What a step of a call does with the core and with the call.
LEMMA CallStepType ==
  ASSUME PauseInv, NEW c \in Calls, CallStep(c) \/ AbortCall(c)
  PROVE  /\ call' \in [Calls -> CallType]
         /\ \A d \in Calls \ {c} : call'[d] = call[d]
<1>0. call \in [Calls -> CallType] /\ call[c] \in CallType /\ PauseTypeOK
  BY DEF PauseInv, PauseTypeOK
<1>1. ASSUME NEW r \in CallType, call' = [call EXCEPT ![c] = r]
      PROVE  /\ call' \in [Calls -> CallType]
             /\ \A d \in Calls \ {c} : call'[d] = call[d]
  BY <1>0, <1>1, CallBecomes
<1>2. CASE PauseFind(c)
  <2>1. \A s : SprintWorkers(s) \subseteq Workers
    BY DEF SprintWorkers
  <2>2. PICK found \in SUBSET Workers, hit \in SUBSET Workers, p \in PauseSteps :
          call' = [call EXCEPT ![c].pc = p, ![c].todo = found, ![c].signal = hit]
    BY <1>2, <2>1 DEF PauseFind, PauseSteps
  <2> DEFINE r == [call[c] EXCEPT !.pc = p, !.todo = found, !.signal = hit]
  <2>3. r \in CallType
    BY <1>0 DEF CallType
  <2>4. call' = [call EXCEPT ![c] = r]
    BY <1>0, <2>2
  <2>5. QED BY <1>1, <2>3, <2>4
<1>3. ASSUME NEW w \in Workers, PauseMark(c, w) \/ PauseRevoke(c, w) \/ PauseTerminate(c, w)
      PROVE  /\ call' \in [Calls -> CallType]
             /\ \A d \in Calls \ {c} : call'[d] = call[d]
  <2>1. PICK p \in PauseSteps, left \in SUBSET Workers, hit \in SUBSET Workers :
          call' = [call EXCEPT ![c] = [call[c] EXCEPT !.pc = p, !.todo = left, !.signal = hit]]
    <3>1. CASE PauseMark(c, w)
      <4>1. call' = [call EXCEPT ![c] = [call[c] EXCEPT !.pc = "marking", !.todo = call[c].todo \ {w},
                                                      !.signal = call[c].signal]]
        BY <1>0, <3>1 DEF PauseMark, CallType
      <4>2. QED BY <1>0, <4>1 DEF CallType, PauseSteps
    <3>2. CASE PauseRevoke(c, w)
      <4>1. call' = [call EXCEPT ![c] = [call[c] EXCEPT !.pc = "terminating", !.todo = call[c].todo,
                                                      !.signal = {w}]]
        BY <1>0, <3>2 DEF PauseRevoke, CallType
      <4>2. QED BY <1>0, <4>1 DEF CallType, PauseSteps
    <3>3. CASE PauseTerminate(c, w)
      <4>1. call' = [call EXCEPT ![c] = [call[c] EXCEPT !.pc = "revoking", !.todo = call[c].todo \ {w},
                                                      !.signal = {}]]
        BY <1>0, <3>3 DEF PauseTerminate, CallType
      <4>2. QED BY <1>0, <4>1 DEF CallType, PauseSteps
    <3>4. QED BY <1>3, <3>1, <3>2, <3>3
  <2>2. [call[c] EXCEPT !.pc = p, !.todo = left, !.signal = hit] \in CallType
    BY <1>0 DEF CallType
  <2>3. QED BY <1>1, <2>1, <2>2
<1>4. CASE PauseSignal(c)
  <2> DEFINE r == [call[c] EXCEPT !.pc = "draining", !.signal = {}]
  <2>1. r \in CallType /\ call' = [call EXCEPT ![c] = r]
    BY <1>0, <1>4 DEF PauseSignal, CallType, PauseSteps
  <2>2. QED BY <1>1, <2>1
<1>5. CASE PauseCollect(c)
  <2> DEFINE r == [call[c] EXCEPT !.pc = "revoking", !.todo = SprintWorkers(call[c].sprint)]
  <2>1. r \in CallType /\ call' = [call EXCEPT ![c] = r]
    BY <1>0, <1>5 DEF PauseCollect, CallType, PauseSteps, SprintWorkers
  <2>2. QED BY <1>1, <2>1
<1>6. CASE PauseFlip(c) \/ ResumeFlip(c) \/ AbortCall(c)
  BY <1>1, <1>6, NoCallType DEF PauseFlip, ResumeFlip, AbortCall
<1>7. CASE ResumeRead(c)
  <2>1. PICK todo \in SUBSET Tasks : call' = [call EXCEPT ![c].pc = "issuing", ![c].tasks = todo]
    BY <1>7 DEF ResumeRead
  <2> DEFINE r == [call[c] EXCEPT !.pc = "issuing", !.tasks = todo]
  <2>2. r \in CallType
    BY <1>0 DEF CallType, PauseSteps
  <2>3. call' = [call EXCEPT ![c] = r]
    BY <1>0, <2>1
  <2>4. QED BY <1>1, <2>2, <2>3
<1>8. ASSUME NEW t \in Tasks, ResumeIssue(c, t)
      PROVE  /\ call' \in [Calls -> CallType]
             /\ \A d \in Calls \ {c} : call'[d] = call[d]
  <2> DEFINE r == [call[c] EXCEPT !.tasks = call[c].tasks \ {t}]
  <2>1. r \in CallType
    BY <1>0 DEF CallType
  <2>2. call' = [call EXCEPT ![c] = r]
    BY <1>0, <1>8 DEF ResumeIssue
  <2>3. QED BY <1>1, <2>1, <2>2
<1>9. QED BY <1>2, <1>3, <1>4, <1>5, <1>6, <1>7, <1>8 DEF CallStep

\* What a step of pause() or resume() does to the core: it takes a row out of
\* the alive statuses, revokes or issues a capability, or sets the flag.
LEMMA CallStepCore ==
  ASSUME PauseInv, NEW c \in Calls, CallStep(c) \/ AbortCall(c)
  PROVE  /\ UNCHANGED <<taskState, iteration, proc, tracked, termed, tool, monitor, tick, defect>>
         /\ \/ UNCHANGED <<row, fresh, revived>>
            \/ \E w \in Workers, s \in {"terminating", "terminated"} :
                 w \in call[c].todo \cup call[c].signal /\ LeaveAlive(w, s)
         /\ \/ UNCHANGED <<cap, boundTask>>
            \/ \E w \in Workers : cap' = [cap EXCEPT ![w] = "revoked"] /\ UNCHANGED boundTask
                                    /\ w \in call[c].todo
            \/ \E w \in Unused, t \in Tasks :
                 cap' = [cap EXCEPT ![w] = "issued"] /\ boundTask' = [boundTask EXCEPT ![w] = t]
         /\ paused' \in BOOLEAN
<1>0. paused \in BOOLEAN
  BY DEF PauseInv, TInv, TypeOK
<1>1. CASE PauseFind(c) \/ PauseSignal(c) \/ PauseCollect(c) \/ ResumeRead(c) \/ AbortCall(c)
  BY <1>0, <1>1 DEF PauseFind, PauseSignal, PauseCollect, ResumeRead, AbortCall, vars
<1>2. CASE PauseFlip(c) \/ ResumeFlip(c)
  BY <1>2 DEF PauseFlip, ResumeFlip, tables, procs, actors
<1>3. ASSUME NEW w \in Workers, PauseMark(c, w) \/ PauseTerminate(c, w)
      PROVE  /\ UNCHANGED <<taskState, iteration, proc, tracked, termed, tool, monitor, tick, defect,
                            cap, boundTask, paused>>
             /\ w \in call[c].todo \cup call[c].signal
             /\ \E s \in {"terminating", "terminated"} : LeaveAlive(w, s)
  BY <1>3 DEF PauseMark, PauseTerminate, actors
<1>4. ASSUME NEW w \in Workers, PauseRevoke(c, w)
      PROVE  /\ UNCHANGED <<taskState, iteration, row, fresh, revived, boundTask, proc, tracked, termed,
                            tool, monitor, tick, defect, paused>>
             /\ w \in call[c].todo
             /\ cap' = [cap EXCEPT ![w] = "revoked"] \/ UNCHANGED cap
  BY <1>4 DEF PauseRevoke, procs, actors
<1>5. ASSUME NEW t \in Tasks, ResumeIssue(c, t)
      PROVE  /\ UNCHANGED <<taskState, iteration, row, fresh, revived, proc, tracked, termed, tool,
                            monitor, tick, defect, paused>>
             /\ \/ UNCHANGED <<cap, boundTask>>
                \/ \E w \in Unused : /\ cap' = [cap EXCEPT ![w] = "issued"]
                                     /\ boundTask' = [boundTask EXCEPT ![w] = t]
  BY <1>5 DEF ResumeIssue, actors
<1>6. QED BY <1>0, <1>1, <1>2, <1>3, <1>4, <1>5 DEF CallStep

\* The SIGKILL check touches processes only.
LEMMA PauseKillCore ==
  ASSUME TInv, NEW w \in Workers, PauseKill(w)
  PROVE  /\ UNCHANGED <<tables, boundTask, fresh, actors, paused, revived, sprintStatus, call, late, leaked>>
         /\ proc' \in [Workers -> {"none", "started", "connected", "exited"}]
         /\ \A v \in Workers : proc'[v] # "none" <=> proc[v] # "none"
         /\ tracked' \subseteq Workers /\ termed' \subseteq Workers /\ victims' \subseteq victims
<1>1. /\ proc \in [Workers -> {"none", "started", "connected", "exited"}]
      /\ tracked \subseteq Workers /\ termed \subseteq Workers
  BY DEF TInv, TypeOK
<1>2. UNCHANGED <<tables, boundTask, fresh, actors, paused, revived, sprintStatus, call, late, leaked>>
        /\ victims' \subseteq victims
  BY DEF PauseKill
<1>3. CASE w \in Running
  BY <1>1, <1>2, <1>3 DEF PauseKill, Running
<1>4. CASE w \notin Running
  BY <1>1, <1>2, <1>4 DEF PauseKill
<1>5. QED BY <1>3, <1>4

\* The core stays well typed beside pause() and resume().
LEMMA PauseKeepsCore == PauseInv /\ [PauseNext]_allVars => TInv'
<1> SUFFICES ASSUME PauseInv, [PauseNext]_allVars PROVE TInv'
  OBVIOUS
<1>0. TInv /\ TablesType
  BY TInvParts DEF PauseInv
<1>1. ASSUME TablesType', UNCHANGED tick PROVE TInv'
  BY <1>0, <1>1 DEF TInv, TypeOK, TablesType, TickHolds
<1>2. CASE DispatchStep
  BY <1>0, <1>2, NextType DEF DispatchStep
<1>3. ASSUME NEW c \in Calls, CallStep(c) \/ AbortCall(c) PROVE TInv'
  <2>1. row' \in [Workers -> RowStatuses] /\ fresh' \subseteq Workers /\ revived' \subseteq Workers
    <3>1. CASE UNCHANGED <<row, fresh, revived>>
      BY <1>0, <3>1 DEF TablesType
    <3>2. ASSUME NEW w \in Workers, NEW s \in {"terminating", "terminated"}, LeaveAlive(w, s)
          PROVE  row' \in [Workers -> RowStatuses] /\ fresh' \subseteq Workers /\ revived' \subseteq Workers
      BY <1>0, <3>2, LeaveAliveType DEF WorkerStatuses
    <3>3. QED BY <1>3, <3>1, <3>2, CallStepCore
  <2>2. /\ cap' \in [Workers -> {"none", "issued", "revoked"}]
        /\ boundTask' \in [Workers -> Tasks \cup {NoTask}]
    <3>1. CASE UNCHANGED <<cap, boundTask>>
      BY <1>0, <3>1 DEF TablesType
    <3>2. ASSUME NEW w, cap' = [cap EXCEPT ![w] = "revoked"], UNCHANGED boundTask
          PROVE  cap' \in [Workers -> {"none", "issued", "revoked"}]
                   /\ boundTask' \in [Workers -> Tasks \cup {NoTask}]
      BY <1>0, <3>2 DEF TablesType
    <3>3. ASSUME NEW w, NEW t \in Tasks, cap' = [cap EXCEPT ![w] = "issued"],
                 boundTask' = [boundTask EXCEPT ![w] = t]
          PROVE  cap' \in [Workers -> {"none", "issued", "revoked"}]
                   /\ boundTask' \in [Workers -> Tasks \cup {NoTask}]
      BY <1>0, <3>3 DEF TablesType
    <3>4. QED BY <1>3, <3>1, <3>2, <3>3, CallStepCore
  <2>3. /\ UNCHANGED <<taskState, iteration, proc, tracked, termed, tool, monitor, tick, defect>>
        /\ paused' \in BOOLEAN
    BY <1>3, CallStepCore
  <2>4. TablesType'
    BY <1>0, <2>1, <2>2, <2>3, Zenon DEF TablesType
  <2>5. QED BY <1>1, <2>3, <2>4
<1>4. ASSUME NEW w \in Workers, PauseKill(w) PROVE TInv'
  BY <1>0, <1>1, <1>4, PauseKillCore DEF TablesType, tables, actors
<1>5. ASSUME NEW c \in Calls, NEW s \in Sprints, PauseBegin(c, s) \/ ResumeBegin(c, s) PROVE TInv'
  BY <1>0, <1>5, CoreKept DEF PauseBegin, ResumeBegin
<1>6. CASE UNCHANGED allVars
  BY <1>0, <1>6, CoreKept DEF allVars
<1>7. QED BY <1>2, <1>3, <1>4, <1>5, <1>6 DEF PauseNext

\* pause() and resume() begin with a sprint whose status they have moved.
LEMMA CallBegins ==
  ASSUME PauseInv, NEW c \in Calls, NEW s \in Sprints, PauseBegin(c, s) \/ ResumeBegin(c, s)
  PROVE  /\ call' \in [Calls -> CallType]
         /\ \A d \in Calls \ {c} : call'[d] = call[d]
         /\ call'[c].sprint = s /\ call'[c].pc \in {"finding", "reading"}
         /\ call'[c].pc = "finding" <=> PauseBegin(c, s)
         /\ sprintStatus' \in [Sprints -> {"active", "paused"}]
<1>0. /\ call \in [Calls -> CallType] /\ call[c] \in CallType /\ PauseTypeOK
      /\ sprintStatus \in [Sprints -> {"active", "paused"}]
  BY DEF PauseInv, PauseTypeOK
<1>1. PICK p \in {"finding", "reading"} :
        /\ call' = [call EXCEPT ![c].pc = p, ![c].sprint = s]
        /\ p = "finding" <=> PauseBegin(c, s)
  <2>1. CASE PauseBegin(c, s)
    BY <2>1 DEF PauseBegin
  <2>2. CASE ~PauseBegin(c, s)
    BY <2>2 DEF ResumeBegin
  <2>3. QED BY <2>1, <2>2
<1> DEFINE r == [call[c] EXCEPT !.pc = p, !.sprint = s]
<1>2. r \in CallType /\ r.pc = p /\ r.sprint = s
  BY <1>0 DEF CallType, PauseSteps
<1>3. call' = [call EXCEPT ![c] = r]
  BY <1>0, <1>1
<1>4. sprintStatus' \in [Sprints -> {"active", "paused"}]
  BY <1>0 DEF PauseBegin, ResumeBegin
<1>5. QED BY <1>0, <1>1, <1>2, <1>3, <1>4, CallBecomes

\* The status of a sprint, the calls and the histories stay within their types.
LEMMA PauseNextType == PauseInv /\ [PauseNext]_allVars => PauseInv'
<1> SUFFICES ASSUME PauseInv, [PauseNext]_allVars PROVE PauseTypeOK'
  BY PauseKeepsCore DEF PauseInv
<1>0. PauseTypeOK /\ TInv
  BY DEF PauseInv
<1>1. CASE DispatchStep
  BY <1>0, <1>1 DEF DispatchStep, PauseTypeOK
<1>2. ASSUME NEW c \in Calls, CallStep(c) \/ AbortCall(c) PROVE PauseTypeOK'
  <2>1. call' \in [Calls -> CallType]
    BY <1>2, CallStepType
  <2>2. sprintStatus' = sprintStatus /\ late' \in {late, {}} /\ leaked' \in {leaked, {}}
          /\ victims' \in {victims, victims \cup (call[c].signal \cap Running)}
    BY <1>2 DEF CallStep, PauseFind, PauseMark, PauseSignal, PauseCollect, PauseRevoke,
          PauseTerminate,
                PauseFlip, ResumeRead, ResumeIssue, ResumeFlip, AbortCall
  <2>3. Running \subseteq Workers
    BY DEF Running
  <2>4. QED BY <1>0, <2>1, <2>2, <2>3 DEF PauseTypeOK
<1>3. ASSUME NEW w \in Workers, PauseKill(w) PROVE PauseTypeOK'
  BY <1>0, <1>3, PauseKillCore DEF PauseTypeOK
<1>4. ASSUME NEW c \in Calls, NEW s \in Sprints, PauseBegin(c, s) \/ ResumeBegin(c, s)
      PROVE  PauseTypeOK'
  <2>1. UNCHANGED <<victims, late, leaked>>
    BY <1>4 DEF PauseBegin, ResumeBegin
  <2>2. QED BY <1>0, <1>4, <2>1, CallBegins DEF PauseTypeOK
<1>5. CASE UNCHANGED allVars
  BY <1>0, <1>5 DEF allVars, pauseVars, PauseTypeOK
<1>6. QED BY <1>1, <1>2, <1>3, <1>4, <1>5 DEF PauseNext

LEMMA PauseInitType == PauseInit => PauseInv
  BY InitType, NoCallType DEF PauseInit, PauseInv, PauseTypeOK

LEMMA PauseInvariant == PauseSpec => []PauseInv
  BY PauseInitType, PauseNextType, PTL DEF PauseSpec

\* Every reachable state of the calls, the sprints' statuses and the histories
\* is well typed, beside the scheduler and whatever fails (PauseController).
THEOREM PauseTypeCorrect == PauseSpec => []PauseTypeOK
<1>1. PauseInv => PauseTypeOK
  BY DEF PauseInv
<1>2. QED BY <1>1, PauseInvariant, PTL

-----------------------------------------------------------------------------
(* The sessions beside pause() and resume().                               *)

\* A session with a row has a task, and calls hold sessions with a row.
SessionsInv ==
  /\ RowsInv /\ FreshInv
  /\ \A w \in Workers : row[w] # "absent" => boundTask[w] \in Tasks
  /\ \A c \in Calls : \A w \in call[c].todo \cup call[c].signal : row[w] # "absent"

LEMMA OutsideKeepsSessions ==
  ASSUME PauseInv, SessionsInv,
         \/ \E c \in Calls : CallStep(c) \/ AbortCall(c)
         \/ \E c \in Calls, s \in Sprints : PauseBegin(c, s) \/ ResumeBegin(c, s)
         \/ \E w \in Workers : PauseKill(w)
         \/ UNCHANGED allVars
  PROVE  UNCHANGED <<tick, taskState, tool>> /\ \A w \in Workers : SessionKept(w)
<1>0. /\ TInv /\ cap \in [Workers -> {"none", "issued", "revoked"}]
      /\ boundTask \in [Workers -> Tasks \cup {NoTask}]
  BY DEF PauseInv, TInv, TypeOK
<1>1. ASSUME UNCHANGED <<row, cap, boundTask, monitor>> PROVE \A w \in Workers : SessionKept(w)
  BY <1>1 DEF SessionKept
<1>2. ASSUME NEW c \in Calls, CallStep(c) \/ AbortCall(c)
      PROVE  UNCHANGED <<tick, taskState, tool>> /\ \A w \in Workers : SessionKept(w)
  <2>1. UNCHANGED <<tick, taskState, tool, monitor>>
    BY <1>2, CallStepCore
  <2>2. \A v \in Workers : row'[v] = "absent" <=> row[v] = "absent"
    <3>1. CASE UNCHANGED <<row, fresh, revived>>
      BY <3>1
    <3>2. ASSUME NEW w \in Workers, NEW s \in {"terminating", "terminated"},
                 w \in call[c].todo \cup call[c].signal, LeaveAlive(w, s)
          PROVE  \A v \in Workers : row'[v] = "absent" <=> row[v] = "absent"
      <4>1. row[w] # "absent" /\ s \in WorkerStatuses
        BY <3>2 DEF SessionsInv, WorkerStatuses
      <4>2. QED BY <1>0, <3>2, <4>1, LeaveAliveKeepsRows
    <3>3. QED BY <1>2, <3>1, <3>2, CallStepCore
  <2>3. \A v \in Workers : cap[v] # "none" => cap'[v] # "none" /\ boundTask'[v] = boundTask[v]
    <3>1. CASE UNCHANGED <<cap, boundTask>>
      BY <3>1
    <3>2. ASSUME NEW w \in Workers, cap' = [cap EXCEPT ![w] = "revoked"], UNCHANGED boundTask
          PROVE  \A v \in Workers : cap[v] # "none" => cap'[v] # "none" /\ boundTask'[v] = boundTask[v]
      BY <1>0, <3>2
    <3>3. ASSUME NEW w \in Unused, NEW t \in Tasks, cap' = [cap EXCEPT ![w] = "issued"],
                 boundTask' = [boundTask EXCEPT ![w] = t]
          PROVE  \A v \in Workers : cap[v] # "none" => cap'[v] # "none" /\ boundTask'[v] = boundTask[v]
      BY <1>0, <3>3 DEF Unused
    <3>4. QED BY <1>2, <3>1, <3>2, <3>3, CallStepCore
  <2>4. QED BY <2>1, <2>2, <2>3 DEF SessionKept
<1>3. ASSUME NEW w \in Workers, PauseKill(w)
      PROVE  UNCHANGED <<tick, taskState, tool>> /\ \A v \in Workers : SessionKept(v)
  BY <1>0, <1>1, <1>3, PauseKillCore DEF tables, actors
<1>4. ASSUME UNCHANGED vars
      PROVE  UNCHANGED <<tick, taskState, tool>> /\ \A v \in Workers : SessionKept(v)
  BY <1>1, <1>4 DEF vars
<1>5. QED BY <1>2, <1>3, <1>4 DEF PauseBegin, ResumeBegin, allVars

\* What findActiveSprintWorkers leaves in the call.
LEMMA FoundByCall ==
  ASSUME call \in [Calls -> CallType], NEW c \in Calls, PauseFind(c)
  PROVE  LET found == SprintWorkers(call[c].sprint) IN
           /\ call'[c].pc = IF found = {} THEN "flipping" ELSE "marking"
           /\ call'[c].todo = found /\ call'[c].signal \subseteq found
           /\ call'[c].sprint = call[c].sprint
<1> DEFINE found == SprintWorkers(call[c].sprint)
           next  == IF found = {} THEN "flipping" ELSE "marking"
           hit   == {w \in found : row[w] \in Signalable}
           r     == [call[c] EXCEPT !.pc = next, !.todo = found, !.signal = hit]
<1>1. call' = [call EXCEPT ![c].pc = next, ![c].todo = found, ![c].signal = hit]
  BY DEF PauseFind
<1>2. hit \subseteq found
  OBVIOUS
<1> HIDE DEF found, next, hit
<1>3. call' = [call EXCEPT ![c] = r]
  BY <1>1
<1>4. r.pc = next /\ r.todo = found /\ r.signal = hit /\ r.sprint = call[c].sprint
  BY DEF CallType
<1>5. call'[c] = r
  BY <1>3
<1>6. QED BY <1>2, <1>4, <1>5 DEF found, next

\* A row that is there stays there, and a session that has one keeps its task.
LEMMA DispatchKeepsRows ==
  ASSUME TInv, RowsInv, Next
  PROVE  \A w \in Workers : row[w] # "absent" => row'[w] # "absent" /\ boundTask'[w] = boundTask[w]
<1>1. CASE \/ \E w \in Workers : WorkerStep(w) \/ ToolStep(w) \/ MonitorStep(w)
           \/ MonitorScan
           \/ \E d \in Defects : DefectStep(d)
  BY <1>1, OtherStepsKeepSessions DEF RowsInv, SessionKept
<1>2. ASSUME NEW k \in Ticks, TickStep(k) \/ AbortTick(k)
      PROVE  \A w \in Workers : row[w] # "absent" => row'[w] # "absent" /\ boundTask'[w] = boundTask[w]
  <2>1. CASE UNCHANGED row
    BY <1>2, <2>1, TickStepsKeepSessions DEF RowsInv, SessionKept
  <2>2. CASE RegisterWorker(k)
    BY <2>2 DEF RegisterWorker, TInv, TypeOK
  <2>3. QED BY <1>2, <2>1, <2>2, TickStepMoves
<1>3. QED BY <1>1, <1>2 DEF Next

\* A row is new only if a tick that holds its session registers it.
LEMMA DispatchAddsRows ==
  ASSUME TInv, RowsInv, Next
  PROVE  \A w \in Workers : row[w] = "absent" /\ row'[w] # "absent" => boundTask'[w] \in Tasks
<1>1. CASE \/ \E w \in Workers : WorkerStep(w) \/ ToolStep(w) \/ MonitorStep(w)
           \/ MonitorScan
           \/ \E d \in Defects : DefectStep(d)
  BY <1>1, OtherStepsKeepSessions DEF SessionKept
<1>2. ASSUME NEW k \in Ticks, TickStep(k) \/ AbortTick(k)
      PROVE  \A w \in Workers : row[w] = "absent" /\ row'[w] # "absent" => boundTask'[w] \in Tasks
  <2>1. CASE UNCHANGED row
    BY <2>1
  <2>2. CASE RegisterWorker(k)
    BY <2>2 DEF RegisterWorker, TInv, TypeOK, RowsInv, TickSession, WorkerSteps
  <2>3. QED BY <1>2, <2>1, <2>2, TickStepMoves
<1>3. QED BY <1>1, <1>2 DEF Next

LEMMA SessionsInit == PauseInit => SessionsInv
  BY RowsInit, FreshInit DEF PauseInit, SessionsInv, Init, NoCall

LEMMA SessionsNext == PauseInv /\ SessionsInv /\ [PauseNext]_allVars => SessionsInv'
<1> SUFFICES ASSUME PauseInv, SessionsInv, [PauseNext]_allVars PROVE SessionsInv'
  OBVIOUS
<1>0. /\ TInv /\ RowsInv /\ FreshInv /\ row \in [Workers -> RowStatuses]
      /\ call \in [Calls -> CallType]
  BY DEF PauseInv, PauseTypeOK, SessionsInv, TInv, TypeOK
<1>1. CASE DispatchStep
  <2>1. Next /\ UNCHANGED call
    BY <1>1 DEF DispatchStep
  <2>2. RowsInv' /\ FreshInv'
    BY <1>0, <2>1, RowsNext, FreshNext
  <2>3. \A w \in Workers : row[w] # "absent" => row'[w] # "absent" /\ boundTask'[w] = boundTask[w]
    BY <1>0, <2>1, DispatchKeepsRows
  <2>4. \A w \in Workers : row'[w] # "absent" => boundTask'[w] \in Tasks
    BY <1>0, <2>1, <2>3, DispatchAddsRows DEF SessionsInv
  <2>5. \A c \in Calls : \A w \in call'[c].todo \cup call'[c].signal : row'[w] # "absent"
    BY <1>0, <2>1, <2>3 DEF SessionsInv, CallType
  <2>6. QED BY <2>2, <2>4, <2>5 DEF SessionsInv
<1>2. CASE \/ \E c \in Calls : CallStep(c) \/ AbortCall(c)
           \/ \E c \in Calls, s \in Sprints : PauseBegin(c, s) \/ ResumeBegin(c, s)
           \/ \E w \in Workers : PauseKill(w)
           \/ UNCHANGED allVars
  <2>1. UNCHANGED tick /\ \A w \in Workers : SessionKept(w)
    BY <1>2, OutsideKeepsSessions
  <2>2. RowsInv'
    <3>1. \A w \in Workers : row'[w] # "absent" => cap'[w] # "none"
      BY <1>0, <2>1 DEF RowsInv, SessionKept
    <3>2. \A w \in Workers : monitor'[w] # "none" => row'[w] # "absent"
      BY <1>0, <2>1 DEF RowsInv, SessionKept
    <3>3. \A k \in Ticks : TickSession(k)'
      BY <1>0, <2>1 DEF RowsInv, SessionKept, TickSession, TInv, TickHolds
    <3>4. QED BY <3>1, <3>2, <3>3 DEF RowsInv
  <2>3. FreshInv'
    BY <1>0, <2>1, FreshKept
  <2>4. \A w \in Workers : row'[w] # "absent" => boundTask'[w] \in Tasks
    BY <1>0, <2>1 DEF SessionsInv, RowsInv, SessionKept
  <2>5. ASSUME NEW c \in Calls, NEW w \in Workers, w \in call'[c].todo \cup call'[c].signal
        PROVE  row[w] # "absent"
    <3>1. CASE w \in call[c].todo \cup call[c].signal
      BY <3>1 DEF SessionsInv
    <3>2. CASE PauseFind(c) \/ PauseCollect(c)
      <4>1. w \in call[c].signal \/ w \in SprintWorkers(call[c].sprint)
        <5>1. CASE PauseFind(c)
          BY <1>0, <2>5, <5>1, FoundByCall
        <5>2. CASE PauseCollect(c)
          BY <1>0, <2>5, <5>2 DEF PauseCollect, CallType
        <5>3. QED BY <3>2, <5>1, <5>2
      <4>2. QED BY <3>1, <4>1 DEF SprintWorkers
    <3>3. ASSUME NEW v \in Workers, PauseMark(c, v) \/ PauseRevoke(c, v) \/ PauseTerminate(c, v)
          PROVE  w \in call[c].todo \cup call[c].signal
      BY <1>0, <2>5, <3>3 DEF PauseMark, PauseRevoke, PauseTerminate, CallType
    <3>4. CASE PauseSignal(c) \/ ResumeRead(c) \/ \E t \in Tasks : ResumeIssue(c, t)
      BY <1>0, <2>5, <3>1, <3>4 DEF PauseSignal, ResumeRead, ResumeIssue, CallType
    <3>5. CASE PauseFlip(c) \/ ResumeFlip(c) \/ AbortCall(c)
      BY <1>0, <2>5, <3>5 DEF PauseFlip, ResumeFlip, AbortCall, NoCall
    <3>6. ASSUME NEW s \in Sprints, PauseBegin(c, s) \/ ResumeBegin(c, s)
          PROVE  w \in call[c].todo \cup call[c].signal
      BY <1>0, <2>5, <3>6 DEF PauseBegin, ResumeBegin, CallType
    <3>7. CASE call'[c] = call[c]
      BY <2>5, <3>1, <3>7
    <3>8. \/ call'[c] = call[c]
          \/ CallStep(c) \/ AbortCall(c)
          \/ \E s \in Sprints : PauseBegin(c, s) \/ ResumeBegin(c, s)
      BY <1>2, CallStepType, CallBegins DEF PauseKill, allVars, pauseVars
    <3>9. QED BY <3>1, <3>2, <3>3, <3>4, <3>5, <3>6, <3>7, <3>8 DEF CallStep
  <2>6. \A c \in Calls : \A w \in call'[c].todo \cup call'[c].signal : row'[w] # "absent"
    <3>1. call' \in [Calls -> CallType]
      BY PauseNextType DEF PauseInv, PauseTypeOK
    <3>2. QED BY <2>1, <2>5, <3>1 DEF SessionKept, CallType
  <2>7. QED BY <2>2, <2>3, <2>4, <2>6 DEF SessionsInv
<1>3. QED BY <1>1, <1>2 DEF PauseNext

-----------------------------------------------------------------------------
(* The drain.  From the last look at the rows on, whatever is alive is on   *)
(* the call's list, or was registered since, or came back by a heartbeat.   *)

Awaited == Counted \ late

DrainInv ==
  /\ \A c \in Calls :
       /\ call[c].pc # "none" => call[c].sprint \in Sprints
       /\ call[c].pc \in {"revoking", "terminating"} => Awaited \subseteq call[c].todo
       /\ call[c].pc = "flipping" => Awaited = {}
  /\ paused /\ NoCallInFlight => Awaited = {}

\* A step of the core registers a fresh session, or takes rows out.
LEMMA DispatchAwaits ==
  ASSUME TInv, RowsInv, FreshInv, DispatchStep
  PROVE  Awaited' \subseteq Awaited
<1>0. late' = late \cup {w \in Workers : row[w] = "absent" /\ row'[w] # "absent"} /\ Next
        /\ row \in [Workers -> RowStatuses]
  BY DEF DispatchStep, TInv, TypeOK
<1>1. ASSUME Counted' \subseteq Counted PROVE Awaited' \subseteq Awaited
  BY <1>0, <1>1 DEF Awaited
<1>2. CASE \/ \E w \in Workers : WorkerStep(w) \/ ToolStep(w) \/ MonitorStep(w)
           \/ MonitorScan
           \/ \E d \in Defects : DefectStep(d)
  BY <1>1, <1>2, OtherStepsShrink
<1>3. ASSUME NEW k \in Ticks, TickStep(k) \/ AbortTick(k) PROVE Awaited' \subseteq Awaited
  <2>1. UNCHANGED revived
    BY <1>3 DEF TickStep, TickBegin, TickCount, LoadSprint, ChooseTask, IssueCapability,
                MarkInProgress, StartProcess, RegisterWorker, TrackWorker, AbortTick
  <2>2. CASE UNCHANGED row
    BY <1>1, <2>1, <2>2 DEF Counted, AliveRows
  <2>3. CASE RegisterWorker(k)
    <3>1. PICK w \in Workers : w = tick[k].worker /\ row[w] = "absent"
      BY <2>3 DEF RegisterWorker, TInv, TickHolds, WorkerSteps, FreshInv
    <3>2. row' = [row EXCEPT ![w] = "connecting"]
      BY <2>3, <3>1 DEF RegisterWorker
    <3>3. w \in late'
      BY <1>0, <3>1, <3>2
    <3>4. Counted' \subseteq Counted \cup {w}
      BY <1>0, <2>1, <3>2 DEF Counted, AliveRows
    <3>5. QED BY <1>0, <3>3, <3>4 DEF Awaited
  <2>4. QED BY <1>3, <2>2, <2>3, TickStepMoves
<1>4. QED BY <1>0, <1>2, <1>3 DEF Next

\* The scheduler and the workers never set the flag.
LEMMA NextKeepsFlag == Next => UNCHANGED paused
<1>1. ASSUME NEW k \in Ticks, TickStep(k) \/ AbortTick(k) PROVE UNCHANGED paused
  BY <1>1 DEF TickStep, TickBegin, TickCount, LoadSprint, ChooseTask, IssueCapability,
              MarkInProgress, StartProcess, RegisterWorker, TrackWorker, AbortTick
<1>2. ASSUME NEW w \in Workers, WorkerStep(w) PROVE UNCHANGED paused
  BY <1>2 DEF WorkerStep, Connect, Heartbeat, HeartbeatLapse, ProcessExit, AbortTool,
              AbortMonitor, CallTool
<1>3. ASSUME NEW w \in Workers, ToolStep(w) PROVE UNCHANGED paused
  BY <1>3 DEF ToolStep, ReadTask, WriteTask, ReportOutcome, RetireWorker
<1>4. ASSUME NEW w \in Workers, MonitorStep(w) PROVE UNCHANGED paused
  BY <1>4 DEF MonitorStep, MonitorMark, MonitorSignal, MonitorReap
<1>5. CASE MonitorScan \/ \E d \in Defects : DefectStep(d)
  BY <1>5 DEF MonitorScan, DefectStep, ReadDefectTask, ReopenTask, AbortDefect
<1>6. QED BY <1>1, <1>2, <1>3, <1>4, <1>5 DEF Next

LEMMA DrainInit == PauseInit => DrainInv
  BY DEF PauseInit, Init, DrainInv, NoCall

\* Whatever is alive belongs to the one sprint there is.
LEMMA AliveInSprint ==
  ASSUME SessionsInv, NEW theSprint, Sprints = {theSprint}
  PROVE  AliveRows \subseteq SprintWorkers(theSprint)
  BY ConstantsAssumption DEF SessionsInv, AliveRows, AliveStatuses, SprintWorkers

LEMMA DrainCallStep ==
  ASSUME NEW theCall, Calls = {theCall}, NEW theSprint, Sprints = {theSprint}, ~CallFaults,
         PauseInv, SessionsInv, DrainInv, CallStep(theCall) \/ AbortCall(theCall)
  PROVE  DrainInv'
<1> DEFINE c == theCall
           Free == /\ call'[c].pc # "none" => call'[c].sprint \in Sprints
                   /\ call'[c].pc \in {"revoking", "terminating"} => Awaited' \subseteq call'[c].todo
                   /\ call'[c].pc = "flipping" => Awaited' = {}
                   /\ paused' /\ call'[c].pc = "none" => Awaited' = {}
<1>0. /\ TInv /\ call \in [Calls -> CallType] /\ call[c] \in CallType /\ c \in Calls
      /\ row \in [Workers -> RowStatuses]
  BY DEF PauseInv, PauseTypeOK, TInv, TypeOK
<1> SUFFICES Free
  BY DEF DrainInv, NoCallInFlight
<1>1. ~AbortCall(c)
  BY DEF AbortCall
<1>2. ASSUME UNCHANGED <<row, revived, late>> PROVE Awaited' = Awaited
  BY <1>2 DEF Awaited, Counted, AliveRows
<1>3. call[c].pc # "none" => call[c].sprint = theSprint
  BY DEF DrainInv
<1>4. ASSUME UNCHANGED <<row, revived>>, late' = {} PROVE Awaited' \subseteq SprintWorkers(theSprint)
  <2>1. Awaited' \subseteq AliveRows
    BY <1>4 DEF Awaited, Counted, AliveRows
  <2>2. QED BY <2>1, AliveInSprint
<1>5. CASE PauseFind(c)
  <2>1. UNCHANGED <<row, revived>> /\ late' = {} /\ call[c].pc = "finding"
    BY <1>5 DEF PauseFind, vars
  <2>2. /\ call'[c].pc = IF SprintWorkers(theSprint) = {} THEN "flipping" ELSE "marking"
        /\ call'[c].sprint = theSprint
    BY <1>0, <1>3, <1>5, <2>1, FoundByCall
  <2>3. QED BY <1>4, <2>1, <2>2
<1>6. ASSUME NEW w \in Workers, PauseMark(c, w) PROVE Free
  <2>1. call'[c].pc = "marking" /\ call'[c].sprint = theSprint
    BY <1>0, <1>3, <1>6 DEF PauseMark, CallType
  <2>2. QED BY <2>1
<1>7. CASE PauseSignal(c)
  <2>1. call'[c].pc = "draining" /\ call'[c].sprint = theSprint
    BY <1>0, <1>3, <1>7 DEF PauseSignal, CallType
  <2>2. QED BY <2>1
<1>8. CASE PauseCollect(c)
  <2>1. UNCHANGED <<row, revived>> /\ late' = {} /\ call[c].pc = "draining"
    BY <1>8 DEF PauseCollect, vars
  <2>2. /\ call'[c].pc = "revoking" /\ call'[c].sprint = theSprint
        /\ call'[c].todo = SprintWorkers(theSprint)
    BY <1>0, <1>3, <1>8, <2>1 DEF PauseCollect, CallType
  <2>3. QED BY <1>4, <2>1, <2>2
<1>9. ASSUME NEW w \in Workers, PauseRevoke(c, w) PROVE Free
  <2>1. /\ call'[c].pc = "terminating" /\ call'[c].sprint = theSprint
        /\ call'[c].todo = call[c].todo /\ call[c].pc = "revoking"
        /\ UNCHANGED <<row, revived, late>>
    BY <1>0, <1>3, <1>9 DEF PauseRevoke, CallType
  <2>2. QED BY <1>2, <2>1 DEF DrainInv
<1>10. ASSUME NEW w \in Workers, PauseTerminate(c, w) PROVE Free
  <2>1. /\ call'[c].pc = "revoking" /\ call'[c].sprint = theSprint
        /\ call'[c].todo = call[c].todo \ {w} /\ call[c].pc = "terminating"
        /\ LeaveAlive(w, "terminated") /\ UNCHANGED late
    BY <1>0, <1>3, <1>10 DEF PauseTerminate, CallType
  <2>2. Counted' \subseteq Counted
    BY <1>0, <2>1, LeaveAliveShrinks DEF WorkerStatuses, AliveStatuses
  <2>3. w \notin Counted'
    BY <1>0, <2>1 DEF LeaveAlive, Counted, AliveRows, AliveStatuses
  <2>4. QED BY <2>1, <2>2, <2>3 DEF DrainInv, Awaited
<1>11. CASE PauseFlip(c)
  <2>1. call'[c] = NoCall /\ UNCHANGED <<row, revived, late>>
    BY <1>0, <1>11 DEF PauseFlip, tables
  <2>2. Awaited = {}
    BY <1>11 DEF PauseFlip, DrainInv
  <2>3. QED BY <1>2, <2>1, <2>2 DEF NoCall
<1>12. CASE ResumeRead(c) \/ \E t \in Tasks : ResumeIssue(c, t)
  <2>1. call'[c].pc = "issuing" /\ call'[c].sprint = theSprint
    BY <1>0, <1>3, <1>12 DEF ResumeRead, ResumeIssue, CallType
  <2>2. QED BY <2>1
<1>13. CASE ResumeFlip(c)
  <2>1. call'[c].pc = "none" /\ paused' = FALSE
    BY <1>0, <1>13 DEF ResumeFlip, NoCall
  <2>2. QED BY <2>1
<1>14. QED BY <1>1, <1>5, <1>6, <1>7, <1>8, <1>9, <1>10, <1>11, <1>12, <1>13 DEF CallStep

LEMMA DrainNext ==
  ASSUME NEW theCall, Calls = {theCall}, NEW theSprint, Sprints = {theSprint}, ~CallFaults
  PROVE  PauseInv /\ SessionsInv /\ DrainInv /\ [PauseNext]_allVars => DrainInv'
<1> SUFFICES ASSUME PauseInv, SessionsInv, DrainInv, [PauseNext]_allVars PROVE DrainInv'
  OBVIOUS
<1>1. ASSUME Awaited' \subseteq Awaited, UNCHANGED <<call, paused>> PROVE DrainInv'
  BY <1>1 DEF DrainInv, NoCallInFlight
<1>2. CASE DispatchStep
  <2>1. Awaited' \subseteq Awaited
    BY <1>2, DispatchAwaits DEF PauseInv, SessionsInv
  <2>2. UNCHANGED <<call, paused>>
    BY <1>2, NextKeepsFlag DEF DispatchStep
  <2>3. QED BY <1>1, <2>1, <2>2
<1>3. ASSUME NEW c \in Calls, CallStep(c) \/ AbortCall(c) PROVE DrainInv'
  BY <1>3, DrainCallStep
<1>4. ASSUME NEW c \in Calls, NEW s \in Sprints, PauseBegin(c, s) \/ ResumeBegin(c, s) PROVE DrainInv'
  <2>1. c = theCall /\ call'[c].sprint = s /\ call'[c].pc \in {"finding", "reading"}
    BY <1>4, CallBegins
  <2>2. QED BY <2>1 DEF DrainInv, NoCallInFlight
<1>5. ASSUME UNCHANGED <<row, revived, late, call, paused>> PROVE DrainInv'
  BY <1>1, <1>5 DEF Awaited, Counted, AliveRows
<1>6. ASSUME NEW w \in Workers, PauseKill(w) PROVE DrainInv'
  BY <1>5, <1>6 DEF PauseKill, tables
<1>7. CASE UNCHANGED allVars
  BY <1>5, <1>7 DEF allVars, vars, pauseVars
<1>8. QED BY <1>2, <1>3, <1>4, <1>6, <1>7 DEF PauseNext

LEMMA SessionsInvariant == PauseSpec => [](PauseInv /\ SessionsInv)
  BY PauseInitType, PauseNextType, SessionsInit, SessionsNext, PTL DEF PauseSpec

\* Over one sprint, with one call of pause() or resume() at a time and none of
\* its own queries failing, a pause that has returned has left no worker alive
\* but those registered after its last look at the rows and those a late
\* heartbeat brought back (DrainedSprint), however many ticks are in flight.
THEOREM PauseDrainsSprint ==
  ASSUME NEW theCall, Calls = {theCall}, NEW theSprint, Sprints = {theSprint}, ~CallFaults
  PROVE  PauseSpec => []DrainedSprint
<1>1. DrainInv => DrainedSprint
  BY DEF DrainInv, DrainedSprint, Awaited, Counted
<1>2. PauseInv /\ SessionsInv /\ DrainInv /\ [PauseNext]_allVars => DrainInv'
  BY DrainNext
<1>3. QED BY <1>1, <1>2, DrainInit, SessionsInvariant, PTL DEF PauseSpec

-----------------------------------------------------------------------------
(* The flag and the status.                                                *)

Pausing  == PauseSteps \ {"none", "reading", "issuing"}
Resuming == {"reading", "issuing"}

StatusInv ==
  \A c \in Calls, s \in Sprints :
    /\ call[c].pc = "none" => (paused <=> sprintStatus[s] = "paused")
    /\ call[c].pc \in Pausing => sprintStatus[s] = "paused"
    /\ call[c].pc \in Resuming => sprintStatus[s] = "active"

LEMMA StatusNext ==
  ASSUME NEW theCall, Calls = {theCall}, NEW theSprint, Sprints = {theSprint}, ~CallFaults
  PROVE  PauseInv /\ StatusInv /\ [PauseNext]_allVars => StatusInv'
<1> SUFFICES ASSUME PauseInv, StatusInv, [PauseNext]_allVars PROVE StatusInv'
  OBVIOUS
<1>0. /\ call \in [Calls -> CallType] /\ sprintStatus \in [Sprints -> {"active", "paused"}]
      /\ \A c \in Calls : call[c] \in CallType
  BY DEF PauseInv, PauseTypeOK
<1>1. ASSUME UNCHANGED <<call, paused, sprintStatus>> PROVE StatusInv'
  BY <1>1 DEF StatusInv
<1>2. CASE DispatchStep
  BY <1>1, <1>2, NextKeepsFlag DEF DispatchStep
<1>3. ASSUME NEW c \in Calls, CallStep(c) \/ AbortCall(c) PROVE StatusInv'
  <2>1. ~AbortCall(c) /\ UNCHANGED sprintStatus
    BY <1>3 DEF AbortCall, CallStep, PauseFind, PauseMark, PauseSignal, PauseCollect, PauseRevoke,
                PauseTerminate, PauseFlip, ResumeRead, ResumeIssue, ResumeFlip
  <2>2. ASSUME call[c].pc \in Pausing, call'[c].pc \in Pausing PROVE StatusInv'
    BY <2>1, <2>2 DEF StatusInv, Pausing, Resuming
  <2> DEFINE Between(p) == p \in {"finding", "marking", "draining", "revoking", "terminating", "flipping"}
  <2>3. CASE \/ PauseFind(c) \/ PauseSignal(c) \/ PauseCollect(c)
             \/ \E w \in Workers : PauseMark(c, w) \/ PauseRevoke(c, w) \/ PauseTerminate(c, w)
    <3>1. Between(call[c].pc)
      BY <2>3 DEF PauseFind, PauseSignal, PauseCollect, PauseMark, PauseRevoke, PauseTerminate
    <3>2. CASE PauseFind(c)
      <4>1. call'[c].pc \in {"flipping", "marking"}
        BY <1>0, <3>2, FoundByCall
      <4>2. QED BY <2>2, <3>1, <4>1 DEF Pausing, PauseSteps
    <3>3. CASE PauseSignal(c) \/ PauseCollect(c)
      <4>1. call'[c].pc \in {"draining", "revoking"}
        BY <1>0, <3>3 DEF PauseSignal, PauseCollect, CallType
      <4>2. QED BY <2>2, <3>1, <4>1 DEF Pausing, PauseSteps
    <3>4. ASSUME NEW w \in Workers, PauseMark(c, w) \/ PauseRevoke(c, w) \/ PauseTerminate(c, w)
          PROVE  StatusInv'
      <4>1. call'[c].pc \in {"marking", "terminating", "revoking"}
        BY <1>0, <3>4 DEF PauseMark, PauseRevoke, PauseTerminate, CallType
      <4>2. QED BY <2>2, <3>1, <4>1 DEF Pausing, PauseSteps
    <3>5. QED BY <2>3, <3>2, <3>3, <3>4
  <2>5. CASE PauseFlip(c)
    <3>1. call'[c].pc = "none" /\ paused' = TRUE /\ call[c].pc \in Pausing
      BY <1>0, <2>5, NoCallType DEF PauseFlip, Pausing, PauseSteps
    <3>2. QED BY <2>1, <3>1 DEF StatusInv, Pausing, Resuming
  <2>6. CASE ResumeRead(c) \/ \E t \in Tasks : ResumeIssue(c, t)
    <3>1. call'[c].pc = "issuing" /\ call[c].pc \in Resuming
      BY <1>0, <2>6 DEF ResumeRead, ResumeIssue, Resuming, CallType
    <3>2. QED BY <2>1, <3>1 DEF StatusInv, Pausing, Resuming
  <2>7. CASE ResumeFlip(c)
    <3>1. call'[c].pc = "none" /\ paused' = FALSE /\ call[c].pc \in Resuming
      BY <1>0, <2>7, NoCallType DEF ResumeFlip, Resuming
    <3>2. sprintStatus'[theSprint] = "active"
      BY <2>1, <3>1 DEF StatusInv
    <3>3. QED BY <3>1, <3>2 DEF StatusInv, Pausing, Resuming
  <2>8. QED BY <1>3, <2>1, <2>3, <2>5, <2>6, <2>7 DEF CallStep
<1>4. ASSUME NEW c \in Calls, NEW s \in Sprints, PauseBegin(c, s) \/ ResumeBegin(c, s)
      PROVE  StatusInv'
  <2>1. CASE PauseBegin(c, s)
    <3>1. call'[c].pc = "finding" /\ sprintStatus'[s] = "paused"
      BY <1>0, <1>4, <2>1, CallBegins DEF PauseBegin
    <3>2. QED BY <3>1 DEF StatusInv, Pausing, PauseSteps, Resuming
  <2>2. CASE ResumeBegin(c, s)
    <3>1. sprintStatus[s] = "paused" /\ sprintStatus'[s] = "active"
      BY <1>0, <2>2 DEF ResumeBegin
    <3>2. call'[c].pc = "reading"
      BY <1>0, <2>2 DEF ResumeBegin, CallType
    <3>3. QED BY <3>1, <3>2 DEF StatusInv, Pausing, Resuming
  <2>3. QED BY <1>4, <2>1, <2>2
<1>5. ASSUME NEW w \in Workers, PauseKill(w) PROVE StatusInv'
  BY <1>1, <1>5 DEF PauseKill
<1>6. CASE UNCHANGED allVars
  BY <1>1, <1>6 DEF allVars, vars, pauseVars
<1>7. QED BY <1>2, <1>3, <1>4, <1>5, <1>6 DEF PauseNext

\* Over one sprint, with one call at a time and none of its own queries
\* failing, the pool is paused between calls exactly when the sprint is
\* (StatusMatchesFlag).
THEOREM FlagFollowsStatus ==
  ASSUME NEW theCall, Calls = {theCall}, NEW theSprint, Sprints = {theSprint}, ~CallFaults
  PROVE  PauseSpec => []StatusMatchesFlag
<1>1. PauseInit => StatusInv
  BY DEF PauseInit, Init, StatusInv, NoCall, Pausing, Resuming
<1>2. PauseInv /\ StatusInv /\ [PauseNext]_allVars => StatusInv'
  BY StatusNext
<1>3. StatusInv => StatusMatchesFlag
  BY DEF StatusInv, StatusMatchesFlag, NoCallInFlight
<1>4. QED BY <1>1, <1>2, <1>3, PauseInvariant, PTL DEF PauseSpec

-----------------------------------------------------------------------------
(* What ticks in flight still hand out.  Each tick answers for the sessions *)
(* it has issued since the flag was set, and those and the slots it may     *)
(* still spend never exceed maxWorkers.                                     *)

\* A union of sets of at most m elements each, indexed by I.
LEMMA UnionBound ==
  ASSUME NEW I, IsFiniteSet(I), NEW W, IsFiniteSet(W), NEW f \in [I -> SUBSET W],
         NEW m \in Nat, \A i \in I : Cardinality(f[i]) <= m
  PROVE  Cardinality(UNION {f[i] : i \in I}) <= m * Cardinality(I)
<1> DEFINE L == UNION {f[i] : i \in I}
           P == I \X (1..m)
           B == [i \in I |-> CHOOSE g : g \in Bijection(1..Cardinality(f[i]), f[i])]
           h == [x \in L |-> CHOOSE p \in P : B[p[1]][p[2]] = x]
<1>1. ASSUME NEW i \in I PROVE /\ B[i] \in Bijection(1..Cardinality(f[i]), f[i])
                               /\ Cardinality(f[i]) \in Nat
  <2>1. IsFiniteSet(f[i])
    BY FS_Subset
  <2>2. ExistsBijection(1..Cardinality(f[i]), f[i]) /\ Cardinality(f[i]) \in Nat
    BY <2>1, FS_CardinalityType
  <2>3. QED BY <2>2 DEF ExistsBijection
<1>2. ASSUME NEW x \in L PROVE \E p \in P : B[p[1]][p[2]] = x
  <2>1. PICK i \in I : x \in f[i]
    OBVIOUS
  <2>2. PICK j \in 1..Cardinality(f[i]) : B[i][j] = x
    BY <1>1, <2>1 DEF Bijection, Surjection
  <2>3. j \in 1..m
    BY <1>1, <2>2
  <2>4. <<i, j>> \in P /\ <<i, j>>[1] = i /\ <<i, j>>[2] = j
    BY <2>3
  <2>5. QED BY <2>2, <2>4
<1> HIDE DEF B
<1>3. \A x \in L : h[x] \in P /\ B[h[x][1]][h[x][2]] = x
  BY <1>2
<1>4. h \in Injection(L, P)
  <2> HIDE DEF P, L
  <2>1. h \in [L -> P]
    BY <1>3
  <2>2. \A x, y \in L : h[x] = h[y] => x = y
    BY <1>3
  <2>3. IsInjective(h)
    <3>1. DOMAIN h = L
      OBVIOUS
    <3> HIDE DEF h
    <3>2. QED BY <2>2, <3>1 DEF IsInjective
  <2> HIDE DEF h
  <2>4. QED BY <2>1, <2>3 DEF Injection
<1>5. IsFiniteSet(P) /\ Cardinality(P) = Cardinality(I) * m
  <2>1. IsFiniteSet(1..m) /\ Cardinality(1..m) = m
    BY FS_Interval
  <2>2. QED BY <2>1, FS_Product
<1>6. Cardinality(L) <= Cardinality(I) * m
  <2> HIDE DEF h, P, L
  <2>1. QED BY <1>4, <1>5, FS_Injection
<1>7. Cardinality(I) \in Nat
  BY FS_CardinalityType
<1>8. QED BY <1>6, <1>7

\* Slots a tick may yet issue a capability for.
Budget(r) ==
  CASE r.pc \in {"idle", "counting"} -> 0
    [] r.pc \in WorkerSteps -> r.slots - 1
    [] OTHER -> r.slots

\* of[k] are the sessions tick k has issued since the flag was set.
Attributed(of) ==
  /\ leaked = UNION {of[k] : k \in Ticks}
  /\ \A k \in Ticks : /\ Cardinality(of[k]) + Budget(tick[k]) <= MaxWorkers
                      /\ tick[k].pc = "counting" => of[k] = {}

LeakAttributed == \E of \in [Ticks -> SUBSET Workers] : Attributed(of)

LeakInv ==
  /\ ~paused => leaked = {}
  /\ LeakAttributed

LEMMA BudgetType ==
  TInv => \A k \in Ticks : Budget(tick[k]) \in 0..MaxWorkers
<1> SUFFICES ASSUME TInv, NEW k \in Ticks PROVE Budget(tick[k]) \in 0..MaxWorkers
  OBVIOUS
<1>1. tick[k] \in TickType /\ (tick[k].pc \in SlotSteps => tick[k].slots \in 1..MaxWorkers)
  BY DEF TInv, TypeOK, TickHolds
<1>2. CASE tick[k].pc \in {"idle", "counting"}
  BY <1>2, ConstantsAssumption DEF Budget, WorkerSteps
<1>3. CASE tick[k].pc \in WorkerSteps
  BY <1>1, <1>3, ConstantsAssumption DEF Budget, WorkerSteps, SlotSteps, TickSteps
<1>4. CASE tick[k].pc \notin WorkerSteps \cup {"idle", "counting"}
  <2>1. Budget(tick[k]) = tick[k].slots
    BY <1>4 DEF Budget
  <2>2. tick[k].pc \in SlotSteps
    BY <1>1, <1>4 DEF TickType, SlotSteps
  <2>3. QED BY <1>1, <2>1, <2>2, ConstantsAssumption
<1>5. QED BY <1>2, <1>3, <1>4

LEMMA NothingLeaked ==
  TInv /\ leaked = {} => LeakAttributed
<1> SUFFICES ASSUME TInv, leaked = {} PROVE LeakAttributed
  OBVIOUS
<1> DEFINE of == [k \in Ticks |-> {}]
<1>1. \A k \in Ticks : Cardinality(of[k]) + Budget(tick[k]) <= MaxWorkers
  BY BudgetType, FS_EmptySet, ConstantsAssumption
<1>2. of \in [Ticks -> SUBSET Workers] /\ leaked = UNION {of[k] : k \in Ticks}
  OBVIOUS
<1>3. QED BY <1>1, <1>2 DEF Attributed, LeakAttributed

LEMMA NothingLeakedNext == TInv' /\ leaked' = {} => LeakAttributed'
<1>1. (TInv /\ leaked = {} => LeakAttributed)'
  BY NothingLeaked, PTL
<1>2. QED BY <1>1

\* A step of a tick in flight issues for one of its slots, has just counted its
\* slots, or has no more slots to spend than before.
LEMMA TickStepBudget ==
  ASSUME TInv, NEW k \in Ticks, TickStep(k) \/ AbortTick(k), paused
  PROVE  /\ tick'[k].pc # "counting"
         /\ \/ \E w \in Unused : /\ cap' = [cap EXCEPT ![w] = "issued"]
                                 /\ Budget(tick'[k]) = Budget(tick[k]) - 1
            \/ UNCHANGED cap /\ tick[k].pc = "counting" /\ Budget(tick'[k]) \in 0..MaxWorkers
            \/ UNCHANGED cap /\ Budget(tick'[k]) \in 0..Budget(tick[k])
<1>0. /\ tick[k] \in TickType /\ tick \in [Ticks -> TickType] /\ MaxWorkers \in Nat
      /\ tick[k].pc \in SlotSteps => tick[k].slots \in 1..MaxWorkers
      /\ Budget(tick[k]) \in 0..MaxWorkers
  BY BudgetType, ConstantsAssumption DEF TInv, TypeOK, TickHolds
<1>1. ~TickBegin(k)
  BY DEF TickBegin
<1>2. IdleTick.pc = "idle" /\ Budget(IdleTick) = 0
  BY DEF IdleTick, Budget, WorkerSteps
<1>3. ASSUME NEW n \in Int, n <= MaxWorkers
      PROVE  /\ NextPick(n).pc \in {"idle", "picking"}
             /\ Budget(NextPick(n)) = IF n <= 0 THEN 0 ELSE n
  BY <1>3, NextPickType DEF Budget, WorkerSteps
<1>4. CASE TickCount(k)
  <2> DEFINE n == MaxWorkers - Cardinality(AliveRows)
  <2>1. n \in Int /\ n <= MaxWorkers
    BY <1>0, AliveFinite
  <2>2. tick'[k] = NextPick(n) /\ tick[k].pc = "counting" /\ UNCHANGED cap
    BY <1>0, <1>4 DEF TickCount, tables
  <2>3. QED BY <1>0, <1>3, <2>1, <2>2
<1>5. ASSUME UNCHANGED cap, tick'[k].slots = tick[k].slots, tick[k].pc \in SlotSteps,
             \/ {tick[k].pc, tick'[k].pc} \subseteq WorkerSteps
             \/ {tick[k].pc, tick'[k].pc} \subseteq {"picking", "choosing", "issuing"}
      PROVE  tick'[k].pc # "counting" /\ UNCHANGED cap /\ Budget(tick'[k]) \in 0..Budget(tick[k])
  <2>1. Budget(tick'[k]) = Budget(tick[k])
    BY <1>5 DEF Budget, WorkerSteps
  <2>2. QED BY <1>0, <1>5, <2>1 DEF WorkerSteps
<1>6. ASSUME NEW s \in Sprints, LoadSprint(k, s)
      PROVE  tick'[k].pc # "counting" /\ UNCHANGED cap /\ Budget(tick'[k]) \in 0..Budget(tick[k])
  BY <1>0, <1>5, <1>6 DEF LoadSprint, TickType, SlotSteps, TickSteps, tables
<1>7. CASE ChooseTask(k)
  <2>1. UNCHANGED cap /\ tick[k].pc = "choosing"
    BY <1>7 DEF ChooseTask, tables
  <2>2. \/ tick'[k] = IdleTick
        \/ tick'[k].slots = tick[k].slots /\ tick'[k].pc \in {"issuing", "picking"}
    BY <1>0, <1>7 DEF ChooseTask, TickType
  <2>3. QED BY <1>0, <1>2, <1>5, <2>1, <2>2 DEF SlotSteps, TickSteps
<1>8. ASSUME NEW w \in Workers, IssueCapability(k, w)
      PROVE  /\ tick'[k].pc # "counting" /\ w \in Unused
             /\ cap' = [cap EXCEPT ![w] = "issued"] /\ Budget(tick'[k]) = Budget(tick[k]) - 1
  <2>1. /\ tick[k].pc = "issuing" /\ tick'[k].pc = "marking" /\ tick'[k].slots = tick[k].slots
        /\ w \in Unused /\ cap' = [cap EXCEPT ![w] = "issued"]
    BY <1>0, <1>8 DEF IssueCapability, TickType
  <2>2. QED BY <2>1 DEF Budget, WorkerSteps
<1>9. CASE MarkInProgress(k) \/ StartProcess(k) \/ RegisterWorker(k)
  <2>1. /\ tick'[k].slots = tick[k].slots /\ {tick[k].pc, tick'[k].pc} \subseteq WorkerSteps
        /\ UNCHANGED cap
    BY <1>0, <1>9 DEF MarkInProgress, StartProcess, RegisterWorker, TickType, WorkerSteps, tables
  <2>2. QED BY <1>5, <2>1 DEF SlotSteps, WorkerSteps, TickSteps
<1>10. CASE TrackWorker(k)
  <2>1. /\ tick'[k] = NextPick(tick[k].slots - 1) /\ tick[k].pc = "announcing" /\ UNCHANGED cap
    BY <1>0, <1>10 DEF TrackWorker, tables
  <2>2. tick[k].slots \in 1..MaxWorkers /\ Budget(tick[k]) = tick[k].slots - 1
    BY <1>0, <2>1 DEF Budget, WorkerSteps, SlotSteps, TickSteps
  <2>3. Budget(tick'[k]) = tick[k].slots - 1 /\ tick'[k].pc \in {"idle", "picking"}
    <3>1. tick[k].slots - 1 \in Int /\ tick[k].slots - 1 <= MaxWorkers
      BY <1>0, <2>2
    <3>2. QED BY <1>3, <2>1, <2>2, <3>1
  <2>4. QED BY <1>0, <2>1, <2>2, <2>3
<1>11. CASE AbortTick(k)
  <2>1. tick'[k] = IdleTick /\ UNCHANGED cap
    BY <1>0, <1>11 DEF AbortTick, tables
  <2>2. QED BY <1>0, <1>2, <2>1
<1>12. QED BY <1>1, <1>4, <1>6, <1>7, <1>8, <1>9, <1>10, <1>11 DEF TickStep

\* Outside the ticks the core issues no capability.
LEMMA OtherStepsIssueNothing ==
  ASSUME TInv,
         \/ \E w \in Workers : WorkerStep(w) \/ ToolStep(w) \/ MonitorStep(w)
         \/ MonitorScan
         \/ \E d \in Defects : DefectStep(d)
  PROVE  \A w \in Workers : cap'[w] = "issued" => cap[w] = "issued"
<1>0. cap \in [Workers -> {"none", "issued", "revoked"}]
  BY DEF TInv, TypeOK
<1>1. ASSUME NEW w \in Workers, WorkerStep(w) PROVE UNCHANGED cap
  BY <1>1 DEF WorkerStep, Connect, Heartbeat, HeartbeatLapse, ProcessExit, AbortTool,
              AbortMonitor, CallTool, tables
<1>2. ASSUME NEW w \in Workers, ReadTask(w) \/ WriteTask(w) \/ RetireWorker(w) PROVE UNCHANGED cap
  BY <1>2 DEF ReadTask, WriteTask, RetireWorker, tables
<1>3. ASSUME NEW w \in Workers, ReportOutcome(w)
      PROVE  \A v \in Workers : cap'[v] = "issued" => cap[v] = "issued"
  BY <1>0, <1>3 DEF ReportOutcome
<1>4. ASSUME NEW w \in Workers, MonitorStep(w) PROVE UNCHANGED cap
  BY <1>4 DEF MonitorStep, MonitorMark, MonitorSignal, MonitorReap
<1>5. CASE MonitorScan \/ \E d \in Defects : DefectStep(d)
  BY <1>5 DEF MonitorScan, DefectStep, ReadDefectTask, ReopenTask, AbortDefect, tables
<1>6. QED BY <1>1, <1>2, <1>3, <1>4, <1>5 DEF ToolStep

LEMMA DispatchLeak ==
  ASSUME PauseInv, LeakInv, DispatchStep, TInv'
  PROVE  LeakInv'
<1>0. /\ Next /\ UNCHANGED paused /\ TInv /\ tick \in [Ticks -> TickType]
      /\ cap \in [Workers -> {"none", "issued", "revoked"}] /\ MaxWorkers \in Nat
      /\ leaked' = IF paused
                   THEN leaked \cup {w \in Workers : cap[w] = "none" /\ cap'[w] = "issued"}
                   ELSE leaked
  BY NextKeepsFlag, ConstantsAssumption DEF DispatchStep, PauseInv, TInv, TypeOK
<1>1. CASE ~paused
  <2>1. leaked' = {}
    BY <1>0, <1>1 DEF LeakInv
  <2>2. LeakAttributed'
    BY <2>1, NothingLeakedNext
  <2>3. QED BY <2>1, <2>2 DEF LeakInv
<1>2. CASE paused
  <2>1. PICK of \in [Ticks -> SUBSET Workers] : Attributed(of)
    BY DEF LeakInv, LeakAttributed
  <2>2. SUFFICES \E g \in [Ticks -> SUBSET Workers] : Attributed(g)'
    BY <1>0, <1>2 DEF LeakInv, LeakAttributed
  <2>3. CASE \/ \E w \in Workers : WorkerStep(w) \/ ToolStep(w) \/ MonitorStep(w)
             \/ MonitorScan
             \/ \E d \in Defects : DefectStep(d)
    <3>1. UNCHANGED tick /\ leaked' = leaked
      BY <1>0, <2>3, OtherStepsShrink, OtherStepsIssueNothing
    <3>2. Attributed(of)'
      BY <2>1, <3>1 DEF Attributed
    <3>3. QED BY <3>2
  <2>4. ASSUME NEW k \in Ticks, TickStep(k) \/ AbortTick(k)
        PROVE  \E g \in [Ticks -> SUBSET Workers] : Attributed(g)'
    <3>1. \A j \in Ticks \ {k} : tick'[j] = tick[j]
      BY <1>0, <2>4, TickStepMoves
    <3>2. tick'[k].pc # "counting"
      BY <1>0, <1>2, <2>4, TickStepBudget
    <3>3. ASSUME NEW j \in Ticks
          PROVE  IsFiniteSet(of[j]) /\ Cardinality(of[j]) \in Nat /\ Budget(tick[j]) \in 0..MaxWorkers
      BY <1>0, BudgetType, ConstantsAssumption, FS_Subset, FS_CardinalityType
    <3>4. ASSUME NEW w \in Unused, cap' = [cap EXCEPT ![w] = "issued"],
                 Budget(tick'[k]) = Budget(tick[k]) - 1
          PROVE  \E g \in [Ticks -> SUBSET Workers] : Attributed(g)'
      <4> DEFINE g == [of EXCEPT ![k] = of[k] \cup {w}]
      <4>1. g \in [Ticks -> SUBSET Workers] /\ g[k] = of[k] \cup {w}
              /\ \A j \in Ticks \ {k} : g[j] = of[j]
        BY DEF Unused
      <4>2. leaked' = leaked \cup {w}
        BY <1>0, <1>2, <3>4 DEF Unused
      <4>3. leaked' = UNION {g[j] : j \in Ticks}
        BY <2>1, <4>1, <4>2 DEF Attributed
      <4>4. Cardinality(g[k]) <= Cardinality(of[k]) + 1 /\ Cardinality(g[k]) \in Nat
        BY <3>3, <4>1, AddOne
      <4>5. Cardinality(g[k]) + Budget(tick'[k]) <= MaxWorkers
        BY <1>0, <2>1, <3>3, <3>4, <4>4 DEF Attributed
      <4> HIDE DEF g
      <4>6. Attributed(g)'
        BY <2>1, <3>1, <3>2, <4>1, <4>3, <4>5 DEF Attributed
      <4>7. QED BY <4>1, <4>6
    <3>5. ASSUME UNCHANGED cap, Cardinality(of[k]) + Budget(tick'[k]) <= MaxWorkers
          PROVE  \E g \in [Ticks -> SUBSET Workers] : Attributed(g)'
      <4>1. leaked' = leaked
        BY <1>0, <3>5
      <4>2. Attributed(of)'
        BY <2>1, <3>1, <3>2, <3>5, <4>1 DEF Attributed
      <4>3. QED BY <4>2
    <3>6. CASE UNCHANGED cap /\ tick[k].pc = "counting" /\ Budget(tick'[k]) \in 0..MaxWorkers
      <4>1. Cardinality(of[k]) = 0
        BY <2>1, <3>6, FS_EmptySet DEF Attributed
      <4>2. QED BY <1>0, <3>5, <3>6, <4>1
    <3>7. CASE UNCHANGED cap /\ Budget(tick'[k]) \in 0..Budget(tick[k])
      <4>1. Cardinality(of[k]) + Budget(tick[k]) <= MaxWorkers
        BY <2>1 DEF Attributed
      <4>2. QED BY <1>0, <3>3, <3>5, <3>7, <4>1
    <3>8. QED BY <1>0, <1>2, <2>4, <3>4, <3>6, <3>7, TickStepBudget
  <2>5. QED BY <1>0, <2>3, <2>4 DEF Next
<1>3. QED BY <1>1, <1>2

LEMMA LeakNext == PauseInv /\ LeakInv /\ [PauseNext]_allVars => LeakInv'
<1> SUFFICES ASSUME PauseInv, LeakInv, [PauseNext]_allVars PROVE LeakInv'
  OBVIOUS
<1>1. TInv'
  BY PauseKeepsCore
<1>2. CASE DispatchStep
  BY <1>1, <1>2, DispatchLeak
<1>3. ASSUME UNCHANGED <<tick, paused, leaked>> PROVE LeakInv'
  BY <1>3 DEF LeakInv, LeakAttributed, Attributed
<1>4. ASSUME leaked' = {} PROVE LeakInv'
  <2>1. LeakAttributed'
    BY <1>1, <1>4, NothingLeakedNext
  <2>2. QED BY <1>4, <2>1 DEF LeakInv
<1>5. ASSUME NEW c \in Calls, CallStep(c) \/ AbortCall(c) PROVE LeakInv'
  <2>1. UNCHANGED tick
    BY <1>5, CallStepCore
  <2>2. leaked' = {} \/ UNCHANGED <<paused, leaked>>
    BY <1>5 DEF CallStep, PauseFind, PauseMark, PauseSignal, PauseCollect, PauseRevoke,
          PauseTerminate,
                PauseFlip, ResumeRead, ResumeIssue, ResumeFlip, AbortCall, vars, actors
  <2>3. QED BY <1>3, <1>4, <2>1, <2>2
<1>6. ASSUME NEW c \in Calls, NEW s \in Sprints, PauseBegin(c, s) \/ ResumeBegin(c, s) PROVE LeakInv'
  BY <1>3, <1>6 DEF PauseBegin, ResumeBegin, vars
<1>7. ASSUME NEW w \in Workers, PauseKill(w) PROVE LeakInv'
  BY <1>3, <1>7 DEF PauseKill, actors
<1>8. CASE UNCHANGED allVars
  BY <1>3, <1>8 DEF allVars, vars, pauseVars
<1>9. QED BY <1>2, <1>5, <1>6, <1>7, <1>8 DEF PauseNext

\* However many ticks had begun when the flag was set, each hands out at most
\* maxWorkers further sessions while the pool is paused, for none begins
\* (PausedDispatchBounded), whatever fails meanwhile.
THEOREM PausedTicksRunOut ==
  ASSUME IsFiniteSet(Ticks)
  PROVE  PauseSpec => []PausedDispatchBounded
<1>1. PauseInit => LeakInv
  <2>1. PauseInit => TInv /\ leaked = {}
    BY InitType DEF PauseInit
  <2>2. QED BY <2>1, NothingLeaked DEF LeakInv
<1>2. PauseInv /\ LeakInv => PausedDispatchBounded
  <2> SUFFICES ASSUME PauseInv, LeakInv PROVE Cardinality(leaked) <= MaxWorkers * Cardinality(Ticks)
    BY DEF PausedDispatchBounded
  <2>1. PICK of \in [Ticks -> SUBSET Workers] : Attributed(of)
    BY DEF LeakInv, LeakAttributed
  <2>2. ASSUME NEW k \in Ticks PROVE Cardinality(of[k]) <= MaxWorkers
    <3>1. IsFiniteSet(of[k]) /\ Cardinality(of[k]) \in Nat
      BY ConstantsAssumption, FS_Subset, FS_CardinalityType
    <3>2. Budget(tick[k]) \in 0..MaxWorkers
      BY BudgetType DEF PauseInv
    <3>3. QED BY <2>1, <3>1, <3>2, ConstantsAssumption DEF Attributed
  <2>3. Cardinality(UNION {of[k] : k \in Ticks}) <= MaxWorkers * Cardinality(Ticks)
    <3>1. IsFiniteSet(Workers) /\ MaxWorkers \in Nat
      BY ConstantsAssumption
    <3>2. QED BY <2>2, <3>1, UnionBound
  <2>4. QED BY <2>1, <2>3 DEF Attributed
<1>3. QED BY <1>1, <1>2, LeakNext, PauseInvariant, PTL DEF PauseSpec

-----------------------------------------------------------------------------
(* The transition table, beside pause() and resume().                      *)

LEMMA LifecycleBesidePause ==
  ASSUME NEW theTick, Ticks = {theTick}, NoReopening
  PROVE  PauseInv /\ SessionsInv /\ LifecycleInv /\ [PauseNext]_allVars
           => LifecycleInv' /\ \A t \in Tasks : TaskMoves(t)
<1> SUFFICES ASSUME PauseInv, SessionsInv, LifecycleInv, [PauseNext]_allVars
             PROVE  LifecycleInv' /\ \A t \in Tasks : TaskMoves(t)
  OBVIOUS
<1>1. CASE DispatchStep
  BY <1>1, LifecycleNext DEF DispatchStep, PauseInv, SessionsInv
<1>2. CASE \/ \E c \in Calls : CallStep(c) \/ AbortCall(c)
           \/ \E c \in Calls, s \in Sprints : PauseBegin(c, s) \/ ResumeBegin(c, s)
           \/ \E w \in Workers : PauseKill(w)
           \/ UNCHANGED allVars
  <2>1. UNCHANGED <<tick, taskState, tool>> /\ \A w \in Workers : SessionKept(w)
    BY <1>2, OutsideKeepsSessions
  <2>2. \A w \in Workers : proc'[w] # "none" <=> proc[w] # "none"
    BY <1>2, CallStepCore, PauseKillCore DEF PauseInv, PauseBegin, ResumeBegin, allVars, vars
  <2>3. \A w \in Workers : CallGoesOn(w)
    BY <2>1 DEF CallGoesOn
  <2>4. LifecycleInv'
    BY <2>1, <2>2, <2>3, LifecycleKept DEF PauseInv
  <2>5. QED BY <2>1, <2>4 DEF TaskMoves
<1>3. QED BY <1>1, <1>2 DEF PauseNext

\* Where ticks do not overlap and no defect re-opens a task, pause() and
\* resume() move no task off the transition table either (TableTransitions).
THEOREM PauseKeepsTable ==
  ASSUME NEW theTick, Ticks = {theTick}, NoReopening
  PROVE  PauseSpec => TableTransitions
<1>1. PauseInit => LifecycleInv
  BY LifecycleInit DEF PauseInit
<1>2. PauseInv /\ SessionsInv /\ LifecycleInv /\ [PauseNext]_allVars => LifecycleInv'
  BY LifecycleBesidePause
<1>3. PauseInv /\ SessionsInv /\ LifecycleInv /\ [PauseNext]_allVars =>
        [\A t \in Tasks :
           \/ taskState'[t] = taskState[t]
           \/ iteration'[t] # iteration[t]
           \/ IsValidTaskTransition(taskState[t], taskState'[t])
           \/ <<taskState[t], taskState'[t]>> \in
                {<<"pending", "in_progress">>, <<"in_progress", "done">>}]_vars
  BY LifecycleBesidePause, MovesFollowTheTable DEF PauseInv, TInv, TypeOK
<1>4. QED BY <1>1, <1>2, <1>3, SessionsInvariant, PTL DEF PauseSpec, TableTransitions

-----------------------------------------------------------------------------
(* What the core promises, beside pause() and resume(): they take workers   *)
(* out of the count and add none.                                           *)

OutsideStep ==
  \/ \E c \in Calls : CallStep(c) \/ AbortCall(c)
  \/ \E c \in Calls, s \in Sprints : PauseBegin(c, s) \/ ResumeBegin(c, s)
  \/ \E w \in Workers : PauseKill(w)
  \/ UNCHANGED allVars

LEMMA OutsideShrinks ==
  ASSUME PauseInv, SessionsInv, OutsideStep
  PROVE  /\ Counted' \subseteq Counted
         /\ UNCHANGED <<tick, taskState, iteration, defect>>
         /\ \A w \in Workers : SessionKept(w)
<1>1. UNCHANGED <<tick, taskState>> /\ \A w \in Workers : SessionKept(w)
  BY OutsideKeepsSessions DEF OutsideStep
<1>2. ASSUME UNCHANGED <<row, revived>> PROVE Counted' \subseteq Counted
  BY <1>2 DEF Counted, AliveRows
<1>3. ASSUME NEW c \in Calls, CallStep(c) \/ AbortCall(c)
      PROVE  Counted' \subseteq Counted /\ UNCHANGED <<iteration, defect>>
  <2>1. ASSUME NEW w \in Workers, NEW s \in {"terminating", "terminated"}, LeaveAlive(w, s)
        PROVE  Counted' \subseteq Counted
    <3>1. s \in WorkerStatuses \ AliveStatuses
      BY DEF WorkerStatuses, AliveStatuses
    <3>2. QED BY <2>1, <3>1, LeaveAliveShrinks DEF PauseInv
  <2>2. QED BY <1>2, <1>3, <2>1, CallStepCore
<1>4. ASSUME NEW w \in Workers, PauseKill(w)
      PROVE  Counted' \subseteq Counted /\ UNCHANGED <<iteration, defect>>
  <2>1. UNCHANGED <<tables, actors, revived>>
    BY <1>4, PauseKillCore DEF PauseInv
  <2>2. QED BY <1>2, <2>1 DEF tables, actors
<1>5. ASSUME UNCHANGED vars PROVE Counted' \subseteq Counted /\ UNCHANGED <<iteration, defect>>
  BY <1>2, <1>5 DEF vars
<1>6. Counted' \subseteq Counted /\ UNCHANGED <<iteration, defect>>
  BY <1>3, <1>4, <1>5 DEF OutsideStep, PauseBegin, ResumeBegin, allVars
<1>7. QED BY <1>1, <1>6

LEMMA OutsideOrDispatch == [PauseNext]_allVars => DispatchStep \/ OutsideStep
  BY DEF PauseNext, OutsideStep

LEMMA SlotsBesidePause ==
  ASSUME IsFiniteSet(Ticks)
  PROVE  PauseInv /\ SessionsInv /\ SlotInv /\ [PauseNext]_allVars => SlotInv'
<1> SUFFICES ASSUME PauseInv, SessionsInv, SlotInv, [PauseNext]_allVars PROVE SlotInv'
  OBVIOUS
<1>1. CASE DispatchStep
  BY <1>1, SlotNext DEF DispatchStep, PauseInv
<1>2. CASE OutsideStep
  BY <1>2, OutsideShrinks, FewerSlots DEF PauseInv
<1>3. QED BY <1>1, <1>2, OutsideOrDispatch

\* pause() and resume(), any number of them and failing anywhere, take the alive
\* workers of overlapping ticks past no maxWorkers for each of those
\* (WithinMaxWorkersPerTick).
THEOREM PauseKeepsLimitPerTick ==
  ASSUME IsFiniteSet(Ticks)
  PROVE  PauseSpec => []WithinMaxWorkersPerTick
<1>1. SlotInv /\ PauseInv => WithinMaxWorkersPerTick
  BY SlotsWithin DEF PauseInv
<1>2. PauseInit => SlotInv
  BY SlotInit DEF PauseInit
<1>3. QED BY <1>1, <1>2, SlotsBesidePause, SessionsInvariant, PTL DEF PauseSpec

\* pause() and resume(), any number of them and failing anywhere, take no alive
\* worker past maxWorkers where ticks do not overlap (WithinMaxWorkers).
THEOREM PauseKeepsLimit ==
  ASSUME NEW theTick, Ticks = {theTick}
  PROVE  PauseSpec => []WithinMaxWorkers
<1>1. PauseSpec => []WithinMaxWorkersPerTick
  BY OneTick, PauseKeepsLimitPerTick
<1>2. WithinMaxWorkersPerTick => WithinMaxWorkers
  BY OneTick
<1>3. QED BY <1>1, <1>2, PTL

LEMMA OpeningsBesidePause ==
  ASSUME IsFiniteSet(Ticks), NEW theDefect, Defects = {theDefect}
  PROVE  PauseInv /\ SessionsInv /\ OpeningInv /\ [PauseNext]_allVars => OpeningInv'
<1> SUFFICES ASSUME PauseInv, SessionsInv, OpeningInv, [PauseNext]_allVars PROVE OpeningInv'
  OBVIOUS
<1>1. CASE DispatchStep
  BY <1>1, OpeningNext DEF DispatchStep, PauseInv, SessionsInv
<1>2. CASE OutsideStep
  <2>1. UNCHANGED <<tick, taskState, iteration, defect>>
    BY <1>2, OutsideShrinks
  <2>2. \A t \in Tasks : SessionsOf(t)' = SessionsOf(t)
    BY <1>2, OutsideShrinks, SessionsSame DEF SessionsInv
  <2>3. CountsRead'
    BY <2>1 DEF OpeningInv, CountsRead
  <2>4. ASSUME NEW t \in Tasks PROVE OpeningOf(t)'
    <3>1. iteration'[t] = iteration[t] /\ \A k \in Ticks : Claim(k, t)' <= Claim(k, t)
      BY <2>1, ClaimType DEF Claim, Open, HeldBy, ChosenBy
    <3>2. QED BY <2>2, <3>1, OpeningKept DEF OpeningInv, PauseInv
  <2>5. QED BY <2>3, <2>4 DEF OpeningInv
<1>3. QED BY <1>1, <1>2, OutsideOrDispatch

\* What pause() kills or takes back is not handed out again by it: with one run
\* of the defect hook at a time a task has no more than one session of each tick
\* per opening, whichever calls run beside them (DispatchedOncePerTick).
THEOREM PauseDispatchesOnceEach ==
  ASSUME IsFiniteSet(Ticks), NEW theDefect, Defects = {theDefect}
  PROVE  PauseSpec => []DispatchedOncePerTick
<1>1. OpeningInv /\ PauseInv => DispatchedOncePerTick
  BY OpeningsWithin DEF PauseInv
<1>2. PauseInit => OpeningInv
  BY OpeningInit DEF PauseInit
<1>3. QED BY <1>1, <1>2, OpeningsBesidePause, SessionsInvariant, PTL DEF PauseSpec

\* With one tick as well a task has one session per opening
\* (DispatchedOncePerOpening).
THEOREM PauseDispatchesOnce ==
  ASSUME NEW theTick, Ticks = {theTick}, NEW theDefect, Defects = {theDefect}
  PROVE  PauseSpec => []DispatchedOncePerOpening
<1>1. PauseSpec => []DispatchedOncePerTick
  BY OneTick, PauseDispatchesOnceEach
<1>2. PauseInv /\ DispatchedOncePerTick => DispatchedOncePerOpening
  BY OneTickOpenings DEF PauseInv
<1>3. QED BY <1>1, <1>2, SessionsInvariant, PTL DEF PauseSpec

LEMMA WritersBesidePause ==
  ASSUME NEW theTick, Ticks = {theTick}
  PROVE  PauseInv /\ SessionsInv /\ WritersDisjoint /\ WritersInv /\ [PauseNext]_allVars
           => WritersDisjoint' /\ WritersInv'
<1> SUFFICES ASSUME PauseInv, SessionsInv, WritersDisjoint, WritersInv, [PauseNext]_allVars
             PROVE  WritersDisjoint' /\ WritersInv'
  OBVIOUS
<1>1. CASE DispatchStep
  BY <1>1, WritersNext DEF DispatchStep, PauseInv, SessionsInv
<1>2. CASE OutsideStep
  <2>1. UNCHANGED <<tick, taskState>> /\ \A u \in Tasks : HasWorker(u)' => HasWorker(u)
    BY <1>2, OutsideShrinks, WorkersShrink DEF SessionsInv
  <2>2. WritersDisjoint' /\ \A t \in Tasks : FreeToWrite(t) => FreeToWrite(t)'
    BY <2>1, WritersShrink
  <2>3. ASSUME NEW k \in Ticks,
               tick'[k].pc \in {"issuing", "marking", "spawning", "registering"}
        PROVE  FreeToWrite(tick[k].task)'
    <3>1. PICK t \in Tasks : t = tick[k].task /\ t = tick'[k].task
      BY <2>1, <2>3 DEF SessionsInv, RowsInv, TickSession, WorkerSteps
    <3>2. FreeToWrite(t)'
      BY <2>1, <2>2, <2>3, <3>1 DEF WritersInv
    <3>3. QED BY <3>1, <3>2
  <2>4. QED BY <2>2, <2>3 DEF WritersInv
<1>3. QED BY <1>1, <1>2, OutsideOrDispatch

\* Where ticks do not overlap, conflicting tasks in progress never both have a
\* worker, whatever pause() and resume() kill, revoke or mark beside the tick
\* that read the busy paths (WritersDisjoint).
THEOREM PauseKeepsWritersDisjoint ==
  ASSUME NEW theTick, Ticks = {theTick}
  PROVE  PauseSpec => []WritersDisjoint
<1>1. PauseInit => WritersDisjoint /\ WritersInv
  BY WritersInit DEF PauseInit
<1>2. QED BY <1>1, WritersBesidePause, SessionsInvariant, PTL DEF PauseSpec
=============================================================================

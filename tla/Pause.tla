------------------------------- MODULE Pause -------------------------------
(***************************************************************************)
(* SprintService.pause and resume (domain/src/backlog/sprint-service.ts)   *)
(* over PauseController (orchestration/pause.ts), at work beside the ticks, *)
(* tool calls and monitor polls of Dispatch.                               *)
(*                                                                         *)
(* A call moves the sprint's status under a lock, which it releases before *)
(* it drains: it marks and signals the sprint's workers, waits, revokes    *)
(* what is left and only then sets worker_pool_state.paused, the flag that *)
(* Scheduler.tick reads once, at its start.  Calls are the calls that may  *)
(* be in flight at once.                                                   *)
(***************************************************************************)
EXTENDS Dispatch

CONSTANTS
  Calls,       \* pause() and resume() calls in flight
  CallFaults,  \* may an awaited call of pause() or resume() itself throw?
  NoSprint     \* "no sprint"

ASSUME PauseAssumption == NoSprint \notin Sprints /\ CallFaults \in BOOLEAN

VARIABLES
  sprintStatus,  \* sprints.status
  call,          \* local state of each call
  victims,       \* sessions that got SIGTERM and wait for the SIGKILL check
  late,          \* history: sessions registered since a drain last read the rows
  leaked         \* history: sessions given a capability since the flag was set

pauseVars == <<sprintStatus, call, victims, late, leaked>>
allVars   == <<vars, pauseVars>>

PauseSteps == {"none", "finding", "marking", "draining", "revoking",
               "terminating", "flipping", "reading", "issuing"}
NoCall == [pc |-> "none", sprint |-> NoSprint, todo |-> {}, signal |-> {}, tasks |-> {}]
CallType == [pc : PauseSteps, sprint : Sprints \cup {NoSprint},
             todo : SUBSET Workers, signal : SUBSET Workers, tasks : SUBSET Tasks]

PauseTypeOK ==
  /\ sprintStatus \in [Sprints -> {"active", "paused"}]
  /\ call \in [Calls -> CallType]
  /\ victims \subseteq Workers
  /\ late \subseteq Workers
  /\ leaked \subseteq Workers

PauseInit ==
  /\ Init
  /\ sprintStatus = [s \in Sprints |-> "active"]
  /\ call = [c \in Calls |-> NoCall]
  /\ victims = {} /\ late = {} /\ leaked = {}

-----------------------------------------------------------------------------
(* pause(sprint)                                                           *)

\* The transaction of SprintService.pause.
PauseBegin(c, s) ==
  /\ call[c].pc = "none"
  /\ sprintStatus[s] = "active"
  /\ sprintStatus' = [sprintStatus EXCEPT ![s] = "paused"]
  /\ call' = [call EXCEPT ![c].pc = "finding", ![c].sprint = s]
  /\ UNCHANGED <<vars, victims, late, leaked>>

\* findActiveSprintWorkers: every row of the sprint but the terminated ones.
SprintWorkers(s) ==
  {w \in Workers : /\ row[w] \notin {"absent", "terminated"}
                   /\ SprintOf[boundTask[w]] = s}

\* signalWorkers goes by the status the rows had when they were read.
Signalable == {"active", "terminating"}

\* PauseController.pause, step 1.  Without workers the flag is next.
PauseFind(c) ==
  /\ call[c].pc = "finding"
  /\ LET found == SprintWorkers(call[c].sprint) IN
       call' = [call EXCEPT
         ![c].pc = IF found = {} THEN "flipping" ELSE "marking",
         ![c].todo = found,
         ![c].signal = {w \in found : row[w] \in Signalable}]
  /\ late' = {}
  /\ UNCHANGED <<vars, sprintStatus, victims, leaked>>

\* Step 2, one UPDATE at a time.
PauseMark(c, w) ==
  /\ call[c].pc = "marking" /\ w \in call[c].todo
  /\ LeaveAlive(w, "terminating")
  /\ call' = [call EXCEPT ![c].todo = @ \ {w}]
  /\ UNCHANGED <<taskState, iteration, cap, boundTask, proc, tracked, termed,
                 actors, paused, sprintStatus, victims, late, leaked>>

\* Step 2b: SIGTERM reaches the processes that are still there.
PauseSignal(c) ==
  /\ call[c].pc = "marking" /\ call[c].todo = {}
  /\ victims' = victims \cup (call[c].signal \cap Running)
  /\ call' = [call EXCEPT ![c].pc = "draining", ![c].signal = {}]
  /\ UNCHANGED <<vars, sprintStatus, late, leaked>>

\* The SIGKILL grace is over, concurrently with the drain.
PauseKill(w) ==
  /\ w \in victims
  /\ victims' = victims \ {w}
  /\ IF w \in Running
     THEN /\ proc' = [proc EXCEPT ![w] = "exited"]
          /\ tracked' = tracked \ {w}
          /\ termed' = termed \ {w}
     ELSE UNCHANGED <<proc, tracked, termed>>
  /\ UNCHANGED <<tables, boundTask, fresh, actors, paused, revived, sprintStatus,
                 call, late, leaked>>

\* Mutant: the drain ends with the rows that still bear its mark.
PauseCollectMarked(c) ==
  /\ call[c].pc = "draining"
  /\ call' = [call EXCEPT
       ![c].pc = "revoking",
       ![c].todo = {w \in SprintWorkers(call[c].sprint) : row[w] = "terminating"}]
  /\ late' = {}
  /\ UNCHANGED <<vars, sprintStatus, victims, leaked>>

\* Mutant: the drain polls until no worker is left.
PauseCollectWaits(c) ==
  /\ call[c].pc = "draining"
  /\ SprintWorkers(call[c].sprint) = {}
  /\ call' = [call EXCEPT ![c].pc = "revoking"]
  /\ late' = {}
  /\ UNCHANGED <<vars, sprintStatus, victims, leaked>>

\* Steps 3 and 4: the poll saw no worker left or drainGraceMs is over; the
\* rows are read once more.
PauseCollect(c) ==
  /\ call[c].pc = "draining"
  /\ call' = [call EXCEPT ![c].pc = "revoking", ![c].todo = SprintWorkers(call[c].sprint)]
  /\ late' = {}
  /\ UNCHANGED <<vars, sprintStatus, victims, leaked>>

\* Mutant: a revoke that fails ends the call.
PauseRevokeOrThrow(c, w) ==
  /\ call[c].pc = "revoking" /\ w \in call[c].todo
  /\ \/ /\ cap' = [cap EXCEPT ![w] = "revoked"]
        /\ call' = [call EXCEPT ![c].pc = "terminating", ![c].signal = {w}]
     \/ /\ Faults
        /\ call' = [call EXCEPT ![c] = NoCall]
        /\ UNCHANGED cap
  /\ UNCHANGED <<taskState, iteration, row, procs, actors, paused, revived,
                 sprintStatus, victims, late, leaked>>

\* A revoke that fails is logged and passed over.
PauseRevoke(c, w) ==
  /\ call[c].pc = "revoking" /\ w \in call[c].todo
  /\ \/ cap' = [cap EXCEPT ![w] = "revoked"]
     \/ Faults /\ UNCHANGED cap
  /\ call' = [call EXCEPT ![c].pc = "terminating", ![c].signal = {w}]
  /\ UNCHANGED <<taskState, iteration, row, procs, actors, paused, revived,
                 sprintStatus, victims, late, leaked>>

PauseTerminate(c, w) ==
  /\ call[c].pc = "terminating" /\ w \in call[c].signal
  /\ LeaveAlive(w, "terminated")
  /\ call' = [call EXCEPT ![c].pc = "revoking", ![c].todo = @ \ {w}, ![c].signal = {}]
  /\ UNCHANGED <<taskState, iteration, cap, boundTask, proc, tracked, termed,
                 actors, paused, sprintStatus, victims, late, leaked>>

\* Step 5: flipPaused(true).
PauseFlip(c) ==
  /\ \/ call[c].pc = "flipping"
     \/ call[c].pc = "revoking" /\ call[c].todo = {}
  /\ paused' = TRUE
  /\ call' = [call EXCEPT ![c] = NoCall]
  /\ leaked' = {}
  /\ UNCHANGED <<tables, procs, actors, revived, sprintStatus, victims, late>>

-----------------------------------------------------------------------------
(* resume(sprint)                                                          *)

\* Mutant: the sprint is sent back to the status before 'active'.
ResumeBeginReady(c, s) ==
  /\ call[c].pc = "none"
  /\ sprintStatus[s] = "paused"
  /\ sprintStatus' = [sprintStatus EXCEPT ![s] = "ready"]
  /\ call' = [call EXCEPT ![c].pc = "reading", ![c].sprint = s]
  /\ UNCHANGED <<vars, victims, late, leaked>>

\* The transaction of SprintService.resume.
ResumeBegin(c, s) ==
  /\ call[c].pc = "none"
  /\ sprintStatus[s] = "paused"
  /\ sprintStatus' = [sprintStatus EXCEPT ![s] = "active"]
  /\ call' = [call EXCEPT ![c].pc = "reading", ![c].sprint = s]
  /\ UNCHANGED <<vars, victims, late, leaked>>

ResumeRead(c) ==
  /\ call[c].pc = "reading"
  /\ call' = [call EXCEPT
       ![c].pc = "issuing",
       ![c].tasks = {t \in Tasks : SprintOf[t] = call[c].sprint /\ taskState[t] = "ready"}]
  /\ UNCHANGED <<vars, sprintStatus, victims, late, leaked>>

\* A capability for a fresh session that no process is ever started for; an
\* issue that fails is passed over.
ResumeIssue(c, t) ==
  /\ call[c].pc = "issuing" /\ t \in call[c].tasks
  /\ \/ \E w \in Unused : /\ cap' = [cap EXCEPT ![w] = "issued"]
                          /\ boundTask' = [boundTask EXCEPT ![w] = t]
     \/ Faults /\ UNCHANGED <<cap, boundTask>>
  /\ call' = [call EXCEPT ![c].tasks = @ \ {t}]
  /\ UNCHANGED <<taskState, iteration, row, proc, fresh, tracked, termed, actors,
                 paused, revived, sprintStatus, victims, late, leaked>>

\* flipPaused(false).
ResumeFlip(c) ==
  /\ call[c].pc = "issuing" /\ call[c].tasks = {}
  /\ paused' = FALSE
  /\ call' = [call EXCEPT ![c] = NoCall]
  /\ leaked' = {}
  /\ UNCHANGED <<tables, procs, actors, revived, sprintStatus, victims, late>>

\* A query of the call rejects: it ends there, and what it has written stays.
AbortCall(c) ==
  /\ CallFaults
  /\ call[c].pc # "none"
  /\ call' = [call EXCEPT ![c] = NoCall]
  /\ UNCHANGED <<vars, sprintStatus, victims, late, leaked>>

-----------------------------------------------------------------------------
\* A step of Dispatch, with what the histories record of it.
DispatchStep ==
  /\ Next
  /\ late' = late \cup {w \in Workers : row[w] = "absent" /\ row'[w] # "absent"}
  /\ leaked' = IF paused
               THEN leaked \cup {w \in Workers : cap[w] = "none" /\ cap'[w] = "issued"}
               ELSE leaked
  /\ UNCHANGED <<sprintStatus, call, victims>>

\* The call goes on.
CallStep(c) ==
  \/ PauseFind(c) \/ PauseSignal(c) \/ PauseCollect(c) \/ PauseFlip(c)
  \/ \E w \in Workers : PauseMark(c, w) \/ PauseRevoke(c, w) \/ PauseTerminate(c, w)
  \/ ResumeRead(c) \/ ResumeFlip(c)
  \/ \E t \in Tasks : ResumeIssue(c, t)

PauseNext ==
  \/ DispatchStep
  \/ \E c \in Calls : CallStep(c) \/ AbortCall(c)
  \/ \E c \in Calls, s \in Sprints : PauseBegin(c, s) \/ ResumeBegin(c, s)
  \/ \E w \in Workers : PauseKill(w)

PauseSpec == PauseInit /\ [][PauseNext]_allVars

\* A call that has begun goes on; nobody needs to make one.
FairPauseSpec == PauseSpec /\ \A c \in Calls : WF_allVars(CallStep(c))

-----------------------------------------------------------------------------
(* Properties                                                              *)

\* While the pool is paused, the ticks that had already begun hand out at
\* most maxWorkers further sessions each, and no tick begins (Scheduler.tick).
PausedDispatchBounded == Cardinality(leaked) <= MaxWorkers * Cardinality(Ticks)

NoCallInFlight == \A c \in Calls : call[c].pc = "none"

\* Once pause() has returned, the sprint's workers are out of the alive
\* statuses but for those registered after its last look at the rows and
\* those a late heartbeat brought back (PauseController.pause, step 4).
DrainedSprint ==
  paused /\ NoCallInFlight =>
    {w \in AliveRows : sprintStatus[SprintOf[boundTask[w]]] = "paused"} \subseteq late \cup revived

\* Between calls the pool is paused exactly when the one sprint there is has
\* the status 'paused' (SprintService.pause and resume).
StatusMatchesFlag ==
  NoCallInFlight => (paused <=> \E s \in Sprints : sprintStatus[s] = "paused")

\* A call of pause() that found workers to drain comes to its end, whatever
\* the workers do: drainGraceMs is a deadline, not a condition on them.
PauseCompletes == \A c \in Calls : (call[c].pc = "marking") ~> (call[c].pc = "none")
=============================================================================

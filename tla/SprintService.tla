--------------------------- MODULE SprintService ---------------------------
(***************************************************************************)
(* The lifecycle of sprints: SprintService (domain/src/backlog/            *)
(* sprint-service.ts) over the scheduler's sprints and their share.        *)
(*                                                                         *)
(* Every call checks and moves the sprint's status in a transaction under  *)
(* an advisory lock of that sprint, commits, and only then does its work:  *)
(* start() reads the task graph, adds the sprint to the scheduler and      *)
(* appends an event; complete() removes it again.  The transactions of two *)
(* calls never overlap; what follows them does.  The process may restart,  *)
(* which empties the scheduler and keeps the tables.                       *)
(***************************************************************************)
EXTENDS SprintShare

CONSTANTS
  Calls,            \* calls in flight at once
  MaxActiveSprints, \* maxActiveSprints
  NoSprint          \* "no sprint"

ASSUME ServiceAssumption == NoSprint \notin Sprints /\ MaxActiveSprints \in Nat

VARIABLES
  status,      \* sprints.status; "absent" before create()
  call,        \* local state of each call
  contended,   \* history: sprints whose start() overlapped another start() or a
               \* complete() since the last restart
  stranded     \* history: sprints that lost their place in the scheduler

serviceVars == <<shareVars, status, call, contended, stranded>>

Statuses == {"absent", "planning", "ready", "active", "paused", "completing", "completed"}
Live == {"active", "paused"}

\* SPRINT_TRANSITIONS.
SprintTransitions ==
  {<<"planning", "ready">>, <<"ready", "active">>, <<"active", "completing">>,
   <<"active", "paused">>, <<"completing", "completed">>, <<"paused", "active">>,
   <<"paused", "completed">>}
IsValidSprintTransition(from, to) == <<from, to>> \in SprintTransitions

Steps == {"none", "loading", "emitting", "reverting", "removing"}
NoCall == [pc |-> "none", sprint |-> NoSprint]

ServiceTypeOK ==
  /\ ShareTypeOK
  /\ status \in [Sprints -> Statuses]
  /\ call \in [Calls -> [pc : Steps, sprint : Sprints \cup {NoSprint}]]
  /\ \A c \in Calls : call[c].pc # "none" => call[c].sprint \in Sprints
  /\ contended \subseteq Sprints /\ stranded \subseteq Sprints

ServiceInit ==
  /\ ShareInit
  /\ status = [s \in Sprints |-> "absent"]
  /\ call = [c \in Calls |-> NoCall]
  /\ contended = {} /\ stranded = {}

\* Is a call at one of the steps given in flight for the sprint?
InFlight(s, steps) == \E c \in Calls : call[c].pc \in steps /\ call[c].sprint = s
Starting == {"loading", "emitting", "reverting"}

Goto(c, pc) == call' = [call EXCEPT ![c].pc = pc]
\* Mutant: the sprint of the call is dropped, its step is not.
ReturnHalf(c) == call' = [call EXCEPT ![c].sprint = NoSprint]

Return(c) == call' = [call EXCEPT ![c] = NoCall]

\* The transaction a call begins with, and the step it goes on to.
Begin(c, s, to, pc) ==
  /\ call[c].pc = "none"
  /\ status' = [status EXCEPT ![s] = to]
  /\ call' = [call EXCEPT ![c] = [pc |-> pc, sprint |-> s]]

-----------------------------------------------------------------------------
(* create, createCommitment: all of it in the transaction                   *)

LiveSprints == {s \in Sprints : status[s] \in Live}

Create(s) ==
  /\ status[s] = "absent"
  /\ Cardinality(LiveSprints) < MaxActiveSprints
  /\ status' = [status EXCEPT ![s] = "planning"]
  /\ UNCHANGED <<shareVars, call, contended, stranded>>

CreateCommitment(s) ==
  /\ IsValidSprintTransition(status[s], "ready")
  /\ status' = [status EXCEPT ![s] = "ready"]
  /\ UNCHANGED <<shareVars, call, contended, stranded>>

-----------------------------------------------------------------------------
(* start                                                                   *)

StartBegin(c, s) ==
  /\ IsValidSprintTransition(status[s], "active")
  /\ Begin(c, s, "active", "loading")
  /\ contended' = IF InFlight(s, Starting \cup {"removing"}) THEN contended \cup {s} ELSE contended
  /\ UNCHANGED <<shareVars, stranded>>

\* A query rejects or assertAcyclic throws: the status stays.
StartLoadFails(c) ==
  /\ call[c].pc = "loading"
  /\ Return(c)
  /\ stranded' = IF call[c].sprint \in scheduled THEN stranded
                 ELSE stranded \cup {call[c].sprint}
  /\ UNCHANGED <<shareVars, status, contended>>

\* addSprint cannot throw: it sets two maps.
StartSchedule(c) ==
  /\ call[c].pc = "loading"
  /\ AddSprint(call[c].sprint)
  /\ Goto(c, "emitting")
  /\ stranded' = stranded \ {call[c].sprint}
  /\ UNCHANGED <<status, contended>>

StartEmit(c) ==
  /\ call[c].pc = "emitting"
  /\ Return(c)
  /\ UNCHANGED <<shareVars, status, contended, stranded>>

\* Mutant: the sprint is not taken out of the scheduler again.
StartEmitFailsOnly(c) ==
  /\ call[c].pc = "emitting"
  /\ Goto(c, "reverting")
  /\ UNCHANGED <<shareVars, status, contended, stranded>>

\* SprintStarted cannot be appended.
StartEmitFails(c) ==
  /\ call[c].pc = "emitting"
  /\ RemoveSprint(call[c].sprint)
  /\ Goto(c, "reverting")
  /\ UNCHANGED <<status, contended, stranded>>

\* Mutant: the status is left as the transaction set it.
StartGivesUp(c) ==
  /\ call[c].pc = "reverting"
  /\ Return(c)
  /\ UNCHANGED <<shareVars, status, contended, stranded>>

\* The status is set back whatever it is by now; a failure is swallowed.
StartRevert(c) ==
  /\ call[c].pc = "reverting"
  /\ Return(c)
  /\ \/ /\ status' = [status EXCEPT ![call[c].sprint] = "ready"]
        /\ UNCHANGED stranded
     \/ /\ stranded' = stranded \cup {call[c].sprint}
        /\ UNCHANGED status
  /\ UNCHANGED <<shareVars, contended>>

-----------------------------------------------------------------------------
(* pause, resume: what follows the transaction is in module Pause           *)

PauseSprint(s) ==
  /\ IsValidSprintTransition(status[s], "paused")
  /\ status' = [status EXCEPT ![s] = "paused"]
  /\ UNCHANGED <<shareVars, call, contended, stranded>>

\* A sprint that was never started may be resumed as well: 'ready' may become
\* 'active'.
ResumeSprint(s) ==
  /\ IsValidSprintTransition(status[s], "active")
  /\ status' = [status EXCEPT ![s] = "active"]
  /\ stranded' = IF s \in scheduled THEN stranded ELSE stranded \cup {s}
  /\ UNCHANGED <<shareVars, call, contended>>

-----------------------------------------------------------------------------
(* complete                                                                *)

CompleteBegin(c, s) ==
  /\ status[s] \in {"active", "completing", "paused"}
  /\ Begin(c, s, "completed", "removing")
  /\ contended' = IF InFlight(s, Starting) THEN contended \cup {s} ELSE contended
  /\ UNCHANGED <<shareVars, stranded>>

\* removeSprint; the rest only reads and appends.
CompleteRemove(c) ==
  /\ call[c].pc = "removing"
  /\ RemoveSprint(call[c].sprint)
  /\ Return(c)
  /\ UNCHANGED <<status, contended, stranded>>

-----------------------------------------------------------------------------

\* The orchestrator restarts: the boot puts no sprint back.
Restart ==
  /\ call' = [c \in Calls |-> NoCall]
  /\ scheduled' = {} /\ deficit' = [s \in Sprints |-> 0] /\ turn' = Nobody
  /\ stranded' = stranded \cup LiveSprints
  /\ contended' = {}
  /\ UNCHANGED status

CallNext(c) ==
  \/ StartLoadFails(c) \/ StartSchedule(c) \/ StartEmit(c) \/ StartEmitFails(c)
  \/ StartRevert(c) \/ CompleteRemove(c)
  \/ \E s \in Sprints : StartBegin(c, s) \/ CompleteBegin(c, s)

ServiceNext ==
  \/ \E s \in Sprints : \/ Create(s) \/ CreateCommitment(s)
                        \/ PauseSprint(s) \/ ResumeSprint(s)
  \/ \E c \in Calls : CallNext(c)
  \/ Restart

ServiceSpec == ServiceInit /\ [][ServiceNext]_serviceVars

-----------------------------------------------------------------------------
(* Properties                                                              *)

\* Between calls the scheduler offers slots to live sprints only, unless
\* start() overlapped a complete() or another start() of the same sprint:
\* whatever event cannot be appended and whichever calls pause or resume it
\* meanwhile (start and complete, which move status and scheduler apart).
OnlyLiveScheduled ==
  \A s \in scheduled : \/ status[s] \in Live
                       \/ InFlight(s, Starting \cup {"removing"})
                       \/ s \in contended

\* A live sprint has its place in the scheduler, unless a start() failed
\* after its transaction, resume() took a sprint that was never started, or
\* the orchestrator restarted since (SprintService.start and its rollback).
LiveScheduled ==
  \A s \in LiveSprints : \/ s \in scheduled
                         \/ InFlight(s, Starting)
                         \/ s \in stranded \cup contended
=============================================================================

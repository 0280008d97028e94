---------------------------- MODULE SprintShare ----------------------------
(***************************************************************************)
(* The share of the sprints in Scheduler.tick (orchestration/scheduler.ts): *)
(* which sprint the next slot is offered to.  A turn goes to the sprint    *)
(* with the highest deficit + share; it pays 1 - share, the others gain    *)
(* theirs.  Sprints come and go between two turns.                         *)
(*                                                                         *)
(* Deficits are kept in units of 1/Scale, so that every share is a whole   *)
(* number of them.  The code's are doubles: where two scores are equal,    *)
(* their rounding and the order of the Map decide, here either may win.    *)
(***************************************************************************)
EXTENDS Integers, FiniteSets, FiniteSetsExt

CONSTANTS
  Sprints,
  Priority,  \* the weight of each sprint, 1..5
  Scale,     \* deficit units in a slot
  Nobody     \* "no sprint"

TotalPriority == [S \in SUBSET Sprints |-> MapThenSumSet(LAMBDA s : Priority[s], S)]

ASSUME ShareAssumption ==
  /\ IsFiniteSet(Sprints) /\ Nobody \notin Sprints
  /\ Priority \in [Sprints -> 1..5]
  /\ Scale \in Nat \ {0}
ASSUME ScaleIsCommon ==
  \A S \in SUBSET Sprints : \A s \in S : (Priority[s] * Scale) % TotalPriority[S] = 0

VARIABLES
  scheduled,  \* the scheduler's sprints map
  deficit,    \* sprintDeficit; 0 for a sprint that is not in it (getDeficitFor)
  turn        \* the sprint picked last

shareVars == <<scheduled, deficit, turn>>

ShareTypeOK ==
  /\ scheduled \subseteq Sprints
  /\ deficit \in [Sprints -> Int]
  /\ turn \in Sprints \cup {Nobody}

ShareInit ==
  /\ scheduled = {}
  /\ deficit = [s \in Sprints |-> 0]
  /\ turn = Nobody

\* Adding a sprint that is there keeps its deficit.
AddSprint(s) ==
  /\ scheduled' = scheduled \cup {s}
  /\ UNCHANGED <<deficit, turn>>

RemoveSprint(s) ==
  /\ scheduled' = scheduled \ {s}
  /\ deficit' = [deficit EXCEPT ![s] = 0]
  /\ UNCHANGED turn

Share(s) == (Priority[s] * Scale) \div TotalPriority[scheduled]
Score(s) == deficit[s] + Share(s)

\* Mutant: the deficits are read but never brought up to date.
PickByShare(s) ==
  /\ s \in scheduled
  /\ \A r \in scheduled : Score(r) <= Score(s)
  /\ turn' = s
  /\ UNCHANGED <<scheduled, deficit>>

\* Mutant: whoever is picked pays a whole slot and gains no share.
PickOvercharged(s) ==
  /\ s \in scheduled
  /\ \A r \in scheduled : Score(r) <= Score(s)
  /\ deficit' = [r \in Sprints |->
       IF r \notin scheduled THEN deficit[r]
       ELSE IF r = s THEN deficit[r] - Scale ELSE deficit[r] + Share(r)]
  /\ turn' = s
  /\ UNCHANGED scheduled

\* pickSprint, whatever the sprint has to run.
PickSprint(s) ==
  /\ s \in scheduled
  /\ \A r \in scheduled : Score(r) <= Score(s)
  /\ deficit' = [r \in Sprints |->
       IF r \notin scheduled THEN deficit[r]
       ELSE IF r = s THEN Score(r) - Scale ELSE Score(r)]
  /\ turn' = s
  /\ UNCHANGED scheduled

ShareNext ==
  \E s \in Sprints : \/ s \notin scheduled /\ AddSprint(s)
                     \/ s \in scheduled /\ RemoveSprint(s)
                     \/ PickSprint(s)

ShareSpec == ShareInit /\ [][ShareNext]_shareVars

\* Slots come free and ticks follow, so turns go on; nobody need add a sprint.
PickAny == \E s \in Sprints : PickSprint(s)
FairShareSpec == ShareSpec /\ WF_shareVars(PickAny)

-----------------------------------------------------------------------------
(* Properties                                                              *)

\* However often sprints are added and removed between turns, no sprint's debt
\* or credit reaches one slot for each other sprint
\* (Scheduler.removeSprint leaves the deficits of the rest as they are).
DeficitsBounded ==
  LET limit == Scale * (Cardinality(Sprints) - 1)
  IN  \A s \in Sprints : -limit < deficit[s] /\ deficit[s] < limit

\* A sprint that stays in the scheduler gets a turn again and again, whatever
\* its weight and whoever comes and goes beside it (Scheduler.pickSprint).
EverySprintGetsItsTurn == \A s \in Sprints : []<>(turn = s \/ s \notin scheduled)
=============================================================================

------------------------------ MODULE Worktree ------------------------------
(***************************************************************************)
(* The git worktree of a task: WorktreeManager.create and cleanup           *)
(* (orchestration/worktree.ts), as Scheduler.allocateSlot calls the one     *)
(* and registerWorktreeCleanup the other.                                   *)
(*                                                                         *)
(* Paths and branches carry the task's id, so one task shows it all.  The  *)
(* scheduler creates the worktree before it marks the task; a worker ends  *)
(* the task; the event of that end sets off a cleanup nobody waits for; a  *)
(* defect makes the task ready again.  A create may so meet a cleanup, and *)
(* two cleanups may meet.  Of the table only the row that is not released  *)
(* is ever read, and a partial unique index admits one.                    *)
(***************************************************************************)
EXTENDS Integers, FiniteSets

CONSTANTS
  Cleanups,    \* cleanups in flight at once
  Deliveries,  \* how often the event of a task's end may be delivered
  MaxEnds,     \* how often the task may end
  MaxRows      \* worktree rows made for it

ASSUME WorktreeAssumption ==
  /\ IsFiniteSet(Cleanups) /\ Deliveries \subseteq Nat
  /\ MaxEnds \in Nat /\ MaxRows \in Nat

VARIABLES
  taskState,  \* "ready", "in_progress", "done" or "failed"
  working,    \* is a worker at the task?
  creating,   \* step of the allocation that is under way, or "none"
  worktreeId, \* the row it was given
  ends,       \* how often the task has ended
  reopened,   \* iteration_count > 0
  rowsMade,   \* rows are numbered as they are made
  unreleased, \* the row with no released_at, or 0
  rowState,   \* its state; "none" if there is no such row
  disk,       \* the path, git's registration of it and the branch task/<id>
  endsDue,    \* events of an end that no handler was called with yet
  cleaning,   \* local state of each cleanup
  suspect,    \* history: did the unreleased row meet a cleanup of the task?
  upset       \* history: something that cannot leave a clean disk happened

treeVars == <<taskState, working, reopened, creating, worktreeId, ends, rowsMade, unreleased, rowState, disk,
              endsDue, cleaning, suspect, upset>>
row      == <<rowsMade, unreleased, rowState>>
task     == <<taskState, working, reopened, ends, endsDue>>
history  == <<suspect, upset>>

Rows == 1..MaxRows
NoCleanup == [pc |-> "none", row |-> 0]

TreeTypeOK ==
  /\ taskState \in {"ready", "in_progress", "done", "failed"}
  /\ creating \in {"none", "inserting", "adding", "releasing", "activating", "marking", "spawning"}
  /\ worktreeId \in 0..MaxRows /\ rowsMade \in 0..MaxRows /\ unreleased \in 0..rowsMade
  /\ rowState \in {"none", "creating", "active", "draining"}
  /\ rowState = "none" <=> unreleased = 0
  /\ disk \in [dir : {"none", "tree", "plain"}, registered : BOOLEAN, branch : BOOLEAN]
  /\ ends \in 0..MaxEnds /\ endsDue \in Nat
  /\ cleaning \in [Cleanups -> [pc : {"none", "draining", "removing", "unbranching", "deleting",
                                      "releasing"}, row : 0..MaxRows]]
  /\ working \in BOOLEAN /\ reopened \in BOOLEAN /\ suspect \in BOOLEAN /\ upset \in BOOLEAN

EmptyDisk == [dir |-> "none", registered |-> FALSE, branch |-> FALSE]

TreeInit ==
  /\ taskState = "ready" /\ working = FALSE /\ reopened = FALSE /\ ends = 0 /\ endsDue = 0
  /\ creating = "none" /\ worktreeId = 0
  /\ rowsMade = 0 /\ unreleased = 0 /\ rowState = "none"
  /\ disk = EmptyDisk
  /\ cleaning = [k \in Cleanups |-> NoCleanup]
  /\ suspect = FALSE /\ upset = FALSE

\* Is a cleanup of the task under way, or one still to come?
CleanupPending == endsDue > 0 \/ \E k \in Cleanups : cleaning[k].pc # "none"

\* UPDATE ... WHERE worktree_id: a row that is released has no reader.
Release(id) ==
  IF unreleased = id THEN unreleased' = 0 /\ rowState' = "none"
                     ELSE UNCHANGED <<unreleased, rowState>>
SetRowState(id, state) ==
  rowState' = IF unreleased = id THEN state ELSE rowState

-----------------------------------------------------------------------------
(* git                                                                     *)

\* git worktree add -b: refuses a path, a registration or a branch that is there.
CanAdd == disk = EmptyDisk
\* git worktree remove --force: a registered worktree, whole or missing.
CanRemove == disk.registered /\ disk.dir # "plain"
\* git branch -D: not while the worktree has the branch checked out.  The
\* worker's checkout of agent/<id> may have taken its place.
CanDeleteBranch == disk.branch

-----------------------------------------------------------------------------
(* create                                                                  *)

\* A row that is not released is returned, whatever its state.
FindRow ==
  /\ taskState = "ready" /\ creating = "none"
  /\ unreleased # 0
  /\ worktreeId' = unreleased
  /\ creating' = "marking"
  /\ suspect' = (suspect \/ CleanupPending)
  /\ upset' = (upset \/ CleanupPending \/ rowState # "active")
  /\ UNCHANGED <<task, row, disk, cleaning>>

FindNoRow ==
  /\ taskState = "ready" /\ creating = "none"
  /\ unreleased = 0
  /\ creating' = "inserting"
  /\ UNCHANGED <<task, worktreeId, row, disk, cleaning, history>>

InsertRow ==
  /\ creating = "inserting"
  /\ rowsMade < MaxRows
  /\ rowsMade' = rowsMade + 1
  /\ unreleased' = rowsMade' /\ rowState' = "creating"
  /\ worktreeId' = rowsMade'
  /\ creating' = "adding"
  /\ suspect' = CleanupPending
  /\ upset' = (upset \/ CleanupPending)
  /\ UNCHANGED <<task, disk, cleaning>>

AddWorktree ==
  /\ creating = "adding"
  /\ CanAdd
  /\ disk' = [dir |-> "tree", registered |-> TRUE, branch |-> TRUE]
  /\ creating' = "activating"
  /\ UNCHANGED <<task, worktreeId, row, cleaning, history>>

\* git refuses, or makes the branch and fails afterwards.
AddFails ==
  /\ creating = "adding"
  /\ \/ UNCHANGED <<disk, upset>>
     \/ CanAdd /\ disk' = [disk EXCEPT !.branch = TRUE] /\ upset' = TRUE
  /\ creating' = "releasing"
  /\ UNCHANGED <<task, worktreeId, row, cleaning, suspect>>

\* The compensation; its own update may fail and leave the row.
ReleaseUnadded ==
  /\ creating = "releasing"
  /\ Release(worktreeId) \/ UNCHANGED <<unreleased, rowState>>
  /\ creating' = "none"
  /\ UNCHANGED <<task, worktreeId, rowsMade, disk, cleaning, history>>

Activate ==
  /\ creating = "activating"
  /\ SetRowState(worktreeId, "active")
  /\ creating' = "marking"
  /\ UNCHANGED <<task, worktreeId, rowsMade, unreleased, disk, cleaning, history>>

\* The repository is missing, a query rejects: allocateSlot throws, the task
\* stays as it is and so does the row.
AllocationFails ==
  /\ creating \in {"inserting", "activating", "marking"}
  /\ creating' = "none"
  /\ UNCHANGED <<task, worktreeId, row, disk, cleaning, history>>

\* The task is marked, whatever its state.
MarkTask ==
  /\ creating = "marking"
  /\ taskState' = "in_progress"
  /\ creating' = "spawning"
  /\ UNCHANGED <<working, reopened, ends, endsDue, worktreeId, row, disk, cleaning, history>>

\* spawn() makes the path if it is missing (mkdir -p .orbital) and carries on
\* when git cannot switch to the agent's branch there.
SpawnInWorktree ==
  /\ creating = "spawning"
  /\ disk' = [disk EXCEPT !.dir = IF @ = "none" THEN "plain" ELSE @]
  /\ creating' = "none"
  /\ working' = TRUE
  /\ UNCHANGED <<taskState, reopened, ends, endsDue, worktreeId, row, cleaning, history>>

-----------------------------------------------------------------------------
(* The worker ends the task; a defect re-opens it                           *)

EndTask ==
  /\ working
  /\ ends < MaxEnds
  /\ working' = FALSE
  /\ taskState' \in {"done", "failed"}
  /\ ends' = ends + 1
  /\ \E n \in Deliveries : endsDue' = endsDue + n
  /\ UNCHANGED <<reopened, creating, worktreeId, row, disk, cleaning, history>>

\* A task that has been re-opened may be reported again at any time.
ReopenTask ==
  /\ taskState = "done" \/ reopened
  /\ reopened' = TRUE
  /\ taskState' = "ready"
  /\ UNCHANGED <<working, ends, endsDue, creating, worktreeId, row, disk, cleaning, history>>

-----------------------------------------------------------------------------
(* cleanup                                                                 *)

CleanupStep(k, from, to) ==
  /\ cleaning[k].pc = from
  /\ cleaning' = [cleaning EXCEPT ![k].pc = to]
CleanupReturn(k) == cleaning' = [cleaning EXCEPT ![k] = NoCleanup]

BeginCleanup(k) ==
  /\ cleaning[k].pc = "none"
  /\ endsDue > 0
  /\ endsDue' = endsDue - 1
  /\ cleaning' = IF unreleased = 0 THEN cleaning
                 ELSE [cleaning EXCEPT ![k] = [pc |-> "draining", row |-> unreleased]]
  /\ suspect' = (suspect \/ creating # "none")
  /\ upset' = (upset \/ creating # "none")
  /\ UNCHANGED <<taskState, working, reopened, ends, creating, worktreeId, row, disk>>

\* Mutant: the row keeps its state while its worktree goes.
DrainUnmarked(k) ==
  /\ CleanupStep(k, "draining", "removing")
  /\ UNCHANGED <<task, creating, worktreeId, row, disk, history>>

MarkDraining(k) ==
  /\ CleanupStep(k, "draining", "removing")
  /\ SetRowState(cleaning[k].row, "draining")
  /\ UNCHANGED <<task, creating, worktreeId, rowsMade, unreleased, disk, history>>

\* An update rejects: the cleanup ends there, and only a log says so.
CleanupFails(k) ==
  /\ cleaning[k].pc \in {"draining", "releasing"}
  /\ CleanupReturn(k)
  /\ UNCHANGED <<task, creating, worktreeId, row, disk, history>>

RemoveWorktree(k) ==
  /\ CleanupStep(k, "removing", "unbranching")
  /\ CanRemove
  /\ disk' = [disk EXCEPT !.dir = "none", !.registered = FALSE]
  /\ UNCHANGED <<task, creating, worktreeId, row, history>>

\* Mutant: the branch is left.
KeepBranch(k) ==
  /\ CleanupStep(k, "unbranching", "deleting")
  /\ UNCHANGED <<task, creating, worktreeId, row, disk, history>>

DeleteBranch(k) ==
  /\ CleanupStep(k, "unbranching", "deleting")
  /\ CanDeleteBranch
  /\ disk' = [disk EXCEPT !.branch = FALSE]
  /\ UNCHANGED <<task, creating, worktreeId, row, history>>

DeletePath(k) ==
  /\ CleanupStep(k, "deleting", "releasing")
  /\ disk' = [disk EXCEPT !.dir = "none"]
  /\ UNCHANGED <<task, creating, worktreeId, row, history>>

\* What git or the file system refuses is passed over; that matters if there
\* was something to remove.
PassOver(k) ==
  /\ \/ /\ CleanupStep(k, "removing", "unbranching")
        /\ upset' = (upset \/ disk.registered)
     \/ /\ CleanupStep(k, "unbranching", "deleting")
        /\ upset' = (upset \/ disk.branch)
     \/ /\ CleanupStep(k, "deleting", "releasing")
        /\ upset' = (upset \/ disk.dir # "none")
  /\ UNCHANGED <<task, creating, worktreeId, row, disk, suspect>>

ReleaseRow(k) ==
  /\ cleaning[k].pc = "releasing"
  /\ Release(cleaning[k].row)
  /\ CleanupReturn(k)
  /\ UNCHANGED <<task, creating, worktreeId, rowsMade, disk, history>>

-----------------------------------------------------------------------------

\* The orchestrator dies and comes back: what was under way is gone, and the
\* events no handler was called with are not delivered any more.
RestartTree ==
  /\ creating' = "none"
  /\ endsDue' = 0
  /\ cleaning' = [k \in Cleanups |-> NoCleanup]
  /\ UNCHANGED <<taskState, working, reopened, ends, worktreeId, row, disk, history>>

CleanupNext(k) ==
  \/ BeginCleanup(k) \/ MarkDraining(k) \/ CleanupFails(k) \/ RemoveWorktree(k)
  \/ DeleteBranch(k) \/ DeletePath(k) \/ PassOver(k) \/ ReleaseRow(k)

TreeNext ==
  \/ FindRow \/ FindNoRow \/ InsertRow \/ AddWorktree \/ AddFails \/ ReleaseUnadded
  \/ Activate \/ AllocationFails \/ MarkTask \/ SpawnInWorktree
  \/ EndTask \/ ReopenTask \/ RestartTree
  \/ \E k \in Cleanups : CleanupNext(k)

TreeSpec == TreeInit /\ [][TreeNext]_treeVars

-----------------------------------------------------------------------------
(* Properties                                                              *)

\* A row that says 'active' has its git worktree, whichever calls failed or
\* were cut off by a restart, unless it was made or handed out while a cleanup
\* of the task was pending (create and cleanup: row and disk change in turn).
ActiveHasTree ==
  rowState = "active" /\ ~CleanupPending /\ ~suspect => disk.dir = "tree" /\ disk.registered

\* When no row is left and nothing is under way, nothing of the task is left on
\* disk, so that its worktree can be created again; unless git failed half-way
\* or refused a removal, a create met a cleanup, or a row that was not active
\* was handed out (cleanup, and the compensation in create).
NothingLeftBehind ==
  unreleased = 0 /\ creating = "none" /\ ~CleanupPending /\ ~upset => disk = EmptyDisk

\* create() returns an active worktree ("if an active worktree already exists
\* for this task, return it", WorktreeManager.create).
ReturnsActive ==
  [][creating # "marking" /\ creating' = "marking" => rowState' = "active"]_treeVars
=============================================================================

-------------------------- MODULE Worktree_proofs --------------------------
(***************************************************************************)
(* Proofs about Worktree, for any number of cleanups, ends and rows.        *)
(***************************************************************************)
EXTENDS Worktree, TLAPS

USE WorktreeAssumption

\* The steps of a create that hold a row, and those of a cleanup that has
\* marked it.
HoldsRow == {"adding", "releasing", "activating", "marking", "spawning"}
Marked   == {"removing", "unbranching", "deleting", "releasing"}

\* Steps that write to a row know which.
RowKnown ==
  /\ creating \in HoldsRow => worktreeId # 0
  /\ \A k \in Cleanups : cleaning[k].pc # "none" => cleaning[k].row # 0

NoneCleaning == \A k \in Cleanups : cleaning[k].pc = "none"

\* Unless row and cleanup met: an active row has its worktree because no
\* cleanup goes beyond the mark while it says 'active'.
TreeKept ==
  suspect = FALSE =>
    /\ creating \in HoldsRow => NoneCleaning
    /\ creating = "activating" \/ rowState = "active" => disk.dir = "tree" /\ disk.registered = TRUE
    /\ \A k \in Cleanups : /\ cleaning[k].pc # "none" => unreleased \in {0, cleaning[k].row}
                           /\ cleaning[k].pc \in Marked => rowState \in {"draining", "none"}

\* Unless something upset the disk: a cleanup has removed what its steps so
\* far were to remove, and a row is released only after all of them.
DiskCleared ==
  upset = FALSE =>
    /\ creating \in HoldsRow => NoneCleaning /\ unreleased # 0
    /\ creating \in {"adding", "releasing"} => disk = EmptyDisk
    /\ creating = "inserting" => unreleased = 0
    /\ creating \in {"none", "inserting"} /\ unreleased = 0 => disk = EmptyDisk
    /\ \A k \in Cleanups :
         /\ cleaning[k].pc \in {"unbranching", "deleting", "releasing"} => disk.registered = FALSE
         /\ cleaning[k].pc \in {"deleting", "releasing"} => disk.branch = FALSE
         /\ cleaning[k].pc = "releasing" => disk.dir = "none"

-----------------------------------------------------------------------------
(* Type correctness                                                        *)

DiskType    == [dir : {"none", "tree", "plain"}, registered : BOOLEAN, branch : BOOLEAN]
CleanupType == [pc : {"none", "draining", "removing", "unbranching", "deleting", "releasing"},
                row : 0..MaxRows]

FlagsTyped == working \in BOOLEAN /\ reopened \in BOOLEAN /\ suspect \in BOOLEAN /\ upset \in BOOLEAN
TaskTyped ==
  /\ taskState \in {"ready", "in_progress", "done", "failed"}
  /\ ends \in 0..MaxEnds /\ endsDue \in Nat
RowTyped ==
  /\ creating \in {"none", "inserting", "adding", "releasing", "activating", "marking", "spawning"}
  /\ worktreeId \in 0..MaxRows /\ rowsMade \in 0..MaxRows /\ unreleased \in 0..rowsMade
  /\ rowState \in {"none", "creating", "active", "draining"}
  /\ rowState = "none" <=> unreleased = 0

LEMMA TypeParts ==
  /\ TreeTypeOK <=> /\ FlagsTyped /\ TaskTyped /\ RowTyped
                    /\ disk \in DiskType /\ cleaning \in [Cleanups -> CleanupType]
  /\ TreeTypeOK' <=> /\ FlagsTyped' /\ TaskTyped' /\ RowTyped'
                     /\ disk' \in DiskType /\ cleaning' \in [Cleanups -> CleanupType]
  BY DEF TreeTypeOK, FlagsTyped, TaskTyped, RowTyped, DiskType, CleanupType

LEMMA FlagsStep ==
  ASSUME FlagsTyped, [TreeNext]_treeVars
  PROVE  FlagsTyped'
<1> USE DEF FlagsTyped, task, history
<1>1. CASE FindRow \/ FindNoRow \/ InsertRow \/ AddWorktree \/ AddFails \/ ReleaseUnadded
  <2>1. CASE FindRow \/ InsertRow
    <3>1. CleanupPending \in BOOLEAN
      BY DEF CleanupPending
    <3>2. suspect' \in BOOLEAN /\ upset' \in BOOLEAN
      BY <2>1, <3>1 DEF FindRow, InsertRow
    <3> QED
      BY <2>1, <3>2 DEF FindRow, InsertRow
  <2>2. CASE FindNoRow \/ AddWorktree \/ ReleaseUnadded
    BY <2>2 DEF FindNoRow, AddWorktree, ReleaseUnadded
  <2>3. CASE AddFails
    BY <2>3 DEF AddFails
  <2> QED
    BY <1>1, <2>1, <2>2, <2>3
<1>2. CASE \/ Activate \/ AllocationFails \/ MarkTask \/ SpawnInWorktree
           \/ EndTask \/ ReopenTask \/ RestartTree
  BY <1>2 DEF Activate, AllocationFails, MarkTask, SpawnInWorktree, EndTask, ReopenTask, RestartTree
<1>3. ASSUME NEW k \in Cleanups, CleanupNext(k) PROVE FlagsTyped'
  BY <1>3 DEF CleanupNext, BeginCleanup, MarkDraining, CleanupFails, RemoveWorktree, DeleteBranch,
     DeletePath, PassOver, ReleaseRow
<1>4. CASE UNCHANGED treeVars
  BY <1>4 DEF treeVars
<1> QED
  BY <1>1, <1>2, <1>3, <1>4 DEF TreeNext

LEMMA TaskStep ==
  ASSUME TaskTyped, [TreeNext]_treeVars
  PROVE  TaskTyped'
<1> USE DEF TaskTyped, task
<1>1. CASE FindRow \/ FindNoRow \/ InsertRow \/ AddWorktree \/ AddFails \/ ReleaseUnadded
  BY <1>1 DEF FindRow, FindNoRow, InsertRow, AddWorktree, AddFails, ReleaseUnadded
<1>2. CASE \/ Activate \/ AllocationFails \/ MarkTask \/ SpawnInWorktree
           \/ EndTask \/ ReopenTask \/ RestartTree
  BY <1>2 DEF Activate, AllocationFails, MarkTask, SpawnInWorktree, EndTask, ReopenTask, RestartTree
<1>3. ASSUME NEW k \in Cleanups, CleanupNext(k) PROVE TaskTyped'
  BY <1>3 DEF CleanupNext, BeginCleanup, MarkDraining, CleanupFails, RemoveWorktree, DeleteBranch,
     DeletePath, PassOver, ReleaseRow
<1>4. CASE UNCHANGED treeVars
  BY <1>4 DEF treeVars
<1> QED
  BY <1>1, <1>2, <1>3, <1>4 DEF TreeNext

LEMMA DiskStep ==
  ASSUME disk \in DiskType, [TreeNext]_treeVars
  PROVE  disk' \in DiskType
<1> USE DEF DiskType
<1>1. CASE FindRow \/ FindNoRow \/ InsertRow \/ AddWorktree \/ AddFails \/ ReleaseUnadded
  <2>1. CASE FindRow \/ FindNoRow \/ InsertRow \/ ReleaseUnadded
    BY <2>1 DEF FindRow, FindNoRow, InsertRow, ReleaseUnadded
  <2>2. CASE AddWorktree
    BY <2>2 DEF AddWorktree
  <2>3. CASE AddFails
    BY <2>3 DEF AddFails
  <2> QED
    BY <1>1, <2>1, <2>2, <2>3
<1>2. CASE \/ Activate \/ AllocationFails \/ MarkTask \/ SpawnInWorktree
           \/ EndTask \/ ReopenTask \/ RestartTree
  BY <1>2 DEF Activate, AllocationFails, MarkTask, SpawnInWorktree, EndTask, ReopenTask, RestartTree
<1>3. ASSUME NEW k \in Cleanups, CleanupNext(k) PROVE disk' \in DiskType
  BY <1>3 DEF CleanupNext, BeginCleanup, MarkDraining, CleanupFails, RemoveWorktree, DeleteBranch,
     DeletePath, PassOver, ReleaseRow
<1>4. CASE UNCHANGED treeVars
  BY <1>4 DEF treeVars
<1> QED
  BY <1>1, <1>2, <1>3, <1>4 DEF TreeNext

LEMMA CleaningStep ==
  ASSUME RowTyped, RowKnown, cleaning \in [Cleanups -> CleanupType], NEW k \in Cleanups, CleanupNext(k)
  PROVE  /\ cleaning' \in [Cleanups -> CleanupType]
         /\ \A j \in Cleanups : cleaning'[j].pc # "none" => cleaning'[j].row # 0
<1> USE DEF RowKnown, CleanupType
<1>1. CASE BeginCleanup(k)
  <2>1. CASE unreleased = 0
    BY <1>1, <2>1 DEF BeginCleanup
  <2>2. CASE unreleased # 0
    <3>1. cleaning' = [cleaning EXCEPT ![k] = [pc |-> "draining", row |-> unreleased]]
      BY <1>1, <2>2 DEF BeginCleanup
    <3>2. unreleased \in 0..MaxRows
      BY DEF RowTyped
    <3> QED
      BY <2>2, <3>1, <3>2
  <2> QED
    BY <2>1, <2>2
<1>2. CASE CleanupFails(k) \/ ReleaseRow(k)
  BY <1>2 DEF CleanupFails, ReleaseRow, CleanupReturn, NoCleanup
<1>3. CASE \/ MarkDraining(k) \/ RemoveWorktree(k) \/ DeleteBranch(k) \/ DeletePath(k) \/ PassOver(k)
  <2>1. cleaning[k].pc # "none" /\ \E to \in Marked : cleaning' = [cleaning EXCEPT ![k].pc = to]
    BY <1>3 DEF MarkDraining, RemoveWorktree, DeleteBranch, DeletePath, PassOver, CleanupStep, Marked
  <2> QED
    BY <2>1 DEF Marked
<1> QED
  BY <1>1, <1>2, <1>3 DEF CleanupNext

LEMMA RowStep ==
  ASSUME RowTyped, RowKnown, cleaning \in [Cleanups -> CleanupType], [TreeNext]_treeVars
  PROVE  RowTyped' /\ (creating \in HoldsRow => worktreeId # 0)'
<1> USE DEF RowTyped, RowKnown, HoldsRow, row
<1>1. CASE FindRow \/ FindNoRow \/ AddWorktree \/ AddFails
  BY <1>1 DEF FindRow, FindNoRow, AddWorktree, AddFails
<1>2. CASE InsertRow
  BY <1>2 DEF InsertRow
<1>3. CASE ReleaseUnadded \/ Activate
  BY <1>3 DEF ReleaseUnadded, Activate, Release, SetRowState
<1>4. CASE AllocationFails \/ MarkTask \/ SpawnInWorktree \/ EndTask \/ ReopenTask \/ RestartTree
  BY <1>4 DEF AllocationFails, MarkTask, SpawnInWorktree, EndTask, ReopenTask, RestartTree
<1>5. ASSUME NEW k \in Cleanups, CleanupNext(k)
      PROVE  RowTyped' /\ (creating \in HoldsRow => worktreeId # 0)'
  <2>1. cleaning[k].pc # "none" => cleaning[k].row # 0
    BY <1>5
  <2>2. CASE MarkDraining(k) \/ ReleaseRow(k)
    BY <2>1, <2>2 DEF MarkDraining, ReleaseRow, CleanupStep, Release, SetRowState
  <2>3. CASE \/ BeginCleanup(k) \/ CleanupFails(k) \/ RemoveWorktree(k) \/ DeleteBranch(k)
             \/ DeletePath(k) \/ PassOver(k)
    BY <2>3 DEF BeginCleanup, CleanupFails, RemoveWorktree, DeleteBranch, DeletePath, PassOver
  <2> QED
    BY <1>5, <2>2, <2>3 DEF CleanupNext
<1>6. CASE UNCHANGED treeVars
  BY <1>6 DEF treeVars
<1> QED
  BY <1>1, <1>2, <1>3, <1>4, <1>5, <1>6 DEF TreeNext

LEMMA RestStep ==
  ASSUME RowTyped, RowKnown, cleaning \in [Cleanups -> CleanupType], [TreeNext]_treeVars
  PROVE  /\ cleaning' \in [Cleanups -> CleanupType]
         /\ \A k \in Cleanups : cleaning'[k].pc # "none" => cleaning'[k].row # 0
<1>1. CASE RestartTree
  BY <1>1 DEF RestartTree, NoCleanup, CleanupType
<1>2. CASE UNCHANGED cleaning
  BY <1>2 DEF RowKnown
<1>3. CASE \E k \in Cleanups : CleanupNext(k)
  BY <1>3, CleaningStep
<1> QED
  BY <1>1, <1>2, <1>3
  DEF TreeNext, FindRow, FindNoRow, InsertRow, AddWorktree, AddFails, ReleaseUnadded, Activate,
      AllocationFails, MarkTask, SpawnInWorktree, EndTask, ReopenTask, treeVars

LEMMA TypedInv == TreeSpec => [](TreeTypeOK /\ RowKnown)
<1>1. TreeInit => TreeTypeOK /\ RowKnown
  <2> SUFFICES ASSUME TreeInit PROVE TreeTypeOK /\ RowKnown
    OBVIOUS
  <2>1. FlagsTyped
    BY DEF TreeInit, FlagsTyped
  <2>2. TaskTyped /\ RowTyped
    BY DEF TreeInit, TaskTyped, RowTyped
  <2>3. disk \in DiskType /\ cleaning \in [Cleanups -> CleanupType] /\ RowKnown
    BY DEF TreeInit, EmptyDisk, DiskType, NoCleanup, CleanupType, RowKnown, HoldsRow
  <2> QED
    BY <2>1, <2>2, <2>3, TypeParts
<1>2. TreeTypeOK /\ RowKnown /\ [TreeNext]_treeVars => TreeTypeOK' /\ RowKnown'
  <2> SUFFICES ASSUME TreeTypeOK, RowKnown, [TreeNext]_treeVars PROVE TreeTypeOK' /\ RowKnown'
    OBVIOUS
  <2>1. FlagsTyped' /\ TaskTyped' /\ disk' \in DiskType
    BY TypeParts, FlagsStep, TaskStep, DiskStep
  <2>2. /\ RowTyped' /\ cleaning' \in [Cleanups -> CleanupType]
        /\ RowKnown'
    BY TypeParts, RowStep, RestStep DEF RowKnown
  <2> QED
    BY <2>1, <2>2, TypeParts
<1> QED
  BY <1>1, <1>2, PTL DEF TreeSpec

\* Every reachable state of task, table, disk and cleanups is well typed.
THEOREM TreeTypeCorrect == TreeSpec => []TreeTypeOK
  BY TypedInv, PTL

-----------------------------------------------------------------------------
(* The steps of a cleanup                                                  *)

LEMMA CleanupSteps ==
  ASSUME cleaning \in [Cleanups -> CleanupType], NEW k \in Cleanups, NEW from, NEW to \in Marked,
         CleanupStep(k, from, to)
  PROVE  /\ cleaning[k].pc = from /\ cleaning'[k].pc = to /\ cleaning'[k].row = cleaning[k].row
         /\ \A j \in Cleanups \ {k} : cleaning'[j] = cleaning[j]
  BY DEF CleanupStep, CleanupType, Marked

LEMMA CleanupReturns ==
  ASSUME cleaning \in [Cleanups -> CleanupType], NEW k \in Cleanups, CleanupReturn(k)
  PROVE  /\ cleaning'[k].pc = "none"
         /\ \A j \in Cleanups \ {k} : cleaning'[j] = cleaning[j]
  BY DEF CleanupReturn, CleanupType, NoCleanup

LEMMA CleanupBegins ==
  ASSUME cleaning \in [Cleanups -> CleanupType], NEW k \in Cleanups, BeginCleanup(k)
  PROVE  /\ cleaning[k].pc = "none"
         /\ \A j \in Cleanups \ {k} : cleaning'[j] = cleaning[j]
         /\ \/ cleaning' = cleaning
            \/ cleaning'[k].pc = "draining" /\ cleaning'[k].row = unreleased /\ unreleased # 0
<1>1. CASE unreleased = 0
  BY <1>1 DEF BeginCleanup
<1>2. CASE unreleased # 0
  BY <1>2 DEF BeginCleanup, CleanupType
<1> QED
  BY <1>1, <1>2

-----------------------------------------------------------------------------
(* Each step keeps TreeKept.                                               *)

LEMMA TreeKeptByCleanup ==
  ASSUME TreeTypeOK, RowKnown, TreeKept, NEW k \in Cleanups, CleanupNext(k)
  PROVE  TreeKept'
<1> SUFFICES ASSUME suspect' = FALSE PROVE TreeKept'
  BY DEF TreeKept
<1> USE DEF NoneCleaning, HoldsRow, Marked
<1>0. /\ cleaning \in [Cleanups -> CleanupType] /\ suspect \in BOOLEAN
      /\ rowState = "none" <=> unreleased = 0
  BY TypeParts DEF TreeTypeOK
<1>1. CASE BeginCleanup(k)
  <2>1. suspect = FALSE /\ creating = "none"
    BY <1>0, <1>1 DEF BeginCleanup
  <2>2. UNCHANGED <<creating, unreleased, rowState, disk>>
    BY <1>1 DEF BeginCleanup, row
  <2> QED
    BY <1>0, <1>1, <2>1, <2>2, CleanupBegins DEF TreeKept
<1>2. CASE \/ MarkDraining(k) \/ CleanupFails(k) \/ RemoveWorktree(k) \/ DeleteBranch(k)
           \/ DeletePath(k) \/ PassOver(k) \/ ReleaseRow(k)
  <2>1. /\ suspect = FALSE /\ cleaning[k].pc # "none" /\ UNCHANGED creating
    BY <1>2 DEF MarkDraining, CleanupFails, RemoveWorktree, DeleteBranch, DeletePath, PassOver,
                ReleaseRow, CleanupStep, history
  <2>2. /\ creating \notin HoldsRow
        /\ \A j \in Cleanups : /\ cleaning[j].pc # "none" => unreleased \in {0, cleaning[j].row}
                               /\ cleaning[j].pc \in Marked => rowState \in {"draining", "none"}
        /\ rowState = "active" => disk.dir = "tree" /\ disk.registered = TRUE
    BY <2>1 DEF TreeKept
  <2>3. CASE MarkDraining(k)
    <3>1. /\ CleanupStep(k, "draining", "removing") /\ UNCHANGED <<unreleased, disk>>
          /\ rowState' = IF unreleased = cleaning[k].row THEN "draining" ELSE rowState
      BY <2>3 DEF MarkDraining, SetRowState
    <3>2. rowState' \in {"draining", "none"}
      BY <1>0, <2>1, <2>2, <3>1
    <3> QED
      BY <1>0, <2>1, <2>2, <3>1, <3>2, CleanupSteps DEF TreeKept
  <2>4. CASE CleanupFails(k)
    <3>1. CleanupReturn(k) /\ UNCHANGED <<unreleased, rowState, disk>>
      BY <2>4 DEF CleanupFails, row
    <3> QED
      BY <1>0, <2>1, <2>2, <3>1, CleanupReturns DEF TreeKept
  <2>5. CASE RemoveWorktree(k) \/ DeleteBranch(k) \/ DeletePath(k) \/ PassOver(k)
    <3>1. /\ UNCHANGED <<unreleased, rowState>>
          /\ \E from, to \in Marked : CleanupStep(k, from, to)
      BY <2>5 DEF RemoveWorktree, DeleteBranch, DeletePath, PassOver, row
    <3>2. PICK from \in Marked, to \in Marked : CleanupStep(k, from, to)
      BY <3>1
    <3>3. rowState # "active"
      BY <1>0, <2>2, <3>2, CleanupSteps
    <3> QED
      BY <1>0, <2>1, <2>2, <3>1, <3>2, <3>3, CleanupSteps DEF TreeKept
  <2>6. CASE ReleaseRow(k)
    <3>1. /\ CleanupReturn(k) /\ UNCHANGED disk
          /\ \/ unreleased' = 0 /\ rowState' = "none"
             \/ UNCHANGED <<unreleased, rowState>>
      BY <2>6 DEF ReleaseRow, Release
    <3> QED
      BY <1>0, <2>1, <2>2, <3>1, CleanupReturns DEF TreeKept
  <2> QED
    BY <1>2, <2>3, <2>4, <2>5, <2>6
<1> QED
  BY <1>1, <1>2 DEF CleanupNext

LEMMA TreeKeptStep ==
  ASSUME TreeTypeOK, RowKnown, TreeKept, [TreeNext]_treeVars
  PROVE  TreeKept'
<1> SUFFICES ASSUME suspect' = FALSE PROVE TreeKept'
  BY DEF TreeKept
<1> USE DEF NoneCleaning, HoldsRow, Marked
<1>0. suspect \in BOOLEAN /\ disk \in DiskType
  BY TypeParts DEF TreeTypeOK
<1>1. CASE FindRow
  <2>1. suspect = FALSE /\ NoneCleaning
    BY <1>0, <1>1 DEF FindRow, CleanupPending
  <2> QED
    BY <1>1, <2>1 DEF FindRow, TreeKept, row
<1>2. CASE FindNoRow
  BY <1>2 DEF FindNoRow, TreeKept, row, history
<1>3. CASE InsertRow
  <2>1. NoneCleaning
    BY <1>3 DEF InsertRow, CleanupPending
  <2> QED
    BY <1>3, <2>1 DEF InsertRow, TreeKept
<1>4. CASE AddWorktree
  BY <1>4 DEF AddWorktree, TreeKept, row, history
<1>5. CASE AddFails
  <2>1. disk'.dir = disk.dir /\ disk'.registered = disk.registered
    BY <1>0, <1>5 DEF AddFails, DiskType
  <2> QED
    BY <1>5, <2>1 DEF AddFails, TreeKept, row
<1>6. CASE ReleaseUnadded
  BY <1>6 DEF ReleaseUnadded, Release, TreeKept, history
<1>7. CASE Activate
  BY <1>7 DEF Activate, SetRowState, TreeKept, history
<1>8. CASE AllocationFails \/ MarkTask \/ EndTask \/ ReopenTask
  BY <1>8 DEF AllocationFails, MarkTask, EndTask, ReopenTask, TreeKept, row, history
<1>9. CASE SpawnInWorktree
  <2>1. disk.dir = "tree" => disk' = disk
    BY <1>0, <1>9 DEF SpawnInWorktree, DiskType
  <2> QED
    BY <1>9, <2>1 DEF SpawnInWorktree, TreeKept, row, history
<1>10. CASE RestartTree
  BY <1>10 DEF RestartTree, NoCleanup, TreeKept, row, history
<1>11. CASE UNCHANGED treeVars
  BY <1>11 DEF treeVars, TreeKept
<1> QED
  BY <1>1, <1>2, <1>3, <1>4, <1>5, <1>6, <1>7, <1>8, <1>9, <1>10, <1>11, TreeKeptByCleanup
  DEF TreeNext

\* A row that says 'active' has its git worktree, whichever calls failed or
\* were cut off by a restart, unless it met a cleanup of its task
\* (WorktreeManager.create and cleanup).
THEOREM ActiveRowsHaveTrees == TreeSpec => []ActiveHasTree
<1>1. TreeInit => TreeKept
  BY DEF TreeInit, TreeKept, NoneCleaning, NoCleanup, Marked
<1>2. (TreeTypeOK /\ RowKnown) /\ TreeKept /\ [TreeNext]_treeVars => TreeKept'
  BY TreeKeptStep
<1>3. (TreeTypeOK /\ RowKnown) /\ TreeKept => ActiveHasTree
  BY DEF TreeTypeOK, TreeKept, ActiveHasTree
<1> QED
  BY <1>1, <1>2, <1>3, TypedInv, PTL DEF TreeSpec

-----------------------------------------------------------------------------
(* Each step keeps DiskCleared.                                            *)

LEMMA EmptyFields ==
  ASSUME NEW d \in DiskType
  PROVE  d = EmptyDisk <=> d.dir = "none" /\ d.registered = FALSE /\ d.branch = FALSE
<1>1. ASSUME d.dir = "none", d.registered = FALSE, d.branch = FALSE PROVE d = EmptyDisk
  <2>1. d = [dir |-> d.dir, registered |-> d.registered, branch |-> d.branch]
    BY DEF DiskType
  <2> QED
    BY <1>1, <2>1, Zenon DEF EmptyDisk
<1>2. EmptyDisk.dir = "none" /\ EmptyDisk.registered = FALSE /\ EmptyDisk.branch = FALSE
  BY DEF EmptyDisk
<1> QED
  BY <1>1, <1>2, Zenon

LEMMA DiskClearedByCleanup ==
  ASSUME TreeTypeOK, RowKnown, DiskCleared, NEW k \in Cleanups, CleanupNext(k)
  PROVE  DiskCleared'
<1> SUFFICES ASSUME upset' = FALSE PROVE DiskCleared'
  BY DEF DiskCleared
<1> USE DEF NoneCleaning, HoldsRow, Marked
<1>0. /\ cleaning \in [Cleanups -> CleanupType] /\ upset \in BOOLEAN
      /\ disk \in DiskType /\ disk' \in DiskType
      /\ disk = EmptyDisk <=> disk.dir = "none" /\ disk.registered = FALSE /\ disk.branch = FALSE
      /\ disk' = EmptyDisk <=> disk'.dir = "none" /\ disk'.registered = FALSE /\ disk'.branch = FALSE
  <2>1. disk' \in DiskType
    BY TypeParts, DiskStep DEF TreeNext
  <2> QED
    BY <2>1, TypeParts, EmptyFields DEF TreeTypeOK
<1>1. CASE BeginCleanup(k)
  <2>1. upset = FALSE /\ creating = "none"
    BY <1>0, <1>1 DEF BeginCleanup
  <2>2. UNCHANGED <<creating, unreleased, disk>>
    BY <1>1 DEF BeginCleanup, row
  <2> QED
    BY <1>0, <1>1, <2>1, <2>2, CleanupBegins DEF DiskCleared
<1>2. CASE \/ MarkDraining(k) \/ CleanupFails(k) \/ RemoveWorktree(k) \/ DeleteBranch(k)
           \/ DeletePath(k) \/ PassOver(k) \/ ReleaseRow(k)
  <2>1. /\ upset = FALSE /\ cleaning[k].pc # "none" /\ UNCHANGED creating
    BY <1>0, <1>2 DEF MarkDraining, CleanupFails, RemoveWorktree, DeleteBranch, DeletePath,
                PassOver, ReleaseRow, CleanupStep, history
  <2>2. /\ creating \notin HoldsRow
        /\ creating = "inserting" => unreleased = 0
        /\ creating \in {"none", "inserting"} /\ unreleased = 0 => disk = EmptyDisk
        /\ \A j \in Cleanups :
             /\ cleaning[j].pc \in {"unbranching", "deleting", "releasing"} => disk.registered = FALSE
             /\ cleaning[j].pc \in {"deleting", "releasing"} => disk.branch = FALSE
             /\ cleaning[j].pc = "releasing" => disk.dir = "none"
    BY <2>1 DEF DiskCleared
  <2>3. CASE MarkDraining(k)
    <3>1. CleanupStep(k, "draining", "removing") /\ UNCHANGED <<unreleased, disk>>
      BY <2>3 DEF MarkDraining
    <3> QED
      BY <1>0, <2>1, <2>2, <3>1, CleanupSteps DEF DiskCleared
  <2>4. CASE CleanupFails(k)
    <3>1. CleanupReturn(k) /\ UNCHANGED <<unreleased, disk>>
      BY <2>4 DEF CleanupFails, row
    <3> QED
      BY <1>0, <2>1, <2>2, <3>1, CleanupReturns DEF DiskCleared
  <2>5. CASE RemoveWorktree(k)
    <3>1. /\ CleanupStep(k, "removing", "unbranching") /\ UNCHANGED unreleased
          /\ disk' = [disk EXCEPT !.dir = "none", !.registered = FALSE]
      BY <2>5 DEF RemoveWorktree, row
    <3>2. disk'.dir = "none" /\ disk'.registered = FALSE /\ disk'.branch = disk.branch
      BY <1>0, <3>1 DEF DiskType
    <3>3. disk = EmptyDisk => disk' = EmptyDisk
      BY <1>0, <3>2
    <3> QED
      BY <1>0, <2>1, <2>2, <3>1, <3>2, <3>3, CleanupSteps DEF DiskCleared
  <2>6. CASE DeleteBranch(k)
    <3>1. /\ CleanupStep(k, "unbranching", "deleting") /\ UNCHANGED unreleased
          /\ disk' = [disk EXCEPT !.branch = FALSE]
      BY <2>6 DEF DeleteBranch, row
    <3>2. disk'.dir = disk.dir /\ disk'.registered = disk.registered /\ disk'.branch = FALSE
      BY <1>0, <3>1 DEF DiskType
    <3>3. disk = EmptyDisk => disk' = EmptyDisk
      BY <1>0, <3>2
    <3> QED
      BY <1>0, <2>1, <2>2, <3>1, <3>2, <3>3, CleanupSteps DEF DiskCleared
  <2>7. CASE DeletePath(k)
    <3>1. /\ CleanupStep(k, "deleting", "releasing") /\ UNCHANGED unreleased
          /\ disk' = [disk EXCEPT !.dir = "none"]
      BY <2>7 DEF DeletePath, row
    <3>2. disk'.dir = "none" /\ disk'.registered = disk.registered /\ disk'.branch = disk.branch
      BY <1>0, <3>1 DEF DiskType
    <3>3. disk = EmptyDisk => disk' = EmptyDisk
      BY <1>0, <3>2
    <3> QED
      BY <1>0, <2>1, <2>2, <3>1, <3>2, <3>3, CleanupSteps DEF DiskCleared
  <2>8. CASE PassOver(k)
    <3>1. UNCHANGED <<unreleased, disk>>
      BY <2>8 DEF PassOver, row
    <3>2. CASE CleanupStep(k, "removing", "unbranching") /\ upset' = (upset \/ disk.registered)
      <4>1. disk.registered = FALSE
        BY <1>0, <3>2 DEF DiskType
      <4> QED
        BY <1>0, <2>1, <2>2, <3>1, <3>2, <4>1, CleanupSteps DEF DiskCleared
    <3>3. CASE CleanupStep(k, "unbranching", "deleting") /\ upset' = (upset \/ disk.branch)
      <4>1. disk.branch = FALSE
        BY <1>0, <3>3 DEF DiskType
      <4> QED
        BY <1>0, <2>1, <2>2, <3>1, <3>3, <4>1, CleanupSteps DEF DiskCleared
    <3>4. CASE CleanupStep(k, "deleting", "releasing") /\ upset' = (upset \/ disk.dir # "none")
      <4>1. disk.dir = "none"
        BY <1>0, <3>4 DEF DiskType
      <4> QED
        BY <1>0, <2>1, <2>2, <3>1, <3>4, <4>1, CleanupSteps DEF DiskCleared
    <3> QED
      BY <2>8, <3>2, <3>3, <3>4 DEF PassOver
  <2>9. CASE ReleaseRow(k)
    <3>1. /\ CleanupReturn(k) /\ UNCHANGED disk /\ cleaning[k].pc = "releasing"
          /\ unreleased' \in {0, unreleased}
      BY <2>9 DEF ReleaseRow, Release
    <3>2. disk = EmptyDisk
      BY <1>0, <2>2, <3>1
    <3> QED
      BY <1>0, <2>1, <2>2, <3>1, <3>2, CleanupReturns DEF DiskCleared
  <2> QED
    BY <1>2, <2>3, <2>4, <2>5, <2>6, <2>7, <2>8, <2>9
<1> QED
  BY <1>1, <1>2 DEF CleanupNext

LEMMA DiskClearedStep ==
  ASSUME TreeTypeOK, RowKnown, DiskCleared, [TreeNext]_treeVars
  PROVE  DiskCleared'
<1> SUFFICES ASSUME upset' = FALSE PROVE DiskCleared'
  BY DEF DiskCleared
<1> USE DEF NoneCleaning, HoldsRow, Marked
<1>0. /\ upset \in BOOLEAN /\ disk \in DiskType /\ rowsMade \in Nat
      /\ creating \in HoldsRow \cup {"none", "inserting"}
  BY TypeParts DEF TreeTypeOK
<1>1. CASE FindRow
  <2>1. upset = FALSE /\ NoneCleaning
    BY <1>0, <1>1 DEF FindRow, CleanupPending
  <2> QED
    BY <1>1, <2>1 DEF FindRow, DiskCleared, row
<1>2. CASE FindNoRow
  BY <1>2 DEF FindNoRow, DiskCleared, row, history
<1>3. CASE InsertRow
  <2>1. upset = FALSE /\ NoneCleaning
    BY <1>0, <1>3 DEF InsertRow, CleanupPending
  <2>2. unreleased' # 0 /\ creating' = "adding" /\ UNCHANGED <<disk, cleaning>>
    BY <1>0, <1>3 DEF InsertRow
  <2>3. disk = EmptyDisk
    BY <1>3, <2>1 DEF InsertRow, DiskCleared
  <2> QED
    BY <2>1, <2>2, <2>3 DEF DiskCleared
<1>4. CASE AddWorktree
  BY <1>4 DEF AddWorktree, DiskCleared, row, history
<1>5. CASE AddFails
  <2>1. upset = FALSE /\ disk' = disk
    BY <1>0, <1>5 DEF AddFails
  <2> QED
    BY <1>5, <2>1 DEF AddFails, DiskCleared, row
<1>6. CASE ReleaseUnadded
  BY <1>6 DEF ReleaseUnadded, DiskCleared, history
<1>7. CASE Activate
  BY <1>7 DEF Activate, DiskCleared, history
<1>8. CASE AllocationFails \/ MarkTask \/ EndTask \/ ReopenTask
  BY <1>8 DEF AllocationFails, MarkTask, EndTask, ReopenTask, DiskCleared, row, history
<1>9. CASE SpawnInWorktree
  BY <1>9 DEF SpawnInWorktree, DiskCleared, row, history
<1>10. CASE RestartTree
  BY <1>0, <1>10 DEF RestartTree, NoCleanup, DiskCleared, row, history
<1>11. CASE UNCHANGED treeVars
  BY <1>11 DEF treeVars, DiskCleared
<1> QED
  BY <1>1, <1>2, <1>3, <1>4, <1>5, <1>6, <1>7, <1>8, <1>9, <1>10, <1>11, DiskClearedByCleanup
  DEF TreeNext

\* When no row is left and nothing is under way, nothing of the task is left
\* on disk, but for the events that upset names (cleanup, and the compensation
\* in create).
THEOREM DiskIsCleared == TreeSpec => []NothingLeftBehind
<1>1. TreeInit => DiskCleared
  BY DEF TreeInit, DiskCleared, NoneCleaning, NoCleanup, HoldsRow
<1>2. (TreeTypeOK /\ RowKnown) /\ DiskCleared /\ [TreeNext]_treeVars => DiskCleared'
  BY DiskClearedStep
<1>3. (TreeTypeOK /\ RowKnown) /\ DiskCleared => NothingLeftBehind
  BY DEF TreeTypeOK, DiskCleared, NothingLeftBehind
<1> QED
  BY <1>1, <1>2, <1>3, TypedInv, PTL DEF TreeSpec
=============================================================================

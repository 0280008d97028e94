\* One task, re-opened once by a defect; every awaited call may fail.
CONSTANTS
  t1 = t1 t2 = t2 s1 = s1 w1 = w1 w2 = w2 k1 = k1 k2 = k2 d1 = d1
  NoTask = NoTask NoWorker = NoWorker
  Tasks = {t1}
  Sprints = {s1}
  Workers = {w1, w2}
  Ticks = {k1}
  Defects = {d1}
  MaxWorkers = 1
  IterationLimit = 1
  Faults = TRUE
  Outcomes = {"complete", "fail"}
  HeartbeatStatuses = {"active"}
  InitialState <- OnePending
  SprintOf <- Solo
  Rank <- RankOne
  Paths <- PathOne
  Edges <- NoEdges
SPECIFICATION Spec
SYMMETRY WorkerSymmetry
INVARIANTS TypeOK WithinMaxWorkers DispatchedOncePerOpening

\* One pause() or resume() at a time beside one tick over two slots.
CONSTANTS
  t1 = t1 t2 = t2 s1 = s1 w1 = w1 w2 = w2 k1 = k1 d1 = d1 c1 = c1 c2 = c2
  NoTask = NoTask NoWorker = NoWorker NoSprint = NoSprint
  Tasks = {t1, t2}
  Sprints = {s1}
  Workers = {w1, w2}
  Ticks = {k1}
  Calls = {c1}
  Defects = {d1}
  CallFaults = FALSE
  MaxWorkers = 2
  IterationLimit = 0
  Faults = TRUE
  Outcomes = {}
  HeartbeatStatuses = {}
  InitialState <- AllPending
  SprintOf <- OneSprint
  Rank <- T1First
  Paths <- Apart
  Edges <- NoEdges
SPECIFICATION PauseSpec
SYMMETRY WorkerSymmetry
INVARIANTS DrainedSprint StatusMatchesFlag

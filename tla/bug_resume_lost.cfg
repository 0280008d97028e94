\* resume() called while pause() drains.
CONSTANTS
  t1 = t1 t2 = t2 s1 = s1 w1 = w1 w2 = w2 k1 = k1 d1 = d1 c1 = c1 c2 = c2
  NoTask = NoTask NoWorker = NoWorker NoSprint = NoSprint
  Tasks = {t1, t2}
  Sprints = {s1}
  Workers = {w1, w2}
  Ticks = {k1}
  Calls = {c1, c2}
  Defects = {d1}
  CallFaults = FALSE
  MaxWorkers = 1
  IterationLimit = 0
  Faults = FALSE
  Outcomes = {}
  HeartbeatStatuses = {"active"}
  InitialState <- AllReady
  SprintOf <- OneSprint
  Rank <- T1First
  Paths <- Apart
  Edges <- NoEdges
SPECIFICATION PauseSpec
INVARIANT StatusMatchesFlag

\* Two tick() invocations in flight over one slot.
CONSTANTS
  t1 = t1 t2 = t2 s1 = s1 w1 = w1 w2 = w2 k1 = k1 k2 = k2 d1 = d1
  NoTask = NoTask NoWorker = NoWorker
  Tasks = {t1, t2}
  Sprints = {s1}
  Workers = {w1, w2}
  Ticks = {k1, k2}
  Defects = {d1}
  MaxWorkers = 1
  IterationLimit = 0
  Faults = FALSE
  Outcomes = {"complete", "fail"}
  HeartbeatStatuses = {"active"}
  InitialState <- AllPending
  SprintOf <- OneSprint
  Rank <- T1First
  Paths <- Apart
  Edges <- NoEdges
SPECIFICATION Spec
INVARIANT WithinMaxWorkers

\* pause() and resume() beside one tick; any call may fail anywhere.
CONSTANTS
  t1 = t1 t2 = t2 s1 = s1 w1 = w1 w2 = w2 k1 = k1 d1 = d1 c1 = c1 c2 = c2
  NoTask = NoTask NoWorker = NoWorker NoSprint = NoSprint
  Tasks = {t1}
  Sprints = {s1}
  Workers = {w1, w2}
  Ticks = {k1}
  Calls = {c1}
  Defects = {d1}
  CallFaults = TRUE
  MaxWorkers = 1
  IterationLimit = 0
  Faults = TRUE
  Outcomes = {"complete"}
  HeartbeatStatuses = {"active"}
  InitialState <- OneReady
  SprintOf <- Solo
  Rank <- RankOne
  Paths <- PathOne
  Edges <- NoEdges
SPECIFICATION FairPauseSpec
INVARIANTS PauseTypeOK PausedDispatchBounded
PROPERTIES PauseCompletes TableTransitions

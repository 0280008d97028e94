\* A worktree, its task ended once.
CONSTANTS
  a = a b = b c = c p = p q = q r = r c1 = c1 c2 = c2 h1 = h1 h2 = h2 k1 = k1 k2 = k2 m1 = m1 m2 = m2
  e1 = e1 e2 = e2 r1 = r1 r2 = r2 v1 = v1 v2 = v2
  Ids = {a, b, c}
  Candidates <- AllOfThree
  Sprints = {p, q, r}
  Priority <- FiveThreeOne
  Scale = 360
  Nobody = Nobody
  NoSprint = NoSprint
  Calls = {c1, c2}
  MaxActiveSprints = 1
  LastId = 3
  Batch = 2
  Handlers = {h1, h2}
  Cursors <- NullOrZero
  NoCursor <- Null
  MaxFaults = 1
  Cleanups = {k1, k2}
  Deliveries = {0, 1}
  MaxEnds = 1
  MaxRows = 3
  LastEvent = 1
  QueryLimit = 2
  MaxDrops = 2
  ChainLength = 2
  Senders = {c1, c2}
  Threshold = 2
  MaxChanges = 3
  Messages = {m1, m2}
  MaxConcurrency = 2
  MaxBatch = 10
  MaxReceive = 2
  MaxShutdowns = 1
  Criteria = {v1, v2}
  Callers = {c1, c2}
  MaxSessions = 2
  Rules = {r1, r2}
  TriggerEvents = {e1, e2}
  Runs = {c1, c2}
  MaxDeliveries = 2
  Foci = {"tree"}
SPECIFICATION MCSpec
PROPERTY ReturnsActive
CHECK_DEADLOCK FALSE

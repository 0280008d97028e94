\* Two events, two attempts each, one database error and one restart.
SPECIFICATION FairSpec
CONSTANTS
  Events = {e1, e2}
  NoRow = NoRow
  MaxRetries = 2
  MaxFaults = 1
  MaxRestarts = 1
INVARIANTS TypeOK SendsBounded NothingForgotten
PROPERTIES ImplementsHubMirror EveryRowSettles

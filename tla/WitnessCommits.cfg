\* Two processes commit two requests, with and without the witness; either
\* database, or both, is restored from a copy while the sink is not.
SPECIFICATION Spec
CONSTANTS
  r1 = r1
  r2 = r2
  p1 = p1
  p2 = p2
  Requests = {r1, r2}
  Processes = {p1, p2}
  Capacity = 2
  MaxPending = 2
  MaxIntents = 2
  MaxRevisions = 4
  MaxRestores = 1
  MaxIds = 8
INVARIANTS TypeOK ChargedOnlyAfterCheckpoint HistoryMatchesIntents AbortIsIrreversible WitnessedIsDurable
PROPERTY SuccessSeesEverything
SYMMETRY Symmetric
CHECK_DEADLOCK FALSE

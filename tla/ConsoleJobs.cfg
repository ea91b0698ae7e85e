\* A worker that may die and one that does not share the jobs of one case
\* and a demonstration; beats come late or not at all.
SPECIFICATION FairSpec
CONSTANTS
  w1 = w1
  w2 = w2
  c1 = c1
  Workers = {w1, w2}
  Mortal = {w1}
  Cases = {c1}
  NoCase = NoCase
  NoWorker = NoWorker
  MaxActive = 2
  Stale = 1
  MaxJobs = 3
  MaxEdits = 1
INVARIANTS ExecutionsAreExclusive ResultsMatchCase
PROPERTIES LateWorkersAreIgnored JobsSettle
CHECK_DEADLOCK FALSE

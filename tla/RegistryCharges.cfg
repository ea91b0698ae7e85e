\* Three requests of two cases race for an account of two units; services
\* replace one another, a worker publishes and the schema is migrated meanwhile.
SPECIFICATION Spec
CONSTANTS
  a1 = a1
  c1 = c1
  c2 = c2
  r1 = r1
  r2 = r2
  r3 = r3
  b1 = b1
  b2 = b2
  w1 = w1
  Accounts = {a1}
  Cases = {c1, c2}
  CaseAccount <- OneAccount
  CreatedAt <- FromStart
  RetentionUntil <- Retention
  RequestIds = {r1, r2, r3}
  Brokers = {b1, b2}
  Workers = {w1}
  NoBroker = NoBroker
  Capacity = 2
  MaxAttempts = 1
  MaxBrokers = 2
  MaxCases = 2
  MaxEvents = 5
  LeaseSeconds = {1}
  MaxTime = 2
INVARIANTS ChargesMatchReceipts LinearChains SingleLeader
PROPERTIES WrittenInTime ImplementsLedger
SYMMETRY Symmetric
CHECK_DEADLOCK FALSE

\* Two workers drain two events; replies are lost, leases expire and the
\* service is replaced.
SPECIFICATION PublicationSpec
CONSTANTS
  a1 = a1
  c1 = c1
  r1 = r1
  r2 = r2
  b1 = b1
  b2 = b2
  w1 = w1
  w2 = w2
  Accounts = {a1}
  Cases = {c1}
  CaseAccount <- OneCase
  CreatedAt <- FromStart
  RetentionUntil <- Retention
  RequestIds = {r1, r2}
  Brokers = {b1, b2}
  Workers = {w1, w2}
  NoBroker = NoBroker
  Capacity = 2
  MaxAttempts = 2
  MaxBrokers = 2
  MaxCases = 1
  MaxEvents = 8
  LeaseSeconds = {1}
  MaxTime = 1
  MaxApplied = 2
INVARIANTS TypeOK DisjointLeases AckedUnderItsLease OldestFirst
PROPERTIES NothingIsUndone ImplementsExactlyOnce
SYMMETRY Symmetric
CHECK_DEADLOCK FALSE

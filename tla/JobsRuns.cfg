\* Two workers run one job under short leases; services are replaced,
\* operators cancel and credentials are revoked meanwhile, and every run
\* returns, also one that waits for the lock of another.
SPECIFICATION FairSpec
CONSTANTS
  b1 = b1
  b2 = b2
  w1 = w1
  w2 = w2
  h1 = h1
  h2 = h2
  r1 = r1
  Brokers = {b1, b2}
  Workers = {w1, w2}
  Holders = {h1}
  CredentialUntil <- OneCredential
  Requests = {r1}
  NoBroker = NoBroker
  MaxAttempts = 2
  LeaseSeconds = 2
  MaxLease = 3
  GrantSeconds = {2}
  MaxBrokers = 2
  MaxJobs = 1
  MaxGrants = 2
  MaxEvents = 10
  MaxTime = 2
INVARIANTS TypeOK OneLiveAttempt GrantsAreOneUse
PROPERTIES ResultsAreEarned NothingIsRefunded RunsReturn
CHECK_DEADLOCK FALSE

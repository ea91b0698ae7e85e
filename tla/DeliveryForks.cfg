\* Three gateways are in the middle of a call each when an older database is
\* restored: the directory retains a fork.
SPECIFICATION Spec
CONSTANTS
  s1 = s1
  s2 = s2
  s3 = s3
  p1 = p1
  p2 = p2
  p3 = p3
  r1 = r1
  r2 = r2
  Sessions = {s1, s2, s3}
  Processes = {p1, p2, p3}
  ProcessOf <- ThreeProcesses
  Nobody = Nobody
  Requests = {r1}
  Lengths = {1}
  Size = 1
  Allowance = 1
  Seconds = {1}
  Management = {"suspend", "revoke"}
  MaxActivations = 1
  MaxGrants = 1
  MaxTransfer = 1
  MaxEvents = 5
  MaxTime = 0
  MaxRestores = 1
PROPERTIES ForksAreRefused
SYMMETRY SymmetricThree
CHECK_DEADLOCK FALSE

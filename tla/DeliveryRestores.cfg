\* Two gateways, each with a route of its own, deliver under one request
\* identifier; processes stop and an older database is restored.
SPECIFICATION Spec
CONSTANTS
  s1 = s1
  s2 = s2
  s3 = s3
  p1 = p1
  p2 = p2
  p3 = p3
  r1 = r1
  r2 = r2
  Sessions = {s1, s2}
  Processes = {p1, p2}
  ProcessOf <- TwoProcesses
  Nobody = Nobody
  Requests = {r1}
  Lengths = {1}
  Size = 1
  Allowance = 1
  Seconds = {1}
  Management = {}
  MaxActivations = 2
  MaxGrants = 2
  MaxTransfer = 1
  MaxEvents = 7
  MaxTime = 0
  MaxRestores = 1
INVARIANTS ObservationsAreTrue
PROPERTIES ImplementsEmission
SYMMETRY Symmetric
CHECK_DEADLOCK FALSE

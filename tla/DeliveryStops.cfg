\* Chunks of one artifact are delivered while routes expire and the other
\* process suspends, resumes and revokes.
SPECIFICATION Spec
CONSTANTS
  s1 = s1
  s2 = s2
  s3 = s3
  p1 = p1
  p2 = p2
  p3 = p3
  r1 = r1
  r2 = r2
  Sessions = {s1, s2}
  Processes = {p1, p2}
  ProcessOf <- TwoProcesses
  Nobody = Nobody
  Requests = {r1, r2}
  Lengths = {1}
  Size = 2
  Allowance = 2
  Seconds = {1}
  Management = {"suspend", "resume", "revoke", "revoke_grant"}
  MaxActivations = 1
  MaxGrants = 1
  MaxTransfer = 2
  MaxEvents = 5
  MaxTime = 1
  MaxRestores = 0
INVARIANTS RoutesAreFresh
PROPERTIES StopsAreObeyed
SYMMETRY Symmetric
CHECK_DEADLOCK FALSE

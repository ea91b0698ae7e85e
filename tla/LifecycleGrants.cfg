\* Two clients race with two releases under one authority; the database is
\* replaced by an older copy once.
SPECIFICATION Spec
CONSTANTS
  c1 = c1
  c2 = c2
  r1 = r1
  r2 = r2
  a1 = a1
  Clients = {c1, c2}
  Releases = {r1, r2}
  None = None
  Authorities = {a1}
  Installs <- MCInstalls
  Terms <- MCTerms
  Budget = 2
  MaxTime = 1
  MaxEvents = 5
  MaxRestores = 1
SYMMETRY MCSymmetry
INVARIANTS TypeOK GrantsAreCertified
PROPERTIES ReceiptsGoForward
CHECK_DEADLOCK FALSE

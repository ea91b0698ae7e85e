\* Two services run the campaigns of two cases of one project; either may
\* learn that a reviewer was revoked.
SPECIFICATION Spec
CONSTANTS
  s1 = s1
  s2 = s2
  u = u
  o = o
  p = p
  q = q
  a = a
  r = r
  c1 = c1
  c2 = c2
  Services = {s1, s2}
  People = {u, o, p}
  May <- RunRoles
  Tokens = {2}
  Cases = {c1, c2}
  Submitter <- Owner
  ProjectOf <- OneProject
  Policies <- MCPolicies
  Results <- MCResults
  Lifetimes = {1}
  RunLifetimes = {1}
  MaxCampaigns = 2
  MaxDelegations = 0
  MaxEvents = 7
  MaxOperators = 1
  Revocable = {p}
  MaxTime = 0
INVARIANTS PoliciesNeverWeaken
SYMMETRY MCSymmetry
CHECK_DEADLOCK FALSE

\* One service reviews the campaign of a case, with a delegation and with evidence
\* that may expire.
SPECIFICATION Spec
CONSTANTS
  s1 = s1
  s2 = s2
  u = u
  o = o
  p = p
  q = q
  a = a
  r = r
  c1 = c1
  c2 = c2
  Services = {s1}
  People = {u, o, p, q, a, r}
  May <- Roles
  Tokens = {2}
  Cases = {c1}
  Submitter <- Owner
  ProjectOf <- OneProject
  Policies <- OnePolicy
  Results <- BothResults
  Lifetimes = {1}
  RunLifetimes = {1, 2}
  MaxCampaigns = 1
  MaxDelegations = 1
  MaxEvents = 8
  MaxOperators = 0
  Revocable = {}
  MaxTime = 1
INVARIANTS DutiesAreSeparated UsableReviewsAreEarned
CHECK_DEADLOCK FALSE

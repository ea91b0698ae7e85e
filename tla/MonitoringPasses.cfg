\* Two services observe, act on and route the alerts of one key.
SPECIFICATION FairSpec
CONSTANTS
  m1 = m1
  m2 = m2
  k1 = k1
  Services = {m1, m2}
  Fronts = {m1}
  Mortal = {m1}
  Keys = {k1}
  Reports <- MCReports
  None = None
  MaxEvents = 2
  MaxOperations = 2
  MaxRecords = 4
  MaxRestores = 1
INVARIANTS IncidentsTrackFaults
PROPERTIES RoutedIsHeld AlertsAreAcknowledged
CHECK_DEADLOCK FALSE

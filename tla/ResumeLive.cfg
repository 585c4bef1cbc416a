\* Two processes, one of them on the host, compete for one instance: exclusion, and
\* progress under fair scheduling (so no symmetry).
CONSTANTS
  Procs = {p1, p2}
  Host = {p2}
  Ids = {i1}
  NoProc = NoProc
  NoId = NoId
  LocksAge = TRUE
  MaxFaults = 1
SPECIFICATION FairSpec
INVARIANTS
  SingleConsumptionUnlessStolen
  SoleOwner
PROPERTIES
  AcceptedSettles
  CrashedLockRecovered
CHECK_DEADLOCK FALSE

\* Two processes, a gate and its successor, one failing write.
CONSTANTS
  Procs = {p1, p2}
  Host = {}
  Ids = {i1, i2}
  NoProc = NoProc
  NoId = NoId
  LocksAge = TRUE
  MaxFaults = 1
SPECIFICATION Spec
SYMMETRY Symmetry
INVARIANTS
  ApprovedOnly
  SuccessorDurable
PROPERTY ImplementsGrant
CHECK_DEADLOCK FALSE

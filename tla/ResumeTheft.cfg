\* Two recoveries of one dead process's lock, nothing else going wrong.
CONSTANTS
  Procs = {p1, p2, p3}
  Host = {}
  Ids = {i1}
  NoProc = NoProc
  NoId = NoId
  LocksAge = FALSE
  MaxFaults = 0
SPECIFICATION Spec
SYMMETRY Symmetry
INVARIANT SingleConsumption
CHECK_DEADLOCK FALSE

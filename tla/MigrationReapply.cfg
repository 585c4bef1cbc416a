\* Nothing fails and nobody dies: the overlap alone does it.
CONSTANTS
  Procs = {p1, p2}
  NoProc = NoProc
  Dead = Dead
  N = 2
  MaxFaults = 0
  MaxCrashes = 0
SYMMETRY Interchangeable
SPECIFICATION Spec
PROPERTY AppliedOnce
CHECK_DEADLOCK FALSE

\* Two processes, three decisions, two failing operations, one crash.
CONSTANTS
  Procs = {p1, p2}
  NoProc = NoProc
  Dead = Dead
  Events = {e1, e2, e3}
  NoEvent = NoEvent
  MaxFaults = 2
  MaxCrashes = 1
SYMMETRY Interchangeable
SPECIFICATION Spec
INVARIANT GrantsVerifiable
PROPERTY EvidenceUntouched
CHECK_DEADLOCK FALSE

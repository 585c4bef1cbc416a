\* One failing append and one crash.
CONSTANTS
  Events = {e1, e2, e3}
  NoEvent = NoEvent
  Interval = 2
  MaxFaults = 1
  MaxCrashes = 1
SPECIFICATION Spec
SYMMETRY Symmetry
INVARIANT ExactlyOneAhead
CHECK_DEADLOCK FALSE

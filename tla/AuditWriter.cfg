\* Four decisions, verification after every second append, two failing
\* appends and two crashes.
CONSTANTS
  Events = {e1, e2, e3, e4}
  NoEvent = NoEvent
  Interval = 2
  MaxFaults = 2
  MaxCrashes = 2
SPECIFICATION FairSpec
INVARIANTS
  GrantsCheckpointed
  ChainsIntact
  CrashesRecoverable
PROPERTIES
  ImplementsTrail
  QueueDrains
CHECK_DEADLOCK FALSE

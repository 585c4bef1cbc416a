\* Two processes that check or acknowledge, two releases, room for one digest; two
\* commands, three versions of a specification of which two are sound; the diagrams,
\* routes and workflows of MCArchify.
CONSTANTS
  Procs = {p1, p2}
  Digests = {d1, d2}
  NoCand = NoCand
  MaxGen = 3
  MaxTries = 2
  Cap = 1
  Commands = {c1, c2}
  Versions = {v1, v2, v3}
  Sound = {v1, v2}
  NoVersion = NoVersion
  Old = Old
  Nobody = Nobody
  MaxBreaks = 2
  x = x
  y = y
  Undefined = Undefined
  Snapshots <- MCSnapshots
  Drawings <- MCDrawings
  Ports <- MCPorts
  Fans <- MCFans
  Slants <- MCSlants
  Documents <- MCDocuments
SPECIFICATION ArchifySpec
SYMMETRY Interchangeable
INVARIANTS
  AnswersKept
  OneHolder
  DeliverySound
  DrawingsSound
PROPERTY ImplementsRegister
CHECK_DEADLOCK FALSE

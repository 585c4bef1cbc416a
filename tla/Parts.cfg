\* Two invocations of the migration, three resources, two failing operations and two
\* crashes; three contents of a previewed file and three edits; two tool calls; two
\* providers and two keys; two sessions with three incidents; two servers and one whose
\* tool has the key of another's; two
\* overlapping refreshes, three in all; two tasks; two installed files, two runs;
\* a page of at most three changes; three targets of two providers; four signatures for
\* three calls in a map of two; two requests of three users, two of them with one subject
\* and two with subjects the older naming folds together.
CONSTANTS
  Procs = {p1, p2}
  NoProc = NoProc
  Dead = Dead
  N = 3
  MaxFaults = 2
  MaxCrashes = 2
  Sources = {a, b, c}
  Good = {a, c}
  NoSource = NoSource
  MaxEdits = 3
  Calls = {c1, c2}
  Shells = {c1, c2}
  NoCap = NoCap
  MaxPosts = 2
  MaxRestarts = 1
  Providers = {openrouter, google}
  Keys = {k1, k2}
  NoKey = NoKey
  Absent = Absent
  Torn = Torn
  MaxTorn = 1
  Sessions = {s1, s2}
  Incidents = {i1, i2, i3}
  m1 = m1
  m2 = m2
  m3 = m3
  a1 = a1
  a2 = a2
  n1 = n1
  Servers = {m1, m2, m3}
  Proper = {m1, m2}
  ToolNames = {n1}
  NoServer = NoServer
  Actions = {a1, a2}
  ActionOf <- MCActionOf
  Flights = {f1, f2}
  MaxRefreshes = 3
  Tasks = {t1, t2}
  User = User
  NoTask = NoTask
  MaxHead = 2
  Files = {template, settings}
  Required = {template, settings}
  Template = template
  Settings = settings
  MaxRuns = 2
  MaxRows = 3
  MaxToken = 5
  Targets <- MCTargets
  CallIds = {k1, k2, k3}
  Signatures = {x, y}
  MaxKept = 2
  MaxCaptures = 4
  Requests = {r1, r2}
  Users <- MCUsers
  Operator <- MCOperator
  OldNames = {"alice", "bob"}
  Nobody = Nobody
SPECIFICATION PartsSpec
INVARIANTS
  PartitionsSafe
  ShellCallsGoverned
  StoresTruthful
  StagingIsolated
  InstallOrRestore
PROPERTIES
  RollbackCompletes
  PreviewSettles
  RefreshesOrdered
  ReviewSettles
CHECK_DEADLOCK FALSE

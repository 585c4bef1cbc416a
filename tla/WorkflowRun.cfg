\* Every workflow of two or three of the manifest's steps, resumed at most
\* three times, with a ring of three and a window of two; the file targets of
\* fourteen requests in a tree of five paths with at most two links; a fetch with at most two
\* redirects; two engines' handlers over two files with two mishaps.
CONSTANTS
  query = query
  patch = patch
  escalate = escalate
  save = save
  probe = probe
  x = x
  y = y
  c = c
  Workflows <- MCWorkflows
  Action <- MCAction
  Registered = {query, patch, escalate, probe}
  Known = {query, patch, escalate, save, probe}
  Permitted = {query, patch, escalate, save}
  DefaultGated = {patch, escalate, save}
  Arg = {x, y}
  Cond = {c}
  NoAction = NoAction
  NoCond = NoCond
  Window = 2
  Cap = 3
  MaxResumes = 3
  work = work
  etc = etc
  state = state
  leaf = leaf
  Names <- MCNames
  Nodes <- MCNodes
  Requests <- MCRequests
  ReadRoots <- MCReadable
  WriteRoots <- MCWork
  DeniedPaths <- MCDenied
  Listed = {"other"}
  ShellConfined = TRUE
  BridgeRoot <- MCBridge
  StateDir <- MCStateDir
  MaxLinks = 2
  NoRequest = NoRequest
  Hosts = {api, intra, outside, a1}
  Addresses = {a1, a2, a3}
  Literal = {a1}
  Public = {a1, a2}
  AllowedHosts = {api, intra, a1}
  PrivateHosts = {intra}
  Unsuitable = {}
  Sandboxed = FALSE
  MaxRedirects = 2
  MaxBytes = 2
  NoHost = NoHost
  Engines = {e1, e2}
  c1 = c1
  c2 = c2
  c3 = c3
  Contents = {c1, c2, c3}
  Parses = {c1, c2}
  Diffs <- MCDiffs
  Missing = Missing
  Ragged = Ragged
  MaxMishaps = 2
SPECIFICATION StepsSpec
INVARIANTS
  ApprovalSpentOnce
  LoopTrapHolds
  LogMatchesSteps
  StatusTruthful
  GrantedPlacesOnly
  ConnectionsApproved
  HandlersDurable
PROPERTY ApprovalAdvances
CHECK_DEADLOCK FALSE

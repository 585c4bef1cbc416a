\* Every workflow of two or three of the manifest's steps, resumed at most
\* three times, with a ring of three and a window of two.
CONSTANTS
  query = query
  patch = patch
  escalate = escalate
  save = save
  probe = probe
  x = x
  y = y
  c = c
  Workflows <- MCWorkflows
  Action <- MCAction
  Registered = {query, patch, escalate, probe}
  Known = {query, patch, escalate, save, probe}
  Permitted = {query, patch, escalate, save}
  DefaultGated = {patch, escalate, save}
  Arg = {x, y}
  Cond = {c}
  NoAction = NoAction
  NoCond = NoCond
  Window = 2
  Cap = 3
  MaxResumes = 3
SPECIFICATION Spec
INVARIANT FallbackGateSuspends
CHECK_DEADLOCK FALSE

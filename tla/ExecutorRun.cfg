\* Three requests for two slots, capabilities that expire after tick 0 (three,
\* or two of which one is presented twice), one restart.
CONSTANTS
  r1 = r1  r2 = r2  r3 = r3
  Requests <- MCRequests
  Tokens <- MCRequests
  Presentations <- MCPresentations
  Expiry <- MCExpiry
  MaxConcurrent = 2
  Horizon = 1
  MaxRestarts = 1
SPECIFICATION FairSpec
INVARIANTS
  CommandsBounded
  SingleUse
  CleanMeansUntouched
PROPERTY SlotsReturn
CHECK_DEADLOCK FALSE

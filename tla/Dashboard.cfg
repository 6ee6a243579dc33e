CONSTANTS
  p1 = p1
  p2 = p2
  Poll <- MCPoll
  Time = {1, 2, 3}
  Limit = 2
  Window = 2
  Kept = 3
  None = None
  MaxRecords = 4
  MaxFailures = 1
SPECIFICATION FairSpec
INVARIANTS ChartIsHistory ValuesAgree
PROPERTY CatchesUp

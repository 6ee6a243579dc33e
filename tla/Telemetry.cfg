CONSTANTS
  Cap = 2
  Blank = Blank
  Reply <- MCReply
  Mask = {1, 3}
  DefaultMask = 3
  Gap = {200}
  QueueCap = 1
  MaxRecords = 2
  MaxPolls = 3
  MaxConfigs = 2
  MaxAcks = 1
  MaxFaults = 1
SPECIFICATION FairSpec
INVARIANTS Pipeline ValuesAsRead
PROPERTIES RingIsQueue EverythingSettles
\* The bounds are used up.
CHECK_DEADLOCK FALSE

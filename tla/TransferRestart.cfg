CONSTANTS
  a = a
  b = b
  Unit <- MCUnit
  Firmware <- MCOne
  ChunkSize = 1
  None = None
  Faults = {}
  Controls = {}
  MaxUploads = 1
  MaxControls = 0
  MaxRestarts = 1
  MaxLosses = 0
SPECIFICATION FairSpec
PROPERTIES AutoResume
\* The bounds are used up, or both sides wait for each other.
CHECK_DEADLOCK FALSE

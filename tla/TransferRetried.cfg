CONSTANTS
  a = a
  b = b
  Unit <- MCUnit
  Firmware <- MCTwo
  ChunkSize = 2
  None = None
  Faults = {"short", "bad_sha", "bad_enc"}
  Controls = {"pause", "reboot"}
  MaxUploads = 4
  MaxControls = 1
  MaxRestarts = 1
  MaxLosses = 1
SPECIFICATION RetrySpec
PROPERTIES RetriedUploadCompletes
\* The bounds are used up, or both sides wait for each other.
CHECK_DEADLOCK FALSE

CONSTANTS
  a = a
  b = b
  Unit <- MCUnit
  Firmware <- MCOne
  ChunkSize = 1
  None = None
  Faults = {"short", "bad_sha", "bad_enc"}
  Controls = {"pause", "resume", "abort", "reboot"}
  MaxUploads = 2
  MaxControls = 2
  MaxRestarts = 1
  MaxLosses = 1
SPECIFICATION Spec
INVARIANTS TypeOK OneMessagePerRequest WrittenIsPrefix ThreadAlive
\* The bounds are used up, or both sides wait for each other.
CHECK_DEADLOCK FALSE

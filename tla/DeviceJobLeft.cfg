CONSTANTS
  a = a
  b = b
  Unit <- MCUnit
  Image <- MCShort
  Factory <- MCFactory
  Data <- MCData
  Version = {"v1"}
  PartSize = 2
  MaxHash = 2
  None = None
  Erased = Erased
  Garbage = Garbage
  FlashFaults = {}
  CoreValidates = TRUE
SPECIFICATION Spec
INVARIANT NoJobOnRunning
\* A device without any complete image does not start again.
CHECK_DEADLOCK FALSE

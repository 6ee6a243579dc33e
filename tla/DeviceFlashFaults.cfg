CONSTANTS
  a = a
  b = b
  Unit <- MCUnit
  Image <- MCShort
  Factory <- MCFactory
  Data <- MCData
  Version = {"v1"}
  PartSize = 2
  MaxHash = 2
  None = None
  Erased = Erased
  Garbage = Garbage
  FlashFaults = {"erase", "write", "read", "otadata", "state"}
  CoreValidates = TRUE
SPECIFICATION Spec
INVARIANTS NeverBricked RunningHoldsImage
\* A device without any complete image does not start again.
CHECK_DEADLOCK FALSE

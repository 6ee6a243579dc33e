CONSTANTS
  a = a
  b = b
  Unit <- MCUnit
  Image <- MCImage
  Factory <- MCFactory
  Data <- MCData
  Version = {"v1"}
  PartSize = 2
  MaxHash = 2
  None = None
  Erased = Erased
  Garbage = Garbage
  FlashFaults = {"read", "otadata", "state"}
  CoreValidates = TRUE
SPECIFICATION Spec
INVARIANTS TypeOK HashTracksFlash JobIsStored
PROPERTY SelectedIsVerified
\* A device without any complete image does not start again.
CHECK_DEADLOCK FALSE

CONSTANTS
  t1 = t1
  t2 = t2
  k1 = k1
  k2 = k2
  Thread <- MCThread
  Task <- MCTask
  FlushEvery = 2
  MaxClock = 2
  MaxSends = 3
  MaxCopies = 1
  MaxLosses = 1
  MaxSeals = 2
  MaxRestarts = 1
SYMMETRY Symmetry
CHECK_DEADLOCK FALSE
SPECIFICATION Spec
INVARIANTS TypeOK HandledOnce NoneRefused NumbersDiffer

CONSTANTS
  Letter = {1, 2}
  Text <- MCText
  Sections = 2
  Index <- MCIndex
  None = None
  MaxSteps = 10
  MaxTimers = 2
  MaxLoads = 2
  MaxFailures = 1
SPECIFICATION Spec
INVARIANTS TypeOK ListIsOneSearch ListIsLastSearch FocusIsVisible InactiveIsBlank
\* The bounds are used up.
CHECK_DEADLOCK FALSE

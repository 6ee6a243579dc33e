CONSTANTS
  r1 = r1
  r2 = r2
  Req <- MCReq
  Reg = {0}
  Keys <- MCKeys
  Value = {1, 2}
  Default <- MCDefault
  Empty = Empty
  MaxEvents = 2
  Watched = {"config"}
  MaxSwitches = 1
  MaxEdits = 4
  MaxSubmits = 2
  MaxPolls = 2
  MaxReports = 1
  MaxFailures = 1
  MaxTotal = 9
SPECIFICATION Spec
INVARIANTS TypeOK SentAsShown ConfigAgrees PanelInOrder
SYMMETRY Symmetry
\* The bounds are used up.
CHECK_DEADLOCK FALSE

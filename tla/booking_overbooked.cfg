CONSTANTS
  Records = {}
  Managers = {m1}
  Scanners = {}
  Plans <- MCNoPlans
  Edits <- MCEditsTotal
  Names <- MCNames
  InitialRows <- MCTwoUnits
  CalibrationInterval = 0
  MaxTime = 2
  MaxVersion = 2
  Bookings = {b1, b2}
  Requests = {q1}
  Windows <- MCWindows
  MaxQuantity = 2
  MaxEdits = 2
SPECIFICATION BookingSpec
INVARIANT NeverOverbooked
SYMMETRY Symmetry
CHECK_DEADLOCK FALSE

CONSTANTS
  Records = {}
  Managers = {m1}
  Scanners = {}
  Plans <- MCNoPlans
  Edits <- MCEditsTotal
  Names <- MCNames
  InitialRows <- MCRows
  CalibrationInterval = 0
  MaxTime = 2
  MaxVersion = 2
  Bookings = {b1, b2}
  Requests = {q1, q2}
  Windows <- MCWindows
  MaxQuantity = 1
  MaxEdits = 2
SPECIFICATION BookingSpec
PROPERTIES
  GrantsFitCapacity ImplementsLedger OnlyStaleSavesReopen
  OnlyStaleSavesTouchStarted
SYMMETRY Symmetry
CHECK_DEADLOCK FALSE

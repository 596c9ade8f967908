CONSTANTS
  Records = {r1}
  Managers = {m1}
  Scanners = {s1}
  Plans <- MCPlans
  Edits <- MCEditsPolicy
  Names <- MCNames
  InitialRows <- MCCalibrationRow
  CalibrationInterval = 0
  MaxTime = 2
  MaxVersion = 2
  Bookings = {b1, b2}
  Requests = {q1}
  Windows <- MCWindows
  MaxQuantity = 2
  MaxEdits = 2
SPECIFICATION BookingSpec
PROPERTY NewUseOnlyWhenUsable
SYMMETRY Symmetry
CHECK_DEADLOCK FALSE

CONSTANTS
  Records = {r1, r2}
  Managers = {m1}
  Scanners = {s1, s2}
  Plans <- MCPlans
  Edits <- MCEdits
  Names <- MCNames
  InitialRows <- MCRows
  CalibrationInterval = 2
  MaxTime = 2
  MaxVersion = 3
SPECIFICATION MCSpec
PROPERTIES
  RepeatsComeFromOverlaps ReturnToServiceIsSafe RetiredStaysRetired
  ScansCatchUp
CHECK_DEADLOCK FALSE

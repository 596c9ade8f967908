CONSTANTS
  Notifications = {1, 2}
  Workers = {w1, w2}
  Limit = 2
  RetryLimit = 1
  MaxCrashes = 1
  Risks = {r1, r2}
  Owners = {o1}
  Nobody = nobody
  RiskDesks = {d1}
  BatchLimit = 1
  MaxRevisions = 3
  FollowUps = {1, 2}
  TaskRuns = {t1, t2}
  JobBatch = 1
  MaxReminders = 1
  PolicyDesks = {k1, k2}
  PreferenceDesks = {u1, u2, u3}
  MaxEdits = 3
SPECIFICATION MCSpec
INVARIANT RecordsAreTrue
PROPERTIES
  SettledStaysSettled EventuallySettles DueRisksAreReminded
  OnlyBlindClientsUndoSettings LateActionsAreEscalated
CHECK_DEADLOCK FALSE

CONSTANTS
  Teachers = {t1, t2}
  Students = {x1}
  Admin = admin
  Pages = {q1}
  MaxGovernance = 2
  Publishers = {k1, k2}
  Keys = {y1, y2}
  NoKey = nokey
  MaxDecisions = 3
  Tasks = {t1, t2}
  NoTask = notask
  TaskRequests = {k1, k2}
  LastDue = 2
  MaxTaskWrites = 3
  LastDay = 2
  Wordings = {x1}
  Times = {y1, y2}
  MaxCreated = 1
  Clients = {k1, k2}
  MaxSeries = 2
  MaxEdition = 3
SPECIFICATION MCSpec
CONSTRAINT OneStandsOut
INVARIANT ProjectRecordsAgree
PROPERTIES
  GovernanceHolds ArchivedGetsBookingsOnly OnlyOvertakenRowsTangle
  ScheduleChangesAreSeen
SYMMETRY Symmetry
CHECK_DEADLOCK FALSE

CONSTANTS
  LastProject = 2
  Runs = {o1}
  MaxTemplates = 1
  MaxQuestions = 2
  Authors = {a1}
  Submitters = {c1, c2}
  MaxReports = 3
  PolicyDesks = {k1, k2}
  MaxPolicies = 4
  Pieces = {p1}
  Teachers = {t1, t2}
  Admin = admin
  Requests = {r1, r2}
  MaxVersions = 2
  Keepers = {t1, t2}
  Creators = {u1, u2}
  MaxAnchors = 2
  AssignmentDesks = {k1, k2}
  MaxAssigned = 2
SPECIFICATION MCSpec
INVARIANT SubmissionsAgree
PROPERTIES
  PeriodsMove ReportsFollowWhatWasRead OnlyNewRowsAreMistaken ReviewsAreKept
CHECK_DEADLOCK FALSE

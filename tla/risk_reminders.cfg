CONSTANTS
  Risks = {r1}
  Owners = {o1}
  Nobody = nobody
  RiskDesks = {d1}
  BatchLimit = 1
  MaxRevisions = 3
SPECIFICATION RiskSpec
PROPERTY ClosingEndsReminders
CHECK_DEADLOCK FALSE

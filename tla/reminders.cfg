CONSTANTS
  Recipients = {r1, r2}
  Scanners = {s1, s2}
  Requests = {q1}
  MaxChanges = 1
  MaxDeaths = 1
SPECIFICATION FairSpec
CONSTRAINT FewScans
INVARIANTS RemindedOnce OneHolderPerClaim
PROPERTIES MembersAreReminded DepartedLoseGrant
CHECK_DEADLOCK FALSE

CONSTANTS
  Deliverables = {d1}
  Reviewers = {r1}
  Advisor = advisor
  Workers = {w1, w2}
  Plans <- MCPlans
  MaxRevisions = 2
  MaxWritten = 3
  MaxCrashes = 1
SPECIFICATION Spec
CONSTRAINT QuietWhenClosed
INVARIANTS CompletedMeansAccepted AcceptanceIsDecided SomebodyIsAsked
PROPERTIES DecisionsAreFinal
SYMMETRY Symmetry
CHECK_DEADLOCK FALSE

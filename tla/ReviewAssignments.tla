-------------------------- MODULE ReviewAssignments --------------------------
(***************************************************************************)
(* The assignments of one reviewer to one report, writing version or       *)
(* deliverable revision: apps/submissions/review_assignment_services.py.   *)
(*                                                                         *)
(* Assigning locks the membership of the reviewer, removing the assignment *)
(* whose version the page has shown; a change of the membership's role     *)
(* locks it too and leaves the assignments alone.                          *)
(***************************************************************************)
EXTENDS Integers, Sequences

CONSTANTS
  AssignmentDesks,  \* pages that show the reviewer's assignments
  MaxAssigned       \* bound: assignments of the reviewer

ASSUME ReviewAssignmentAssumption == MaxAssigned \in Nat

VARIABLES
  reviewing,       \* the membership is one of an active reviewer
  assignments,     \* SubmissionReviewAssignment rows
  assignmentShown  \* the assignments a desk shows

assignmentVars == <<reviewing, assignments, assignmentShown>>

Assignment == [active : BOOLEAN, version : 1 .. 2]

AssignmentTypeOK ==
  /\ reviewing \in BOOLEAN
  /\ assignments \in Seq(Assignment) /\ Len(assignments) <= MaxAssigned
  /\ assignmentShown \in [AssignmentDesks -> Seq(Assignment)]

AssignmentInit ==
  /\ reviewing = TRUE /\ assignments = <<>>
  /\ assignmentShown = [k \in AssignmentDesks |-> <<>>]

-----------------------------------------------------------------------------
ActiveAssignments == {n \in DOMAIN assignments : assignments[n].active}

ReviewerChanges ==
  /\ reviewing' = ~reviewing
  /\ UNCHANGED <<assignments, assignmentShown>>

\* get_or_create of the active assignment
AssignReviewer ==
  /\ reviewing /\ ActiveAssignments = {} /\ Len(assignments) < MaxAssigned
  /\ assignments' = Append(assignments, [active |-> TRUE, version |-> 1])
  /\ UNCHANGED <<reviewing, assignmentShown>>

ShowAssignments(k) ==
  /\ assignmentShown' = [assignmentShown EXCEPT ![k] = assignments]
  /\ UNCHANGED <<reviewing, assignments>>

RemoveAssignment(k, n) ==
  /\ n \in DOMAIN assignmentShown[k]
  /\ assignmentShown[k][n].version = assignments[n].version
  /\ assignments[n].active
  /\ assignments' = [assignments EXCEPT ![n] = [active |-> FALSE, version |-> @.version + 1]]
  /\ UNCHANGED <<reviewing, assignmentShown>>

\* reviewer_can_access_target
MayReview == reviewing /\ ActiveAssignments # {}

AssignmentNext ==
  \/ AssignReviewer \/ ReviewerChanges
  \/ \E k \in AssignmentDesks :
       ShowAssignments(k) \/ \E n \in 1 .. MaxAssigned : RemoveAssignment(k, n)

AssignmentSpec == AssignmentInit /\ [][AssignmentNext]_assignmentVars

-----------------------------------------------------------------------------
\* A removal takes the reviewer's access away at once: assignments are unique,
\* and access comes back only by a new one or with the role
\* (assign_reviewer, remove_review_assignment, reviewer_can_access_target).
RemovalEndsAccess ==
  [][\A k \in AssignmentDesks, n \in 1 .. MaxAssigned :
       RemoveAssignment(k, n) => ~MayReview']_assignmentVars
=============================================================================

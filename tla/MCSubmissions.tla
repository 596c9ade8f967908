---------------------------- MODULE MCSubmissions ----------------------------
(***************************************************************************)
(* The parts of apps/submissions that share no state, checked together: a  *)
(* behaviour is one of the part named by focus, and the others rest.       *)
(***************************************************************************)
EXTENDS ReportPeriods, ReportReviews, ReportPolicy, WritingReview, WritingAnchors,
        ReviewAssignments

VARIABLE focus

MCInit ==
  /\ focus \in {"periods", "reports", "policy", "writing", "anchors", "assignments"}
  /\ PeriodInit /\ (focus # "periods" => \A p \in Projects : ~courses[p].governed)
  /\ ReportInit /\ PolicyInit /\ AssignmentInit
  /\ WritingInit /\ (focus # "writing" => advisor = CHOOSE t \in Teachers : TRUE)
  /\ AnchorInit /\ (focus # "anchors" => keeper = CHOOSE t \in Keepers : TRUE)

MCNext ==
  /\ UNCHANGED focus
  /\ \/ focus = "periods" /\ PeriodNext
        /\ UNCHANGED <<reportVars, policyVars, writingVars, anchorVars, assignmentVars>>
     \/ focus = "reports" /\ ReportNext
        /\ UNCHANGED <<periodVars, policyVars, writingVars, anchorVars, assignmentVars>>
     \/ focus = "policy" /\ PolicyNext
        /\ UNCHANGED <<periodVars, reportVars, writingVars, anchorVars, assignmentVars>>
     \/ focus = "writing" /\ WritingNext
        /\ UNCHANGED <<periodVars, reportVars, policyVars, anchorVars, assignmentVars>>
     \/ focus = "anchors" /\ AnchorNext
        /\ UNCHANGED <<periodVars, reportVars, policyVars, writingVars, assignmentVars>>
     \/ focus = "assignments" /\ AssignmentNext
        /\ UNCHANGED <<periodVars, reportVars, policyVars, writingVars, anchorVars>>

MCVars ==
  <<focus, periodVars, reportVars, policyVars, writingVars, anchorVars,
    assignmentVars>>

\* As in ReportPeriods: the task runs every five minutes.
MCFairness == \A o \in Runs : WF_periodVars(focus = "periods" /\ RunStep(o))

MCSpec == MCInit /\ [][MCNext]_MCVars /\ MCFairness

\* Every part keeps its types; reports and anchors are what their lookups make
\* them (submit_weekly_report, anchor_project_for_standalone_writing).
SubmissionsAgree ==
  /\ PeriodTypeOK /\ ReportTypeOK /\ PolicyTypeOK
  /\ WritingTypeOK /\ AnchorTypeOK /\ AssignmentTypeOK
  /\ OnlyWeeklyReportsCollide /\ AnchorsFollowLookups

\* Periods open and close, and ask what they asked when they opened
\* (maintain_reporting_periods_task).
PeriodsMove == PeriodTemplatesStay /\ PeriodsOpen /\ PeriodsClose

\* Reviewers and authors meet only as long as they should
\* (record_writing_version_download, remove_review_assignment).
ReviewsAreKept == OnlyStaleDownloadsHideFeedback /\ RemovalEndsAccess
=============================================================================

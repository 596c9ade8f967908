---------------------------- MODULE ReportPolicy ----------------------------
(***************************************************************************)
(* The policy of the deadline of a project's reports: the schedule         *)
(* services and the view of apps/submissions (services.py, views.py).      *)
(*                                                                         *)
(* The policy is edited from desks that show it, with the version shown or *)
(* without any, each operation under the lock of its row.  Its rows are    *)
(* told apart by a number of their own, which the code does not keep.      *)
(***************************************************************************)
EXTENDS Integers

CONSTANTS
  PolicyDesks,  \* pages that show the policy of the deadline
  MaxPolicies   \* bound: changes of the policy

ASSUME PolicyAssumption == MaxPolicies \in Nat

VARIABLES
  configurable,  \* the project is active
  policy,        \* ProjectReportSchedule
  policies,      \* changes of the policy so far
  policyShown    \* the policy a desk shows

policyVars == <<configurable, policy, policies, policyShown>>

-----------------------------------------------------------------------------
NoPolicy == [version |-> 0, row |-> 0, content |-> 0]

\* content stands for weekday, time and zone: the change that wrote them
Policy == [version : 0 .. MaxPolicies, row : 0 .. MaxPolicies,
           content : 0 .. MaxPolicies]

PolicyTypeOK ==
  /\ configurable \in BOOLEAN
  /\ policy \in Policy /\ policies \in 0 .. MaxPolicies
  /\ policyShown \in [PolicyDesks -> Policy]

PolicyInit ==
  /\ configurable = TRUE
  /\ policy = NoPolicy /\ policies = 0
  /\ policyShown = [k \in PolicyDesks |-> NoPolicy]

-----------------------------------------------------------------------------
ArchiveOrReopen ==
  /\ configurable' = ~configurable
  /\ UNCHANGED <<policy, policies, policyShown>>

ShowPolicy(k) ==
  /\ policyShown' = [policyShown EXCEPT ![k] = policy]
  /\ UNCHANGED <<configurable, policy, policies>>

\* Mutant of VersionAgrees: the version is not compared.
VersionAgreesAnyway(k, versioned) == TRUE

\* expected_version may be missing; where there is no policy it is 0.
VersionAgrees(k, versioned) == versioned => policyShown[k].version = policy.version

\* put: a desk that shows no policy and sends its version sends 0.
ConfigurePolicy(k, versioned) ==
  /\ configurable /\ policies < MaxPolicies /\ VersionAgrees(k, versioned)
  /\ policies' = policies + 1
  /\ policy' = [version |-> policy.version + 1, content |-> policies',
                row |-> IF policy = NoPolicy THEN policies' ELSE policy.row]
  /\ UNCHANGED <<configurable, policyShown>>

\* delete, of an archived project's policy too
RemovePolicy(k) ==
  /\ policy # NoPolicy /\ VersionAgrees(k, TRUE)
  /\ policy' = NoPolicy
  /\ UNCHANGED <<configurable, policies, policyShown>>

PolicyPage ==
  \E k \in PolicyDesks :
    \/ ShowPolicy(k)
    \/ \E versioned \in BOOLEAN : ConfigurePolicy(k, versioned)
    \/ RemovePolicy(k)

PolicyNext == ArchiveOrReopen \/ PolicyPage

PolicySpec == PolicyInit /\ [][PolicyNext]_policyVars

-----------------------------------------------------------------------------
\* A desk that sends the version it shows overwrites or removes what it shows,
\* unless the policy was removed and configured anew, which starts its versions
\* over (configure_project_report_schedule, remove_project_report_schedule).
OnlyNewRowsAreMistaken ==
  [][\A k \in PolicyDesks :
       (ConfigurePolicy(k, TRUE) \/ RemovePolicy(k))
         => policyShown[k].content = policy.content \/ policyShown[k].row # policy.row]_policyVars
=============================================================================

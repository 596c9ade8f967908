----------------------- MODULE NotificationFollowUps ------------------------
(***************************************************************************)
(* Notifications that ask for an action, the task that reminds of them,    *)
(* and the settings that govern both: outcome_services.py, tasks.py and    *)
(* policy_services.py of apps/notifications.                               *)
(*                                                                         *)
(* process_actionable_notification_followups reads one batch of rows and   *)
(* handles them one by one.  It holds no lock from the reading to the      *)
(* saving: what it saves it computes from the row it has read, the         *)
(* outcome it asks for anew.  Two runs may overlap.                        *)
(*                                                                         *)
(* A follow-up is about a revision to review, completed by the decision on *)
(* it, or about a risk, which only the mail delivery ends when the         *)
(* recipient has left the project.  No caller asks for an acknowledgement  *)
(* or gives a row an expiry date, so these branches do not occur.          *)
(***************************************************************************)
EXTENDS Integers, FiniteSets

CONSTANTS
  FollowUps,     \* ids of rows, in the order of their due dates
  TaskRuns,      \* worker processes that may run the task
  JobBatch,      \* GRADSYNC_EXECUTION_JOB_BATCH_SIZE
  MaxReminders,  \* bound of a policy's max_reminders
  PolicyDesks,   \* screens of the primary advisor with the policy
  PreferenceDesks, \* screens of one user with the preferences
  MaxEdits       \* bound: versions of a policy and of a profile

ASSUME FollowUpAssumption ==
  /\ FollowUps \subseteq Nat /\ IsFiniteSet(FollowUps)
  /\ JobBatch \in Nat \ {0} /\ MaxReminders \in Nat /\ MaxEdits \in Nat \ {0}

VARIABLES
  followUps,  \* the rows
  taskRuns,   \* what each run of the task is doing
  policy,     \* ProjectNotificationPolicy: its version (0: none) and maximum
  policyDesks, \* the row each screen shows, and requests under way
  profile,    \* the NotificationPreferenceProfile (version 0: none)
  preferenceDesks

followUpVars ==
  <<followUps, taskRuns, policy, policyDesks, profile, preferenceDesks>>

-----------------------------------------------------------------------------
Unasked == [outcome |-> "absent"]

\* time: how far due_at is, and whether the repeat interval has passed.
FollowUp == [outcome : {"pending", "completed", "unavailable"},
             about : {"revision", "risk"}, time : {"early", "lead", "late"},
             rested : BOOLEAN, count : 0 .. MaxReminders, escalated : BOOLEAN]

NoRun == [step |-> "idle"]

TaskRun == [step : {"checking", "reminding", "escalating"},
            todo : (SUBSET FollowUps) \ {{}},
            seen : [FollowUps -> {Unasked} \cup FollowUp]]

Policy == [version : 0 .. MaxEdits, max : 0 .. MaxReminders]

\* by is who saved last; blind, a history field, counts the saves by clients
\* that had never asked for the profile.
Profile == [version : 0 .. MaxEdits, by : PreferenceDesks \cup {"none"}, blind : Nat]

NoDesk == [step |-> "none"]

PolicyDesk == {NoDesk} \cup [step : {"shown", "creating"}, row : Policy]

PreferenceDesk ==
  {NoDesk} \cup [step : {"shown"}, row : Profile] \cup [step : {"creating", "saving"}]

FollowUpTypeOK ==
  /\ followUps \in [FollowUps -> {Unasked} \cup FollowUp]
  /\ taskRuns \in [TaskRuns -> {NoRun} \cup TaskRun]
  /\ policy \in Policy
  /\ policyDesks \in [PolicyDesks -> PolicyDesk]
  /\ profile \in Profile
  /\ preferenceDesks \in [PreferenceDesks -> PreferenceDesk]

FollowUpInit ==
  /\ followUps = [f \in FollowUps |-> Unasked]
  /\ taskRuns = [w \in TaskRuns |-> NoRun]
  /\ policy = [version |-> 0, max |-> MaxReminders]
  /\ policyDesks = [k \in PolicyDesks |-> NoDesk]
  /\ profile = [version |-> 0, by |-> "none", blind |-> 0]
  /\ preferenceDesks = [k \in PreferenceDesks |-> NoDesk]

settingVars == <<policy, policyDesks, profile, preferenceDesks>>

-----------------------------------------------------------------------------
(***************************************************************************)
(* The life of a row.                                                      *)
(***************************************************************************)

Active(f) == followUps[f].outcome = "pending"

\* create_follow_up_notification, and the get_or_create for risks.
AskForAction(f) ==
  /\ followUps[f] = Unasked
  /\ \E about \in {"revision", "risk"} :
       followUps' = [followUps EXCEPT
         ![f] = [outcome |-> "pending", about |-> about, time |-> "early",
                 rested |-> TRUE, count |-> 0, escalated |-> FALSE]]
  /\ UNCHANGED <<taskRuns, settingVars>>

\* The lead time begins, or the escalation delay ends.
TimePasses(f) ==
  /\ Active(f)
  /\ \/ followUps[f].time = "early"
        /\ followUps' = [followUps EXCEPT ![f].time = "lead"]
     \/ followUps[f].time = "lead"
        /\ followUps' = [followUps EXCEPT ![f].time = "late"]
     \/ ~followUps[f].rested
        /\ followUps' = [followUps EXCEPT ![f].rested = TRUE]
  /\ UNCHANGED <<taskRuns, settingVars>>

\* reconcile_authoritative_action for a recommendation or a decision.
CompleteAction(f) ==
  /\ Active(f) /\ followUps[f].about = "revision"
  /\ followUps' = [followUps EXCEPT ![f].outcome = "completed"]
  /\ UNCHANGED <<taskRuns, settingVars>>

\* mark_notification_unavailable; follow-ups on revisions send no mail.
MarkUnavailable(f) ==
  /\ Active(f) /\ followUps[f].about = "risk"
  /\ followUps' = [followUps EXCEPT ![f].outcome = "unavailable"]
  /\ UNCHANGED <<taskRuns, settingVars>>

-----------------------------------------------------------------------------
(***************************************************************************)
(* The task.                                                               *)
(***************************************************************************)

\* Mutant of FirstDue: the last rows are taken.
LastDue(set) == {f \in set : Cardinality({g \in set : g > f}) < JobBatch}

\* The first rows of a batch, ordered by due_at and id.
FirstDue(set) == {f \in set : Cardinality({g \in set : g < f}) < JobBatch}

StartFollowUps(w) ==
  LET selected == FirstDue({f \in FollowUps : Active(f)})
  IN  /\ taskRuns[w] = NoRun /\ selected # {}
      /\ taskRuns' = [taskRuns EXCEPT
           ![w] = [step |-> "checking", todo |-> selected,
                   seen |-> [f \in FollowUps |->
                               IF f \in selected THEN followUps[f] ELSE Unasked]]]
      /\ UNCHANGED <<followUps, settingVars>>

IsNextRow(w, f) == taskRuns[w].todo \cap {g \in FollowUps : g <= f} = {f}

RowDone(w, f) ==
  LET rest == taskRuns[w].todo \ {f}
  IN  taskRuns' = [taskRuns EXCEPT
        ![w] = IF rest = {} THEN NoRun
               ELSE [@ EXCEPT !.step = "checking", !.todo = rest]]

\* reconcile_authoritative_action: no resolver knows "scheduled.reconcile", so
\* it only tells the present outcome.
Check(w, f) ==
  /\ taskRuns[w].step = "checking" /\ IsNextRow(w, f)
  /\ \/ followUps[f].outcome = "completed" /\ RowDone(w, f)
     \/ followUps[f].outcome # "completed"
        /\ taskRuns' = [taskRuns EXCEPT ![w].step = "reminding"]
  /\ UNCHANGED <<followUps, settingVars>>

\* The row as the run has read it is to be reminded of.
ToBeReminded(row) ==
  row.time # "early" /\ row.rested /\ row.count < policy.max

\* The two saves name the fields they change.
SaveReminder(w, f) ==
  LET row == taskRuns[w].seen[f]
  IN  /\ taskRuns[w].step = "reminding" /\ IsNextRow(w, f)
      /\ followUps' = IF ToBeReminded(row)
                      THEN [followUps EXCEPT ![f].count = row.count + 1,
                                             ![f].rested = FALSE]
                      ELSE followUps
      /\ taskRuns' = [taskRuns EXCEPT ![w].step = "escalating"]
      /\ UNCHANGED settingVars

SaveEscalation(w, f) ==
  /\ taskRuns[w].step = "escalating" /\ IsNextRow(w, f)
  /\ followUps' = [followUps EXCEPT
                     ![f].escalated = @ \/ taskRuns[w].seen[f].time = "late"]
  /\ RowDone(w, f)
  /\ UNCHANGED settingVars

FollowUpRun(w) ==
  \/ StartFollowUps(w)
  \/ \E f \in FollowUps : Check(w, f) \/ SaveReminder(w, f) \/ SaveEscalation(w, f)

-----------------------------------------------------------------------------
(***************************************************************************)
(* The settings.                                                           *)
(***************************************************************************)

rowVars == <<followUps, taskRuns>>

\* ProjectNotificationPolicyView.get
ShowPolicy(k) ==
  /\ policyDesks[k].step \in {"none", "shown"}
  /\ policyDesks' = [policyDesks EXCEPT
                       ![k] = [step |-> "shown", row |-> policy]]
  /\ UNCHANGED <<rowVars, policy, profile, preferenceDesks>>

\* Mutant of SavePolicy: the versions are not compared.
SavePolicyUncompared(k) ==
  /\ policyDesks[k].step = "shown"
  /\ policy.version \in 1 .. MaxEdits - 1
  /\ \E max \in 0 .. MaxReminders :
       policy' = [version |-> policy.version + 1, max |-> max]
  /\ policyDesks' = [policyDesks EXCEPT ![k] = NoDesk]
  /\ UNCHANGED <<rowVars, profile, preferenceDesks>>

\* update_project_policy of a row there is: compared and saved under its lock.
SavePolicy(k) ==
  /\ policyDesks[k].step = "shown"
  /\ policy.version \in 1 .. MaxEdits - 1
  /\ policyDesks[k].row.version = policy.version
  /\ \E max \in 0 .. MaxReminders :
       policy' = [version |-> policy.version + 1, max |-> max]
  /\ policyDesks' = [policyDesks EXCEPT ![k] = NoDesk]
  /\ UNCHANGED <<rowVars, profile, preferenceDesks>>

\* There is no row to lock.
BeginPolicy(k) ==
  /\ policyDesks[k].step = "shown" /\ policyDesks[k].row.version = 0
  /\ policy.version = 0
  /\ policyDesks' = [policyDesks EXCEPT ![k].step = "creating"]
  /\ UNCHANGED <<rowVars, policy, profile, preferenceDesks>>

\* The project may have one policy: a second one is refused by the database.
CreatePolicy(k) ==
  /\ policyDesks[k].step = "creating"
  /\ \/ policy.version = 0
        /\ \E max \in 0 .. MaxReminders : policy' = [version |-> 1, max |-> max]
     \/ policy.version # 0 /\ UNCHANGED policy
  /\ policyDesks' = [policyDesks EXCEPT ![k] = NoDesk]
  /\ UNCHANGED <<rowVars, profile, preferenceDesks>>

\* NotificationPreferenceView.get creates the profile.
ShowPreferences(k) ==
  /\ preferenceDesks[k].step \in {"none", "shown"}
  /\ profile' = IF profile.version = 0 THEN [profile EXCEPT !.version = 1] ELSE profile
  /\ preferenceDesks' = [preferenceDesks EXCEPT
                           ![k] = [step |-> "shown", row |-> profile']]
  /\ UNCHANGED <<rowVars, policy, policyDesks>>

\* A profile is saved, and the desk's request is answered.
PreferencesSaved(k, version, blind) ==
  /\ version <= MaxEdits
  /\ profile' = [version |-> version, by |-> k, blind |-> blind]
  /\ preferenceDesks' = [preferenceDesks EXCEPT ![k] = NoDesk]
  /\ UNCHANGED <<rowVars, policy, policyDesks>>

\* update_preference_profile of a row there is: compared under its lock.
SavePreferences(k) ==
  /\ preferenceDesks[k].step = "shown" /\ profile.version # 0
  /\ preferenceDesks[k].row.version = profile.version
  /\ PreferencesSaved(k, profile.version + 1, profile.blind)

\* A client that has never asked for the profile names version 1, and the
\* service finds no row to lock.
BeginPreferences(k) ==
  /\ preferenceDesks[k] = NoDesk /\ profile.version = 0
  /\ preferenceDesks' = [preferenceDesks EXCEPT ![k] = [step |-> "creating"]]
  /\ UNCHANGED <<rowVars, policy, policyDesks, profile>>

\* preference_profile_for then creates the row, in the same transaction, or
\* finds one that has appeared meanwhile.
FindPreferences(k) ==
  /\ preferenceDesks[k].step = "creating"
  /\ \/ profile.version = 0 /\ PreferencesSaved(k, 2, profile.blind + 1)
     \/ /\ profile.version # 0
        /\ preferenceDesks' = [preferenceDesks EXCEPT
             ![k] = IF profile.version = 1 THEN [@ EXCEPT !.step = "saving"]
                                           ELSE NoDesk]
        /\ UNCHANGED <<rowVars, policy, policyDesks, profile>>

\* A row found that way is saved without a lock.
FinishPreferences(k) ==
  /\ preferenceDesks[k].step = "saving"
  /\ PreferencesSaved(k, 2, profile.blind + 1)

-----------------------------------------------------------------------------
ActionNext ==
  \/ \E f \in FollowUps :
       AskForAction(f) \/ TimePasses(f) \/ CompleteAction(f) \/ MarkUnavailable(f)
  \/ \E w \in TaskRuns : FollowUpRun(w)

PolicyNext ==
  \E k \in PolicyDesks :
    ShowPolicy(k) \/ SavePolicy(k) \/ BeginPolicy(k) \/ CreatePolicy(k)

PreferenceNext ==
  \E k \in PreferenceDesks :
    \/ ShowPreferences(k) \/ SavePreferences(k)
    \/ BeginPreferences(k) \/ FindPreferences(k) \/ FinishPreferences(k)

FollowUpNext == ActionNext \/ PolicyNext \/ PreferenceNext

\* Beat starts the task again and again.
FollowUpFairness == \A w \in TaskRuns : WF_followUpVars(FollowUpRun(w))

FollowUpSpec ==
  FollowUpInit /\ [][FollowUpNext]_followUpVars /\ FollowUpFairness

-----------------------------------------------------------------------------
(***************************************************************************)
(* Properties.                                                             *)
(***************************************************************************)

\* Desk k answers a request that saves the profile without having asked for it.
Blind(k) == preferenceDesks[k].step \in {"creating", "saving"} /\ profile'.by = k

\* An accepted change of the settings replaces exactly the row its author was
\* shown, so nobody undoes what he has not seen, but for a client that changes
\* preferences it has never asked for, and whoever was shown them before such
\* a client brought an old version back (update_project_policy,
\* update_preference_profile).
OnlyBlindClientsUndoSettings ==
  [][/\ policy' # policy =>
          \E k \in PolicyDesks : policyDesks'[k] = NoDesk /\ policyDesks[k].step # "none"
                                 /\ policyDesks[k].row = policy
     /\ profile' # profile /\ profile'.version > 1 =>
          LET author == preferenceDesks[profile'.by]
          IN  \/ Blind(profile'.by)
              \/ author.row = profile
              \/ author.row.blind < profile.blind]_followUpVars

\* A follow-up past its escalation delay is escalated or ends, unless a whole
\* batch of earlier ones is still open: these are read again by every run and
\* may keep it out for good (process_actionable_notification_followups).
LateActionsAreEscalated ==
  \A f \in FollowUps :
    (Active(f) /\ followUps[f].time = "late") ~>
      \/ ~Active(f)
      \/ followUps[f].escalated
      \/ Cardinality({g \in FollowUps : g < f /\ Active(g)}) >= JobBatch
=============================================================================

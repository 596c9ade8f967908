---------------------------- MODULE ProjectRisks ----------------------------
(***************************************************************************)
(* The risks of a project, their revisions, and the periodic task that     *)
(* reminds their owners: the risk services of                              *)
(* apps/projects/decision_risk_services.py, their views, and               *)
(* create_risk_review_reminders of apps/notifications/tasks.py.            *)
(*                                                                         *)
(* The services lock the risk and its project and compare the version the  *)
(* client saw.  The task reads one batch of rows and then creates the      *)
(* reminders one by one.  A risk without an owner would remind the         *)
(* managers of the project instead; DueRisksAreOwned says that no such     *)
(* risk is due.  Keys of retried requests (they answer with what is        *)
(* recorded), texts and links are left out.                                *)
(***************************************************************************)
EXTENDS Integers, Sequences, FiniteSets

CONSTANTS
  Risks,           \* ids of risks
  Owners, Nobody,  \* members that may own a risk, and none of them
  RiskDesks,       \* managers with a risk on their screen
  BatchLimit,      \* GRADSYNC_EXECUTION_JOB_BATCH_SIZE
  MaxRevisions     \* bound: revisions of a risk

ASSUME RiskAssumption ==
  /\ Nobody \notin Owners
  /\ BatchLimit \in Nat \ {0} /\ MaxRevisions \in Nat \ {0}

VARIABLES
  riskProject, \* what the services and the task ask of the project
  risks,       \* RiskRecord rows
  revisions,   \* RiskRevision rows of each risk
  riskDesks,   \* the risk and version on each desk's screen
  reminders,   \* <<risk, recipient>> of reminders that still ask for action
  batch        \* <<risk, owner>> the task has read and not yet handled

riskVars == <<riskProject, risks, revisions, riskDesks, reminders, batch>>

-----------------------------------------------------------------------------
Level == {"low", "medium", "high"}
RiskState == {"raised", "open", "mitigating", "accepted", "resolved"}
Closed == {"accepted", "resolved"}

Weight == [low |-> 1, medium |-> 2, high |-> 3]

\* RISK_MATRIX
Severity(likelihood, impact) ==
  LET product == Weight[likelihood] * Weight[impact]
  IN  IF product <= 2 THEN "low" ELSE IF product <= 4 THEN "medium" ELSE "high"

Unraised == [state |-> "absent"]

\* review: no review date, one to come, or one that has come
Risk == [state : RiskState, severity : Level, owner : Owners \cup {Nobody},
         review : {"none", "later", "due"}, closedAt : BOOLEAN,
         version : 1 .. MaxRevisions]

NoScreen == [step |-> "none"]

RiskTypeOK ==
  /\ riskProject \in {"active", "held", "archived"}
  /\ risks \in [Risks -> {Unraised} \cup Risk]
  /\ revisions \in [Risks -> Seq([from : RiskState, to : RiskState])]
  /\ riskDesks \in [RiskDesks -> {NoScreen} \cup [step : {"shown"}, risk : Risks,
                                                  version : 1 .. MaxRevisions]]
  /\ reminders \subseteq Risks \X Owners
  /\ batch \subseteq Risks \X (Owners \cup {Nobody})

RiskInit ==
  /\ riskProject = "active"
  /\ risks = [r \in Risks |-> Unraised]
  /\ revisions = [r \in Risks |-> << >>]
  /\ riskDesks = [k \in RiskDesks |-> NoScreen]
  /\ reminders = {} /\ batch = {}

-----------------------------------------------------------------------------
(***************************************************************************)
(* The services.                                                           *)
(***************************************************************************)

\* The project is archived or reopened, a hold is placed or resolved.
RiskProjectTurns ==
  /\ \/ riskProject = "active" /\ riskProject' \in {"held", "archived"}
     \/ riskProject # "active" /\ riskProject' = "active"
  /\ UNCHANGED <<risks, revisions, riskDesks, reminders, batch>>

\* The review date of a risk comes.
ReviewFallsDue(r) ==
  /\ risks[r].state # "absent" /\ risks[r].review = "later"
  /\ risks' = [risks EXCEPT ![r].review = "due"]
  /\ UNCHANGED <<riskProject, revisions, riskDesks, reminders, batch>>

Raise(r) ==
  /\ riskProject = "active" /\ risks[r] = Unraised
  /\ risks' = [risks EXCEPT
       ![r] = [state |-> "raised", severity |-> "low", owner |-> Nobody,
               review |-> "none", closedAt |-> FALSE, version |-> 1]]
  /\ revisions' = [revisions EXCEPT ![r] = <<[from |-> "raised", to |-> "raised"]>>]
  /\ UNCHANGED <<riskProject, riskDesks, reminders, batch>>

ShowRisk(k, r) ==
  /\ riskDesks[k].step = "none" /\ risks[r].state # "absent"
  /\ riskDesks' = [riskDesks EXCEPT
       ![k] = [step |-> "shown", risk |-> r, version |-> risks[r].version]]
  /\ UNCHANGED <<riskProject, risks, revisions, reminders, batch>>

\* The desk may change the risk on its screen: the project is open to it and
\* the version is the present one.
MayChange(k, r) ==
  /\ riskDesks[k].step = "shown" /\ riskDesks[k].risk = r
  /\ riskProject = "active"
  /\ riskDesks[k].version = risks[r].version
  /\ risks[r].version < MaxRevisions

\* Save the row with the next version and append a revision.
Saved(k, r, row) ==
  /\ risks' = [risks EXCEPT ![r] = [row EXCEPT !.version = @ + 1]]
  /\ revisions' = [revisions EXCEPT
       ![r] = Append(@, [from |-> risks[r].state, to |-> row.state])]
  /\ riskDesks' = [riskDesks EXCEPT ![k] = NoScreen]
  /\ UNCHANGED <<riskProject, reminders, batch>>

\* Triage opens the risk whatever its state, and leaves closed_at alone.
Triage(k, r, severity, owner, review) ==
  /\ MayChange(k, r)
  /\ Saved(k, r, [risks[r] EXCEPT !.severity = severity, !.owner = owner,
                                  !.review = review, !.state = "open"])

StartMitigation(k, r) ==
  /\ MayChange(k, r)
  /\ Saved(k, r, [risks[r] EXCEPT !.state = "mitigating"])

Close(k, r, how) ==
  /\ MayChange(k, r)
  /\ Saved(k, r, [risks[r] EXCEPT !.state = how, !.closedAt = TRUE])

\* Reopening names a review date, and an owner unless there is one.
Reopen(k, r, owner, review) ==
  /\ MayChange(k, r)
  /\ risks[r].state \in Closed
  /\ \E new \in {owner, risks[r].owner} \ {Nobody} :
       Saved(k, r, [risks[r] EXCEPT !.owner = new, !.review = review,
                                    !.closedAt = FALSE, !.state = "open"])

\* transition_risk
Transition(k, r) ==
  \/ StartMitigation(k, r)
  \/ \E how \in Closed : Close(k, r, how)
  \/ \E owner \in Owners \cup {Nobody}, review \in {"later", "due"} :
       Reopen(k, r, owner, review)

-----------------------------------------------------------------------------
(***************************************************************************)
(* The task.                                                               *)
(***************************************************************************)

\* The filter of create_risk_review_reminders but for the project's status.
DueRisks ==
  {r \in Risks :
     /\ risks[r].state \in RiskState \ Closed
     /\ risks[r].severity = "high" \/ risks[r].review = "due"}

\* Meta.ordering compares words: state, then severity backwards.
StateRank == [mitigating |-> 1, open |-> 2, raised |-> 3]
SeverityRank == [medium |-> 1, low |-> 2, high |-> 3]

Ahead(r, s) ==
  \/ StateRank[risks[r].state] < StateRank[risks[s].state]
  \/ /\ risks[r].state = risks[s].state
     /\ SeverityRank[risks[r].severity] < SeverityRank[risks[s].severity]

\* The first BatchLimit rows in that order; ties are broken either way.
FirstRows(set) ==
  /\ set \subseteq DueRisks
  /\ Cardinality(set) <= BatchLimit
  /\ set # DueRisks => Cardinality(set) = BatchLimit
  /\ \A r \in set, s \in DueRisks \ set : ~Ahead(s, r)

\* Mutant of ReadBatch: the batch is cut before the filter.
ReadAnyRows ==
  /\ riskProject # "archived" /\ batch = {}
  /\ \E set \in SUBSET Risks :
       /\ Cardinality(set) = BatchLimit
       /\ batch' = {<<r, risks[r].owner>> : r \in set \cap DueRisks}
  /\ batch' # {}
  /\ UNCHANGED <<riskProject, risks, revisions, riskDesks, reminders>>

ReadBatch ==
  /\ riskProject # "archived" /\ batch = {}
  /\ \E set \in SUBSET Risks :
       /\ FirstRows(set)
       /\ batch' = {<<r, risks[r].owner>> : r \in set}
  /\ batch' # {}
  /\ UNCHANGED <<riskProject, risks, revisions, riskDesks, reminders>>

\* get_or_create for the owner that was read.
Remind(r, owner) ==
  /\ <<r, owner>> \in batch
  /\ reminders' = reminders \cup {<<r, owner>>}
  /\ batch' = batch \ {<<r, owner>>}
  /\ UNCHANGED <<riskProject, risks, revisions, riskDesks>>

\* deliver_due_notifications finds that the recipient is no longer a member of
\* the project: mark_notification_unavailable.  Nothing else ends a reminder.
WithdrawReminder(r, owner) ==
  /\ <<r, owner>> \in reminders
  /\ reminders' = reminders \ {<<r, owner>>}
  /\ UNCHANGED <<riskProject, risks, revisions, riskDesks, batch>>

-----------------------------------------------------------------------------
ReminderTask == ReadBatch \/ \E r \in Risks, owner \in Owners : Remind(r, owner)

\* RiskDetailView and RiskTransitionView
RiskPage(k, r) ==
  \/ ShowRisk(k, r)
  \/ \E l, i \in Level, owner \in Owners, review \in {"later", "due"} :
       Triage(k, r, Severity(l, i), owner, review)
  \/ Transition(k, r)

RiskNext ==
  \/ RiskProjectTurns
  \/ \E r \in Risks :
       \/ Raise(r) \/ ReviewFallsDue(r)
       \/ \E k \in RiskDesks : RiskPage(k, r)
       \/ \E owner \in Owners : WithdrawReminder(r, owner)
  \/ ReminderTask

RiskFairness ==
  /\ WF_riskVars(ReadBatch)
  /\ \A r \in Risks, owner \in Owners : WF_riskVars(Remind(r, owner))

RiskSpec == RiskInit /\ [][RiskNext]_riskVars /\ RiskFairness

-----------------------------------------------------------------------------
(***************************************************************************)
(* Properties.                                                             *)
(***************************************************************************)

\* The revisions of a risk tell its whole history: there is one for each
\* version, each starts where the one before ended, and the last one tells the
\* present state; a closed risk has its closing date (_append_risk_revision).
HistoryIsUnbroken ==
  \A r \in Risks :
    risks[r].state # "absent" =>
      /\ Len(revisions[r]) = risks[r].version
      /\ revisions[r][Len(revisions[r])].to = risks[r].state
      /\ \A n \in 1 .. Len(revisions[r]) - 1 :
           revisions[r][n + 1].from = revisions[r][n].to
      /\ risks[r].state \in Closed => risks[r].closedAt

\* A risk that is due for review has an owner to remind, whatever way it came
\* to be due (triage_risk, transition_risk).
DueRisksAreOwned == \A r \in DueRisks : risks[r].owner # Nobody

\* A risk that is due is reminded of, unless a whole batch of others may come
\* before it in the task's order (create_risk_review_reminders).
DueRisksAreReminded ==
  \A r \in Risks :
    (r \in DueRisks) ~> (\/ \E owner \in Owners : <<r, owner>> \in reminders
                         \/ r \notin DueRisks
                         \/ riskProject = "archived"
                         \/ Cardinality({s \in DueRisks \ {r} : ~Ahead(r, s)})
                              >= BatchLimit)

\* The actual decision about a risk closes the notification that asks for it
\* (specs/017-research-execution-loop/research.md; outcome_services.py names the
\* events, but transition_risk does not report them).
ClosingEndsReminders ==
  [][\A r \in Risks :
       (risks[r].state \notin Closed /\ risks'[r].state \in Closed) =>
         \A owner \in Owners : <<r, owner>> \notin reminders']_riskVars
=============================================================================

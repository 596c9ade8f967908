--------------------------- MODULE DeliverableReview ---------------------------
(***************************************************************************)
(* A milestone of a project, its deliverables and their review             *)
(* (apps/projects/execution_services.py), with the pending actions that    *)
(* the review puts before people (notifications/outcome_services.py).      *)
(*                                                                         *)
(* The services lock the row they change together with the project and the *)
(* milestone it is joined to, and read them again: an operation is one     *)
(* step.  create_deliverable alone reads the milestone without a lock and  *)
(* inserts later.  What transaction.on_commit puts off runs after the      *)
(* commit, in the process that served the request, as steps of its own:    *)
(* first the pending actions of the revision are completed, one by one as  *)
(* they were selected, then new ones are asked for.                        *)
(*                                                                         *)
(* A revision is known by its deliverable and its number.  The current     *)
(* revision of a deliverable is the last one.                              *)
(***************************************************************************)
EXTENDS Integers, Sequences, FiniteSets

CONSTANTS
  Deliverables,        \* identifiers of deliverables
  Reviewers,           \* project members who may be designated as reviewers
  Advisor,             \* the advisor of the project
  Workers,             \* processes that serve requests
  Plans,               \* what deliverables are planned as
  MaxRevisions,        \* bound: revisions of a deliverable
  MaxWritten,          \* bound: revisions and recommendations together
  MaxCrashes           \* bound: processes that are killed

ASSUME ReviewAssumption ==
  /\ Advisor \notin Reviewers
  /\ Plans \subseteq [required : BOOLEAN, reviewed : BOOLEAN,
                      designated : SUBSET Reviewers]
  /\ MaxRevisions \in Nat \ {0}
  /\ MaxWritten \in Nat
  /\ MaxCrashes \in Nat

VARIABLES
  writable,      \* the project is active and its governance state is normal
  milestone,     \* status, and whether archived_at is set
  creating,      \* deliverables about to be inserted
  deliverables,  \* the Deliverable rows
  revisions,     \* revisions[d]: the DeliverableRevision rows of d
  actions,       \* actions[d][n][k]: what k has been asked to do for revision n
  workers,       \* the follow-ups each process still has to run
  written,       \* bound: revisions and recommendations that were written
  crashes        \* bound: processes that were killed

planVars   == <<writable, milestone, creating, deliverables>>
reviewVars == <<revisions, actions, workers, written, crashes>>
vars       == <<planVars, reviewVars>>

WorkStatus == {"planned", "in_progress", "blocked"}
Status == WorkStatus \cup {"submitted", "under_review", "changes_requested",
                           "accepted", "archived"}
Numbers == 1 .. MaxRevisions
People  == Reviewers \cup {Advisor}   \* one dedupe key of a revision each

\* The constraint milestone_archived_timestamp ties the two columns together.
MilestoneRow ==
  {m \in [status : {"planned", "in_progress", "blocked", "overdue", "completed",
                    "archived"},
          archived : BOOLEAN] : m.archived <=> m.status = "archived"}

DeliverableRow ==
  [status : Status \cup {"absent"}, required : BOOLEAN, reviewed : BOOLEAN,
   designated : SUBSET Reviewers, order : Nat, accepted : Nat,
   archived : BOOLEAN]

\* "recommended" stands for recommended_accept and recommended_return.
RevisionRow ==
  [state : {"submitted", "recommended", "accepted", "returned"},
   decision : {"none", "accepted", "returned"},
   open : SUBSET Reviewers]   \* who has a recommendation that is not superseded

Idle == [of |-> <<>>]

\* The follow-ups of a request: the actions to select and complete, the ones
\* selected with the number of their row, and the people to ask afterwards.
FollowUps ==
  [of : Deliverables \X Numbers, selecting : BOOLEAN,
   selected : SUBSET (People \X Nat), ask : SUBSET People]

TypeOK ==
  /\ writable \in BOOLEAN
  /\ milestone \in MilestoneRow
  /\ creating \subseteq Deliverables
  /\ deliverables \in [Deliverables -> DeliverableRow]
  /\ revisions \in [Deliverables -> Seq(RevisionRow)]
  /\ actions \in [Deliverables -> [Numbers ->
                    [People -> [made : Nat, pending : BOOLEAN]]]]
  /\ workers \in [Workers -> {Idle} \cup FollowUps]
  /\ written \in 0 .. MaxWritten
  /\ crashes \in 0 .. MaxCrashes

NewDeliverable ==
  [status |-> "absent", required |-> TRUE, reviewed |-> FALSE,
   designated |-> {}, order |-> 0, accepted |-> 0, archived |-> FALSE]

NewRevision ==
  [state |-> "submitted", decision |-> "none", open |-> {}]

\* create_milestone has been called.
Init ==
  /\ writable = TRUE
  /\ milestone = [status |-> "planned", archived |-> FALSE]
  /\ creating = {}
  /\ deliverables = [d \in Deliverables |-> NewDeliverable]
  /\ revisions = [d \in Deliverables |-> <<>>]
  /\ actions = [d \in Deliverables |-> [n \in Numbers |->
                  [k \in People |-> [made |-> 0, pending |-> FALSE]]]]
  /\ workers = [w \in Workers |-> Idle]
  /\ written = 0
  /\ crashes = 0

-----------------------------------------------------------------------------
(***************************************************************************)
(* The milestone.                                                          *)
(***************************************************************************)

Existing(rows) == {d \in Deliverables : rows[d].status # "absent"}

\* Mutant of RequiredOf: archived work goes on to count.
RequiredEvenArchived(rows) == {d \in Existing(rows) : rows[d].required}

\* The required deliverables that are not archived.
RequiredOf(rows) ==
  {d \in Existing(rows) : rows[d].required /\ ~rows[d].archived}

\* The status of the milestone that follows from its deliverables, the first
\* line that applies.
Derived(archived, overdue, rows) ==
  LET statuses == {rows[d].status : d \in RequiredOf(rows)}
  IN  IF archived THEN "archived"
      ELSE IF statuses = {"accepted"} THEN "completed"
      ELSE IF "blocked" \in statuses THEN "blocked"
      ELSE IF overdue THEN "overdue"
      ELSE IF statuses \cap {"in_progress", "submitted", "under_review",
                             "changes_requested"} # {} THEN "in_progress"
      ELSE "planned"

\* reconcile_milestone, after the deliverables have become rows; whether the
\* target date has passed by then is left open.
Reconcile(rows) ==
  \E overdue \in BOOLEAN :
    milestone' = [milestone EXCEPT
                    !.status = Derived(milestone.archived, overdue, rows)]

\* The project is archived, closed or restored.
ProjectChanges ==
  /\ writable' = ~writable
  /\ UNCHANGED <<milestone, creating, deliverables, reviewVars>>

\* The target date may be moved.
UpdateMilestone ==
  /\ writable
  /\ ~milestone.archived
  /\ Reconcile(deliverables)
  /\ UNCHANGED <<writable, creating, deliverables, reviewVars>>

ArchiveMilestone ==
  /\ writable
  /\ milestone' = [status |-> "archived", archived |-> TRUE]
  /\ deliverables' = [d \in Deliverables |->
                        IF deliverables[d].status = "absent"
                        THEN deliverables[d]
                        ELSE [deliverables[d] EXCEPT !.status = "archived",
                                                     !.archived = TRUE]]
  /\ UNCHANGED <<writable, creating, reviewVars>>

-----------------------------------------------------------------------------
(***************************************************************************)
(* Planning and work.                                                      *)
(***************************************************************************)

\* (Max("order") or -1) + 1: an order of 0 counts as none.
NextOrder ==
  LET orders == {deliverables[d].order : d \in Existing(deliverables)}
  IN  IF orders \subseteq {0}
      THEN 0
      ELSE 1 + CHOOSE m \in orders : \A o \in orders : o <= m

\* create_deliverable looks at the milestone without a lock.
BeginCreate(d) ==
  /\ writable
  /\ ~milestone.archived
  /\ deliverables[d].status = "absent"
  /\ creating' = creating \cup {d}
  /\ UNCHANGED <<writable, milestone, deliverables, reviewVars>>

\* The insertion.  unique_milestone_deliverable_order refuses an order that is
\* taken; the milestone is not reconciled.
CreateDeliverable(d, plan) ==
  /\ d \in creating
  /\ plan.reviewed => plan.designated # {}
  /\ \A e \in Existing(deliverables) : deliverables[e].order # NextOrder
  /\ deliverables' = [deliverables EXCEPT
                        ![d] = [NewDeliverable EXCEPT
                                  !.status = "planned",
                                  !.required = plan.required,
                                  !.reviewed = plan.reviewed,
                                  !.designated = plan.designated,
                                  !.order = NextOrder]]
  /\ creating' = creating \ {d}
  /\ UNCHANGED <<writable, milestone, reviewVars>>

\* The insertion fails.
RejectCreate(d) ==
  /\ d \in creating
  /\ creating' = creating \ {d}
  /\ UNCHANGED <<writable, milestone, deliverables, reviewVars>>

Exists(d) == deliverables[d].status # "absent"

\* An assignee reports the state of the work, an advisor may change the plan;
\* neither looks at the status the deliverable has.
UpdateDeliverable(d, required, reviewed, status) ==
  LET rows == [deliverables EXCEPT ![d].required = required,
                                   ![d].reviewed = reviewed,
                                   ![d].status = status]
  IN  /\ writable
      /\ Exists(d)
      /\ deliverables' = rows
      /\ Reconcile(rows)
      /\ UNCHANGED <<writable, creating, reviewVars>>

ArchiveDeliverable(d) ==
  LET rows == [deliverables EXCEPT ![d].status = "archived", ![d].archived = TRUE]
  IN  /\ writable
      /\ Exists(d)
      /\ ~(deliverables[d].required /\ milestone.status = "completed")
      /\ deliverables' = rows
      /\ Reconcile(rows)
      /\ UNCHANGED <<writable, creating, reviewVars>>

-----------------------------------------------------------------------------
(***************************************************************************)
(* Submission, recommendation and decision.                                *)
(***************************************************************************)

\* A process that is free serves the request and is left with its follow-ups.
Follow(w, d, n, selecting, ask) ==
  /\ workers[w] = Idle
  /\ workers' = [workers EXCEPT ![w] = [of |-> <<d, n>>, selecting |-> selecting,
                                        selected |-> {}, ask |-> ask]]

\* The reviewers are asked, or the advisor if there are none.  A repeated
\* request finds its revision by the idempotency key and changes nothing.
SubmitDeliverable(w, d) ==
  LET row  == deliverables[d]
      rows == [deliverables EXCEPT ![d].status = IF row.reviewed
                                                 THEN "under_review"
                                                 ELSE "submitted"]
  IN  /\ writable
      /\ row.status \notin {"absent", "accepted", "archived"}
      /\ row.reviewed => row.designated # {}
      /\ Len(revisions[d]) < MaxRevisions /\ written < MaxWritten
      /\ revisions' = [revisions EXCEPT ![d] = Append(@, NewRevision)]
      /\ deliverables' = rows
      /\ Reconcile(rows)
      /\ Follow(w, d, Len(revisions[d]) + 1, FALSE,
                IF row.designated = {} THEN {Advisor} ELSE row.designated)
      /\ written' = written + 1
      /\ UNCHANGED <<writable, creating, actions, crashes>>

\* Mutant of Recommend: a recommendation to accept accepts.
RecommendAccepts(w, d, n, r) ==
  /\ n \in DOMAIN revisions[d]
  /\ r \in deliverables[d].designated
  /\ written < MaxWritten
  /\ revisions' = [revisions EXCEPT ![d][n].state = "recommended",
                                    ![d][n].open = @ \cup {r}]
  /\ written' = written + 1
  /\ deliverables' = [deliverables EXCEPT ![d].status = "accepted"]
  /\ Reconcile(deliverables')
  /\ Follow(w, d, n, TRUE, {Advisor})
  /\ UNCHANGED <<writable, creating, actions, crashes>>

\* A designated reviewer writes a recommendation, which replaces an earlier one
\* of the same reviewer.  Neither the project nor the decision is looked at.
Recommend(w, d, n, r) ==
  /\ n \in DOMAIN revisions[d]
  /\ r \in deliverables[d].designated
  /\ written < MaxWritten
  /\ revisions' = [revisions EXCEPT ![d][n].state = "recommended",
                                    ![d][n].open = @ \cup {r}]
  /\ written' = written + 1
  /\ Follow(w, d, n, TRUE, {Advisor})
  /\ UNCHANGED <<planVars, actions, crashes>>

\* Mutant of Decide: a decision may be replaced by another.
DecideAgain(w, d, n, decision) ==
  LET accepted == decision = "accepted"
      rows == [deliverables EXCEPT
                 ![d].status = IF accepted THEN "accepted" ELSE "changes_requested",
                 ![d].accepted = IF accepted THEN n ELSE 0]
  IN  /\ writable
      /\ n \in DOMAIN revisions[d]
      /\ deliverables[d].reviewed => revisions[d][n].open # {}
      /\ revisions' = [revisions EXCEPT ![d][n].state = decision,
                                        ![d][n].decision = decision]
      /\ deliverables' = rows
      /\ Reconcile(rows)
      /\ Follow(w, d, n, TRUE, {})
      /\ UNCHANGED <<writable, creating, actions, written, crashes>>

\* The advisor decides any revision that has no decision, an older one as well,
\* whatever has become of the deliverable.
Decide(w, d, n, decision) ==
  LET accepted == decision = "accepted"
      rows == [deliverables EXCEPT
                 ![d].status = IF accepted THEN "accepted" ELSE "changes_requested",
                 ![d].accepted = IF accepted THEN n ELSE 0]
  IN  /\ writable
      /\ n \in DOMAIN revisions[d]
      /\ revisions[d][n].decision = "none"
      /\ deliverables[d].reviewed => revisions[d][n].open # {}
      /\ revisions' = [revisions EXCEPT ![d][n].state = decision,
                                        ![d][n].decision = decision]
      /\ deliverables' = rows
      /\ Reconcile(rows)
      /\ Follow(w, d, n, TRUE, {})
      /\ UNCHANGED <<writable, creating, actions, written, crashes>>

-----------------------------------------------------------------------------
(***************************************************************************)
(* After the commit.                                                       *)
(***************************************************************************)

ActionsOf(of) == actions[of[1]][of[2]]

\* A process that has run the last of its follow-ups is free.
Rest(job) ==
  IF ~job.selecting /\ job.selected = {} /\ job.ask = {} THEN Idle ELSE job

\* reconcile_notifications_for_event reads the pending actions of the revision.
SelectActions(w) ==
  LET job     == workers[w]
      pending == {k \in People : ActionsOf(job.of)[k].pending}
  IN  /\ job # Idle
      /\ job.selecting
      /\ workers' = [workers EXCEPT
                       ![w] = Rest([job EXCEPT
                                      !.selecting = FALSE,
                                      !.selected =
                                        {<<k, ActionsOf(job.of)[k].made>> :
                                           k \in pending}])]
      /\ UNCHANGED <<planVars, revisions, actions, written, crashes>>

\* reconcile_authoritative_action completes one of them, unless another process
\* has; a row made after it is a different one.
CompleteAction(w, k) ==
  LET job == workers[w]
      of  == job.of
  IN  /\ job # Idle
      /\ \E made \in 1 .. ActionsOf(of)[k].made :
           /\ <<k, made>> \in job.selected
           /\ actions' = [actions EXCEPT
                            ![of[1]][of[2]][k].pending =
                               @ /\ ActionsOf(of)[k].made # made]
           /\ workers' = [workers EXCEPT
                            ![w] = Rest([job EXCEPT !.selected = @ \ {<<k, made>>}])]
      /\ UNCHANGED <<planVars, revisions, written, crashes>>

\* Mutant of Ask: people are asked before the old actions are completed.
AskFirst(w, k) ==
  LET job == workers[w]
      of  == job.of
  IN  /\ job # Idle
      /\ k \in job.ask
      /\ actions' = [actions EXCEPT
                       ![of[1]][of[2]][k] =
                          IF @.pending THEN @ ELSE [made |-> @.made + 1,
                                                    pending |-> TRUE]]
      /\ workers' = [workers EXCEPT ![w] = Rest([job EXCEPT !.ask = @ \ {k}])]
      /\ UNCHANGED <<planVars, revisions, written, crashes>>

\* create_follow_up_notification: one that is still pending is left as it is
\* (unique_active_notification_followup).
Ask(w, k) ==
  LET job == workers[w]
      of  == job.of
  IN  /\ job # Idle
      /\ ~job.selecting
      /\ job.selected = {}
      /\ k \in job.ask
      /\ actions' = [actions EXCEPT
                       ![of[1]][of[2]][k] =
                          IF @.pending THEN @ ELSE [made |-> @.made + 1,
                                                    pending |-> TRUE]]
      /\ workers' = [workers EXCEPT ![w] = Rest([job EXCEPT !.ask = @ \ {k}])]
      /\ UNCHANGED <<planVars, revisions, written, crashes>>

\* The process is killed after the commit; nothing remembers its follow-ups.
Crash(w) ==
  /\ workers[w] # Idle
  /\ crashes < MaxCrashes
  /\ workers' = [workers EXCEPT ![w] = Idle]
  /\ crashes' = crashes + 1
  /\ UNCHANGED <<planVars, revisions, actions, written>>

-----------------------------------------------------------------------------
Planning ==
  \/ ProjectChanges \/ UpdateMilestone \/ ArchiveMilestone
  \/ \E d \in Deliverables :
       \/ BeginCreate(d)
       \/ \E plan \in Plans : CreateDeliverable(d, plan)
       \/ RejectCreate(d)
       \/ \E required, reviewed \in BOOLEAN,
             status \in WorkStatus \cup {deliverables[d].status} :
            UpdateDeliverable(d, required, reviewed, status)
       \/ ArchiveDeliverable(d)

Review ==
  \E w \in Workers :
    \E d \in Deliverables :
      \/ SubmitDeliverable(w, d)
      \/ \E n \in Numbers :
           \/ \E r \in Reviewers : Recommend(w, d, n, r)
           \/ \E decision \in {"accepted", "returned"} : Decide(w, d, n, decision)

FollowUp ==
  \E w \in Workers :
    \/ SelectActions(w)
    \/ \E k \in People : CompleteAction(w, k) \/ Ask(w, k)
    \/ Crash(w)

Next == Planning \/ Review \/ FollowUp

Spec == Init /\ [][Next]_vars

-----------------------------------------------------------------------------
(***************************************************************************)
(* Properties.                                                             *)
(***************************************************************************)

Counts(d) == Exists(d) /\ deliverables[d].required /\ ~deliverables[d].archived

\* A milestone is completed just when it has required work that is not archived
\* and all of it is accepted: no operation on a deliverable leaves the derived
\* status behind, not even create_deliverable, which does not reconcile it.
CompletedMeansAccepted ==
  milestone.status = "completed" <=>
    /\ ~milestone.archived
    /\ \E d \in Deliverables : Counts(d)
    /\ \A d \in Deliverables : Counts(d) => deliverables[d].status = "accepted"

\* A deliverable is accepted by the decision on the revision that it names as
\* accepted, and by nothing else (recommend_deliverable is advisory).
AcceptanceIsDecided ==
  \A d \in Deliverables :
    LET n == deliverables[d].accepted
    IN  /\ deliverables[d].status = "accepted" => n # 0
        /\ n # 0 => /\ n \in DOMAIN revisions[d]
                    /\ revisions[d][n].decision = "accepted"

\* A decision is final: a repeated request, or a second one that waited for
\* the row, changes nothing (decide_deliverable).
DecisionsAreFinal ==
  [][\A d \in Deliverables : \A n \in DOMAIN revisions[d] :
       revisions[d][n].decision # "none" =>
         revisions'[d][n].decision = revisions[d][n].decision]_vars

\* All follow-ups of a revision have been run.
Quiet(d, n) == \A w \in Workers : workers[w].of # <<d, n>>

Asked(d, n) == {k \in People : actions[d][n][k].pending}

\* As long as no process is killed, somebody is asked to act on every revision
\* that is not decided, however recommendations overlap.
SomebodyIsAsked ==
  crashes = 0 =>
    \A d \in Deliverables : \A n \in DOMAIN revisions[d] :
      revisions[d][n].decision = "none" /\ Quiet(d, n) => Asked(d, n) # {}
=============================================================================

----------------------- MODULE DeliverableReviewProofs -----------------------
(***************************************************************************)
(* Theorems about DeliverableReview, for any number of deliverables,       *)
(* reviewers, processes and plans.                                         *)
(***************************************************************************)
EXTENDS DeliverableReview, SequenceTheorems, TLAPS

USE ReviewAssumption

\* Reconciliation leaves a well-formed milestone that is completed just when
\* the required work is accepted (reconcile_milestone).
LEMMA Reconciled ==
  ASSUME milestone \in MilestoneRow,
         NEW rows \in [Deliverables -> DeliverableRow], Reconcile(rows)
  PROVE  /\ milestone' \in MilestoneRow
         /\ milestone'.archived = milestone.archived
         /\ milestone'.status = "completed" <=>
              /\ ~milestone.archived
              /\ {rows[d].status : d \in RequiredOf(rows)} = {"accepted"}
<1>1. PICK overdue \in BOOLEAN :
        milestone' = [milestone EXCEPT
                        !.status = Derived(milestone.archived, overdue, rows)]
  BY DEF Reconcile
<1> DEFINE statuses == {rows[d].status : d \in RequiredOf(rows)}
           s == Derived(milestone.archived, overdue, rows)
<1>2. /\ s \in {"planned", "in_progress", "blocked", "overdue", "completed",
                "archived"}
      /\ s = "archived" <=> milestone.archived
      /\ s = "completed" <=> ~milestone.archived /\ statuses = {"accepted"}
  BY DEF Derived
<1>3. /\ milestone.archived \in BOOLEAN
      /\ milestone = [status |-> milestone.status, archived |-> milestone.archived]
  BY DEF MilestoneRow
<1>4. milestone' = [status |-> s, archived |-> milestone.archived]
  BY <1>1, <1>3
<1>5. milestone' \in MilestoneRow
  <2> HIDE DEF s
  <2> QED
    BY <1>2, <1>3, <1>4 DEF MilestoneRow
<1>6. milestone'.status = s /\ milestone'.archived = milestone.archived
  <2> HIDE DEF s
  <2> QED
    BY <1>4
<1> QED
  BY <1>2, <1>5, <1>6

\* The computed order of a new deliverable is always 0, and so a milestone never
\* has a second one: what TypeOK leaves open about the orders.
FirstRow  == {r \in DeliverableRow : r.order = 0}
FirstOnly == deliverables \in [Deliverables -> FirstRow]
Single ==
  /\ \A d, e \in Deliverables : Exists(d) /\ Exists(e) => d = e
  /\ \A d \in Deliverables : ~Exists(d) => DOMAIN revisions[d] = {}

\* Every reachable milestone, deliverable, revision, action and follow-up is
\* well formed; an archived milestone has its date, and a milestone has one
\* deliverable at most (create_deliverable).
THEOREM ReviewTypeCorrect == Spec => [](TypeOK /\ FirstOnly /\ Single)
<1>1. Init => TypeOK /\ FirstOnly
  BY DEF Init, TypeOK, FirstOnly, FirstRow, MilestoneRow, DeliverableRow, NewDeliverable, Status
<1>2. TypeOK /\ FirstOnly /\ [Next]_vars => (TypeOK /\ FirstOnly)'
  <2> SUFFICES ASSUME TypeOK, FirstOnly, [Next]_vars
               PROVE  (TypeOK /\ FirstOnly)'
    OBVIOUS
  <2>1. \A r \in FirstRow : \A s \in Status \cup {"absent"} :
          [r EXCEPT !.status = s] \in FirstRow
    BY DEF FirstRow, DeliverableRow
  <2>2. \A r \in FirstRow : \A b \in BOOLEAN :
          /\ [r EXCEPT !.required = b] \in FirstRow
          /\ [r EXCEPT !.reviewed = b] \in FirstRow
          /\ [r EXCEPT !.archived = b] \in FirstRow
    BY DEF FirstRow, DeliverableRow
  <2>3. \A r \in FirstRow : \A n \in Nat :
          [r EXCEPT !.accepted = n] \in FirstRow
    BY DEF FirstRow, DeliverableRow
  <2>4. \A job \in FollowUps : Rest(job) \in {Idle} \cup FollowUps
    BY DEF Rest
  <2>5. ASSUME NEW w \in Workers, NEW d \in Deliverables, NEW n \in Numbers,
               NEW selecting \in BOOLEAN, NEW ask \in SUBSET People,
               Follow(w, d, n, selecting, ask)
        PROVE  workers' \in [Workers -> {Idle} \cup FollowUps]
    BY <2>5 DEF Follow, FollowUps, TypeOK
  <2>6. CASE UNCHANGED vars
    BY <2>6 DEF TypeOK, FirstOnly, vars, planVars, reviewVars
  <2>7. CASE ProjectChanges
    BY <2>7 DEF ProjectChanges, TypeOK, FirstOnly, FirstRow, reviewVars
  <2>8. CASE UpdateMilestone
    <3>1. milestone' \in MilestoneRow
      BY <2>8, Reconciled DEF UpdateMilestone, TypeOK
    <3> QED
      BY <2>8, <3>1 DEF UpdateMilestone, TypeOK, FirstOnly, FirstRow, reviewVars
  <2>9. CASE ArchiveMilestone
    <3>1. milestone' \in MilestoneRow
      BY <2>9 DEF ArchiveMilestone, MilestoneRow
    <3>2. \A r \in FirstRow :
            [r EXCEPT !.status = "archived", !.archived = TRUE] \in FirstRow
      BY DEF FirstRow, DeliverableRow, Status
    <3>3. deliverables' \in [Deliverables -> FirstRow]
      BY <2>9, <3>2 DEF ArchiveMilestone, FirstOnly
    <3> QED
      BY <2>9, <3>1, <3>3 DEF ArchiveMilestone, TypeOK, FirstOnly, FirstRow, reviewVars
  <2>10. ASSUME NEW d \in Deliverables, BeginCreate(d) \/ RejectCreate(d)
         PROVE  (TypeOK /\ FirstOnly)'
    BY <2>10 DEF BeginCreate, RejectCreate, TypeOK, FirstOnly, FirstRow, reviewVars
  <2>11. ASSUME NEW d \in Deliverables, NEW plan \in Plans,
                CreateDeliverable(d, plan)
         PROVE  (TypeOK /\ FirstOnly)'
    <3>1. NextOrder = 0
      BY DEF NextOrder, Existing, FirstOnly, FirstRow
    <3>2. /\ plan.required \in BOOLEAN
          /\ plan.reviewed \in BOOLEAN
          /\ plan.designated \in SUBSET Reviewers
      OBVIOUS
    <3>3. deliverables'[d] =
            [status |-> "planned", required |-> plan.required,
             reviewed |-> plan.reviewed, designated |-> plan.designated,
             order |-> 0, accepted |-> 0, archived |-> FALSE]
      BY <2>11, <3>1 DEF CreateDeliverable, FirstOnly, NewDeliverable
    <3>4. deliverables'[d] \in FirstRow
      BY <3>2, <3>3 DEF FirstRow, DeliverableRow, Status, WorkStatus
    <3>5. deliverables' \in [Deliverables -> FirstRow]
      BY <2>11, <3>4 DEF CreateDeliverable, FirstOnly
    <3> QED
      BY <2>11, <3>5 DEF CreateDeliverable, TypeOK, FirstOnly, FirstRow, reviewVars
  <2>12. ASSUME NEW d \in Deliverables, NEW required \in BOOLEAN,
                NEW reviewed \in BOOLEAN,
                NEW status \in WorkStatus \cup {deliverables[d].status},
                UpdateDeliverable(d, required, reviewed, status)
         PROVE  (TypeOK /\ FirstOnly)'
    <3> DEFINE q == [deliverables[d] EXCEPT !.required = required]
               r == [q EXCEPT !.reviewed = reviewed]
               rows == [deliverables EXCEPT ![d].required = required,
                                            ![d].reviewed = reviewed,
                                            ![d].status = status]
    <3>0. q \in FirstRow
      BY <2>2 DEF FirstOnly
    <3>1. r \in FirstRow
      <4> HIDE DEF q
      <4> QED
        BY <2>2, <3>0
    <3>2. status \in Status \cup {"absent"}
      BY DEF FirstOnly, FirstRow, DeliverableRow, Status
    <3>3. [r EXCEPT !.status = status] \in FirstRow
      <4> HIDE DEF r
      <4> QED
        BY <2>1, <3>1, <3>2
    <3>4. rows \in [Deliverables -> FirstRow]
      BY <3>3 DEF FirstOnly
    <3>5. milestone' \in MilestoneRow
      BY <2>12, <3>4, Reconciled DEF UpdateDeliverable, TypeOK, FirstRow
    <3> QED
      BY <2>12, <3>4, <3>5 DEF UpdateDeliverable, TypeOK, FirstOnly, FirstRow, reviewVars
  <2>13. ASSUME NEW d \in Deliverables, ArchiveDeliverable(d)
         PROVE  (TypeOK /\ FirstOnly)'
    <3> DEFINE rows == [deliverables EXCEPT ![d].status = "archived",
                                            ![d].archived = TRUE]
    <3>1. \A r \in FirstRow :
            [r EXCEPT !.status = "archived", !.archived = TRUE] \in FirstRow
      BY DEF FirstRow, DeliverableRow, Status
    <3>2. rows \in [Deliverables -> FirstRow]
      BY <3>1 DEF FirstOnly
    <3>3. milestone' \in MilestoneRow
      BY <2>13, <3>2, Reconciled DEF ArchiveDeliverable, TypeOK, FirstRow
    <3> QED
      BY <2>13, <3>2, <3>3 DEF ArchiveDeliverable, TypeOK, FirstOnly, FirstRow, reviewVars
  <2>14. ASSUME NEW w \in Workers, NEW d \in Deliverables, SubmitDeliverable(w, d)
         PROVE  (TypeOK /\ FirstOnly)'
    <3> DEFINE rows == [deliverables EXCEPT ![d].status =
                          IF deliverables[d].reviewed THEN "under_review"
                                                      ELSE "submitted"]
    <3>1. rows \in [Deliverables -> FirstRow]
      BY <2>1 DEF FirstOnly, Status
    <3>2. milestone' \in MilestoneRow
      BY <2>14, <3>1, Reconciled DEF SubmitDeliverable, TypeOK, FirstRow
    <3>3. revisions' \in [Deliverables -> Seq(RevisionRow)]
      <4>1. NewRevision \in RevisionRow
        BY DEF NewRevision, RevisionRow
      <4> QED
        BY <2>14, <4>1 DEF SubmitDeliverable, TypeOK
    <3>4. workers' \in [Workers -> {Idle} \cup FollowUps]
      <4>1. Len(revisions[d]) + 1 \in Numbers
        BY <2>14 DEF SubmitDeliverable, Numbers, TypeOK
      <4>2. deliverables[d].designated \in SUBSET Reviewers
        BY DEF FirstOnly, FirstRow, DeliverableRow
      <4>3. (IF deliverables[d].designated = {} THEN {Advisor}
             ELSE deliverables[d].designated) \in SUBSET People
        BY <4>2 DEF People
      <4> QED
        BY <2>5, <2>14, <4>1, <4>3 DEF SubmitDeliverable
    <3> QED
      BY <2>14, <3>1, <3>2, <3>3, <3>4 DEF SubmitDeliverable, TypeOK, FirstOnly, FirstRow
  <2>15. ASSUME NEW w \in Workers, NEW d \in Deliverables, NEW n \in Numbers,
                NEW r \in Reviewers, Recommend(w, d, n, r)
         PROVE  (TypeOK /\ FirstOnly)'
    <3> DEFINE old == revisions[d][n]
               a == [old EXCEPT !.state = "recommended"]
               b == [a EXCEPT !.open = old.open \cup {r}]
    <3>1. /\ old \in RevisionRow /\ revisions[d] \in Seq(RevisionRow)
          /\ n \in DOMAIN revisions[d]
      BY <2>15 DEF Recommend, TypeOK
    <3>2. a \in RevisionRow
      BY <3>1 DEF RevisionRow
    <3>3. old.open \cup {r} \in SUBSET Reviewers
      BY <3>1 DEF RevisionRow
    <3>4. b \in RevisionRow
      <4> HIDE DEF a, old
      <4> QED
        BY <3>2, <3>3 DEF RevisionRow
    <3>5. revisions' = [revisions EXCEPT ![d] = [revisions[d] EXCEPT ![n] = b]]
      BY <2>15 DEF Recommend, TypeOK
    <3>6. [revisions[d] EXCEPT ![n] = b] \in Seq(RevisionRow)
      <4> HIDE DEF b
      <4> QED
        BY <3>1, <3>4, ExceptSeq
    <3>7. revisions' \in [Deliverables -> Seq(RevisionRow)]
      BY <3>5, <3>6 DEF TypeOK
    <3>8. workers' \in [Workers -> {Idle} \cup FollowUps]
      <4>1. {Advisor} \in SUBSET People
        BY DEF People
      <4> QED
        BY <2>5, <2>15, <4>1 DEF Recommend
    <3> QED
      BY <2>15, <3>7, <3>8 DEF Recommend, planVars, TypeOK, FirstOnly
  <2>16. ASSUME NEW w \in Workers, NEW d \in Deliverables, NEW n \in Numbers,
                NEW decision \in {"accepted", "returned"}, Decide(w, d, n, decision)
         PROVE  (TypeOK /\ FirstOnly)'
    <3> DEFINE status == IF decision = "accepted" THEN "accepted"
                                                  ELSE "changes_requested"
               named  == IF decision = "accepted" THEN n ELSE 0
               r      == [deliverables[d] EXCEPT !.status = status]
               rows   == [deliverables EXCEPT ![d].status = status,
                                              ![d].accepted = named]
               old == revisions[d][n]
               a == [old EXCEPT !.state = decision]
               b == [a EXCEPT !.decision = decision]
    <3>1. [r EXCEPT !.accepted = named] \in FirstRow
      <4>1. r \in FirstRow
        BY <2>1 DEF FirstOnly, Status
      <4>2. named \in Nat
        BY DEF Numbers
      <4> HIDE DEF r, named
      <4> QED
        BY <2>3, <4>1, <4>2
    <3>2. rows \in [Deliverables -> FirstRow]
      BY <3>1 DEF FirstOnly
    <3>3. milestone' \in MilestoneRow
      BY <2>16, <3>2, Reconciled DEF Decide, TypeOK, FirstRow
    <3>4. /\ old \in RevisionRow /\ revisions[d] \in Seq(RevisionRow)
          /\ n \in DOMAIN revisions[d]
      BY <2>16 DEF Decide, TypeOK
    <3>5. a \in RevisionRow
      BY <3>4 DEF RevisionRow
    <3>6. b \in RevisionRow
      <4> HIDE DEF a, old
      <4> QED
        BY <3>5 DEF RevisionRow
    <3>7. revisions' = [revisions EXCEPT ![d] = [revisions[d] EXCEPT ![n] = b]]
      BY <2>16 DEF Decide, TypeOK
    <3>8. [revisions[d] EXCEPT ![n] = b] \in Seq(RevisionRow)
      <4> HIDE DEF b
      <4> QED
        BY <3>4, <3>6, ExceptSeq
    <3>9. revisions' \in [Deliverables -> Seq(RevisionRow)]
      BY <3>7, <3>8 DEF TypeOK
    <3>10. workers' \in [Workers -> {Idle} \cup FollowUps]
      <4>1. Follow(w, d, n, TRUE, {})
        BY <2>16 DEF Decide
      <4>2. {} \in SUBSET People /\ TRUE \in BOOLEAN
        OBVIOUS
      <4> QED
        BY <2>5, <4>1, <4>2, Zenon
    <3> QED
      BY <2>16, <3>2, <3>3, <3>9, <3>10 DEF Decide, TypeOK, FirstOnly, FirstRow
  <2>17. ASSUME NEW w \in Workers, workers[w] # Idle
         PROVE  workers[w] \in FollowUps
    BY <2>17 DEF TypeOK
  <2>18. ASSUME NEW w \in Workers, SelectActions(w)
         PROVE  (TypeOK /\ FirstOnly)'
    <3> DEFINE job == workers[w]
               acts == ActionsOf(job.of)
               chosen == {<<k, acts[k].made>> : k \in {p \in People : acts[p].pending}}
               a == [job EXCEPT !.selecting = FALSE]
    <3>1. job \in FollowUps
      BY <2>17, <2>18 DEF SelectActions
    <3>2. acts \in [People -> [made : Nat, pending : BOOLEAN]]
      BY <3>1 DEF ActionsOf, FollowUps, TypeOK
    <3>3. chosen \in SUBSET (People \X Nat)
      BY <3>2
    <3>4. a \in FollowUps
      BY <3>1 DEF FollowUps
    <3>5. [a EXCEPT !.selected = chosen] \in FollowUps
      <4> HIDE DEF a, chosen
      <4> QED
        BY <3>3, <3>4 DEF FollowUps
    <3>6. workers' = [workers EXCEPT ![w] = Rest([a EXCEPT !.selected = chosen])]
      BY <2>18 DEF SelectActions
    <3>7. workers' \in [Workers -> {Idle} \cup FollowUps]
      <4> HIDE DEF a, chosen
      <4> QED
        BY <2>4, <3>5, <3>6 DEF TypeOK
    <3> QED
      BY <2>18, <3>7 DEF SelectActions, planVars, TypeOK, FirstOnly
  <2>19. ASSUME NEW w \in Workers, NEW k \in People, CompleteAction(w, k)
         PROVE  (TypeOK /\ FirstOnly)'
    <3> DEFINE job == workers[w]
               of == job.of
               acts == ActionsOf(of)
    <3>1. job \in FollowUps
      BY <2>17, <2>19 DEF CompleteAction
    <3>2. of[1] \in Deliverables /\ of[2] \in Numbers
      BY <3>1 DEF FollowUps
    <3>3. PICK made \in 1 .. acts[k].made :
            /\ actions' = [actions EXCEPT ![of[1]][of[2]][k].pending =
                                            @ /\ acts[k].made # made]
            /\ workers' = [workers EXCEPT ![w] =
                             Rest([job EXCEPT !.selected = @ \ {<<k, made>>}])]
      BY <2>19 DEF CompleteAction
    <3>4. [job EXCEPT !.selected = job.selected \ {<<k, made>>}] \in FollowUps
      BY <3>1 DEF FollowUps
    <3>5. workers' \in [Workers -> {Idle} \cup FollowUps]
      BY <2>4, <3>3, <3>4 DEF TypeOK
    <3>6. \A r \in [made : Nat, pending : BOOLEAN] : \A p \in BOOLEAN :
            [r EXCEPT !.pending = p] \in [made : Nat, pending : BOOLEAN]
      OBVIOUS
    <3>7. actions' \in [Deliverables -> [Numbers ->
                          [People -> [made : Nat, pending : BOOLEAN]]]]
      <4> DEFINE row == [acts[k] EXCEPT !.pending = @ /\ acts[k].made # made]
      <4>1. acts[k] \in [made : Nat, pending : BOOLEAN]
        <5>1. actions[of[1]][of[2]] \in [People -> [made : Nat, pending : BOOLEAN]]
          BY <3>2 DEF TypeOK
        <5> QED
          BY <2>19, <5>1 DEF ActionsOf
      <4>2. row \in [made : Nat, pending : BOOLEAN]
        BY <4>1, <3>6
      <4>3. actions' = [actions EXCEPT ![of[1]] = [actions[of[1]] EXCEPT
                          ![of[2]] = [acts EXCEPT ![k] = row]]]
        BY <3>2, <3>3 DEF ActionsOf, TypeOK
      <4> HIDE DEF row
      <4> QED
        BY <3>2, <4>2, <4>3 DEF ActionsOf, TypeOK
    <3> QED
      BY <2>19, <3>5, <3>7 DEF CompleteAction, planVars, TypeOK, FirstOnly
  <2>20. ASSUME NEW w \in Workers, NEW k \in People, Ask(w, k)
         PROVE  (TypeOK /\ FirstOnly)'
    <3> DEFINE job == workers[w]
               of == job.of
               acts == ActionsOf(of)
               row == IF acts[k].pending THEN acts[k]
                      ELSE [made |-> acts[k].made + 1, pending |-> TRUE]
    <3>1. job \in FollowUps
      BY <2>17, <2>20 DEF Ask
    <3>2. of[1] \in Deliverables /\ of[2] \in Numbers
      BY <3>1 DEF FollowUps
    <3>3. [job EXCEPT !.ask = job.ask \ {k}] \in FollowUps
      BY <3>1 DEF FollowUps
    <3>4. workers' \in [Workers -> {Idle} \cup FollowUps]
      BY <2>4, <2>20, <3>3 DEF Ask, TypeOK
    <3>5. row \in [made : Nat, pending : BOOLEAN]
      <4>1. acts[k] \in [made : Nat, pending : BOOLEAN]
        BY <3>2 DEF ActionsOf, TypeOK
      <4> HIDE DEF acts
      <4> QED
        BY <4>1
    <3>6. actions' = [actions EXCEPT ![of[1]] = [actions[of[1]] EXCEPT
                        ![of[2]] = [acts EXCEPT ![k] = row]]]
      BY <2>20, <3>2 DEF Ask, ActionsOf, TypeOK
    <3>7. actions' \in [Deliverables -> [Numbers ->
                          [People -> [made : Nat, pending : BOOLEAN]]]]
      <4> HIDE DEF row
      <4> QED
        BY <3>2, <3>5, <3>6 DEF ActionsOf, TypeOK
    <3> QED
      BY <2>20, <3>4, <3>7 DEF Ask, planVars, TypeOK, FirstOnly
  <2>21. ASSUME NEW w \in Workers, Crash(w)
         PROVE  (TypeOK /\ FirstOnly)'
    BY <2>21 DEF Crash, planVars, TypeOK, FirstOnly
  <2> QED
    BY <2>6, <2>7, <2>8, <2>9, <2>10, <2>11, <2>12, <2>13, <2>14, <2>15, <2>16,
       <2>18, <2>19, <2>20, <2>21 DEF Next, Planning, Review, FollowUp
<1>3. Init => Single
  <2> SUFFICES ASSUME Init PROVE Single
    OBVIOUS
  <2>1. \A d \in Deliverables : ~Exists(d) /\ revisions[d] = <<>>
    BY DEF Init, Exists, NewDeliverable
  <2> QED
    BY <2>1 DEF Single
<1>4. TypeOK /\ FirstOnly /\ Single /\ [Next]_vars => Single'
  <2> SUFFICES ASSUME TypeOK, FirstOnly, Single, [Next]_vars
               PROVE  Single'
    OBVIOUS
  <2>1. ASSUME \A d \in Deliverables :
                 /\ Exists(d)' <=> Exists(d)
                 /\ Exists(d) \/ revisions'[d] = revisions[d]
        PROVE  Single'
    BY <2>1 DEF Single
  <2>2. ASSUME NEW d \in Deliverables, NEW plan \in Plans,
               CreateDeliverable(d, plan)
        PROVE  Single'
    <3>1. Existing(deliverables) = {}
      BY <2>2 DEF CreateDeliverable, NextOrder, Existing, FirstOnly, FirstRow
    <3>2. /\ \A e \in Deliverables \ {d} : deliverables'[e] = deliverables[e]
          /\ deliverables'[d].status = "planned"
          /\ revisions' = revisions
      BY <2>2 DEF CreateDeliverable, FirstOnly, NewDeliverable, reviewVars
    <3> QED
      BY <3>1, <3>2 DEF Single, Exists, Existing
  <2>3. CASE ArchiveMilestone
    BY <2>1, <2>3 DEF ArchiveMilestone, Exists, FirstOnly, FirstRow,
                      DeliverableRow, reviewVars
  <2>4. ASSUME NEW d \in Deliverables, Exists(d), Exists(d)',
               \A e \in Deliverables \ {d} :
                 /\ deliverables'[e] = deliverables[e]
                 /\ revisions'[e] = revisions[e]
        PROVE  Single'
    BY <2>1, <2>4 DEF Exists
  <2>5. ASSUME NEW d \in Deliverables, NEW required, NEW reviewed,
               NEW status \in WorkStatus \cup {deliverables[d].status},
               UpdateDeliverable(d, required, reviewed, status)
        PROVE  Single'
    <3>1. /\ Exists(d)
          /\ \A e \in Deliverables \ {d} : deliverables'[e] = deliverables[e]
          /\ revisions' = revisions
      BY <2>5 DEF UpdateDeliverable, FirstOnly, reviewVars
    <3>2. deliverables'[d].status = status
      BY <2>5 DEF UpdateDeliverable, FirstOnly, FirstRow, DeliverableRow
    <3>3. Exists(d)'
      BY <3>1, <3>2 DEF Exists, WorkStatus
    <3> QED
      BY <2>4, <3>1, <3>3
  <2>6. ASSUME NEW d \in Deliverables, ArchiveDeliverable(d)
        PROVE  Single'
    <3>1. /\ Exists(d)
          /\ deliverables'[d].status = "archived"
          /\ \A e \in Deliverables \ {d} : deliverables'[e] = deliverables[e]
          /\ revisions' = revisions
      BY <2>6 DEF ArchiveDeliverable, FirstOnly, FirstRow, DeliverableRow,
                   reviewVars
    <3> QED
      BY <2>4, <3>1 DEF Exists
  <2>7. ASSUME NEW w \in Workers, NEW d \in Deliverables, SubmitDeliverable(w, d)
        PROVE  Single'
    <3>1. Exists(d)
      BY <2>7 DEF SubmitDeliverable, Exists
    <3>2. /\ deliverables'[d].status \in {"under_review", "submitted"}
          /\ \A e \in Deliverables \ {d} : deliverables'[e] = deliverables[e]
      BY <2>7 DEF SubmitDeliverable, FirstOnly, FirstRow, DeliverableRow
    <3>3. \A e \in Deliverables \ {d} : revisions'[e] = revisions[e]
      BY <2>7 DEF SubmitDeliverable, TypeOK
    <3> QED
      BY <2>4, <3>1, <3>2, <3>3 DEF Exists
  <2>8. ASSUME NEW w \in Workers, NEW d \in Deliverables, NEW n \in Numbers,
               NEW decision \in {"accepted", "returned"}, Decide(w, d, n, decision)
        PROVE  Single'
    <3>1. Exists(d)
      BY <2>8 DEF Decide, Single
    <3> QED
      BY <2>4, <2>8, <3>1 DEF Decide, FirstOnly, FirstRow, DeliverableRow, Exists,
                              TypeOK
  <2>9. ASSUME NEW w \in Workers, NEW d \in Deliverables, NEW n \in Numbers,
               NEW r \in Reviewers, Recommend(w, d, n, r)
        PROVE  Single'
    <3>1. Exists(d)
      BY <2>9 DEF Recommend, Single
    <3> QED
      BY <2>4, <2>9, <3>1 DEF Recommend, planVars, Exists, TypeOK
  <2>10. CASE deliverables' = deliverables /\ revisions' = revisions
    BY <2>1, <2>10 DEF Exists
  <2> QED
    BY <2>2, <2>3, <2>5, <2>6, <2>7, <2>8, <2>9, <2>10
       DEF Next, Planning, Review, FollowUp, ProjectChanges, UpdateMilestone,
           BeginCreate, RejectCreate, SelectActions, CompleteAction, Ask, Crash,
           vars, planVars, reviewVars
<1> QED
  BY <1>1, <1>2, <1>3, <1>4, PTL DEF Spec

\* A milestone is completed just when it has required work and all of it is
\* accepted: every operation reconciles it, and the one that does not can only
\* add the first deliverable (reconcile_milestone, create_deliverable).
THEOREM CompletionIsAcceptance == Spec => []CompletedMeansAccepted
<1>1. Init => CompletedMeansAccepted
  BY DEF Init, CompletedMeansAccepted, Counts, Exists, NewDeliverable
<1>2. /\ TypeOK /\ FirstOnly /\ (TypeOK /\ FirstOnly)'
      /\ CompletedMeansAccepted /\ [Next]_vars
      => CompletedMeansAccepted'
  <2> SUFFICES ASSUME TypeOK, FirstOnly, (TypeOK /\ FirstOnly)',
                      CompletedMeansAccepted, [Next]_vars
               PROVE  CompletedMeansAccepted'
    OBVIOUS
  <2>1. ASSUME milestone' = milestone, deliverables' = deliverables
        PROVE  CompletedMeansAccepted'
    BY <2>1 DEF CompletedMeansAccepted, Counts, Exists
  <2>2. ASSUME Reconcile(deliverables')
        PROVE  CompletedMeansAccepted'
    <3> DEFINE statuses == {deliverables'[d].status : d \in RequiredOf(deliverables')}
    <3>1. /\ milestone'.archived = milestone.archived
          /\ milestone'.status = "completed" <=>
               ~milestone.archived /\ statuses = {"accepted"}
      BY <2>2, Reconciled DEF TypeOK
    <3>2. \A d \in Deliverables : d \in RequiredOf(deliverables') <=> Counts(d)'
      BY DEF RequiredOf, Existing, Counts, Exists
    <3>3. statuses = {"accepted"} <=>
            /\ \E d \in Deliverables : Counts(d)'
            /\ \A d \in Deliverables :
                 Counts(d)' => deliverables'[d].status = "accepted"
      <4>1. RequiredOf(deliverables') \subseteq Deliverables
        BY DEF RequiredOf, Existing
      <4> QED
        BY <3>2, <4>1
    <3> QED
      BY <3>1, <3>3 DEF CompletedMeansAccepted
  <2>3. CASE UpdateMilestone
    BY <2>2, <2>3 DEF UpdateMilestone
  <2>4. CASE ArchiveMilestone
    BY <2>4 DEF ArchiveMilestone, CompletedMeansAccepted
  <2>5. ASSUME NEW d \in Deliverables, NEW plan \in Plans,
               CreateDeliverable(d, plan)
        PROVE  CompletedMeansAccepted'
    <3>1. Existing(deliverables) = {}
      BY <2>5 DEF CreateDeliverable, NextOrder, Existing, FirstOnly, FirstRow
    <3>2. milestone'.status # "completed"
      BY <2>5, <3>1 DEF CreateDeliverable, CompletedMeansAccepted, Counts, Exists,
                        Existing
    <3>3. deliverables'[d].status = "planned"
      BY <2>5 DEF CreateDeliverable, FirstOnly, NewDeliverable
    <3>4. \A e \in Deliverables : Counts(e)' => e = d
      BY <2>5, <3>1 DEF CreateDeliverable, FirstOnly, Counts, Exists, Existing
    <3>5. ~(/\ \E e \in Deliverables : Counts(e)'
            /\ \A e \in Deliverables :
                 Counts(e)' => deliverables'[e].status = "accepted")
      BY <3>3, <3>4
    <3> QED
      BY <3>2, <3>5 DEF CompletedMeansAccepted
  <2>6. ASSUME NEW d \in Deliverables,
               \/ \E required, reviewed \in BOOLEAN,
                     status \in WorkStatus \cup {deliverables[d].status} :
                    UpdateDeliverable(d, required, reviewed, status)
               \/ ArchiveDeliverable(d)
        PROVE  CompletedMeansAccepted'
    BY <2>2, <2>6 DEF UpdateDeliverable, ArchiveDeliverable
  <2>7. ASSUME NEW w \in Workers, NEW d \in Deliverables,
               \/ SubmitDeliverable(w, d)
               \/ \E n \in Numbers : \E decision \in {"accepted", "returned"} :
                    Decide(w, d, n, decision)
        PROVE  CompletedMeansAccepted'
    BY <2>2, <2>7 DEF SubmitDeliverable, Decide
  <2>8. ASSUME NEW d \in Deliverables, BeginCreate(d) \/ RejectCreate(d)
        PROVE  CompletedMeansAccepted'
    BY <2>1, <2>8 DEF BeginCreate, RejectCreate
  <2>9. CASE ProjectChanges \/ UNCHANGED vars
    BY <2>1, <2>9 DEF ProjectChanges, vars, planVars
  <2>10. ASSUME NEW w \in Workers, NEW d \in Deliverables, NEW n \in Numbers,
                NEW r \in Reviewers, Recommend(w, d, n, r)
         PROVE  CompletedMeansAccepted'
    <3>1. UNCHANGED planVars
      BY <2>10 DEF Recommend
    <3> QED
      BY <2>1, <3>1 DEF planVars
  <2>11. CASE FollowUp
    BY <2>1, <2>11 DEF FollowUp, SelectActions, CompleteAction, Ask, Crash, planVars
  <2>12. CASE Planning
    BY <2>3, <2>4, <2>5, <2>6, <2>8, <2>9, <2>12 DEF Planning
  <2>13. CASE Review
    BY <2>7, <2>10, <2>13 DEF Review
  <2> QED
    BY <2>9, <2>11, <2>12, <2>13 DEF Next
<1> QED
  BY <1>1, <1>2, ReviewTypeCorrect, PTL DEF Spec

\* A deliverable is accepted by the decision on the revision it names, and no
\* decision is ever replaced (recommend_deliverable, decide_deliverable).
THEOREM AcceptanceHolds == Spec => []AcceptanceIsDecided /\ DecisionsAreFinal
<1> DEFINE Final ==
      \A d \in Deliverables : \A n \in DOMAIN revisions[d] :
        /\ n \in DOMAIN revisions'[d]
        /\ revisions[d][n].decision # "none" =>
             revisions'[d][n].decision = revisions[d][n].decision
<1>1. Init => AcceptanceIsDecided
  BY DEF Init, AcceptanceIsDecided, NewDeliverable
<1>2. TypeOK /\ [Next]_vars => Final
  <2> SUFFICES ASSUME TypeOK, [Next]_vars
               PROVE  Final
    OBVIOUS
  <2>1. CASE revisions' = revisions
    BY <2>1
  <2>2. ASSUME NEW w \in Workers, NEW d \in Deliverables, SubmitDeliverable(w, d)
        PROVE  Final
    BY <2>2 DEF SubmitDeliverable, TypeOK
  <2>3. ASSUME NEW w \in Workers, NEW d \in Deliverables, NEW n \in Numbers,
               NEW r \in Reviewers, Recommend(w, d, n, r)
        PROVE  Final
    BY <2>3 DEF Recommend, TypeOK, RevisionRow
  <2>4. ASSUME NEW w \in Workers, NEW d \in Deliverables, NEW n \in Numbers,
               NEW decision \in {"accepted", "returned"}, Decide(w, d, n, decision)
        PROVE  Final
    BY <2>4 DEF Decide, TypeOK, RevisionRow
  <2> HIDE DEF Final
  <2>5. CASE Planning
    <3>1. CASE ProjectChanges \/ UpdateMilestone \/ ArchiveMilestone
      BY <2>1, <3>1 DEF ProjectChanges, UpdateMilestone, ArchiveMilestone, reviewVars
    <3>2. ASSUME NEW d \in Deliverables,
                 \/ BeginCreate(d) \/ RejectCreate(d) \/ ArchiveDeliverable(d)
                 \/ \E plan \in Plans : CreateDeliverable(d, plan)
          PROVE  Final
      BY <2>1, <3>2 DEF BeginCreate, RejectCreate, ArchiveDeliverable,
                        CreateDeliverable, reviewVars
    <3>3. ASSUME NEW d \in Deliverables, NEW required \in BOOLEAN,
                 NEW reviewed \in BOOLEAN,
                 NEW status \in WorkStatus \cup {deliverables[d].status},
                 UpdateDeliverable(d, required, reviewed, status)
          PROVE  Final
      BY <2>1, <3>3 DEF UpdateDeliverable, reviewVars
    <3> QED
      BY <2>5, <3>1, <3>2, <3>3 DEF Planning
  <2>6. CASE Review
    BY <2>2, <2>3, <2>4, <2>6 DEF Review
  <2>7. CASE FollowUp
    BY <2>1, <2>7 DEF FollowUp, SelectActions, CompleteAction, Ask, Crash, reviewVars
  <2>8. CASE UNCHANGED vars
    BY <2>1, <2>8 DEF vars, reviewVars
  <2> QED
    BY <2>5, <2>6, <2>7, <2>8 DEF Next
<1>3. TypeOK /\ FirstOnly /\ AcceptanceIsDecided /\ [Next]_vars => AcceptanceIsDecided'
  <2> SUFFICES ASSUME TypeOK, FirstOnly, AcceptanceIsDecided, [Next]_vars
               PROVE  AcceptanceIsDecided'
    OBVIOUS
  <2>1. Final
    BY <1>2
  <2>2. ASSUME \A d \in Deliverables :
                 /\ deliverables'[d].accepted = deliverables[d].accepted
                 /\ deliverables'[d].status = "accepted" =>
                      deliverables[d].status = "accepted"
        PROVE  AcceptanceIsDecided'
    <3> HIDE DEF Final
    <3> QED
      BY <2>1, <2>2 DEF AcceptanceIsDecided, Final
  <2>3. CASE deliverables' = deliverables
    BY <2>2, <2>3
  <2>4. CASE ArchiveMilestone
    BY <2>2, <2>4 DEF ArchiveMilestone, FirstOnly, FirstRow, DeliverableRow
  <2>5. ASSUME NEW d \in Deliverables, NEW plan \in Plans,
               CreateDeliverable(d, plan)
        PROVE  AcceptanceIsDecided'
    <3>1. /\ deliverables'[d].status = "planned" /\ deliverables'[d].accepted = 0
          /\ \A e \in Deliverables \ {d} : deliverables'[e] = deliverables[e]
          /\ revisions' = revisions
      BY <2>5 DEF CreateDeliverable, FirstOnly, NewDeliverable, reviewVars
    <3> QED
      BY <3>1 DEF AcceptanceIsDecided
  <2>6. ASSUME NEW d \in Deliverables, NEW required \in BOOLEAN,
               NEW reviewed \in BOOLEAN,
               NEW status \in WorkStatus \cup {deliverables[d].status},
               UpdateDeliverable(d, required, reviewed, status)
        PROVE  AcceptanceIsDecided'
    BY <2>2, <2>6 DEF UpdateDeliverable, FirstOnly, FirstRow, DeliverableRow,
                      WorkStatus
  <2>7. ASSUME NEW d \in Deliverables, ArchiveDeliverable(d)
        PROVE  AcceptanceIsDecided'
    BY <2>2, <2>7 DEF ArchiveDeliverable, FirstOnly, FirstRow, DeliverableRow
  <2>8. ASSUME NEW w \in Workers, NEW d \in Deliverables, SubmitDeliverable(w, d)
        PROVE  AcceptanceIsDecided'
    BY <2>2, <2>8 DEF SubmitDeliverable, FirstOnly, FirstRow, DeliverableRow
  <2>9. ASSUME NEW w \in Workers, NEW d \in Deliverables, NEW n \in Numbers,
               NEW decision \in {"accepted", "returned"}, Decide(w, d, n, decision)
        PROVE  AcceptanceIsDecided'
    <3>1. /\ deliverables'[d].accepted = IF decision = "accepted" THEN n ELSE 0
          /\ deliverables'[d].status = IF decision = "accepted" THEN "accepted"
                                                         ELSE "changes_requested"
          /\ \A e \in Deliverables \ {d} : deliverables'[e] = deliverables[e]
      BY <2>9 DEF Decide, FirstOnly, FirstRow, DeliverableRow
    <3>2. /\ n \in DOMAIN revisions'[d]
          /\ revisions'[d][n].decision = decision
          /\ \A e \in Deliverables \ {d} : revisions'[e] = revisions[e]
      BY <2>9 DEF Decide, TypeOK, RevisionRow
    <3>3. n # 0
      BY DEF Numbers
    <3> QED
      BY <3>1, <3>2, <3>3 DEF AcceptanceIsDecided
  <2> HIDE DEF Final
  <2>10. CASE Planning
    <3>1. CASE ProjectChanges \/ UpdateMilestone
      BY <2>3, <3>1 DEF ProjectChanges, UpdateMilestone, planVars
    <3>2. ASSUME NEW d \in Deliverables, BeginCreate(d) \/ RejectCreate(d)
          PROVE  AcceptanceIsDecided'
      BY <2>3, <3>2 DEF BeginCreate, RejectCreate, planVars
    <3> QED
      BY <2>4, <2>5, <2>6, <2>7, <2>10, <3>1, <3>2 DEF Planning
  <2>11. CASE Review
    <3>1. ASSUME NEW w \in Workers, NEW d \in Deliverables, NEW n \in Numbers,
                 NEW r \in Reviewers, Recommend(w, d, n, r)
          PROVE  AcceptanceIsDecided'
      BY <2>3, <3>1 DEF Recommend, planVars
    <3> QED
      BY <2>8, <2>9, <2>11, <3>1 DEF Review
  <2>12. CASE FollowUp
    BY <2>3, <2>12 DEF FollowUp, SelectActions, CompleteAction, Ask, Crash, planVars
  <2>13. CASE UNCHANGED vars
    BY <2>3, <2>13 DEF vars, planVars
  <2> QED
    BY <2>10, <2>11, <2>12, <2>13 DEF Next
<1>4. TypeOK /\ [Next]_vars =>
        [\A d \in Deliverables : \A n \in DOMAIN revisions[d] :
           revisions[d][n].decision # "none" =>
             revisions'[d][n].decision = revisions[d][n].decision]_vars
  BY <1>2
<1> QED
  BY <1>1, <1>3, <1>4, ReviewTypeCorrect, PTL DEF Spec, DecisionsAreFinal

\* A decision is final, whatever comes after it (decide_deliverable).
THEOREM DecisionsStay == Spec => DecisionsAreFinal
  BY AcceptanceHolds, PTL

-----------------------------------------------------------------------------
\* The follow-ups of a revision without a decision still have somebody to ask:
\* what is completed first is only ever followed by new questions.
JobsAsk ==
  \A w \in Workers :
    workers[w] # Idle =>
      LET d == workers[w].of[1]
          n == workers[w].of[2]
      IN  /\ n \in DOMAIN revisions[d]
          /\ revisions[d][n].decision = "none" => workers[w].ask # {}

Numbered == \A d \in Deliverables : DOMAIN revisions[d] \subseteq Numbers

\* What is true of every revision and its follow-ups.
Attended == TypeOK /\ Numbered /\ JobsAsk /\ SomebodyIsAsked

\* A process with follow-ups knows whose they are.
LEMMA JobsAreOfRevisions ==
  ASSUME TypeOK, NEW w \in Workers
  PROVE  /\ workers[w] # Idle =>
              /\ workers[w] \in FollowUps
              /\ workers[w].of[1] \in Deliverables /\ workers[w].of[2] \in Numbers
              /\ workers[w].of = <<workers[w].of[1], workers[w].of[2]>>
         /\ \A d \in Deliverables, n \in Numbers : workers[w].of = <<d, n>> => workers[w] # Idle
<1>1. workers[w] \in {Idle} \cup FollowUps
  BY DEF TypeOK
<1>2. Idle.of = << >>
  BY DEF Idle
<1>3. \A d, n : << >> # <<d, n>>
  OBVIOUS
<1>4. ASSUME workers[w] # Idle
      PROVE  /\ workers[w].of[1] \in Deliverables /\ workers[w].of[2] \in Numbers
             /\ workers[w].of = <<workers[w].of[1], workers[w].of[2]>>
  BY <1>1, <1>4 DEF FollowUps
<1> QED
  BY <1>1, <1>2, <1>3, <1>4

\* A request that leaves follow-ups behind keeps everybody attended to.
LEMMA StartingAttends ==
  ASSUME Attended, TypeOK', NEW w \in Workers, NEW d \in Deliverables, NEW n \in Numbers,
         NEW selecting \in BOOLEAN, NEW ask \in SUBSET People,
         Follow(w, d, n, selecting, ask),
         n \in DOMAIN revisions'[d],
         revisions'[d][n].decision = "none" => ask # {},
         \A e \in Deliverables : \A m \in DOMAIN revisions[e] :
           /\ m \in DOMAIN revisions'[e]
           /\ revisions'[e][m].decision = "none" => revisions[e][m].decision = "none",
         \A e \in Deliverables : \A m \in DOMAIN revisions'[e] :
           m \in DOMAIN revisions[e] \/ (e = d /\ m = n),
         actions' = actions, crashes' = crashes
  PROVE  Attended'
<1>1. TypeOK /\ Numbered /\ JobsAsk /\ SomebodyIsAsked
  BY DEF Attended
<1> DEFINE job == [of |-> <<d, n>>, selecting |-> selecting, selected |-> {}, ask |-> ask]
<1>2. /\ workers[w] = Idle /\ workers'[w] = job
      /\ \A v \in Workers \ {w} : workers'[v] = workers[v]
  BY <1>1 DEF Follow, TypeOK
<1>3. job.of = <<d, n>> /\ job.of[1] = d /\ job.of[2] = n /\ job.ask = ask
  OBVIOUS
<1> HIDE DEF job
<1>4. JobsAsk'
  <2>1. ASSUME NEW v \in Workers, workers'[v] # Idle
        PROVE  /\ workers'[v].of[2] \in DOMAIN revisions'[workers'[v].of[1]]
               /\ revisions'[workers'[v].of[1]][workers'[v].of[2]].decision = "none" =>
                    workers'[v].ask # {}
    <3>1. CASE v = w
      BY <1>2, <1>3, <3>1
    <3>2. CASE v # w
      <4>1. workers'[v] = workers[v] /\ workers[v] # Idle
        BY <1>2, <2>1, <3>2
      <4>2. workers[v].of[1] \in Deliverables
        BY <1>1, <4>1, JobsAreOfRevisions
      <4>3. /\ workers[v].of[2] \in DOMAIN revisions[workers[v].of[1]]
            /\ revisions[workers[v].of[1]][workers[v].of[2]].decision = "none" =>
                 workers[v].ask # {}
        BY <1>1, <4>1 DEF JobsAsk
      <4> QED
        BY <4>1, <4>2, <4>3
    <3> QED
      BY <3>1, <3>2
  <2> QED
    BY <2>1 DEF JobsAsk
<1>5. SomebodyIsAsked'
  <2>1. ASSUME crashes' = 0, NEW e \in Deliverables, NEW m \in DOMAIN revisions'[e],
               revisions'[e][m].decision = "none", Quiet(e, m)'
        PROVE  Asked(e, m)' # {}
    <3>1. workers'[w].of = <<d, n>> /\ workers'[w].of # <<e, m>>
      BY <1>2, <1>3, <2>1 DEF Quiet
    <3>2. m \in DOMAIN revisions[e] /\ revisions[e][m].decision = "none"
      BY <2>1, <3>1
    <3>3. Quiet(e, m)
      <4>1. \A v \in Workers \ {w} : workers[v].of # <<e, m>>
        BY <1>2, <2>1 DEF Quiet
      <4>2. workers[w].of = << >>
        BY <1>2 DEF Idle
      <4> QED
        BY <4>1, <4>2 DEF Quiet
    <3> QED
      BY <1>1, <2>1, <3>2, <3>3 DEF SomebodyIsAsked, Asked
  <2> QED
    BY <2>1 DEF SomebodyIsAsked
<1>6. Numbered'
  BY <1>1 DEF Numbered
<1> QED
  BY <1>4, <1>5, <1>6 DEF Attended

\* A process goes on with its follow-ups, which are about one revision: it asks
\* somebody, or still has to.
LEMMA WorkingAttends ==
  ASSUME Attended, TypeOK', NEW w \in Workers, workers[w] # Idle,
         NEW job, workers' = [workers EXCEPT ![w] = Rest(job)],
         job.of = workers[w].of,
         \/ job.ask = workers[w].ask
         \/ /\ \E k \in People : actions'[workers[w].of[1]][workers[w].of[2]][k].pending
            /\ job.ask = {} => Rest(job) = Idle,
         \A d \in Deliverables, n \in Numbers :
           <<d, n>> # workers[w].of => actions'[d][n] = actions[d][n],
         revisions' = revisions, crashes' = crashes
  PROVE  Attended'
<1>1. TypeOK /\ Numbered /\ JobsAsk /\ SomebodyIsAsked
  BY DEF Attended
<1>2. /\ workers'[w] = Rest(job)
      /\ \A v \in Workers \ {w} : workers'[v] = workers[v]
  BY <1>1 DEF TypeOK
<1> DEFINE d == workers[w].of[1]
           n == workers[w].of[2]
<1>3. /\ d \in Deliverables /\ n \in Numbers /\ workers[w].of = <<d, n>>
      /\ n \in DOMAIN revisions[d]
      /\ revisions[d][n].decision = "none" => workers[w].ask # {}
  BY <1>1, JobsAreOfRevisions DEF JobsAsk
<1> HIDE DEF d, n
<1>4. \/ workers'[w] = job
      \/ workers'[w] = Idle /\ job.ask = {}
  BY <1>2 DEF Rest
<1>5. JobsAsk'
  <2>1. ASSUME NEW v \in Workers, workers'[v] # Idle
        PROVE  /\ workers'[v].of[2] \in DOMAIN revisions'[workers'[v].of[1]]
               /\ revisions'[workers'[v].of[1]][workers'[v].of[2]].decision = "none" =>
                    workers'[v].ask # {}
    <3>1. CASE v = w
      <4>1. workers'[w] = job /\ job.of = <<d, n>>
        BY <1>3, <1>4, <2>1, <3>1
      <4>2. revisions[d][n].decision = "none" => job.ask # {}
        BY <1>2, <1>3, <2>1, <3>1
      <4> QED
        BY <1>3, <3>1, <4>1, <4>2
    <3>2. CASE v # w
      <4>1. workers'[v] = workers[v] /\ workers[v] # Idle
        BY <1>2, <2>1, <3>2
      <4>2. /\ workers[v].of[2] \in DOMAIN revisions[workers[v].of[1]]
            /\ revisions[workers[v].of[1]][workers[v].of[2]].decision = "none" =>
                 workers[v].ask # {}
        BY <1>1, <4>1 DEF JobsAsk
      <4> QED
        BY <4>1, <4>2
    <3> QED
      BY <3>1, <3>2
  <2> QED
    BY <2>1 DEF JobsAsk
<1>6. SomebodyIsAsked'
  <2>1. ASSUME crashes' = 0, NEW e \in Deliverables, NEW m \in DOMAIN revisions'[e],
               revisions'[e][m].decision = "none", Quiet(e, m)'
        PROVE  Asked(e, m)' # {}
    <3>1. CASE e = d /\ m = n
      <4>1. workers'[w].of # <<d, n>>
        BY <2>1, <3>1 DEF Quiet
      <4>2. workers'[w] = Idle /\ job.ask = {}
        BY <1>3, <1>4, <4>1
      <4>3. workers[w].ask # {}
        BY <1>3, <2>1, <3>1
      <4>4. \E k \in People : actions'[d][n][k].pending
        BY <4>2, <4>3 DEF d, n
      <4> QED
        BY <3>1, <4>4 DEF Asked
    <3>2. CASE ~(e = d /\ m = n)
      <4>1. <<e, m>> # workers[w].of
        BY <1>3, <3>2
      <4>2. Quiet(e, m)
        BY <1>2, <2>1, <4>1 DEF Quiet
      <4>3. m \in Numbers
        BY <1>1, <2>1 DEF Numbered
      <4>4. actions'[e][m] = actions[e][m]
        BY <4>1, <4>3
      <4>5. Asked(e, m) # {}
        BY <1>1, <2>1, <4>2 DEF SomebodyIsAsked
      <4> QED
        BY <4>4, <4>5 DEF Asked
    <3> QED
      BY <3>1, <3>2
  <2> QED
    BY <2>1 DEF SomebodyIsAsked
<1>7. Numbered'
  BY <1>1 DEF Numbered
<1> QED
  BY <1>5, <1>6, <1>7 DEF Attended

\* Requests of the review: submission, recommendation, decision.
LEMMA ReviewAttends ==
  ASSUME Attended, TypeOK', Review
  PROVE  Attended'
<1>1. TypeOK /\ Numbered
  BY DEF Attended
<1>2. ASSUME NEW w \in Workers, NEW d \in Deliverables, SubmitDeliverable(w, d)
      PROVE  Attended'
  <2> DEFINE n == Len(revisions[d]) + 1
             ask == IF deliverables[d].designated = {} THEN {Advisor}
                    ELSE deliverables[d].designated
  <2>1. /\ revisions[d] \in Seq(RevisionRow) /\ Len(revisions[d]) \in Nat
        /\ DOMAIN revisions[d] = 1 .. Len(revisions[d])
    BY <1>1, LenProperties DEF TypeOK
  <2>2. n \in Numbers
    BY <1>2, <2>1 DEF SubmitDeliverable, Numbers
  <2>3. /\ revisions'[d] = Append(revisions[d], NewRevision)
        /\ \A e \in Deliverables \ {d} : revisions'[e] = revisions[e]
    BY <1>1, <1>2 DEF SubmitDeliverable, TypeOK
  <2>4. NewRevision \in RevisionRow
    BY DEF NewRevision, RevisionRow
  <2>5. /\ DOMAIN revisions'[d] = 1 .. n
        /\ \A m \in 1 .. Len(revisions[d]) : revisions'[d][m] = revisions[d][m]
    BY <2>1, <2>3, <2>4, AppendProperties, LenProperties
  <2>6. ask \in SUBSET People /\ ask # {}
    BY <1>1 DEF TypeOK, DeliverableRow, People
  <2>7. /\ Follow(w, d, n, FALSE, ask) /\ actions' = actions /\ crashes' = crashes
    BY <1>2 DEF SubmitDeliverable
  <2> HIDE DEF ask
  <2>8. n \in DOMAIN revisions'[d]
    BY <2>1, <2>5
  <2>9. \A e \in Deliverables : \A m \in DOMAIN revisions[e] :
          /\ m \in DOMAIN revisions'[e]
          /\ revisions'[e][m].decision = "none" => revisions[e][m].decision = "none"
    BY <2>1, <2>3, <2>5
  <2>10. \A e \in Deliverables : \A m \in DOMAIN revisions'[e] :
           m \in DOMAIN revisions[e] \/ (e = d /\ m = n)
    BY <2>1, <2>3, <2>5
  <2> HIDE DEF n
  <2>11. (revisions'[d][n].decision = "none" => ask # {}) /\ FALSE \in BOOLEAN
    BY <2>6
  <2>12. Follow(w, d, n, FALSE, ask) /\ actions' = actions /\ crashes' = crashes
    BY <2>7
  <2> QED
    BY ONLY Attended, TypeOK', w \in Workers, d \in Deliverables, <2>2, <2>6, <2>8, <2>9,
            <2>10, <2>11, <2>12, StartingAttends
<1>3. ASSUME NEW w \in Workers, NEW d \in Deliverables, NEW n \in Numbers, NEW row,
             n \in DOMAIN revisions[d],
             revisions' = [revisions EXCEPT ![d] = [revisions[d] EXCEPT ![n] = row]],
             row.decision = "none" => revisions[d][n].decision = "none",
             NEW ask \in SUBSET People, row.decision = "none" => ask # {},
             Follow(w, d, n, TRUE, ask), actions' = actions, crashes' = crashes
      PROVE  Attended'
  <2>1. /\ revisions'[d] = [revisions[d] EXCEPT ![n] = row]
        /\ \A e \in Deliverables \ {d} : revisions'[e] = revisions[e]
    BY <1>1, <1>3 DEF TypeOK
  <2>2. /\ DOMAIN revisions'[d] = DOMAIN revisions[d] /\ revisions'[d][n] = row
        /\ \A m \in DOMAIN revisions[d] \ {n} : revisions'[d][m] = revisions[d][m]
    BY <1>3, <2>1
  <2>3. /\ n \in DOMAIN revisions'[d]
        /\ revisions'[d][n].decision = "none" => ask # {}
    BY <1>3, <2>2
  <2>4. \A e \in Deliverables : \A m \in DOMAIN revisions[e] :
          /\ m \in DOMAIN revisions'[e]
          /\ revisions'[e][m].decision = "none" => revisions[e][m].decision = "none"
    BY <1>3, <2>1, <2>2
  <2>5. \A e \in Deliverables : \A m \in DOMAIN revisions'[e] :
          m \in DOMAIN revisions[e] \/ (e = d /\ m = n)
    BY <2>1, <2>2
  <2>6. /\ Follow(w, d, n, TRUE, ask) /\ actions' = actions /\ crashes' = crashes
        /\ TRUE \in BOOLEAN /\ ask \in SUBSET People
    BY <1>3
  <2> QED
    BY ONLY Attended, TypeOK', w \in Workers, d \in Deliverables, n \in Numbers,
            <2>3, <2>4, <2>5, <2>6, StartingAttends
<1>4. ASSUME NEW w \in Workers, NEW d \in Deliverables, NEW n \in Numbers,
             NEW r \in Reviewers, Recommend(w, d, n, r)
      PROVE  Attended'
  <2> DEFINE old == revisions[d][n]
             a == [old EXCEPT !.state = "recommended"]
             row == [a EXCEPT !.open = old.open \cup {r}]
  <2>1. /\ n \in DOMAIN revisions[d] /\ revisions[d][n] \in RevisionRow
        /\ revisions' = [revisions EXCEPT ![d] = [revisions[d] EXCEPT ![n] = row]]
    <3>1. n \in DOMAIN revisions[d] /\ revisions[d][n] \in RevisionRow
      BY <1>1, <1>4 DEF Recommend, TypeOK
    <3>2. revisions' = [revisions EXCEPT ![d] = [revisions[d] EXCEPT ![n] = row]]
      BY <1>1, <1>4 DEF Recommend, TypeOK
    <3> QED
      BY <3>1, <3>2
  <2>2. row.decision = revisions[d][n].decision
    BY <2>1 DEF RevisionRow
  <2>3. /\ Follow(w, d, n, TRUE, {Advisor}) /\ actions' = actions /\ crashes' = crashes
        /\ {Advisor} \in SUBSET People
    BY <1>4 DEF Recommend, People
  <2> HIDE DEF row
  <2> QED
    BY <1>3, <2>1, <2>2, <2>3
<1>5. ASSUME NEW w \in Workers, NEW d \in Deliverables, NEW n \in Numbers,
             NEW decision \in {"accepted", "returned"}, Decide(w, d, n, decision)
      PROVE  Attended'
  <2> DEFINE old == revisions[d][n]
             a == [old EXCEPT !.state = decision]
             row == [a EXCEPT !.decision = decision]
  <2>1. /\ n \in DOMAIN revisions[d] /\ revisions[d][n] \in RevisionRow
        /\ revisions' = [revisions EXCEPT ![d] = [revisions[d] EXCEPT ![n] = row]]
    <3>1. n \in DOMAIN revisions[d] /\ revisions[d][n] \in RevisionRow
      BY <1>1, <1>5 DEF Decide, TypeOK
    <3>2. revisions' = [revisions EXCEPT ![d] = [revisions[d] EXCEPT ![n] = row]]
      <4>1. revisions' = [revisions EXCEPT ![d][n].state = decision,
                                           ![d][n].decision = decision]
        BY <1>5 DEF Decide
      <4>2. d \in DOMAIN revisions
        BY <1>1, <1>5 DEF TypeOK
      <4> QED
        BY ONLY <3>1, <4>1, <4>2
    <3> QED
      BY <3>1, <3>2
  <2>2. row.decision # "none"
    BY <2>1 DEF RevisionRow
  <2>3. Follow(w, d, n, TRUE, {}) /\ actions' = actions /\ crashes' = crashes
    BY <1>5 DEF Decide
  <2>4. {} \in SUBSET People
    OBVIOUS
  <2> HIDE DEF row
  <2> QED
    BY <1>3, <2>1, <2>2, <2>3, <2>4
<1> QED
  BY <1>2, <1>4, <1>5 DEF Review

\* Follow-ups: actions are selected and completed, then people are asked.
LEMMA FollowUpAttends ==
  ASSUME Attended, TypeOK', FollowUp
  PROVE  Attended'
<1>1. TypeOK /\ Numbered /\ JobsAsk /\ SomebodyIsAsked
  BY DEF Attended
<1>2. ASSUME NEW w \in Workers, SelectActions(w) PROVE Attended'
  <2> DEFINE made == {<<k, ActionsOf(workers[w].of)[k].made>> :
                        k \in {p \in People : ActionsOf(workers[w].of)[p].pending}}
             job == [workers[w] EXCEPT !.selecting = FALSE, !.selected = made]
  <2>1. /\ workers[w] # Idle /\ workers' = [workers EXCEPT ![w] = Rest(job)]
        /\ revisions' = revisions /\ crashes' = crashes /\ actions' = actions
    BY <1>2 DEF SelectActions
  <2>2. job.of = workers[w].of /\ job.ask = workers[w].ask
    BY <1>1, <2>1, JobsAreOfRevisions DEF FollowUps
  <2> HIDE DEF job
  <2> QED
    BY <2>1, <2>2, WorkingAttends
<1>3. ASSUME NEW w \in Workers, NEW k \in People, CompleteAction(w, k) PROVE Attended'
  <2> DEFINE of == workers[w].of
  <2>1. /\ workers[w] # Idle /\ revisions' = revisions /\ crashes' = crashes
        /\ workers[w] \in FollowUps
    BY <1>1, <1>3, JobsAreOfRevisions DEF CompleteAction
  <2>2. PICK made \in 1 .. ActionsOf(of)[k].made :
          /\ actions' = [actions EXCEPT ![of[1]][of[2]][k].pending =
                           @ /\ ActionsOf(of)[k].made # made]
          /\ workers' = [workers EXCEPT
                           ![w] = Rest([workers[w] EXCEPT !.selected = @ \ {<<k, made>>}])]
    BY <1>3 DEF CompleteAction
  <2> DEFINE job == [workers[w] EXCEPT !.selected = @ \ {<<k, made>>}]
  <2>3. job.of = of /\ job.ask = workers[w].ask
    BY <2>1 DEF FollowUps
  <2>4. \A d \in Deliverables, n \in Numbers : <<d, n>> # of => actions'[d][n] = actions[d][n]
    <3>1. of = <<of[1], of[2]>>
      BY <1>1, <2>1, JobsAreOfRevisions
    <3> HIDE DEF of
    <3> QED
      BY <1>1, <2>2, <3>1 DEF TypeOK
  <2>5. workers' = [workers EXCEPT ![w] = Rest(job)]
    BY <2>2
  <2> HIDE DEF job
  <2> QED
    BY <2>1, <2>3, <2>4, <2>5, WorkingAttends
<1>4. ASSUME NEW w \in Workers, NEW k \in People, Ask(w, k) PROVE Attended'
  <2> DEFINE of == workers[w].of
             job == [workers[w] EXCEPT !.ask = @ \ {k}]
  <2>1. /\ workers[w] # Idle /\ revisions' = revisions /\ crashes' = crashes
        /\ workers[w] \in FollowUps /\ ~workers[w].selecting /\ workers[w].selected = {}
        /\ workers' = [workers EXCEPT ![w] = Rest(job)]
        /\ of[1] \in Deliverables /\ of[2] \in Numbers /\ of = <<of[1], of[2]>>
    BY <1>1, <1>4, JobsAreOfRevisions DEF Ask
  <2>2. actions' = [actions EXCEPT ![of[1]][of[2]][k] =
                      IF @.pending THEN @ ELSE [made |-> @.made + 1, pending |-> TRUE]]
    BY <1>4 DEF Ask
  <2>3. job.of = of /\ (job.ask = {} => Rest(job) = Idle)
    BY <2>1 DEF FollowUps, Rest
  <2> HIDE DEF of
  <2>4. \A d \in Deliverables, n \in Numbers : <<d, n>> # of => actions'[d][n] = actions[d][n]
    BY <1>1, <2>1, <2>2 DEF TypeOK
  <2>5. actions'[of[1]][of[2]][k].pending
    <3>1. actions[of[1]][of[2]] \in [People -> [made : Nat, pending : BOOLEAN]]
      BY <1>1, <2>1 DEF TypeOK
    <3>2. actions'[of[1]][of[2]][k] =
            IF actions[of[1]][of[2]][k].pending THEN actions[of[1]][of[2]][k]
            ELSE [made |-> actions[of[1]][of[2]][k].made + 1, pending |-> TRUE]
      BY <1>1, <2>1, <2>2, <3>1 DEF TypeOK
    <3> QED
      BY <3>2
  <2> HIDE DEF job
  <2> QED
    BY <2>1, <2>3, <2>4, <2>5, WorkingAttends DEF of
<1>5. ASSUME NEW w \in Workers, Crash(w) PROVE Attended'
  <2>1. /\ workers' = [workers EXCEPT ![w] = Idle] /\ crashes' = crashes + 1
        /\ revisions' = revisions /\ crashes \in Nat
    BY <1>1, <1>5 DEF Crash, TypeOK
  <2>2. crashes' # 0
    BY <2>1
  <2>3. JobsAsk'
    BY <1>1, <2>1 DEF JobsAsk, TypeOK
  <2> QED
    BY <1>1, <2>1, <2>2, <2>3 DEF Attended, Numbered, SomebodyIsAsked
<1> QED
  BY <1>2, <1>3, <1>4, <1>5 DEF FollowUp

\* As long as no process is killed between its commit and its follow-ups,
\* somebody is asked to act on every revision that is not decided, however the
\* follow-ups of several requests overlap: they end with a question, never with
\* a completion (submit_deliverable, recommend_deliverable).
THEOREM SomebodyStaysAsked == Spec => []SomebodyIsAsked
<1>1. Init /\ TypeOK => Attended
  BY DEF Init, Attended, Numbered, JobsAsk, SomebodyIsAsked
<1>2. Attended /\ TypeOK' /\ [Next]_vars => Attended'
  <2> SUFFICES ASSUME Attended, TypeOK', [Next]_vars PROVE Attended'
    OBVIOUS
  <2>1. ASSUME revisions' = revisions, actions' = actions, workers' = workers,
               crashes' = crashes
        PROVE  Attended'
    BY <2>1 DEF Attended, Numbered, JobsAsk, SomebodyIsAsked, Quiet, Asked
  <2>2. CASE Planning
    <3>1. CASE ProjectChanges \/ UpdateMilestone \/ ArchiveMilestone
      BY <2>1, <3>1 DEF ProjectChanges, UpdateMilestone, ArchiveMilestone, reviewVars
    <3>2. ASSUME NEW d \in Deliverables,
                 \/ BeginCreate(d) \/ RejectCreate(d) \/ ArchiveDeliverable(d)
                 \/ \E plan \in Plans : CreateDeliverable(d, plan)
          PROVE  Attended'
      BY <2>1, <3>2 DEF BeginCreate, RejectCreate, ArchiveDeliverable,
                        CreateDeliverable, reviewVars
    <3>3. ASSUME NEW d \in Deliverables, NEW required \in BOOLEAN,
                 NEW reviewed \in BOOLEAN,
                 NEW status \in WorkStatus \cup {deliverables[d].status},
                 UpdateDeliverable(d, required, reviewed, status)
          PROVE  Attended'
      BY <2>1, <3>3 DEF UpdateDeliverable, reviewVars
    <3> QED
      BY <2>2, <3>1, <3>2, <3>3 DEF Planning
  <2>3. CASE Review
    BY <2>3, ReviewAttends
  <2>4. CASE FollowUp
    BY <2>4, FollowUpAttends
  <2>5. CASE UNCHANGED vars
    BY <2>1, <2>5 DEF vars, reviewVars
  <2> QED
    BY <2>2, <2>3, <2>4, <2>5 DEF Next
<1>3. Attended => SomebodyIsAsked
  BY DEF Attended
<1> QED
  BY <1>1, <1>2, <1>3, ReviewTypeCorrect, PTL DEF Spec
=============================================================================

-------------------------- MODULE ProjectDecisions --------------------------
(***************************************************************************)
(* Published decisions of one project and how one supersedes another:      *)
(* publish_decision and supersede_decision of                              *)
(* apps/projects/decision_risk_services.py and their views.                *)
(*                                                                         *)
(* A request finds the project open and its key unused (it answers with    *)
(* the record otherwise); later it locks the decision it supersedes,       *)
(* inserts its own and marks the other, in one transaction.  Texts, the    *)
(* owner and the links of a decision are left out.                         *)
(***************************************************************************)
EXTENDS Integers, Sequences, FiniteSets

CONSTANTS
  Publishers,     \* overlapping requests
  Keys, NoKey,    \* idempotency keys, and the empty one
  MaxDecisions    \* bound: decisions that are published

ASSUME DecisionAssumption == NoKey \notin Keys /\ MaxDecisions \in Nat

VARIABLES
  governed,     \* the project is active and not on hold
  decisions,    \* DecisionRecord rows, in the order of their ids
  publishing    \* publishing[p]: what request p has found

decisionVars == <<governed, decisions, publishing>>

Decision ==
  [status : {"current", "superseded"}, supersedes : 0 .. MaxDecisions,
   key : Keys \cup {NoKey}]

RestingPublisher == [step |-> "none"]

DecisionTypeOK ==
  /\ governed \in BOOLEAN
  /\ decisions \in Seq(Decision) /\ Len(decisions) <= MaxDecisions
  /\ publishing \in
       [Publishers -> {RestingPublisher}
          \cup [step : {"found"}, key : Keys \cup {NoKey},
                predecessor : 0 .. MaxDecisions]]

DecisionInit ==
  /\ governed = TRUE
  /\ decisions = << >>
  /\ publishing = [p \in Publishers |-> RestingPublisher]

-----------------------------------------------------------------------------
\* The project is archived, reopened, held or handed over.
GovernedTurns == governed' = ~governed /\ UNCHANGED <<decisions, publishing>>

KeyIsUsed(key) ==
  key # NoKey /\ \E d \in DOMAIN decisions : decisions[d].key = key

\* The view loads the predecessor (0 for none); publish_decision checks the
\* capability and looks for the key.
BeginPublish(p, key, predecessor) ==
  /\ publishing[p].step = "none"
  /\ governed /\ ~KeyIsUsed(key)
  /\ publishing' = [publishing EXCEPT
       ![p] = [step |-> "found", key |-> key, predecessor |-> predecessor]]
  /\ UNCHANGED <<governed, decisions>>

IsCurrent(d) == d # 0 => decisions[d].status = "current"

Rest(p) == publishing' = [publishing EXCEPT ![p] = RestingPublisher]

\* Mutant of FinishPublish: the predecessor is judged by the view's copy.
FinishUnlocked(p) ==
  /\ publishing[p].step = "found"
  /\ ~KeyIsUsed(publishing[p].key)
  /\ Len(decisions) < MaxDecisions
  /\ decisions' =
       Append([d \in DOMAIN decisions |->
                 IF d = publishing[p].predecessor
                 THEN [decisions[d] EXCEPT !.status = "superseded"]
                 ELSE decisions[d]],
              [status |-> "current", supersedes |-> publishing[p].predecessor,
               key |-> publishing[p].key])
  /\ Rest(p)
  /\ UNCHANGED governed

\* Lock the predecessor, insert, mark it.
FinishPublish(p) ==
  /\ publishing[p].step = "found"
  /\ IsCurrent(publishing[p].predecessor) /\ ~KeyIsUsed(publishing[p].key)
  /\ Len(decisions) < MaxDecisions
  /\ decisions' =
       Append([d \in DOMAIN decisions |->
                 IF d = publishing[p].predecessor
                 THEN [decisions[d] EXCEPT !.status = "superseded"]
                 ELSE decisions[d]],
              [status |-> "current", supersedes |-> publishing[p].predecessor,
               key |-> publishing[p].key])
  /\ Rest(p)
  /\ UNCHANGED governed

\* The predecessor was superseded meanwhile, or the unique index refuses the
\* key: the transaction is rolled back.
FailPublish(p) ==
  /\ publishing[p].step = "found"
  /\ ~IsCurrent(publishing[p].predecessor) \/ KeyIsUsed(publishing[p].key)
  /\ Rest(p)
  /\ UNCHANGED <<governed, decisions>>

-----------------------------------------------------------------------------
\* DecisionListView and DecisionSupersedeView
PublishNew(p, key) == BeginPublish(p, key, 0)

PublishSuccessor(p, key) == \E d \in DOMAIN decisions : BeginPublish(p, key, d)

DecisionNext ==
  \/ GovernedTurns
  \/ \E p \in Publishers :
       \/ \E key \in Keys \cup {NoKey} : PublishNew(p, key) \/ PublishSuccessor(p, key)
       \/ FinishPublish(p) \/ FailPublish(p)

DecisionSpec == DecisionInit /\ [][DecisionNext]_decisionVars

-----------------------------------------------------------------------------
(***************************************************************************)
(* Properties.                                                             *)
(***************************************************************************)

Successors(d) == {e \in DOMAIN decisions : decisions[e].supersedes = d}

\* However publications overlap, a decision has at most one successor, has
\* one exactly when it is superseded, and no key is recorded twice: every
\* line of decisions ends in a single current one (publish_decision).
SuccessionIsLinear ==
  /\ \A d \in DOMAIN decisions :
       /\ Cardinality(Successors(d)) = IF decisions[d].status = "current" THEN 0 ELSE 1
       /\ decisions[d].supersedes < d
  /\ \A d, e \in DOMAIN decisions :
       decisions[d].key = decisions[e].key /\ decisions[d].key # NoKey => d = e
=============================================================================

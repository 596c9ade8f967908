--------------------------- MODULE SubmissionProofs ---------------------------
(***************************************************************************)
(* Theorems about submissions, for any number of projects, students,       *)
(* requests and desks, first part by part and then of all parts in         *)
(* MCSubmissions, where each behaves as it does alone.                     *)
(***************************************************************************)
EXTENDS MCSubmissions, FiniteSetTheorems, SequenceTheorems, WellFoundedInduction, TLAPS

-----------------------------------------------------------------------------
(***************************************************************************)
(* Templates and reporting periods.                                        *)
(***************************************************************************)

USE PeriodAssumption

\* A set of numbers that is not empty has a least one.
LEMMA LeastNumber ==
  ASSUME NEW S \in SUBSET Nat, S # {}
  PROVE  \E n \in S : \A m \in S : n <= m
<1>1. PICK n \in S : \A m \in S : ~(<<m, n>> \in OpToRel(<, Nat))
  BY NatLessThanWellFounded, WFMin
<1>2. \A m \in S : ~(m < n)
  BY <1>1 DEF OpToRel
<1> QED
  BY <1>2

\* Version n of a template may be asked.
Asks(t, n) ==
  /\ n \in DOMAIN t.versions
  /\ t.versions[n].status # "draft" /\ t.versions[n].questions # 0

IsDraft(t, n) == n \in DOMAIN t.versions /\ t.versions[n].status = "draft"

\* A template has one draft at most, and the version in force may be asked.
TemplateFits(t) ==
  /\ t \in Template /\ t.inForce <= Len(t.versions)
  /\ \A m, n \in DOMAIN t.versions : IsDraft(t, m) /\ IsDraft(t, n) => m = n
  /\ t.inForce # 0 => Asks(t, t.inForce)

\* Versions that are out stay out, with their questions.
VersionsKept(t, u) ==
  \A n \in DOMAIN t.versions :
    /\ n \in DOMAIN u.versions
    /\ t.versions[n].status # "draft" =>
         /\ u.versions[n].status # "draft"
         /\ u.versions[n].questions = t.versions[n].questions

\* A run that looks or opens has a project at hand, and opens with a version
\* that may be asked.
RunRow == [at : {"look", "ensure", "open"}, todo : SUBSET Projects, template : Nat]

RunFits(run) ==
  /\ run.at \in {"ensure", "open"} => run.todo # {}
  /\ run.at = "open" => Asks(templates[FirstOf(run.todo)], run.template)

PeriodsHold ==
  /\ PeriodTypeOK
  /\ \A p \in Projects : TemplateFits(templates[p])
  /\ \A p \in Projects :
       periods[p].state # "none" => Asks(templates[p], periods[p].template)
  /\ \A o \in Runs, run \in RunRow : runs[o] = run => RunFits(run)

\* What a step does to the periods there are.
QuestionsStay ==
  \A p \in Projects : periods[p].state # "none" =>
    LET n == periods[p].template IN
      /\ templates[p].versions[n].status # "draft"
      /\ templates[p].versions[n].questions # 0
      /\ templates'[p].versions[n].questions = templates[p].versions[n].questions
      /\ periods'[p].template = n

\* The versions of a template are a sequence of rows.
LEMMA TemplateRows ==
  ASSUME NEW t \in Template
  PROVE  /\ t.versions \in Seq(TemplateVersion) /\ Len(t.versions) \in Nat /\ t.inForce \in Nat
         /\ DOMAIN t.versions = 1 .. Len(t.versions)
         /\ \A n \in DOMAIN t.versions : t.versions[n] \in TemplateVersion
<1>1. t.versions \in Seq(TemplateVersion) /\ t.inForce \in Nat
  BY DEF Template
<1> QED
  BY <1>1, ElementOfSeq, LenProperties

\* The first project of a list is on it.
LEMMA FirstIsThere ==
  ASSUME NEW todo \in SUBSET Projects, todo # {}
  PROVE  FirstOf(todo) \in todo /\ FirstOf(todo) \in Projects
<1>1. todo \in SUBSET Nat
  BY DEF Projects
<1>2. \E p \in todo : \A q \in todo : p <= q
  BY <1>1, LeastNumber
<1> QED
  BY <1>2 DEF FirstOf

\* A run moves on with a template.
LEMMA RunGetsTemplate ==
  ASSUME NEW r \in RunRow, NEW at, NEW n
  PROVE  [[r EXCEPT !.at = at] EXCEPT !.template = n]
           = [at |-> at, todo |-> r.todo, template |-> n]
<1> DEFINE s == [at |-> at, todo |-> r.todo, template |-> r.template]
<1>1. r = [at |-> r.at, todo |-> r.todo, template |-> r.template]
  BY DEF RunRow
<1>2. [r EXCEPT !.at = at] = s
  BY <1>1
<1>3. [s EXCEPT !.template = n] = [at |-> at, todo |-> r.todo, template |-> n]
  OBVIOUS
<1> QED
  BY <1>2, <1>3

\* A run moves on with the rest of its list.
LEMMA RunGetsRest ==
  ASSUME NEW r \in RunRow, NEW at, NEW todo
  PROVE  [[r EXCEPT !.at = at] EXCEPT !.todo = todo]
           = [at |-> at, todo |-> todo, template |-> r.template]
<1> DEFINE s == [at |-> at, todo |-> r.todo, template |-> r.template]
<1>1. r = [at |-> r.at, todo |-> r.todo, template |-> r.template]
  BY DEF RunRow
<1>2. [r EXCEPT !.at = at] = s
  BY <1>1
<1>3. [s EXCEPT !.todo = todo] = [at |-> at, todo |-> todo, template |-> r.template]
  OBVIOUS
<1> QED
  BY <1>2, <1>3

\* A draft that is added is the only one.
LEMMA WithDraftFits ==
  ASSUME NEW t, TemplateFits(t), \A n \in DOMAIN t.versions : ~IsDraft(t, n)
  PROVE  /\ TemplateFits(WithDraft(t)) /\ VersionsKept(t, WithDraft(t))
         /\ \E n \in DOMAIN WithDraft(t).versions : IsDraft(WithDraft(t), n)
<1> DEFINE row == [status |-> "draft",
                   questions |-> IF t.inForce = 0 THEN 0 ELSE t.versions[t.inForce].questions]
           rows == Append(t.versions, row)
<1>1. /\ t \in Template /\ t.inForce <= Len(t.versions) /\ t.inForce \in Nat
      /\ t.inForce # 0 => Asks(t, t.inForce)
      /\ Len(t.versions) \in Nat /\ DOMAIN t.versions = 1 .. Len(t.versions)
      /\ t.versions \in Seq(TemplateVersion)
      /\ \A n \in DOMAIN t.versions : t.versions[n] \in TemplateVersion
  BY TemplateRows DEF TemplateFits
<1>2. row \in TemplateVersion /\ row.status = "draft"
  BY <1>1 DEF TemplateVersion, Asks
<1>3. WithDraft(t) = [t EXCEPT !.versions = rows]
  BY DEF WithDraft
<1> HIDE DEF row
<1>4. /\ rows \in Seq(TemplateVersion) /\ Len(rows) = Len(t.versions) + 1
      /\ rows[Len(t.versions) + 1] = row
      /\ \A n \in 1 .. Len(t.versions) : rows[n] = t.versions[n]
  BY <1>1, <1>2, AppendProperties
<1>5. DOMAIN rows = 1 .. Len(t.versions) + 1
  BY <1>4, LenProperties
<1> HIDE DEF rows
<1>6. /\ WithDraft(t) \in Template /\ WithDraft(t).versions = rows
      /\ WithDraft(t).inForce = t.inForce
  BY <1>1, <1>3, <1>4 DEF Template
<1>7. Len(t.versions) + 1 \in DOMAIN rows /\ DOMAIN t.versions \subseteq DOMAIN rows
  BY <1>1, <1>5
<1>8. VersionsKept(t, WithDraft(t))
  BY <1>1, <1>4, <1>6, <1>7 DEF VersionsKept
<1>9. IsDraft(WithDraft(t), Len(t.versions) + 1)
  BY <1>2, <1>4, <1>6, <1>7 DEF IsDraft
<1>10. \A n \in DOMAIN rows : IsDraft(WithDraft(t), n) => n = Len(t.versions) + 1
  BY <1>1, <1>4, <1>5, <1>6 DEF IsDraft
<1>11. t.inForce # 0 => Asks(WithDraft(t), t.inForce)
  BY <1>1, <1>4, <1>6, <1>7 DEF Asks
<1>12. t.inForce <= Len(rows)
  BY <1>1, <1>4
<1>13. TemplateFits(WithDraft(t))
  BY <1>6, <1>10, <1>11, <1>12 DEF TemplateFits
<1> QED
  BY <1>6, <1>7, <1>8, <1>9, <1>13

\* The row of one version is replaced.
WithRow(t, n, row) == [t EXCEPT !.versions = [t.versions EXCEPT ![n] = row]]

\* The draft's questions change; whatever is out is as it was.
LEMMA WithRowFits ==
  ASSUME NEW t, TemplateFits(t), NEW n, IsDraft(t, n), NEW row \in TemplateVersion,
         row.status = "draft"
  PROVE  /\ TemplateFits(WithRow(t, n, row)) /\ VersionsKept(t, WithRow(t, n, row))
         /\ IsDraft(WithRow(t, n, row), n) /\ WithRow(t, n, row).versions[n] = row
<1> DEFINE rows == [t.versions EXCEPT ![n] = row]
<1>1. /\ t \in Template /\ t.inForce <= Len(t.versions) /\ t.inForce \in Nat
      /\ t.inForce # 0 => Asks(t, t.inForce)
      /\ \A m, k \in DOMAIN t.versions : IsDraft(t, m) /\ IsDraft(t, k) => m = k
      /\ t.versions \in Seq(TemplateVersion) /\ n \in DOMAIN t.versions
      /\ t.versions[n].status = "draft"
  BY TemplateRows DEF TemplateFits, IsDraft
<1>2. /\ rows \in Seq(TemplateVersion) /\ Len(rows) = Len(t.versions)
      /\ DOMAIN rows = DOMAIN t.versions /\ rows[n] = row
      /\ \A m \in DOMAIN t.versions : m # n => rows[m] = t.versions[m]
  BY <1>1, ExceptSeq, LenProperties
<1>3. WithRow(t, n, row) = [t EXCEPT !.versions = rows]
  BY DEF WithRow
<1> HIDE DEF rows
<1>4. /\ WithRow(t, n, row) \in Template /\ WithRow(t, n, row).versions = rows
      /\ WithRow(t, n, row).inForce = t.inForce
  BY <1>1, <1>2, <1>3 DEF Template
<1> QED
  BY <1>1, <1>2, <1>4 DEF TemplateFits, VersionsKept, IsDraft, Asks

\* A draft that has questions may be asked once it is published.
LEMMA WithPublishedFits ==
  ASSUME NEW t, TemplateFits(t), NEW n, IsDraft(t, n), t.versions[n].questions # 0
  PROVE  /\ TemplateFits(WithPublished(t, n)) /\ VersionsKept(t, WithPublished(t, n))
         /\ Asks(WithPublished(t, n), n)
<1> DEFINE u == WithPublished(t, n)
<1>1. /\ t \in Template /\ n \in DOMAIN t.versions /\ n \in Nat /\ n <= Len(t.versions)
      /\ Len(t.versions) \in Nat /\ DOMAIN t.versions = 1 .. Len(t.versions) /\ n # 0
      /\ \A m \in DOMAIN t.versions : t.versions[m] \in TemplateVersion
      /\ \A m, k \in DOMAIN t.versions : IsDraft(t, m) /\ IsDraft(t, k) => m = k
  BY TemplateRows DEF TemplateFits, IsDraft
<1>2. /\ u.inForce = n /\ DOMAIN u.versions = DOMAIN t.versions
      /\ u = [inForce |-> u.inForce, versions |-> u.versions]
      /\ \A m \in DOMAIN t.versions :
           u.versions[m] = IF m = n THEN [t.versions[m] EXCEPT !.status = "published"]
                           ELSE IF t.versions[m].status = "published"
                           THEN [t.versions[m] EXCEPT !.status = "superseded"]
                           ELSE t.versions[m]
  BY DEF WithPublished
<1>3. u.versions = [m \in 1 .. Len(t.versions) |-> u.versions[m]]
  BY <1>1 DEF WithPublished
<1> HIDE DEF u
<1>4. ASSUME NEW m \in DOMAIN t.versions
      PROVE  /\ u.versions[m] \in TemplateVersion
             /\ u.versions[m].questions = t.versions[m].questions
             /\ u.versions[m].status = "draft" <=> t.versions[m].status = "draft" /\ m # n
  <2>1. t.versions[m] \in TemplateVersion
    BY <1>1, <1>4
  <2>2. CASE m = n
    <3>1. u.versions[m] = [t.versions[m] EXCEPT !.status = "published"]
      BY <1>2, <1>4, <2>2
    <3> QED
      BY ONLY <2>1, <2>2, <3>1 DEF TemplateVersion
  <2>3. CASE m # n /\ t.versions[m].status = "published"
    <3>1. u.versions[m] = [t.versions[m] EXCEPT !.status = "superseded"]
      BY <1>2, <1>4, <2>3
    <3> QED
      BY ONLY <2>1, <2>3, <3>1 DEF TemplateVersion
  <2>4. CASE m # n /\ t.versions[m].status # "published"
    <3>1. u.versions[m] = t.versions[m]
      BY <1>2, <1>4, <2>4
    <3> QED
      BY ONLY <2>1, <2>4, <3>1
  <2> QED
    BY <2>2, <2>3, <2>4
<1>5. u.versions \in Seq(TemplateVersion) /\ Len(u.versions) = Len(t.versions)
  <2>1. u.versions \in Seq(TemplateVersion)
    <3>1. u.versions \in [1 .. Len(t.versions) -> TemplateVersion]
      BY ONLY <1>1, <1>3, <1>4
    <3> QED
      BY ONLY <1>1, <3>1, SeqDef
  <2> QED
    BY <1>1, <1>2, <2>1, LenProperties
<1>6. u \in Template
  BY <1>1, <1>2, <1>5 DEF Template
<1>7. Asks(u, n)
  BY <1>1, <1>2, <1>4 DEF Asks
<1>8. \A m \in DOMAIN u.versions : ~IsDraft(u, m)
  BY <1>1, <1>2, <1>4 DEF IsDraft
<1>9. VersionsKept(t, u)
  BY <1>2, <1>4 DEF VersionsKept
<1>10. TemplateFits(u)
  BY <1>1, <1>2, <1>5, <1>6, <1>7, <1>8 DEF TemplateFits
<1> QED
  BY <1>7, <1>9, <1>10 DEF u

\* A template with a draft gets questions, and its draft stays the same.
LEMMA FilledFits ==
  ASSUME NEW t, TemplateFits(t), \E n \in DOMAIN t.versions : IsDraft(t, n)
  PROVE  /\ TemplateFits(Filled(t)) /\ VersionsKept(t, Filled(t))
         /\ IsDraft(Filled(t), DraftOf(Filled(t)))
         /\ Filled(t).versions[DraftOf(Filled(t))].questions # 0
<1> DEFINE n == DraftOf(t)
<1>1. n \in DOMAIN t.versions /\ t.versions[n].status = "draft" /\ IsDraft(t, n)
  BY DEF DraftOf, IsDraft
<1>2. t \in Template /\ t.versions[n] \in TemplateVersion
  BY <1>1, TemplateRows DEF TemplateFits
<1> HIDE DEF n
<1>3. TemplateFits(Filled(t)) /\ VersionsKept(t, Filled(t))
      /\ IsDraft(Filled(t), n) /\ Filled(t).versions[n].questions # 0
  <2>1. CASE t.versions[n].questions = 0
    <3> DEFINE row == [t.versions[n] EXCEPT !.questions = 1]
    <3>1. row \in TemplateVersion /\ row.status = "draft" /\ row.questions # 0
      BY <1>1, <1>2, PeriodAssumption DEF TemplateVersion
    <3>2. Filled(t) = WithRow(t, n, row)
      BY <2>1 DEF Filled, WithRow, n
    <3> HIDE DEF row
    <3> QED
      BY <1>1, <3>1, <3>2, WithRowFits
  <2>2. CASE t.versions[n].questions # 0
    <3>1. Filled(t) = t
      BY <2>2 DEF Filled, n
    <3> QED
      BY <1>1, <2>2, <3>1 DEF VersionsKept
  <2> QED
    BY <2>1, <2>2
<1>4. DraftOf(Filled(t)) = n
  <2>1. IsDraft(Filled(t), DraftOf(Filled(t)))
    BY <1>3 DEF DraftOf, IsDraft
  <2> QED
    BY <1>3, <2>1 DEF TemplateFits, IsDraft
<1> QED
  BY <1>3, <1>4

\* Versions that are kept are kept along.
LEMMA KeptAlong ==
  ASSUME NEW t, NEW u, NEW v, VersionsKept(t, u), VersionsKept(u, v)
  PROVE  VersionsKept(t, v)
BY DEF VersionsKept

\* What may be asked may still be asked, and says the same.
LEMMA AsksOn ==
  ASSUME NEW t, NEW u, VersionsKept(t, u), NEW n, Asks(t, n)
  PROVE  Asks(u, n) /\ u.versions[n].questions = t.versions[n].questions
BY DEF VersionsKept, Asks


\* One template changes, and keeps its versions.
LEMMA TemplateChanges ==
  ASSUME PeriodsHold, NEW p \in Projects, NEW t, TemplateFits(t),
         VersionsKept(templates[p], t), templates' = [templates EXCEPT ![p] = t]
  PROVE  /\ templates' \in [Projects -> Template]
         /\ templates'[p] = t
         /\ \A q \in Projects :
              TemplateFits(templates'[q]) /\ VersionsKept(templates[q], templates'[q])
<1>1. /\ templates \in [Projects -> Template]
      /\ \A q \in Projects : TemplateFits(templates[q])
  BY DEF PeriodsHold, PeriodTypeOK
<1>2. t \in Template
  BY DEF TemplateFits
<1>3. /\ templates' \in [Projects -> Template] /\ templates'[p] = t
      /\ \A q \in Projects : q # p => templates'[q] = templates[q]
  BY <1>1, <1>2
<1>4. \A q \in Projects : VersionsKept(templates[q], templates[q])
  BY DEF VersionsKept
<1> QED
  BY <1>1, <1>3, <1>4

\* What a run has found, and what a period asks, outlives such a change.
LEMMA RunsOutlive ==
  ASSUME \A q \in Projects : VersionsKept(templates[q], templates'[q]),
         NEW run \in RunRow, RunFits(run)
  PROVE  RunFits(run)'
<1>1. run.todo \in SUBSET Projects
  BY DEF RunRow
<1>2. CASE run.at = "open"
  <2>1. run.todo # {} /\ Asks(templates[FirstOf(run.todo)], run.template)
    BY <1>2 DEF RunFits
  <2>2. FirstOf(run.todo) \in Projects
    BY <1>1, <2>1, FirstIsThere
  <2>3. Asks(templates'[FirstOf(run.todo)], run.template)
    BY <2>1, <2>2, AsksOn
  <2> QED
    BY <2>1, <2>3 DEF RunFits
<1>3. CASE run.at # "open"
  BY <1>3 DEF RunFits
<1> QED
  BY <1>2, <1>3

\* A template page changes one template and nothing else.
LEMMA TemplatesTurn ==
  ASSUME PeriodsHold, NEW p \in Projects, NEW t, TemplateFits(t),
         VersionsKept(templates[p], t), templates' = [templates EXCEPT ![p] = t],
         UNCHANGED <<courses, periods, runs>>
  PROVE  PeriodsHold' /\ QuestionsStay
<1>1. /\ PeriodTypeOK
      /\ \A q \in Projects : periods[q].state # "none" => Asks(templates[q], periods[q].template)
      /\ \A o \in Runs, run \in RunRow : runs[o] = run => RunFits(run)
  BY DEF PeriodsHold
<1>2. /\ templates' \in [Projects -> Template]
      /\ \A q \in Projects :
           TemplateFits(templates'[q]) /\ VersionsKept(templates[q], templates'[q])
  BY TemplateChanges
<1>3. PeriodTypeOK'
  BY <1>1, <1>2 DEF PeriodTypeOK, TemplateFits
<1>4. ASSUME NEW q \in Projects, periods[q].state # "none"
      PROVE  /\ Asks(templates[q], periods[q].template)
             /\ Asks(templates'[q], periods[q].template)
             /\ templates'[q].versions[periods[q].template].questions
                  = templates[q].versions[periods[q].template].questions
  BY <1>1, <1>2, <1>4, AsksOn
<1>5. \A o \in Runs, run \in RunRow : runs'[o] = run => RunFits(run)'
  BY <1>1, <1>2, RunsOutlive
<1>6. PeriodsHold'
  BY <1>2, <1>3, <1>4, <1>5 DEF PeriodsHold
<1>7. QuestionsStay
  BY <1>4 DEF QuestionsStay, Asks
<1> QED
  BY <1>6, <1>7

\* create_report_template_draft
LEMMA CreateDraftKeeps ==
  ASSUME PeriodsHold, NEW p \in Projects, CreateDraft(p)
  PROVE  PeriodsHold' /\ QuestionsStay
<1>1. TemplateFits(templates[p]) /\ templates \in [Projects -> Template]
  BY DEF PeriodsHold, PeriodTypeOK
<1>2. \A n \in DOMAIN templates[p].versions : ~IsDraft(templates[p], n)
  BY DEF CreateDraft, Drafts, IsDraft
<1>3. templates' = [templates EXCEPT ![p] = WithDraft(templates[p])]
      /\ UNCHANGED <<courses, periods, runs>>
  BY <1>1 DEF CreateDraft
<1>4. TemplateFits(WithDraft(templates[p]))
      /\ VersionsKept(templates[p], WithDraft(templates[p]))
  BY <1>1, <1>2, WithDraftFits
<1> QED
  BY <1>3, <1>4, TemplatesTurn

\* replace_template_fields
LEMMA ReplaceQuestionsKeeps ==
  ASSUME PeriodsHold, NEW p \in Projects, NEW n, ReplaceQuestions(p, n)
  PROVE  PeriodsHold' /\ QuestionsStay
<1> DEFINE old == templates[p].versions[n]
           row == [old EXCEPT !.questions = old.questions + 1]
<1>1. TemplateFits(templates[p]) /\ templates \in [Projects -> Template]
      /\ templates[p] \in Template
  BY DEF PeriodsHold, PeriodTypeOK
<1>2. /\ IsDraft(templates[p], n) /\ old.questions < MaxQuestions /\ old.status = "draft"
      /\ UNCHANGED <<courses, periods, runs>>
  BY DEF ReplaceQuestions, Drafts, IsDraft
<1>3. old \in TemplateVersion
  BY <1>1, <1>2, TemplateRows DEF IsDraft
<1>4. row \in TemplateVersion /\ row.status = "draft"
  BY <1>2, <1>3, PeriodAssumption DEF TemplateVersion
<1>5. templates' = [templates EXCEPT ![p] = WithRow(templates[p], n, row)]
  BY <1>1 DEF ReplaceQuestions, WithRow
<1> HIDE DEF row
<1>6. TemplateFits(WithRow(templates[p], n, row))
      /\ VersionsKept(templates[p], WithRow(templates[p], n, row))
  BY <1>1, <1>2, <1>4, WithRowFits
<1> QED
  BY <1>2, <1>5, <1>6, TemplatesTurn

\* publish_template_version
LEMMA PublishDraftKeeps ==
  ASSUME PeriodsHold, NEW p \in Projects, NEW n, PublishDraft(p, n)
  PROVE  PeriodsHold' /\ QuestionsStay
<1>1. TemplateFits(templates[p]) /\ templates \in [Projects -> Template]
  BY DEF PeriodsHold, PeriodTypeOK
<1>2. IsDraft(templates[p], n) /\ templates[p].versions[n].questions # 0
  BY DEF PublishDraft, Drafts, IsDraft
<1>3. templates' = [templates EXCEPT ![p] = WithPublished(templates[p], n)]
      /\ UNCHANGED <<courses, periods, runs>>
  BY <1>1 DEF PublishDraft
<1>4. TemplateFits(WithPublished(templates[p], n))
      /\ VersionsKept(templates[p], WithPublished(templates[p], n))
  BY <1>1, <1>2, WithPublishedFits
<1> QED
  BY <1>3, <1>4, TemplatesTurn

\* ensure_default_report_template: what it publishes may be asked.
LEMMA EnsureTemplateKeeps ==
  ASSUME PeriodsHold, NEW o \in Runs, EnsureTemplate(o)
  PROVE  PeriodsHold' /\ QuestionsStay
<1> DEFINE p == FirstOf(runs[o].todo)
           s == Drafted(p)
           t == Filled(s)
           n == DraftOf(t)
           u == WithPublished(t, n)
           run == [at |-> "open", todo |-> runs[o].todo, template |-> n]
<1>1. /\ PeriodTypeOK
      /\ \A q \in Projects : TemplateFits(templates[q])
      /\ \A q \in Projects : periods[q].state # "none" => Asks(templates[q], periods[q].template)
      /\ \A m \in Runs, row \in RunRow : runs[m] = row => RunFits(row)
  BY DEF PeriodsHold
<1>2. runs[o].at = "ensure" /\ runs[o] \in RunRow
  BY <1>1 DEF EnsureTemplate, PeriodTypeOK, RestingRun, RunRow
<1>3. runs[o].todo \in SUBSET Projects /\ runs[o].todo # {}
  BY <1>1, <1>2 DEF RunFits, RunRow
<1>4. p \in Projects /\ p \in runs[o].todo
  BY <1>3, FirstIsThere
<1>5. /\ templates' = [templates EXCEPT ![p] = u]
      /\ runs' = [runs EXCEPT ![o] = run]
      /\ UNCHANGED <<courses, periods>>
  <2>1. /\ templates' = [templates EXCEPT ![p] = u] /\ UNCHANGED <<courses, periods>>
        /\ runs' = [runs EXCEPT ![o] = [[runs[o] EXCEPT !.at = "open"] EXCEPT !.template = n]]
    BY DEF EnsureTemplate
  <2> HIDE DEF n, u
  <2>2. [[runs[o] EXCEPT !.at = "open"] EXCEPT !.template = n] = run
    BY <1>2, RunGetsTemplate
  <2> QED
    BY <2>1, <2>2
<1> HIDE DEF p
<1>6. /\ TemplateFits(s) /\ VersionsKept(templates[p], s)
      /\ \E m \in DOMAIN s.versions : IsDraft(s, m)
  <2>1. CASE Drafts(p) = {}
    <3>1. s = WithDraft(templates[p])
      BY <2>1 DEF Drafted
    <3>2. \A m \in DOMAIN templates[p].versions : ~IsDraft(templates[p], m)
      BY <2>1 DEF Drafts, IsDraft
    <3> HIDE DEF s
    <3> QED
      BY <1>1, <1>4, <3>1, <3>2, WithDraftFits
  <2>2. CASE Drafts(p) # {}
    <3>1. s = templates[p]
      BY <2>2 DEF Drafted
    <3> HIDE DEF s
    <3> QED
      BY <1>1, <1>4, <2>2, <3>1 DEF Drafts, IsDraft, VersionsKept
  <2> QED
    BY <2>1, <2>2
<1> HIDE DEF s
<1>7. /\ TemplateFits(t) /\ VersionsKept(s, t) /\ IsDraft(t, n)
      /\ t.versions[n].questions # 0
  BY <1>6, FilledFits
<1> HIDE DEF t, n
<1>8. TemplateFits(u) /\ VersionsKept(t, u) /\ Asks(u, n)
  BY <1>7, WithPublishedFits
<1>9. n \in Nat
  BY <1>7, TemplateRows DEF TemplateFits, IsDraft
<1> HIDE DEF u
<1>10. VersionsKept(templates[p], u)
  BY <1>6, <1>7, <1>8, KeptAlong
<1>11. /\ templates' \in [Projects -> Template] /\ templates'[p] = u
       /\ \A q \in Projects :
            TemplateFits(templates'[q]) /\ VersionsKept(templates[q], templates'[q])
  BY <1>4, <1>5, <1>8, <1>10, TemplateChanges
<1>12. run \in RunRow /\ run.at = "open" /\ run.todo = runs[o].todo /\ run.template = n
  BY <1>3, <1>9 DEF RunRow
<1> HIDE DEF run
<1>13. /\ runs' \in [Runs -> {RestingRun} \cup RunRow]
       /\ runs'[o] = run /\ \A m \in Runs : m # o => runs'[m] = runs[m]
  BY <1>1, <1>5, <1>12 DEF PeriodTypeOK, RunRow
<1>14. PeriodTypeOK'
  BY <1>1, <1>5, <1>11, <1>13 DEF PeriodTypeOK, TemplateFits, RunRow
<1>15. ASSUME NEW q \in Projects, periods[q].state # "none"
       PROVE  /\ Asks(templates[q], periods[q].template)
              /\ Asks(templates'[q], periods[q].template)
              /\ templates'[q].versions[periods[q].template].questions
                   = templates[q].versions[periods[q].template].questions
  BY <1>1, <1>11, <1>15, AsksOn
<1>16. ASSUME NEW m \in Runs, NEW row \in RunRow, runs'[m] = row
       PROVE  RunFits(row)'
  <2>1. CASE m # o
    BY <1>1, <1>11, <1>13, <1>16, <2>1, RunsOutlive
  <2>2. CASE m = o
    <3>1. row.at = "open" /\ row.todo # {} /\ FirstOf(row.todo) = p /\ row.template = n
      BY <1>3, <1>12, <1>13, <1>16, <2>2 DEF p
    <3> QED
      BY <1>8, <1>11, <3>1 DEF RunFits
  <2> QED
    BY <2>1, <2>2
<1>17. PeriodsHold'
  BY <1>5, <1>11, <1>14, <1>15, <1>16 DEF PeriodsHold
<1>18. QuestionsStay
  BY <1>5, <1>15 DEF QuestionsStay, Asks
<1> QED
  BY <1>17, <1>18

\* Steps that leave the templates alone, change periods without their
\* templates, and leave runs that fit.
LEMMA PeriodsTurn ==
  ASSUME PeriodsHold, UNCHANGED templates,
         courses' \in [Projects -> Course], periods' \in [Projects -> Period],
         runs' \in [Runs -> {RestingRun} \cup RunRow],
         \A p \in Projects : periods[p].state # "none" =>
           periods'[p].state # "none" /\ periods'[p].template = periods[p].template,
         \A p \in Projects : periods[p].state = "none" /\ periods'[p].state # "none" =>
           Asks(templates[p], periods'[p].template),
         \A o \in Runs, run \in RunRow : runs'[o] = run => RunFits(run)
  PROVE  PeriodsHold' /\ QuestionsStay
<1>1. /\ PeriodTypeOK
      /\ \A p \in Projects : TemplateFits(templates[p])
      /\ \A p \in Projects : periods[p].state # "none" => Asks(templates[p], periods[p].template)
  BY DEF PeriodsHold
<1>2. PeriodTypeOK'
  BY <1>1 DEF PeriodTypeOK, RunRow
<1>3. \A p \in Projects :
        periods'[p].state # "none" => Asks(templates'[p], periods'[p].template)
  BY <1>1
<1>4. \A p \in Projects : VersionsKept(templates[p], templates'[p])
  BY DEF VersionsKept
<1>5. \A o \in Runs, run \in RunRow : runs'[o] = run => RunFits(run)'
  BY <1>4, RunsOutlive
<1>6. PeriodsHold'
  BY <1>1, <1>2, <1>3, <1>5 DEF PeriodsHold
<1>7. QuestionsStay
  BY <1>1 DEF QuestionsStay, Asks
<1> QED
  BY <1>6, <1>7

\* The same with the periods as they are.
LEMMA RunsTurn ==
  ASSUME PeriodsHold, UNCHANGED <<courses, templates, periods>>, NEW o \in Runs,
         NEW run \in {RestingRun} \cup RunRow, run \in RunRow => RunFits(run),
         runs' = [runs EXCEPT ![o] = run]
  PROVE  PeriodsHold' /\ QuestionsStay
<1>1. /\ PeriodTypeOK
      /\ \A m \in Runs, row \in RunRow : runs[m] = row => RunFits(row)
  BY DEF PeriodsHold
<1>2. /\ runs' \in [Runs -> {RestingRun} \cup RunRow]
      /\ runs'[o] = run /\ \A m \in Runs : m # o => runs'[m] = runs[m]
  BY <1>1 DEF PeriodTypeOK, RunRow
<1>3. \A m \in Runs, row \in RunRow : runs'[m] = row => RunFits(row)
  BY <1>1, <1>2
<1>4. courses' \in [Projects -> Course] /\ periods' \in [Projects -> Period]
  BY <1>1 DEF PeriodTypeOK
<1>5. \A p \in Projects : periods'[p] = periods[p]
  OBVIOUS
<1> QED
  BY <1>2, <1>3, <1>4, <1>5, PeriodsTurn


\* maintain_reporting_periods_task begins.
LEMMA StartRunKeeps ==
  ASSUME PeriodsHold, NEW o \in Runs, StartRun(o)
  PROVE  PeriodsHold' /\ QuestionsStay
<1> DEFINE run == [at |-> "look", template |-> 0, todo |-> {p \in Projects : courses[p].active}]
<1>1. UNCHANGED <<courses, templates, periods>> /\ runs' = [runs EXCEPT ![o] = run]
  BY DEF StartRun
<1>2. run \in RunRow /\ run.at = "look"
  BY DEF RunRow
<1> HIDE DEF run
<1>3. RunFits(run)
  BY <1>2 DEF RunFits
<1> QED
  BY <1>1, <1>2, <1>3, RunsTurn

\* It looks for the template in force of the first project.
LEMMA LookForTemplateKeeps ==
  ASSUME PeriodsHold, NEW o \in Runs, LookForTemplate(o)
  PROVE  PeriodsHold' /\ QuestionsStay
<1> DEFINE p == FirstOf(runs[o].todo)
           found == templates[p].inForce
           at == IF found = 0 THEN "ensure" ELSE "open"
           run == [at |-> at, todo |-> runs[o].todo, template |-> found]
<1>1. /\ PeriodTypeOK
      /\ \A q \in Projects : TemplateFits(templates[q])
  BY DEF PeriodsHold
<1>2. runs[o] \in RunRow /\ runs[o].todo \in SUBSET Projects /\ runs[o].todo # {}
  BY <1>1 DEF LookForTemplate, PeriodTypeOK, RestingRun, RunRow
<1>3. p \in Projects
  BY <1>2, FirstIsThere
<1>4. /\ UNCHANGED <<courses, templates, periods>>
      /\ runs' = [runs EXCEPT ![o] = [[runs[o] EXCEPT !.at = at] EXCEPT !.template = found]]
  BY DEF LookForTemplate
<1>5. found \in Nat /\ (found # 0 => Asks(templates[p], found))
  BY <1>1, <1>3, TemplateRows DEF TemplateFits
<1>6. [[runs[o] EXCEPT !.at = at] EXCEPT !.template = found] = run
  <2> HIDE DEF found, at
  <2> QED
    BY <1>2, RunGetsTemplate
<1>7. /\ run \in RunRow /\ run.todo = runs[o].todo /\ run.template = found
      /\ run.at = at
  <2>1. at \in {"look", "ensure", "open"}
    OBVIOUS
  <2> HIDE DEF at, found
  <2> QED
    BY <1>2, <1>5, <2>1 DEF RunRow
<1> HIDE DEF run
<1>8. RunFits(run)
  <2>1. run.at = "open" => found # 0
    BY <1>7
  <2> HIDE DEF found
  <2> QED
    BY <1>2, <1>5, <1>7, <2>1 DEF RunFits
<1> QED
  BY <1>4, <1>6, <1>7, <1>8, RunsTurn

\* A refusal ends it.
LEMMA AbortRunKeeps ==
  ASSUME PeriodsHold, NEW o \in Runs, AbortRun(o)
  PROVE  PeriodsHold' /\ QuestionsStay
<1>1. UNCHANGED <<courses, templates, periods>> /\ runs' = [runs EXCEPT ![o] = RestingRun]
  BY DEF AbortRun
<1>2. RestingRun \in {RestingRun} \cup RunRow /\ RestingRun \notin RunRow
  BY DEF RestingRun, RunRow
<1> QED
  BY <1>1, <1>2, RunsTurn

\* close_due_reporting_periods
LEMMA EndRunKeeps ==
  ASSUME PeriodsHold, NEW o \in Runs, EndRun(o)
  PROVE  PeriodsHold' /\ QuestionsStay
<1>1. /\ PeriodTypeOK
      /\ \A m \in Runs, row \in RunRow : runs[m] = row => RunFits(row)
  BY DEF PeriodsHold
<1>2. /\ UNCHANGED <<courses, templates>> /\ periods' = ClosePeriods
      /\ runs' = [runs EXCEPT ![o] = RestingRun]
  BY DEF EndRun
<1>3. /\ periods' \in [Projects -> Period]
      /\ \A p \in Projects :
           /\ periods'[p].template = periods[p].template
           /\ periods'[p].state = "none" <=> periods[p].state = "none"
  BY <1>1, <1>2 DEF ClosePeriods, PeriodTypeOK, Period
<1>4. RestingRun \notin RunRow
  BY DEF RestingRun, RunRow
<1>5. /\ runs' \in [Runs -> {RestingRun} \cup RunRow]
      /\ \A m \in Runs : runs'[m] = IF m = o THEN RestingRun ELSE runs[m]
  BY <1>1, <1>2 DEF PeriodTypeOK, RunRow
<1>6. \A m \in Runs, row \in RunRow : runs'[m] = row => RunFits(row)
  BY <1>1, <1>4, <1>5
<1>7. courses' \in [Projects -> Course]
  BY <1>1, <1>2 DEF PeriodTypeOK
<1> QED
  BY <1>2, <1>3, <1>5, <1>6, <1>7, PeriodsTurn

\* open_reporting_period: the template was found or published for it.
LEMMA OpenPeriodKeeps ==
  ASSUME PeriodsHold, NEW o \in Runs, OpenPeriod(o)
  PROVE  PeriodsHold' /\ QuestionsStay
<1> DEFINE p == FirstOf(runs[o].todo)
           row == [state |-> "open", late |-> FALSE, template |-> runs[o].template]
           run == [at |-> "look", todo |-> runs[o].todo \ {p}, template |-> runs[o].template]
<1>1. /\ PeriodTypeOK
      /\ \A m \in Runs, r \in RunRow : runs[m] = r => RunFits(r)
  BY DEF PeriodsHold
<1>2. runs[o].at = "open" /\ runs[o] \in RunRow
  BY <1>1 DEF OpenPeriod, PeriodTypeOK, RestingRun, RunRow
<1>3. /\ runs[o].todo \in SUBSET Projects /\ runs[o].todo # {} /\ runs[o].template \in Nat
      /\ Asks(templates[p], runs[o].template)
  BY <1>1, <1>2 DEF RunFits, RunRow
<1>4. p \in Projects
  BY <1>3, FirstIsThere
<1>5. /\ UNCHANGED <<courses, templates>>
      /\ periods' = IF periods[p].state # "none" THEN periods
                    ELSE [periods EXCEPT ![p] = row]
      /\ runs' = [runs EXCEPT ![o] =
           [[runs[o] EXCEPT !.at = "look"] EXCEPT !.todo = runs[o].todo \ {p}]]
  BY <1>1 DEF OpenPeriod, PeriodTypeOK
<1> HIDE DEF p
<1>6. [[runs[o] EXCEPT !.at = "look"] EXCEPT !.todo = runs[o].todo \ {p}] = run
  BY <1>2, RunGetsRest
<1>7. run \in RunRow /\ run.at = "look" /\ row \in Period
      /\ row.state = "open" /\ row.template = runs[o].template
  BY <1>3 DEF RunRow, Period
<1> HIDE DEF run, row
<1>8. RunFits(run)
  BY <1>7 DEF RunFits
<1>9. /\ runs' \in [Runs -> {RestingRun} \cup RunRow]
      /\ \A m \in Runs : runs'[m] = IF m = o THEN run ELSE runs[m]
  BY <1>1, <1>5, <1>6, <1>7 DEF PeriodTypeOK, RunRow
<1>10. \A m \in Runs, r \in RunRow : runs'[m] = r => RunFits(r)
  BY <1>1, <1>8, <1>9
<1>11. /\ periods \in [Projects -> Period] /\ courses' \in [Projects -> Course]
  BY <1>1, <1>5 DEF PeriodTypeOK
<1>12. CASE periods[p].state # "none"
  <2>1. periods' = periods
    BY <1>5, <1>12
  <2> QED
    BY <1>5, <1>9, <1>10, <1>11, <2>1, PeriodsTurn
<1>13. CASE periods[p].state = "none"
  <2>1. /\ periods' \in [Projects -> Period]
        /\ periods'[p] = row /\ \A q \in Projects : q # p => periods'[q] = periods[q]
    BY <1>4, <1>5, <1>7, <1>11, <1>13
  <2>2. \A q \in Projects : periods[q].state # "none" =>
          periods'[q].state # "none" /\ periods'[q].template = periods[q].template
    BY <1>13, <2>1
  <2>3. \A q \in Projects : periods[q].state = "none" /\ periods'[q].state # "none" =>
          Asks(templates[q], periods'[q].template)
    BY <1>3, <1>7, <2>1
  <2> QED
    BY <1>5, <1>9, <1>10, <1>11, <2>1, <2>2, <2>3, PeriodsTurn
<1> QED
  BY <1>12, <1>13

\* PeriodsHold is inductive, and periods keep their questions.
LEMMA PeriodStep ==
  ASSUME PeriodsHold, [PeriodNext]_periodVars
  PROVE  PeriodsHold' /\ QuestionsStay
<1>1. /\ PeriodTypeOK
      /\ \A o \in Runs, run \in RunRow : runs[o] = run => RunFits(run)
      /\ runs \in [Runs -> {RestingRun} \cup RunRow]
      /\ courses \in [Projects -> Course] /\ periods \in [Projects -> Period]
  BY DEF PeriodsHold, PeriodTypeOK, RunRow
<1>2. CASE UNCHANGED periodVars
  <2>1. UNCHANGED <<courses, templates, periods, runs>>
    BY <1>2 DEF periodVars
  <2>2. /\ courses' \in [Projects -> Course] /\ periods' \in [Projects -> Period]
        /\ runs' \in [Runs -> {RestingRun} \cup RunRow]
        /\ \A p \in Projects : periods'[p] = periods[p]
        /\ \A o \in Runs, run \in RunRow : runs'[o] = run => RunFits(run)
    BY <1>1, <2>1
  <2> QED
    BY <2>1, <2>2, PeriodsTurn
<1>3. CASE TemplatePage
  BY <1>3, CreateDraftKeeps, ReplaceQuestionsKeeps, PublishDraftKeeps DEF TemplatePage
<1>4. ASSUME NEW o \in Runs, RunStep(o)
      PROVE  PeriodsHold' /\ QuestionsStay
  BY <1>4, StartRunKeeps, EndRunKeeps, LookForTemplateKeeps, EnsureTemplateKeeps,
     AbortRunKeeps, OpenPeriodKeeps DEF RunStep
<1>5. ASSUME NEW p \in Projects, SwitchCourse(p)
      PROVE  PeriodsHold' /\ QuestionsStay
  <2>1. courses' \in [Projects -> Course] /\ UNCHANGED <<templates, periods, runs>>
    <3>1. courses[p] \in Course /\ UNCHANGED <<templates, periods, runs>>
      BY <1>1, <1>5 DEF SwitchCourse
    <3>2. /\ [courses[p] EXCEPT !.active = ~@] \in Course
          /\ [courses[p] EXCEPT !.governed = ~@] \in Course
      BY <3>1 DEF Course
    <3>3. PICK course \in Course : courses' = [courses EXCEPT ![p] = course]
      BY <1>5, <3>2 DEF SwitchCourse
    <3> QED
      BY <1>1, <3>1, <3>3
  <2>2. /\ periods' \in [Projects -> Period] /\ runs' \in [Runs -> {RestingRun} \cup RunRow]
        /\ \A q \in Projects : periods'[q] = periods[q]
        /\ \A o \in Runs, run \in RunRow : runs'[o] = run => RunFits(run)
    BY <1>1, <2>1
  <2> QED
    BY <2>1, <2>2, PeriodsTurn
<1>6. ASSUME NEW p \in Projects, DeadlinePasses(p)
      PROVE  PeriodsHold' /\ QuestionsStay
  <2>1. /\ periods' \in [Projects -> Period] /\ UNCHANGED <<courses, templates, runs>>
        /\ \A q \in Projects :
             /\ periods'[q].template = periods[q].template
             /\ periods'[q].state = periods[q].state
    BY <1>1, <1>6 DEF DeadlinePasses, Period
  <2>2. /\ courses' \in [Projects -> Course] /\ runs' \in [Runs -> {RestingRun} \cup RunRow]
        /\ \A o \in Runs, run \in RunRow : runs'[o] = run => RunFits(run)
    BY <1>1, <2>1
  <2> QED
    BY <2>1, <2>2, PeriodsTurn
<1> QED
  BY <1>2, <1>3, <1>4, <1>5, <1>6 DEF PeriodNext

\* No project has a template at first.
LEMMA PeriodBegins == PeriodInit => PeriodsHold
<1> SUFFICES ASSUME PeriodInit PROVE PeriodsHold
  OBVIOUS
<1>1. << >> \in Seq(TemplateVersion) /\ Len(<< >>) = 0 /\ DOMAIN << >> = {}
  OBVIOUS
<1>2. ASSUME NEW p \in Projects
      PROVE  TemplateFits(templates[p]) /\ periods[p].state = "none"
  BY <1>1 DEF PeriodInit, TemplateFits, Template, IsDraft
<1>3. courses \in [Projects -> Course]
  BY DEF PeriodInit, Course
<1>4. /\ templates \in [Projects -> Template]
      /\ \A p \in Projects : templates[p].inForce <= Len(templates[p].versions)
  BY <1>1 DEF PeriodInit, Template
<1>5. periods \in [Projects -> Period]
  BY DEF PeriodInit, Period
<1>6. PeriodTypeOK /\ \A o \in Runs : runs[o] = RestingRun
  BY <1>3, <1>4, <1>5 DEF PeriodInit, PeriodTypeOK
<1>7. \A o \in Runs : runs[o] \notin RunRow
  BY <1>6 DEF RestingRun, RunRow
<1> QED
  BY <1>2, <1>6, <1>7 DEF PeriodsHold

HIDE PeriodAssumption

-----------------------------------------------------------------------------
(***************************************************************************)
(* Reports.                                                                *)
(***************************************************************************)

USE ReportAssumption

\* A set of numbers up to a bound, not empty, has a greatest one.
LEMMA GreatestNumber ==
  ASSUME NEW b \in Nat, NEW S \in SUBSET (0 .. b), S # {}
  PROVE  \E n \in S : \A m \in S : m <= n
<1> DEFINE T == {b - n : n \in S}
<1>1. T \in SUBSET Nat /\ T # {}
  <2>1. \A n \in S : b - n \in Nat
    <3>1. SUFFICES ASSUME NEW n \in 0 .. b PROVE b - n \in Nat
      OBVIOUS
    <3> QED
      BY <3>1
  <2> QED
    BY <2>1
<1>2. PICK t \in T : \A u \in T : t <= u
  <2> HIDE DEF T
  <2> QED
    BY <1>1, LeastNumber
<1>3. PICK n \in S : t = b - n
  OBVIOUS
<1>4. \A m \in S : b - m \in T
  OBVIOUS
<1>5. \A m \in S : t <= b - m
  BY <1>2, <1>4
<1>6. \A m \in S : m \in Int
  OBVIOUS
<1> QED
  BY <1>3, <1>5, <1>6

\* The reports a new one looks at.
Own(a, sort) ==
  {n \in DOMAIN handedIn[a] : sort = "weekly" \/ handedIn[a][n].sort = "structured"}

Reading == {"weekly", "structured"}

\* The lock of the period: one structured report at a time.
OneIsStructured ==
  \A c, d \in Submitters :
    submitters[c].step = "structured" /\ submitters[d].step = "structured" => c = d

\* What a request knows.
Week == [step : {"weekly", "structured"}, author : Authors,
         after : 0 .. MaxReports, number : 1 .. MaxReports + 1]

\* There was nothing from its number on when it was read, only weekly reports
\* have arrived since if it is a structured one, and as long as nothing has
\* arrived the report it follows is the latest.
WasRead(read) ==
  /\ read.number <= Len(handedIn[read.author]) + 1
  /\ read.step = "structured" =>
       \A n \in DOMAIN handedIn[read.author] :
         n >= read.number => handedIn[read.author][n].sort = "weekly"
  /\ read.number = Len(handedIn[read.author]) + 1 =>
       Latest(read.author, read.step) = read.after

WeeksWereRead ==
  \A c \in Submitters, read \in Week : submitters[c] = read => WasRead(read)

ReportsHold == ReportTypeOK /\ OneIsStructured /\ WeeksWereRead

\* What an insertion follows.
LatestIsRead ==
  \A c \in Submitters :
    LET read == submitters[c] IN
      read # RestingSubmitter /\ handedIn' # handedIn /\ submitters'[c] # read
        => Latest(read.author, read.step) = read.after

\* Reports are a sequence of rows.
LEMMA ReportRows ==
  ASSUME ReportTypeOK, NEW a \in Authors
  PROVE  /\ handedIn[a] \in Seq(Report) /\ Len(handedIn[a]) \in 0 .. MaxReports
         /\ DOMAIN handedIn[a] = 1 .. Len(handedIn[a])
         /\ \A n \in DOMAIN handedIn[a] : handedIn[a][n] \in Report
<1>1. handedIn[a] \in Seq(Report) /\ Len(handedIn[a]) <= MaxReports
  BY DEF ReportTypeOK
<1> QED
  BY <1>1, ElementOfSeq, LenProperties

\* What a request may have read.
LEMMA SubmitterRows ==
  ASSUME ReportTypeOK, NEW c \in Submitters
  PROVE  /\ submitters[c].step \in {"rest"} \cup Reading
         /\ submitters[c].step = "rest" <=> submitters[c] = RestingSubmitter
         /\ submitters[c].step \in Reading =>
              /\ submitters[c] \in Week
              /\ submitters[c].author \in Authors
              /\ submitters[c].after \in 0 .. MaxReports
              /\ submitters[c].number \in 1 .. MaxReports + 1
BY DEF ReportTypeOK, RestingSubmitter, Reading, Week

\* The latest report is a report of the week, or none.
LEMMA LatestIsThere ==
  ASSUME ReportTypeOK, NEW a \in Authors, NEW sort
  PROVE  Latest(a, sort) \in 0 .. MaxReports
<1>1. Own(a, sort) \in SUBSET (0 .. MaxReports)
  BY ReportRows DEF Own
<1>2. Latest(a, sort) = IF Own(a, sort) = {} THEN 0
                        ELSE CHOOSE n \in Own(a, sort) : \A m \in Own(a, sort) : m <= n
  BY DEF Latest, Own
<1>3. CASE Own(a, sort) = {}
  BY <1>2, <1>3
<1>4. CASE Own(a, sort) # {}
  <2>1. \E n \in Own(a, sort) : \A m \in Own(a, sort) : m <= n
    BY <1>1, <1>4, GreatestNumber
  <2>2. Latest(a, sort) \in Own(a, sort)
    BY <1>2, <1>4, <2>1
  <2> QED
    BY <1>1, <2>2
<1> QED
  BY <1>3, <1>4

\* The latest report depends on the sorts of the reports only.
LEMMA LatestStays ==
  ASSUME NEW a \in Authors, NEW sort,
         DOMAIN handedIn'[a] = DOMAIN handedIn[a],
         \A n \in DOMAIN handedIn[a] : handedIn'[a][n].sort = handedIn[a][n].sort
  PROVE  Latest(a, sort)' = Latest(a, sort)
<1>1. Own(a, sort)' = Own(a, sort)
  BY DEF Own
<1>2. Latest(a, sort) = IF Own(a, sort) = {} THEN 0
                        ELSE CHOOSE n \in Own(a, sort) : \A m \in Own(a, sort) : m <= n
  BY DEF Latest, Own
<1>3. Latest(a, sort)' = IF Own(a, sort)' = {} THEN 0
                         ELSE CHOOSE n \in Own(a, sort)' : \A m \in Own(a, sort)' : m <= n
  BY DEF Latest, Own
<1> QED
  BY <1>1, <1>2, <1>3

\* As long as the sorts stay, what has been read stays read.
LEMMA ReadStays ==
  ASSUME NEW read \in Week,
         \A a \in Authors :
           /\ Len(handedIn'[a]) = Len(handedIn[a])
           /\ DOMAIN handedIn'[a] = DOMAIN handedIn[a]
           /\ \A n \in DOMAIN handedIn[a] : handedIn'[a][n].sort = handedIn[a][n].sort,
         WasRead(read)
  PROVE  WasRead(read)'
<1>1. read.author \in Authors
  BY DEF Week
<1>2. Latest(read.author, read.step)' = Latest(read.author, read.step)
  BY <1>1, LatestStays
<1> QED
  BY <1>1, <1>2 DEF WasRead

\* A request passes its check.
LEMMA CheckKeeps ==
  ASSUME ReportsHold, NEW c \in Submitters, NEW a \in Authors, NEW sort \in Reading,
         Checked(c, a, sort), sort = "structured" => ~PeriodLocked
  PROVE  ReportsHold'
<1> DEFINE read == [step |-> sort, author |-> a, after |-> Latest(a, sort),
                    number |-> Len(handedIn[a]) + 1]
<1>1. ReportTypeOK /\ OneIsStructured /\ WeeksWereRead
  BY DEF ReportsHold
<1>2. submitters' = [submitters EXCEPT ![c] = read] /\ UNCHANGED <<writable, period, handedIn>>
  BY DEF Checked, weekVars
<1>3. Len(handedIn[a]) \in 0 .. MaxReports /\ DOMAIN handedIn[a] = 1 .. Len(handedIn[a])
  BY <1>1, ReportRows
<1>4. /\ read \in [step : {"weekly", "structured"}, author : Authors,
                   after : 0 .. MaxReports, number : 1 .. MaxReports + 1]
      /\ read.step = sort /\ read.author = a /\ read.after = Latest(a, sort)
      /\ read.number = Len(handedIn[a]) + 1
  BY <1>1, <1>3, LatestIsThere DEF Reading
<1> HIDE DEF read
<1>5. \A d \in Submitters : submitters'[d] = IF d = c THEN read ELSE submitters[d]
  BY <1>1, <1>2 DEF ReportTypeOK
<1>6. ReportTypeOK'
  BY <1>1, <1>2, <1>4 DEF ReportTypeOK
<1>7. OneIsStructured'
  BY <1>1, <1>4, <1>5 DEF OneIsStructured, PeriodLocked
<1>8. ASSUME NEW r \in Week, WasRead(r) PROVE WasRead(r)'
  BY <1>2, <1>8, ReadStays
<1>9. WasRead(read)
  BY <1>3, <1>4 DEF WasRead
<1>10. ASSUME NEW d \in Submitters, NEW r \in Week, submitters'[d] = r
       PROVE  WasRead(r)'
  <2>1. CASE d = c
    BY <1>5, <1>8, <1>9, <1>10, <2>1
  <2>2. CASE d # c
    BY <1>1, <1>5, <1>8, <1>10, <2>2 DEF WeeksWereRead
  <2> QED
    BY <2>1, <2>2
<1>11. WeeksWereRead'
  BY <1>10 DEF WeeksWereRead
<1> QED
  BY <1>6, <1>7, <1>11 DEF ReportsHold

\* A request ends; the reports are as they were, or another row is behind them.
LEMMA LoseKeeps ==
  ASSUME ReportsHold, NEW c \in Submitters, LoseReport(c)
  PROVE  ReportsHold'
<1>1. ReportTypeOK /\ OneIsStructured /\ WeeksWereRead
  BY DEF ReportsHold
<1>2. /\ submitters' = [submitters EXCEPT ![c] = RestingSubmitter]
      /\ UNCHANGED <<writable, period, handedIn>>
  BY DEF LoseReport, weekVars
<1>3. /\ \A d \in Submitters : submitters'[d] = IF d = c THEN RestingSubmitter ELSE submitters[d]
      /\ RestingSubmitter.step = "rest" /\ "rest" \notin Reading
  BY <1>1, <1>2 DEF ReportTypeOK, RestingSubmitter, Reading
<1>4. ReportTypeOK'
  BY <1>1, <1>2 DEF ReportTypeOK
<1>5. OneIsStructured'
  BY <1>1, <1>3 DEF OneIsStructured
<1>6. ASSUME NEW d \in Submitters, NEW r \in Week, submitters'[d] = r
      PROVE  WasRead(r)'
  <2>1. submitters[d] = r
    BY <1>3, <1>6 DEF Week
  <2>2. WasRead(r)
    BY <1>1, <1>6, <2>1 DEF WeeksWereRead
  <2> QED
    BY <1>2, <2>2, ReadStays
<1>7. WeeksWereRead'
  BY <1>6 DEF WeeksWereRead
<1> QED
  BY <1>4, <1>5, <1>7 DEF ReportsHold

\* An insertion: nothing has arrived since the check, so it follows what it read.
LEMMA InsertKeeps ==
  ASSUME ReportsHold, NEW c \in Submitters, NEW late \in BOOLEAN,
         submitters[c].step \in Reading, Inserted(c, late)
  PROVE  ReportsHold' /\ LatestIsRead
<1> DEFINE a == submitters[c].author
           row == [sort |-> submitters[c].step, status |-> "pending_review", late |-> late]
<1>1. /\ ReportTypeOK /\ OneIsStructured /\ WeeksWereRead
      /\ a \in Authors /\ submitters[c].number \in 1 .. MaxReports + 1
  BY SubmitterRows DEF ReportsHold
<1>2. /\ handedIn' = [handedIn EXCEPT ![a] = Append(handedIn[a], row)]
      /\ submitters' = [submitters EXCEPT ![c] = RestingSubmitter]
      /\ submitters[c].number > Len(handedIn[a]) /\ Len(handedIn[a]) < MaxReports
      /\ UNCHANGED <<writable, period>>
  BY DEF Inserted, NumberIsFree, weekVars
<1>3. /\ handedIn[a] \in Seq(Report) /\ Len(handedIn[a]) \in 0 .. MaxReports
      /\ DOMAIN handedIn[a] = 1 .. Len(handedIn[a])
  BY <1>1, ReportRows
<1>4. row \in Report /\ row.sort = submitters[c].step
  BY DEF Report, Reading, ReviewStatus
<1> HIDE DEF row
<1>5. /\ handedIn' \in [Authors -> Seq(Report)]
      /\ Len(handedIn'[a]) = Len(handedIn[a]) + 1
      /\ DOMAIN handedIn'[a] = 1 .. Len(handedIn[a]) + 1
      /\ handedIn'[a][Len(handedIn[a]) + 1] = row
      /\ \A n \in DOMAIN handedIn[a] : handedIn'[a][n] = handedIn[a][n]
      /\ \A b \in Authors : b # a => handedIn'[b] = handedIn[b]
  <2>1. /\ Append(handedIn[a], row) \in Seq(Report)
        /\ Len(Append(handedIn[a], row)) = Len(handedIn[a]) + 1
        /\ Append(handedIn[a], row)[Len(handedIn[a]) + 1] = row
        /\ \A n \in 1 .. Len(handedIn[a]) : Append(handedIn[a], row)[n] = handedIn[a][n]
    BY <1>3, <1>4, AppendProperties
  <2>2. DOMAIN Append(handedIn[a], row) = 1 .. Len(handedIn[a]) + 1
    BY <2>1, LenProperties
  <2>3. handedIn' \in [Authors -> Seq(Report)] /\ handedIn'[a] = Append(handedIn[a], row)
        /\ \A b \in Authors : b # a => handedIn'[b] = handedIn[b]
    BY <1>1, <1>2, <2>1 DEF ReportTypeOK
  <2> QED
    BY <1>3, <2>1, <2>2, <2>3
<1>6. /\ \A d \in Submitters : submitters'[d] = IF d = c THEN RestingSubmitter ELSE submitters[d]
      /\ RestingSubmitter.step = "rest" /\ "rest" \notin Reading
  BY <1>1, <1>2 DEF ReportTypeOK, RestingSubmitter, Reading
<1>7. ReportTypeOK'
  <2>1. \A b \in Authors : Len(handedIn'[b]) <= MaxReports
    BY <1>1, <1>2, <1>3, <1>5 DEF ReportTypeOK
  <2>2. submitters' \in [Submitters -> {RestingSubmitter} \cup
       [step : {"weekly", "structured"}, author : Authors,
        after : 0 .. MaxReports, number : 1 .. MaxReports + 1]]
    BY <1>1, <1>2 DEF ReportTypeOK
  <2> QED
    BY <1>1, <1>2, <1>5, <2>1, <2>2 DEF ReportTypeOK
<1>8. OneIsStructured'
  BY <1>1, <1>6 DEF OneIsStructured, Reading
<1>9. ASSUME NEW d \in Submitters, NEW r \in Week, submitters'[d] = r
      PROVE  WasRead(r)'
  <2>1. d # c /\ submitters[d] = r
    BY <1>6, <1>9 DEF Week
  <2>2. WasRead(r) /\ r.author \in Authors /\ r.number \in 1 .. MaxReports + 1
    BY <1>1, <1>9, <2>1 DEF WeeksWereRead, Week
  <2>3. CASE r.author # a
    <3>1. handedIn'[r.author] = handedIn[r.author]
      BY <1>5, <2>2, <2>3
    <3>2. Latest(r.author, r.step)' = Latest(r.author, r.step)
      BY <2>2, <3>1, LatestStays
    <3> QED
      BY <2>2, <3>1, <3>2 DEF WasRead
  <2>4. CASE r.author = a
    <3>1. r.number # Len(handedIn'[a]) + 1 /\ r.number <= Len(handedIn'[a]) + 1
      BY <1>3, <1>5, <2>2, <2>4 DEF WasRead
    <3>2. ASSUME r.step = "structured", NEW n \in DOMAIN handedIn'[a], n >= r.number
          PROVE  handedIn'[a][n].sort = "weekly"
      <4>1. CASE n \in DOMAIN handedIn[a]
        BY <1>5, <2>2, <2>4, <3>2, <4>1 DEF WasRead
      <4>2. CASE n \notin DOMAIN handedIn[a]
        <5>1. n = Len(handedIn[a]) + 1
          BY ONLY <1>3, <1>5, <3>2, <4>2
        <5>2. submitters[c].step # "structured"
          BY <1>1, <2>1, <3>2 DEF OneIsStructured
        <5>3. row.sort = "weekly"
          BY <1>4, <5>2 DEF Reading
        <5> QED
          BY <1>5, <5>1, <5>3
      <4> QED
        BY <4>1, <4>2
    <3> QED
      BY <2>4, <3>1, <3>2 DEF WasRead
  <2> QED
    BY <2>3, <2>4
<1>10. WeeksWereRead'
  BY <1>9 DEF WeeksWereRead
<1>11. LatestIsRead
  <2>1. WasRead(submitters[c])
    BY <1>1, SubmitterRows DEF WeeksWereRead
  <2>2. Latest(a, submitters[c].step) = submitters[c].after
    BY <1>1, <1>2, <1>3, <2>1 DEF WasRead
  <2> QED
    BY <1>6, <2>2 DEF LatestIsRead
<1> QED
  BY <1>7, <1>8, <1>10, <1>11 DEF ReportsHold

\* A review changes the status of one report.
LEMMA ReviewReportKeeps ==
  ASSUME ReportsHold, NEW a \in Authors, NEW n \in 1 .. MaxReports,
         NEW status \in ReviewStatus, ReviewReport(a, n, status)
  PROVE  ReportsHold' /\ LatestIsRead
<1> DEFINE row == [handedIn[a][n] EXCEPT !.status = status]
           rows == [handedIn[a] EXCEPT ![n] = row]
<1>1. ReportTypeOK /\ OneIsStructured /\ WeeksWereRead
  BY DEF ReportsHold
<1>2. /\ n \in DOMAIN handedIn[a]
      /\ handedIn' = [handedIn EXCEPT ![a] = rows]
      /\ UNCHANGED <<writable, period, submitters>>
  BY DEF ReviewReport, weekVars
<1>3. row \in Report /\ row.sort = handedIn[a][n].sort
  BY <1>1, <1>2, ReportRows DEF Report
<1> HIDE DEF row
<1>4. /\ rows \in Seq(Report) /\ Len(rows) = Len(handedIn[a])
      /\ DOMAIN rows = DOMAIN handedIn[a] /\ rows[n] = row
      /\ \A m \in DOMAIN handedIn[a] : m # n => rows[m] = handedIn[a][m]
  BY <1>1, <1>2, <1>3, ReportRows, ExceptSeq, LenProperties
<1> HIDE DEF rows
<1>5. /\ handedIn' \in [Authors -> Seq(Report)] /\ handedIn'[a] = rows
      /\ \A b \in Authors : b # a => handedIn'[b] = handedIn[b]
  BY <1>1, <1>2, <1>4 DEF ReportTypeOK
<1>6. ASSUME NEW b \in Authors
      PROVE  /\ Len(handedIn'[b]) = Len(handedIn[b])
             /\ DOMAIN handedIn'[b] = DOMAIN handedIn[b]
             /\ \A m \in DOMAIN handedIn[b] : handedIn'[b][m].sort = handedIn[b][m].sort
  BY <1>3, <1>4, <1>5
<1>7. ReportTypeOK'
  BY <1>1, <1>2, <1>5, <1>6 DEF ReportTypeOK
<1>8. OneIsStructured'
  BY <1>1, <1>2 DEF OneIsStructured
<1>9. ASSUME NEW r \in Week, WasRead(r)
      PROVE  WasRead(r)'
  BY <1>6, <1>9, ReadStays
<1>10. WeeksWereRead'
  BY <1>1, <1>2, <1>9 DEF WeeksWereRead
<1>11. LatestIsRead
  BY <1>2 DEF LatestIsRead
<1> QED
  BY <1>7, <1>8, <1>10, <1>11 DEF ReportsHold

\* ReportsHold is inductive, and reports follow what their requests have read.
LEMMA ReportStep ==
  ASSUME ReportsHold, [ReportNext]_reportVars
  PROVE  ReportsHold' /\ LatestIsRead
<1>1. ReportTypeOK /\ OneIsStructured /\ WeeksWereRead
  BY DEF ReportsHold
<1>2. ASSUME UNCHANGED studentVars, writable' \in BOOLEAN, period' \in {"none", "open", "past"}
      PROVE  ReportsHold'
  <2>1. handedIn' = handedIn /\ submitters' = submitters
    BY <1>2 DEF studentVars
  <2>2. ReportTypeOK'
    BY <1>1, <1>2, <2>1 DEF ReportTypeOK
  <2>3. ASSUME NEW r \in Week, WasRead(r)
        PROVE  WasRead(r)'
    BY <2>1, <2>3, ReadStays
  <2> QED
    BY <1>1, <2>1, <2>2, <2>3 DEF ReportsHold, OneIsStructured, WeeksWereRead
<1>3. ASSUME UNCHANGED handedIn
      PROVE  LatestIsRead
  BY <1>3 DEF LatestIsRead
<1>4. CASE UNCHANGED reportVars
  BY <1>1, <1>2, <1>3, <1>4 DEF reportVars, studentVars, ReportTypeOK
<1>5. CASE ProjectTurns \/ PeriodPasses
  BY <1>1, <1>2, <1>3, <1>5 DEF ProjectTurns, PeriodPasses, studentVars, ReportTypeOK
<1>6. ASSUME NEW c \in Submitters, NEW a \in Authors, CheckWeekly(c, a) \/ CheckStructured(c, a)
      PROVE  ReportsHold' /\ LatestIsRead
  <2>1. ASSUME NEW sort \in Reading, Checked(c, a, sort), sort = "structured" => ~PeriodLocked
        PROVE  ReportsHold' /\ LatestIsRead
    BY <1>3, <2>1, CheckKeeps DEF Checked
  <2> QED
    BY <1>6, <2>1 DEF CheckWeekly, CheckStructured, Reading
<1>7. ASSUME NEW c \in Submitters, InsertWeekly(c) \/ InsertStructured(c)
      PROVE  ReportsHold' /\ LatestIsRead
  <2>1. (period = "past") \in BOOLEAN /\ FALSE \in BOOLEAN
    OBVIOUS
  <2>2. CASE InsertWeekly(c)
    BY <2>1, <2>2, InsertKeeps DEF InsertWeekly, Reading
  <2>3. CASE InsertStructured(c)
    <3>1. submitters[c].step \in Reading /\ Inserted(c, period = "past")
      BY <2>3 DEF InsertStructured, Reading
    <3> QED
      BY <2>1, <3>1, InsertKeeps
  <2> QED
    BY <1>7, <2>2, <2>3
<1>8. ASSUME NEW c \in Submitters, LoseReport(c)
      PROVE  ReportsHold' /\ LatestIsRead
  BY <1>3, <1>8, LoseKeeps DEF LoseReport
<1>9. CASE StructuredReport
  BY <1>6, <1>7, <1>8, <1>9 DEF StructuredReport
<1>10. CASE ReportPage
  BY <1>6, <1>7, <1>10, ReviewReportKeeps DEF ReportPage
<1> QED
  BY <1>4, <1>5, <1>9, <1>10 DEF ReportNext

\* Nothing has been handed in at first.
LEMMA ReportBegins == ReportInit => ReportsHold
<1> SUFFICES ASSUME ReportInit PROVE ReportsHold
  OBVIOUS
<1>1. << >> \in Seq(Report) /\ Len(<< >>) = 0
  OBVIOUS
<1>2. ReportTypeOK
  BY <1>1 DEF ReportInit, ReportTypeOK
<1>3. \A c \in Submitters : submitters[c].step = "rest"
  BY DEF ReportInit, RestingSubmitter
<1>4. OneIsStructured /\ WeeksWereRead
  BY <1>3 DEF OneIsStructured, WeeksWereRead, Week
<1> QED
  BY <1>2, <1>4 DEF ReportsHold

\* The number a structured report goes for is only taken by a weekly one.
LEMMA WeeklyOnesCollide ==
  ASSUME ReportsHold
  PROVE  OnlyWeeklyReportsCollide
<1> SUFFICES ASSUME NEW c \in Submitters, submitters[c].step = "structured", ~NumberIsFree(c)
             PROVE  handedIn[submitters[c].author][submitters[c].number].sort = "weekly"
  BY DEF OnlyWeeklyReportsCollide
<1>1. /\ ReportTypeOK /\ WeeksWereRead
      /\ submitters[c].author \in Authors /\ submitters[c].number \in 1 .. MaxReports + 1
  BY SubmitterRows DEF ReportsHold, Reading
<1>2. submitters[c].number \in DOMAIN handedIn[submitters[c].author]
  BY <1>1, ReportRows DEF NumberIsFree
<1>3. WasRead(submitters[c])
  BY <1>1, SubmitterRows DEF WeeksWereRead, Reading
<1> QED
  BY <1>1, <1>2, <1>3, ReportRows DEF WasRead, NumberIsFree

HIDE ReportAssumption

-----------------------------------------------------------------------------
(***************************************************************************)
(* The schedule of reports.                                                *)
(***************************************************************************)

USE PolicyAssumption

\* Rows are numbered by the change that made them, and versions and contents
\* never run ahead of the changes.
RowsAreNumbered ==
  /\ policy.row <= policies /\ policy.version <= policies
  /\ policy.row = 0 => policy = NoPolicy
  /\ \A k \in PolicyDesks :
       /\ policyShown[k].row <= policies
       /\ policyShown[k].row = 0 => policyShown[k] = NoPolicy

\* What a desk shows of the present row is an earlier version of it, or it.
ShownIsEarlier ==
  \A k \in PolicyDesks :
    policyShown[k].row = policy.row =>
      /\ policyShown[k].version <= policy.version
      /\ policyShown[k].version = policy.version =>
           policyShown[k].content = policy.content

PolicyHolds == PolicyTypeOK /\ RowsAreNumbered /\ ShownIsEarlier

\* PolicyHolds is inductive.
LEMMA PolicyStep ==
  ASSUME PolicyHolds, [PolicyNext]_policyVars
  PROVE  PolicyHolds'
<1>1. PolicyTypeOK /\ RowsAreNumbered /\ ShownIsEarlier
  BY DEF PolicyHolds
<1>2. CASE UNCHANGED <<policy, policies, policyShown>> /\ configurable' \in BOOLEAN
  BY <1>1, <1>2 DEF PolicyHolds, PolicyTypeOK, RowsAreNumbered, ShownIsEarlier
<1>3. ASSUME NEW k \in PolicyDesks, ShowPolicy(k)
      PROVE  PolicyHolds'
  <2>1. /\ UNCHANGED <<configurable, policy, policies>>
        /\ policyShown' \in [PolicyDesks -> Policy]
        /\ \A l \in PolicyDesks : policyShown'[l] = IF l = k THEN policy ELSE policyShown[l]
    BY <1>1, <1>3 DEF ShowPolicy, PolicyTypeOK
  <2>2. PolicyTypeOK'
    BY <1>1, <2>1 DEF PolicyTypeOK
  <2>3. RowsAreNumbered'
    BY <1>1, <2>1 DEF RowsAreNumbered
  <2>4. ShownIsEarlier'
    BY <1>1, <2>1 DEF ShownIsEarlier, PolicyTypeOK, Policy
  <2> QED
    BY <2>2, <2>3, <2>4 DEF PolicyHolds
<1>4. ASSUME NEW k \in PolicyDesks, NEW versioned \in BOOLEAN,
             ConfigurePolicy(k, versioned)
      PROVE  PolicyHolds'
  <2>1. /\ policies' = policies + 1 /\ policies < MaxPolicies
        /\ policy' = [version |-> policy.version + 1, content |-> policies',
                      row |-> IF policy = NoPolicy THEN policies' ELSE policy.row]
        /\ UNCHANGED <<configurable, policyShown>>
    BY <1>4 DEF ConfigurePolicy
  <2>2. /\ policies \in 0 .. MaxPolicies /\ policy.version \in Nat /\ policy.row \in Nat
        /\ policy.version <= policies /\ policy.row <= policies
        /\ policy.row = 0 => policy = NoPolicy
    BY <1>1 DEF PolicyTypeOK, Policy, RowsAreNumbered
  <2>3. /\ policies' \in 1 .. MaxPolicies /\ policy'.version = policy.version + 1
        /\ policy'.version \in 0 .. policies' /\ policy'.content = policies'
        /\ policy'.row \in 1 .. policies'
        /\ policy'.row = IF policy = NoPolicy THEN policies' ELSE policy.row
    BY <2>1, <2>2, PolicyAssumption
  <2>4. policy' \in Policy
    BY <2>1, <2>3, PolicyAssumption DEF Policy
  <2>5. PolicyTypeOK'
    BY <1>1, <2>1, <2>3, <2>4 DEF PolicyTypeOK
  <2>6. ASSUME NEW l \in PolicyDesks
        PROVE  /\ policyShown[l].row <= policies'
               /\ policyShown[l].row = 0 => policyShown[l] = NoPolicy
               /\ policyShown[l].row = policy'.row => policyShown[l].version < policy'.version
    <3>1. /\ policyShown[l].row \in Nat /\ policyShown[l].version \in Nat
          /\ policyShown[l].row <= policies
          /\ policyShown[l].row = 0 => policyShown[l] = NoPolicy
          /\ policyShown[l].row = policy.row => policyShown[l].version <= policy.version
      BY <1>1 DEF PolicyTypeOK, Policy, RowsAreNumbered, ShownIsEarlier
    <3>2. CASE policy = NoPolicy
      BY <2>1, <2>2, <2>3, <3>1, <3>2
    <3>3. CASE policy # NoPolicy
      BY <2>1, <2>2, <2>3, <3>1, <3>3
    <3> QED
      BY <3>2, <3>3
  <2>7. RowsAreNumbered'
    BY <2>1, <2>2, <2>3, <2>6 DEF RowsAreNumbered
  <2>8. ShownIsEarlier'
    <3>1. \A l \in PolicyDesks : policyShown[l].version \in Nat
      BY <1>1 DEF PolicyTypeOK, Policy
    <3> QED
      BY <2>1, <2>3, <2>6, <3>1 DEF ShownIsEarlier
  <2> QED
    BY <2>5, <2>7, <2>8 DEF PolicyHolds
<1>5. ASSUME NEW k \in PolicyDesks, RemovePolicy(k)
      PROVE  PolicyHolds'
  <2>1. policy' = NoPolicy /\ UNCHANGED <<configurable, policies, policyShown>>
    BY <1>5 DEF RemovePolicy
  <2>2. PolicyTypeOK'
    BY <1>1, <2>1, PolicyAssumption DEF PolicyTypeOK, Policy, NoPolicy
  <2>3. /\ RowsAreNumbered'
        /\ \A l \in PolicyDesks : policyShown[l].row = 0 => policyShown[l] = NoPolicy
    BY <1>1, <2>1 DEF PolicyTypeOK, RowsAreNumbered, NoPolicy
  <2>4. ShownIsEarlier'
    BY <2>1, <2>3 DEF ShownIsEarlier, NoPolicy
  <2> QED
    BY <2>2, <2>3, <2>4 DEF PolicyHolds
<1>6. CASE UNCHANGED policyVars
  BY <1>1, <1>2, <1>6 DEF policyVars, PolicyTypeOK
<1>7. CASE ArchiveOrReopen
  BY <1>1, <1>2, <1>7 DEF ArchiveOrReopen, PolicyTypeOK
<1> QED
  BY <1>3, <1>4, <1>5, <1>6, <1>7 DEF PolicyNext, PolicyPage

\* There is no policy at first.
LEMMA PolicyBegins == PolicyInit => PolicyHolds
<1> SUFFICES ASSUME PolicyInit PROVE PolicyHolds
  OBVIOUS
<1>1. NoPolicy \in Policy /\ NoPolicy.row = 0 /\ NoPolicy.version = 0 /\ 0 <= 0
  BY PolicyAssumption DEF NoPolicy, Policy
<1>2. PolicyTypeOK
  BY <1>1, PolicyAssumption DEF PolicyInit, PolicyTypeOK
<1>3. RowsAreNumbered /\ ShownIsEarlier
  BY <1>1 DEF PolicyInit, RowsAreNumbered, ShownIsEarlier
<1> QED
  BY <1>2, <1>3 DEF PolicyHolds

\* What a desk overwrites or removes.
ShownIsMeant ==
  \A k \in PolicyDesks :
    (ConfigurePolicy(k, TRUE) \/ RemovePolicy(k))
      => policyShown[k].content = policy.content \/ policyShown[k].row # policy.row

\* A version that agrees is that of the content, in one row.
LEMMA VersionsMean ==
  ASSUME PolicyHolds
  PROVE  ShownIsMeant
BY DEF PolicyHolds, ShownIsEarlier, ShownIsMeant, ConfigurePolicy, RemovePolicy, VersionAgrees

HIDE PolicyAssumption

-----------------------------------------------------------------------------
(***************************************************************************)
(* Writing and feedback.                                                   *)
(***************************************************************************)

USE WritingAssumption

\* Versions are never taken away: what a request works on is there.
VersionsStay ==
  \A r \in Requests :
    requests[r].at \in {"download", "feedback"} =>
      requests[r].number \in DOMAIN pieces[requests[r].piece].versions

WritingHolds == WritingTypeOK /\ VersionsStay

\* What a step does to a version nobody has kept in view.
NoneGoesBack ==
  \A p \in Pieces : \A n \in DOMAIN pieces[p].versions :
    pieces'[p].versions[n] < pieces[p].versions[n] =>
      \E r \in Requests :
        /\ requests[r].at = "download" /\ requests[r].status = submitted
        /\ requests[r].piece = p /\ requests[r].number = n
        /\ requests'[r] = RestingRequest

\* Versions are a sequence of statuses.
LEMMA VersionRows ==
  ASSUME WritingTypeOK, NEW p \in Pieces
  PROVE  /\ pieces[p] \in Piece /\ pieces[p].versions \in Seq(VersionStatus)
         /\ Len(pieces[p].versions) \in 0 .. MaxVersions
         /\ DOMAIN pieces[p].versions = 1 .. Len(pieces[p].versions)
         /\ \A n \in DOMAIN pieces[p].versions : pieces[p].versions[n] \in 1 .. 3
<1>1. pieces[p] \in Piece /\ pieces[p].versions \in Seq(VersionStatus)
      /\ Len(pieces[p].versions) <= MaxVersions
  BY DEF WritingTypeOK, Piece
<1> QED
  BY <1>1, ElementOfSeq, LenProperties DEF VersionStatus

\* Pieces that keep their versions keep them within the bound.
LEMMA PiecesKeepVersions ==
  ASSUME WritingTypeOK, \A p \in Pieces : pieces'[p].versions = pieces[p].versions
  PROVE  \A p \in Pieces : /\ Len(pieces'[p].versions) <= MaxVersions
                           /\ DOMAIN pieces[p].versions \subseteq DOMAIN pieces'[p].versions
<1> SUFFICES ASSUME NEW p \in Pieces
             PROVE  /\ Len(pieces'[p].versions) <= MaxVersions
                    /\ DOMAIN pieces[p].versions \subseteq DOMAIN pieces'[p].versions
  OBVIOUS
<1>1. pieces'[p].versions = pieces[p].versions
  OBVIOUS
<1>2. Len(pieces[p].versions) <= MaxVersions
  BY DEF WritingTypeOK
<1> QED
  BY <1>1, <1>2

\* What a request may have read.
LEMMA RequestRows ==
  ASSUME WritingTypeOK, NEW r \in Requests
  PROVE  \/ requests[r] = RestingRequest
         \/ /\ requests[r].at \in {"upload", "archive"}
            /\ requests[r].piece \in Pieces
         \/ /\ requests[r].at \in {"download", "feedback"}
            /\ requests[r].piece \in Pieces
            /\ requests[r].number \in 1 .. MaxVersions
            /\ requests[r].status \in VersionStatus
BY DEF WritingTypeOK

\* A request ends, and pieces keep their versions.
LEMMA RequestEnds ==
  ASSUME WritingHolds, NEW r \in Requests,
         requests' = [requests EXCEPT ![r] = RestingRequest],
         pieces' \in [Pieces -> Piece], UNCHANGED projectVars,
         \A p \in Pieces : /\ Len(pieces'[p].versions) <= MaxVersions
                           /\ DOMAIN pieces[p].versions \subseteq DOMAIN pieces'[p].versions
  PROVE  WritingHolds'
<1>1. WritingTypeOK /\ VersionsStay
  BY DEF WritingHolds
<1>2. /\ RestingRequest.at = "rest"
      /\ \A s \in Requests :
           requests'[s] = IF s = r THEN RestingRequest ELSE requests[s]
  BY <1>1 DEF WritingTypeOK, RestingRequest
<1>3. WritingTypeOK'
  BY <1>1 DEF WritingTypeOK, projectVars
<1>4. VersionsStay'
  BY <1>1, <1>2, RequestRows DEF VersionsStay
<1> QED
  BY <1>3, <1>4 DEF WritingHolds

\* Setting the status of one version changes that and nothing else.
SetsStatus(q, n, status) == pieces' = [pieces EXCEPT ![q].versions[n] = status]

OneStatusChanges(q, n, status) ==
  /\ pieces' \in [Pieces -> Piece]
  /\ \A p \in Pieces : /\ DOMAIN pieces'[p].versions = DOMAIN pieces[p].versions
                       /\ Len(pieces'[p].versions) <= MaxVersions
  /\ pieces'[q].versions[n] = status
  /\ \A p \in Pieces : \A m \in DOMAIN pieces[p].versions :
       (p = q /\ m = n) \/ pieces'[p].versions[m] = pieces[p].versions[m]

\* One version of one piece gets a status.
LEMMA StatusIsSet ==
  ASSUME WritingTypeOK, NEW q \in Pieces, NEW n \in DOMAIN pieces[q].versions,
         NEW status \in VersionStatus, SetsStatus(q, n, status)
  PROVE  OneStatusChanges(q, n, status)
<1> DEFINE rows == [pieces[q].versions EXCEPT ![n] = status]
<1>1. /\ rows \in Seq(VersionStatus) /\ Len(rows) = Len(pieces[q].versions)
      /\ DOMAIN rows = DOMAIN pieces[q].versions
      /\ rows[n] = status
      /\ \A m \in DOMAIN pieces[q].versions : m # n => rows[m] = pieces[q].versions[m]
  BY VersionRows, ExceptSeq, LenProperties
<1>2. pieces' = [pieces EXCEPT ![q] = [pieces[q] EXCEPT !.versions = rows]]
  BY DEF SetsStatus
<1> HIDE DEF rows
<1>3. pieces \in [Pieces -> Piece]
  BY DEF WritingTypeOK
<1>4. [pieces[q] EXCEPT !.versions = rows] \in Piece
      /\ [pieces[q] EXCEPT !.versions = rows].versions = rows
  BY <1>1, VersionRows DEF Piece
<1>5. /\ pieces' \in [Pieces -> Piece]
      /\ pieces'[q].versions = rows
      /\ \A p \in Pieces : p # q => pieces'[p] = pieces[p]
  BY <1>2, <1>3, <1>4
<1> QED
  BY <1>1, <1>5, VersionRows DEF OneStatusChanges

\* The sets of what a request may hold take what BeginManage puts there.
LEMMA ManageKeeps ==
  ASSUME WritingHolds, NEW r \in Requests, NEW p \in Pieces,
         NEW at \in {"upload", "archive"}, BeginManage(r, at, p)
  PROVE  WritingHolds'
<1> DEFINE read == [at |-> at, piece |-> p]
<1>1. WritingTypeOK /\ VersionsStay
  BY DEF WritingHolds
<1>2. requests' = [requests EXCEPT ![r] = read] /\ UNCHANGED <<projectVars, pieces>>
  BY DEF BeginManage
<1>3. read \in [at : {"upload", "archive"}, piece : Pieces] /\ read.at = at
  OBVIOUS
<1> HIDE DEF read
<1>4. \A s \in Requests : requests'[s] = IF s = r THEN read ELSE requests[s]
  BY <1>1, <1>2 DEF WritingTypeOK
<1>5. WritingTypeOK'
  BY <1>1, <1>2, <1>3 DEF WritingTypeOK, projectVars
<1>6. VersionsStay'
  BY <1>1, <1>2, <1>3, <1>4 DEF VersionsStay
<1> QED
  BY <1>5, <1>6 DEF WritingHolds

\* And what BeginReview puts there.
LEMMA ReviewBeginKeeps ==
  ASSUME WritingHolds, NEW r \in Requests, NEW p \in Pieces,
         NEW at \in {"download", "feedback"}, NEW n \in 1 .. MaxVersions, NEW u,
         BeginReview(r, at, p, n, u)
  PROVE  WritingHolds'
<1> DEFINE read == [at |-> at, piece |-> p, number |-> n, status |-> pieces[p].versions[n]]
<1>1. WritingTypeOK /\ VersionsStay
  BY DEF WritingHolds
<1>2. /\ requests' = [requests EXCEPT ![r] = read] /\ UNCHANGED <<projectVars, pieces>>
      /\ n \in DOMAIN pieces[p].versions
  BY DEF BeginReview
<1>3. /\ read \in [at : {"download", "feedback"}, piece : Pieces,
                   number : 1 .. MaxVersions, status : VersionStatus]
      /\ read.piece = p /\ read.number = n
  BY <1>1, <1>2, VersionRows DEF VersionStatus
<1> HIDE DEF read
<1>4. \A s \in Requests : requests'[s] = IF s = r THEN read ELSE requests[s]
  BY <1>1, <1>2 DEF WritingTypeOK
<1>5. WritingTypeOK'
  BY <1>1, <1>2, <1>3 DEF WritingTypeOK, projectVars
<1>6. VersionsStay'
  BY <1>1, <1>2, <1>3, <1>4 DEF VersionsStay
<1> QED
  BY <1>5, <1>6 DEF WritingHolds

\* A piece whose row changes but for its versions.
LEMMA RowChanges ==
  ASSUME WritingTypeOK, NEW p \in Pieces, NEW row \in Piece,
         row.versions = pieces[p].versions, pieces' = [pieces EXCEPT ![p] = row]
  PROVE  /\ pieces' \in [Pieces -> Piece]
         /\ \A q \in Pieces : pieces'[q].versions = pieces[q].versions
<1>1. pieces \in [Pieces -> Piece]
  BY DEF WritingTypeOK
<1>2. pieces' \in [Pieces -> Piece]
  BY <1>1
<1>3. \A q \in Pieces : pieces'[q] = IF q = p THEN row ELSE pieces[q]
  BY <1>1
<1> QED
  BY <1>2, <1>3

\* A piece gets its bound advisor.
LEMMA CreatePieceKeeps ==
  ASSUME WritingHolds, NEW p \in Pieces, CreatePiece(p)
  PROVE  WritingHolds' /\ NoneGoesBack
<1>1. WritingTypeOK /\ VersionsStay
  BY DEF WritingHolds
<1>2. /\ pieces' = [pieces EXCEPT ![p] =
           [[pieces[p] EXCEPT !.status = "active"] EXCEPT !.bound = advisor]]
      /\ UNCHANGED <<projectVars, requests>> /\ advisor \in Teachers
  BY <1>1 DEF CreatePiece, WritingTypeOK
<1>3. /\ pieces' \in [Pieces -> Piece]
      /\ \A q \in Pieces : pieces'[q].versions = pieces[q].versions
  <2> DEFINE row == [[pieces[p] EXCEPT !.status = "active"] EXCEPT !.bound = advisor]
  <2>1. pieces[p] \in Piece
    BY <1>1, VersionRows
  <2>2. row \in Piece /\ row.versions = pieces[p].versions
    BY <1>2, <2>1 DEF Piece
  <2>3. pieces' = [pieces EXCEPT ![p] = row]
    BY <1>2
  <2> HIDE DEF row
  <2> QED
    BY <1>1, <2>2, <2>3, RowChanges
<1>4. WritingTypeOK'
  BY <1>1, <1>2, <1>3 DEF WritingTypeOK, projectVars
<1>5. VersionsStay'
  BY <1>1, <1>2, <1>3, RequestRows DEF VersionsStay
<1>6. NoneGoesBack
  BY <1>1, <1>3, VersionRows DEF NoneGoesBack
<1> QED
  BY <1>4, <1>5, <1>6 DEF WritingHolds

\* A version is added behind the others.
LEMMA UploadKeeps ==
  ASSUME WritingHolds, NEW r \in Requests, FinishUpload(r)
  PROVE  WritingHolds' /\ NoneGoesBack
<1> DEFINE q == requests[r].piece
           rows == Append(pieces[q].versions, submitted)
<1>1. WritingTypeOK /\ VersionsStay /\ q \in Pieces
  BY RequestRows DEF WritingHolds, FinishUpload, RestingRequest
<1>2. /\ pieces' = [pieces EXCEPT ![q] = [pieces[q] EXCEPT !.versions = rows]]
      /\ Len(pieces[q].versions) < MaxVersions
      /\ requests' = [requests EXCEPT ![r] = RestingRequest] /\ UNCHANGED projectVars
  BY DEF FinishUpload
<1>3. /\ rows \in Seq(VersionStatus) /\ Len(rows) = Len(pieces[q].versions) + 1
      /\ DOMAIN rows = 1 .. Len(rows)
      /\ \A n \in DOMAIN pieces[q].versions : rows[n] = pieces[q].versions[n]
  BY <1>1, VersionRows, AppendProperties, LenProperties DEF VersionStatus, submitted
<1> HIDE DEF rows
<1>4. [pieces[q] EXCEPT !.versions = rows] \in Piece
      /\ [pieces[q] EXCEPT !.versions = rows].versions = rows
  BY <1>1, <1>3, VersionRows DEF Piece
<1>5. /\ pieces' \in [Pieces -> Piece] /\ pieces'[q].versions = rows
      /\ \A p \in Pieces : p # q => pieces'[p] = pieces[p]
  BY <1>1, <1>2, <1>4 DEF WritingTypeOK
<1>6. \A p \in Pieces : /\ Len(pieces'[p].versions) <= MaxVersions
                        /\ DOMAIN pieces[p].versions \subseteq DOMAIN pieces'[p].versions
  <2>1. /\ Len(pieces[q].versions) \in Nat
        /\ DOMAIN pieces[q].versions = 1 .. Len(pieces[q].versions)
    BY <1>1, VersionRows
  <2>2. Len(rows) = Len(pieces[q].versions) + 1 /\ MaxVersions \in Nat
    BY <1>3, WritingAssumption
  <2>3. Len(rows) <= MaxVersions
    BY <1>2, <2>1, <2>2
  <2>4. DOMAIN pieces[q].versions \subseteq DOMAIN rows
    BY <1>3, <2>1, <2>2
  <2> QED
    BY <1>1, <1>5, <2>3, <2>4, VersionRows
<1>7. WritingHolds'
  BY <1>2, <1>5, <1>6, RequestEnds
<1>8. \A p \in Pieces : \A m \in DOMAIN pieces[p].versions :
        ~(pieces'[p].versions[m] < pieces[p].versions[m])
  <2> SUFFICES ASSUME NEW p \in Pieces, NEW m \in DOMAIN pieces[p].versions
               PROVE  ~(pieces'[p].versions[m] < pieces[p].versions[m])
    OBVIOUS
  <2>1. pieces'[p].versions[m] = pieces[p].versions[m]
    BY <1>3, <1>5
  <2>2. pieces[p].versions[m] \in 1 .. 3
    BY <1>1, VersionRows
  <2> QED
    BY <2>1, <2>2
<1> QED
  BY <1>7, <1>8 DEF NoneGoesBack

\* A piece is archived with its versions.
LEMMA ArchiveKeeps ==
  ASSUME WritingHolds, NEW r \in Requests, FinishArchive(r)
  PROVE  WritingHolds' /\ NoneGoesBack
<1> DEFINE q == requests[r].piece
<1>1. WritingTypeOK /\ VersionsStay /\ q \in Pieces
  BY RequestRows DEF WritingHolds, FinishArchive, RestingRequest
<1>2. /\ pieces' = [pieces EXCEPT ![q] = [pieces[q] EXCEPT !.status = "archived"]]
      /\ requests' = [requests EXCEPT ![r] = RestingRequest] /\ UNCHANGED projectVars
  BY DEF FinishArchive
<1>3. /\ pieces' \in [Pieces -> Piece]
      /\ \A p \in Pieces : pieces'[p].versions = pieces[p].versions
  <2> DEFINE row == [pieces[q] EXCEPT !.status = "archived"]
  <2>1. pieces[q] \in Piece
    BY <1>1, VersionRows
  <2>2. row \in Piece /\ row.versions = pieces[q].versions
    BY <2>1 DEF Piece
  <2>3. pieces' = [pieces EXCEPT ![q] = row]
    BY <1>2
  <2> HIDE DEF row
  <2> QED
    BY <1>1, <2>2, <2>3, RowChanges
<1>4. WritingHolds'
  BY <1>1, <1>2, <1>3, PiecesKeepVersions, RequestEnds DEF WritingHolds
<1>5. NoneGoesBack
  BY <1>1, <1>3, VersionRows DEF NoneGoesBack
<1> QED
  BY <1>4, <1>5

\* A download is recorded, and may hide feedback it has not seen.
LEMMA DownloadKeeps ==
  ASSUME WritingHolds, NEW r \in Requests, FinishDownload(r)
  PROVE  WritingHolds' /\ NoneGoesBack
<1> DEFINE q == requests[r].piece
           n == requests[r].number
<1>1. /\ WritingTypeOK /\ VersionsStay /\ q \in Pieces /\ n \in DOMAIN pieces[q].versions
      /\ requests[r].at = "download"
  BY RequestRows DEF WritingHolds, FinishDownload, RestingRequest, VersionsStay
<1>2. requests' = [requests EXCEPT ![r] = RestingRequest] /\ UNCHANGED projectVars
  BY DEF FinishDownload
<1>3. CASE requests[r].status # submitted
  <2>1. pieces' = pieces
    BY <1>3 DEF FinishDownload
  <2>2. pieces' \in [Pieces -> Piece]
    BY <1>1, <2>1 DEF WritingTypeOK
  <2>3. WritingHolds'
    BY <1>1, <1>2, <2>1, <2>2, PiecesKeepVersions, RequestEnds DEF WritingHolds
  <2> QED
    BY <1>1, <2>1, <2>3, VersionRows DEF NoneGoesBack
<1>4. CASE requests[r].status = submitted
  <2>1. pieces' = [pieces EXCEPT ![q].versions[n] = underReview]
        /\ underReview \in VersionStatus
    BY <1>4 DEF FinishDownload, underReview, VersionStatus
  <2>2. /\ pieces' \in [Pieces -> Piece]
        /\ \A p \in Pieces : /\ DOMAIN pieces'[p].versions = DOMAIN pieces[p].versions
                             /\ Len(pieces'[p].versions) <= MaxVersions
        /\ \A p \in Pieces : \A m \in DOMAIN pieces[p].versions :
             (p = q /\ m = n) \/ pieces'[p].versions[m] = pieces[p].versions[m]
    <3>1. OneStatusChanges(q, n, underReview)
      BY <1>1, <2>1, StatusIsSet DEF SetsStatus
    <3> QED
      BY <3>1 DEF OneStatusChanges
  <2>3. WritingHolds'
    BY <1>2, <2>2, RequestEnds
  <2>4. requests'[r] = RestingRequest
    BY <1>1, <1>2 DEF WritingTypeOK
  <2>5. ASSUME NEW p \in Pieces, NEW m \in DOMAIN pieces[p].versions,
               pieces'[p].versions[m] < pieces[p].versions[m]
        PROVE  p = q /\ m = n
    <3>1. pieces[p].versions[m] \in 1 .. 3
      BY <1>1, <2>5, VersionRows
    <3> QED
      BY <2>2, <2>5, <3>1
  <2>6. NoneGoesBack
    BY <1>1, <1>4, <2>4, <2>5 DEF NoneGoesBack
  <2> QED
    BY <2>3, <2>6
<1> QED
  BY <1>3, <1>4

\* Feedback is as far as a version gets.
LEMMA FeedbackKeeps ==
  ASSUME WritingHolds, NEW r \in Requests, FinishFeedback(r)
  PROVE  WritingHolds' /\ NoneGoesBack
<1> DEFINE q == requests[r].piece
           n == requests[r].number
<1>1. /\ WritingTypeOK /\ VersionsStay /\ q \in Pieces /\ n \in DOMAIN pieces[q].versions
  BY RequestRows DEF WritingHolds, FinishFeedback, RestingRequest, VersionsStay
<1>2. requests' = [requests EXCEPT ![r] = RestingRequest] /\ UNCHANGED projectVars
  BY DEF FinishFeedback
<1>3. pieces' = [pieces EXCEPT ![q].versions[n] = feedbackAvailable]
      /\ feedbackAvailable \in VersionStatus /\ feedbackAvailable = 3
  BY DEF FinishFeedback, feedbackAvailable, VersionStatus
<1>4. /\ pieces' \in [Pieces -> Piece] /\ pieces'[q].versions[n] = feedbackAvailable
      /\ \A p \in Pieces : /\ DOMAIN pieces'[p].versions = DOMAIN pieces[p].versions
                           /\ Len(pieces'[p].versions) <= MaxVersions
      /\ \A p \in Pieces : \A m \in DOMAIN pieces[p].versions :
           (p = q /\ m = n) \/ pieces'[p].versions[m] = pieces[p].versions[m]
  <2>1. OneStatusChanges(q, n, feedbackAvailable)
    BY <1>1, <1>3, StatusIsSet DEF SetsStatus
  <2> QED
    BY <2>1 DEF OneStatusChanges
<1>5. WritingHolds'
  BY <1>2, <1>4, RequestEnds
<1>6. \A p \in Pieces : \A m \in DOMAIN pieces[p].versions :
        ~(pieces'[p].versions[m] < pieces[p].versions[m])
  <2>1. ASSUME NEW p \in Pieces, NEW m \in DOMAIN pieces[p].versions
        PROVE  ~(pieces'[p].versions[m] < pieces[p].versions[m])
    <3>1. pieces[p].versions[m] \in 1 .. 3
      BY <1>1, <2>1, VersionRows
    <3>2. CASE p = q /\ m = n
      BY <1>4, <3>1, <3>2 DEF feedbackAvailable
    <3>3. CASE ~(p = q /\ m = n)
      BY <1>4, <2>1, <3>1, <3>3
    <3> QED
      BY <3>2, <3>3
  <2> QED
    BY <2>1
<1> QED
  BY <1>5, <1>6 DEF NoneGoesBack

\* WritingHolds is inductive, and no step hides feedback but a stale download.
LEMMA WritingStep ==
  ASSUME WritingHolds, [WritingNext]_writingVars
  PROVE  WritingHolds' /\ NoneGoesBack
<1>1. WritingTypeOK /\ VersionsStay
  BY DEF WritingHolds
<1>2. ASSUME UNCHANGED pieceVars, openProject' \in BOOLEAN, advisor' \in Teachers
      PROVE  WritingHolds'
  <2>1. pieces' = pieces /\ requests' = requests
    BY <1>2 DEF pieceVars
  <2> QED
    BY <1>1, <1>2, <2>1 DEF WritingHolds, WritingTypeOK, VersionsStay
<1>3. ASSUME UNCHANGED pieces
      PROVE  NoneGoesBack
  BY <1>1, <1>3, VersionRows DEF NoneGoesBack
<1>4. CASE UNCHANGED writingVars
  BY <1>1, <1>2, <1>3, <1>4 DEF writingVars, projectVars, pieceVars, WritingTypeOK
<1>5. CASE ProjectMoves
  BY <1>1, <1>2, <1>3, <1>5 DEF ProjectMoves, pieceVars, WritingTypeOK
<1>6. CASE Authoring
  <2>1. ASSUME NEW r \in Requests, NEW p \in Pieces, NEW at \in {"upload", "archive"},
               BeginManage(r, at, p)
        PROVE  WritingHolds' /\ NoneGoesBack
    BY <1>3, <2>1, ManageKeeps DEF BeginManage
  <2> QED
    BY <1>6, <2>1, CreatePieceKeeps, ArchiveKeeps DEF Authoring
<1>7. CASE ReviewPages
  <2>1. ASSUME NEW r \in Requests, NEW p \in Pieces, NEW at \in {"download", "feedback"},
               NEW n \in 1 .. MaxVersions, NEW u, BeginReview(r, at, p, n, u)
        PROVE  WritingHolds' /\ NoneGoesBack
    BY <1>3, <2>1, ReviewBeginKeeps DEF BeginReview
  <2> QED
    BY <1>7, <2>1, UploadKeeps, DownloadKeeps, FeedbackKeeps DEF ReviewPages
<1> QED
  BY <1>4, <1>5, <1>6, <1>7 DEF WritingNext

\* There is no piece at first.
LEMMA WritingBegins == WritingInit => WritingHolds
<1> SUFFICES ASSUME WritingInit PROVE WritingHolds
  OBVIOUS
<1>1. << >> \in Seq(VersionStatus) /\ Len(<< >>) = 0
  OBVIOUS
<1>2. WritingTypeOK
  BY <1>1 DEF WritingInit, WritingTypeOK, Piece
<1>3. VersionsStay
  BY DEF WritingInit, VersionsStay, RestingRequest
<1> QED
  BY <1>2, <1>3 DEF WritingHolds

HIDE WritingAssumption

-----------------------------------------------------------------------------
(***************************************************************************)
(* Anchor projects.                                                        *)
(***************************************************************************)

USE AnchorAssumption

\* The creators still to make an anchor project of t.
Making(t) == {c \in Creators : creators[c] = t}

AnchorsHold == AnchorTypeOK /\ AnchorsFollowLookups

\* Sets of creators are finite.
LEMMA MakingIsFinite ==
  ASSUME NEW t
  PROVE  /\ IsFiniteSet(Making(t)) /\ Cardinality(Making(t)) \in Nat
         /\ Cardinality(Creators) \in Nat
         /\ Cardinality(Making(t)) <= Cardinality(Creators)
<1>1. Making(t) \subseteq Creators
  BY DEF Making
<1> QED
  BY <1>1, FS_Subset, FS_CardinalityType

\* _standalone_writing_anchor_project_for finds no anchor project.
LEMMA LookKeeps ==
  ASSUME AnchorsHold, NEW c \in Creators, LookForAnchor(c)
  PROVE  AnchorsHold'
<1>1. AnchorTypeOK /\ AnchorsFollowLookups
  BY DEF AnchorsHold
<1>2. /\ creators' \in [Creators -> {"rest"} \cup Keepers]
      /\ \A d \in Creators : creators'[d] = IF d = c THEN keeper ELSE creators[d]
      /\ creators[c] = "rest" /\ anchors[keeper] = 0
      /\ UNCHANGED <<keeper, anchors, retired>>
  BY <1>1 DEF LookForAnchor, AnchorTypeOK
<1>3. AnchorTypeOK'
  BY <1>1, <1>2 DEF AnchorTypeOK
<1>4. ASSUME NEW t \in Keepers
      PROVE  anchors'[t] + Cardinality(Making(t)') <= Cardinality(Creators)
  <2>1. CASE t = keeper
    <3>1. /\ Cardinality(Making(t)') \in Nat
          /\ Cardinality(Making(t)') <= Cardinality(Creators)
          /\ Cardinality(Creators) \in Nat
      <4>1. Making(t)' \subseteq Creators
        BY DEF Making
      <4> QED
        BY <4>1, FS_Subset, FS_CardinalityType
    <3> QED
      BY <1>2, <2>1, <3>1
  <2>2. CASE t # keeper
    <3>1. t # "rest"
      BY <1>4
    <3>2. Making(t)' = Making(t)
      BY <1>2, <2>2, <3>1 DEF Making
    <3>3. anchors[t] + Cardinality(Making(t)) <= Cardinality(Creators)
      BY <1>1, <1>4 DEF AnchorsFollowLookups, Making
    <3> QED
      BY <1>2, <3>2, <3>3
  <2> QED
    BY <2>1, <2>2
<1>5. AnchorsFollowLookups'
  BY <1>4 DEF AnchorsFollowLookups, Making
<1> QED
  BY <1>3, <1>5 DEF AnchorsHold

\* The anchor project is made for the advisor that was found.
LEMMA CreateKeeps ==
  ASSUME AnchorsHold, NEW c \in Creators, CreateAnchor(c)
  PROVE  AnchorsHold'
<1> DEFINE k == creators[c]
<1>1. AnchorTypeOK /\ AnchorsFollowLookups
  BY DEF AnchorsHold
<1>2. k \in Keepers /\ k # "rest" /\ anchors \in [Keepers -> Nat]
  BY <1>1 DEF CreateAnchor, AnchorTypeOK
<1>3. /\ creators' \in [Creators -> {"rest"} \cup Keepers]
      /\ \A d \in Creators : creators'[d] = IF d = c THEN "rest" ELSE creators[d]
      /\ anchors' \in [Keepers -> Nat] /\ anchors'[k] = anchors[k] + 1
      /\ \A t \in Keepers : t # k => anchors'[t] = anchors[t]
      /\ UNCHANGED <<keeper, retired>>
  BY <1>1, <1>2 DEF CreateAnchor, AnchorTypeOK
<1>4. AnchorTypeOK'
  BY <1>1, <1>3 DEF AnchorTypeOK
<1>5. ASSUME NEW t \in Keepers
      PROVE  anchors'[t] + Cardinality(Making(t)') <= Cardinality(Creators)
  <2>1. t # "rest" /\ anchors[t] \in Nat
    BY <1>2, <1>5
  <2>2. /\ anchors[t] + Cardinality(Making(t)) <= Cardinality(Creators)
        /\ IsFiniteSet(Making(t)) /\ Cardinality(Making(t)) \in Nat
        /\ Cardinality(Creators) \in Nat
    BY <1>1, <1>5, MakingIsFinite DEF AnchorsFollowLookups, Making
  <2>3. CASE t = k
    <3>1. Making(t)' = Making(t) \ {c} /\ c \in Making(t)
      BY <1>3, <2>1, <2>3 DEF Making
    <3>2. Cardinality(Making(t)') = Cardinality(Making(t)) - 1
      BY <2>2, <3>1, FS_RemoveElement
    <3>3. anchors'[t] = anchors[t] + 1
      BY <1>3, <2>3
    <3> QED
      BY <2>1, <2>2, <3>2, <3>3
  <2>4. CASE t # k
    <3>1. Making(t)' = Making(t)
      BY <1>3, <2>1, <2>4 DEF Making
    <3> QED
      BY <1>3, <1>5, <2>2, <2>4, <3>1
  <2> QED
    BY <2>3, <2>4
<1>6. AnchorsFollowLookups'
  BY <1>5 DEF AnchorsFollowLookups, Making
<1> QED
  BY <1>4, <1>6 DEF AnchorsHold

\* AnchorsHold is inductive.
LEMMA AnchorStep ==
  ASSUME AnchorsHold, [AnchorNext]_anchorVars
  PROVE  AnchorsHold'
<1>1. AnchorTypeOK /\ AnchorsFollowLookups
  BY DEF AnchorsHold
<1>2. CASE UNCHANGED anchorVars
  BY <1>1, <1>2 DEF anchorVars, AnchorsHold, AnchorTypeOK, AnchorsFollowLookups
<1>3. CASE KeeperMoves
  BY <1>1, <1>3 DEF KeeperMoves, AnchorsHold, AnchorTypeOK, AnchorsFollowLookups
<1>4. ASSUME NEW k \in Keepers, ArchiveAnchor(k)
      PROVE  AnchorsHold'
  <2>1. /\ anchors' \in [Keepers -> Nat] /\ retired' \in 0 .. MaxAnchors
        /\ \A t \in Keepers : anchors'[t] <= anchors[t]
        /\ UNCHANGED <<keeper, creators>>
    BY <1>1, <1>4 DEF ArchiveAnchor, AnchorTypeOK
  <2>2. AnchorTypeOK'
    BY <1>1, <2>1 DEF AnchorTypeOK
  <2>3. ASSUME NEW t \in Keepers
        PROVE  anchors'[t] + Cardinality(Making(t)) <= Cardinality(Creators)
    <3>1. /\ anchors[t] + Cardinality(Making(t)) <= Cardinality(Creators)
          /\ Cardinality(Making(t)) \in Nat /\ Cardinality(Creators) \in Nat
      BY <1>1, <2>3, MakingIsFinite DEF AnchorsFollowLookups, Making
    <3>2. anchors[t] \in Nat /\ anchors'[t] \in Nat /\ anchors'[t] <= anchors[t]
      BY <1>1, <2>1, <2>3 DEF AnchorTypeOK
    <3> QED
      BY <3>1, <3>2
  <2>4. AnchorsFollowLookups'
    BY <2>1, <2>3 DEF AnchorsFollowLookups, Making
  <2> QED
    BY <2>2, <2>4 DEF AnchorsHold
<1> QED
  BY <1>2, <1>3, <1>4, LookKeeps, CreateKeeps DEF AnchorNext, Standalone

\* Nobody has looked yet.
LEMMA AnchorBegins == AnchorInit => AnchorsHold
<1> SUFFICES ASSUME AnchorInit PROVE AnchorsHold
  OBVIOUS
<1>1. AnchorTypeOK
  BY DEF AnchorInit, AnchorTypeOK
<1>2. ASSUME NEW t \in Keepers
      PROVE  anchors[t] + Cardinality(Making(t)) <= Cardinality(Creators)
  BY <1>2, MakingIsFinite DEF AnchorInit
<1>3. AnchorsFollowLookups
  BY <1>2 DEF AnchorsFollowLookups, Making
<1> QED
  BY <1>1, <1>3 DEF AnchorsHold

HIDE AnchorAssumption

-----------------------------------------------------------------------------
(***************************************************************************)
(* Review assignments.                                                     *)
(***************************************************************************)

USE ReviewAssignmentAssumption

\* Assignments are removed once, and never forgotten: at most one is active,
\* and what a desk shows is there.
OneIsActive ==
  /\ \A m, n \in DOMAIN assignments :
       assignments[m].active /\ assignments[n].active => m = n
  /\ \A n \in DOMAIN assignments :
       assignments[n].active => assignments[n].version = 1
  /\ \A k \in AssignmentDesks : Len(assignmentShown[k]) <= Len(assignments)

AssignmentsHold == AssignmentTypeOK /\ OneIsActive

\* Assignments are a sequence of rows.
LEMMA AssignmentRows ==
  ASSUME AssignmentTypeOK
  PROVE  /\ Len(assignments) \in Nat /\ DOMAIN assignments = 1 .. Len(assignments)
         /\ \A n \in DOMAIN assignments : assignments[n] \in Assignment
         /\ \A k \in AssignmentDesks :
              /\ Len(assignmentShown[k]) \in Nat
              /\ DOMAIN assignmentShown[k] = 1 .. Len(assignmentShown[k])
<1>1. assignments \in Seq(Assignment)
  BY DEF AssignmentTypeOK
<1>2. \A k \in AssignmentDesks : assignmentShown[k] \in Seq(Assignment)
  BY DEF AssignmentTypeOK
<1> QED
  BY <1>1, <1>2, ElementOfSeq, LenProperties

\* assign_reviewer adds one, when none is active.
LEMMA AssignKeeps ==
  ASSUME AssignmentsHold, AssignReviewer
  PROVE  AssignmentsHold'
<1> DEFINE row == [active |-> TRUE, version |-> 1]
<1>1. AssignmentTypeOK /\ OneIsActive
  BY DEF AssignmentsHold
<1>2. /\ assignments' = Append(assignments, row) /\ Len(assignments) < MaxAssigned
      /\ \A n \in DOMAIN assignments : ~assignments[n].active
      /\ UNCHANGED <<reviewing, assignmentShown>>
  BY DEF AssignReviewer, ActiveAssignments
<1>3. row \in Assignment /\ row.active /\ row.version = 1
  BY DEF Assignment
<1> HIDE DEF row
<1>4. /\ assignments' \in Seq(Assignment) /\ Len(assignments') = Len(assignments) + 1
      /\ assignments'[Len(assignments) + 1] = row
      /\ \A n \in 1 .. Len(assignments) : assignments'[n] = assignments[n]
  BY <1>1, <1>2, <1>3, AppendProperties DEF AssignmentTypeOK
<1>5. /\ Len(assignments) \in Nat /\ DOMAIN assignments = 1 .. Len(assignments)
      /\ DOMAIN assignments' = 1 .. Len(assignments) + 1
      /\ \A k \in AssignmentDesks : Len(assignmentShown[k]) \in Nat
  BY <1>1, <1>4, AssignmentRows, LenProperties
<1>6. AssignmentTypeOK'
  BY <1>1, <1>2, <1>4, <1>5 DEF AssignmentTypeOK
<1>7. \A n \in DOMAIN assignments' :
        \/ n \in DOMAIN assignments /\ assignments'[n] = assignments[n]
        \/ n = Len(assignments) + 1
  BY <1>4, <1>5
<1>8. OneIsActive'
  BY <1>1, <1>2, <1>3, <1>4, <1>5, <1>7 DEF OneIsActive
<1> QED
  BY <1>6, <1>8 DEF AssignmentsHold

\* remove_review_assignment ends the one that was active.
LEMMA RemoveKeeps ==
  ASSUME AssignmentsHold, NEW k \in AssignmentDesks, NEW n \in 1 .. MaxAssigned,
         RemoveAssignment(k, n)
  PROVE  AssignmentsHold' /\ ~MayReview'
<1> DEFINE row == [active |-> FALSE, version |-> assignments[n].version + 1]
<1>1. AssignmentTypeOK /\ OneIsActive
  BY DEF AssignmentsHold
<1>2. n \in DOMAIN assignments
  BY <1>1, AssignmentRows DEF RemoveAssignment, OneIsActive
<1>3. /\ assignments' = [assignments EXCEPT ![n] = row]
      /\ assignments[n].active /\ assignments[n].version = 1
      /\ UNCHANGED <<reviewing, assignmentShown>>
  BY <1>1, <1>2 DEF RemoveAssignment, OneIsActive
<1>4. row \in Assignment /\ ~row.active
  BY <1>3 DEF Assignment
<1> HIDE DEF row
<1>5. /\ assignments' \in Seq(Assignment) /\ Len(assignments') = Len(assignments)
      /\ DOMAIN assignments' = DOMAIN assignments
      /\ assignments'[n] = row
      /\ \A m \in DOMAIN assignments : m # n => assignments'[m] = assignments[m]
  BY <1>1, <1>2, <1>3, <1>4, ExceptSeq, LenProperties DEF AssignmentTypeOK
<1>6. AssignmentTypeOK'
  BY <1>1, <1>3, <1>5 DEF AssignmentTypeOK
<1>7. \A m \in DOMAIN assignments' : ~assignments'[m].active
  BY <1>1, <1>2, <1>3, <1>4, <1>5 DEF OneIsActive
<1>8. OneIsActive'
  BY <1>1, <1>3, <1>5, <1>7 DEF OneIsActive
<1>9. ~MayReview'
  BY <1>7 DEF MayReview, ActiveAssignments
<1> QED
  BY <1>6, <1>8, <1>9 DEF AssignmentsHold

\* What a removal leaves.
RemovalsEnd ==
  \A k \in AssignmentDesks, n \in 1 .. MaxAssigned : RemoveAssignment(k, n) => ~MayReview'

\* AssignmentsHold is inductive, and a removal ends access.
LEMMA AssignmentStep ==
  ASSUME AssignmentsHold, [AssignmentNext]_assignmentVars
  PROVE  AssignmentsHold' /\ RemovalsEnd
<1>1. AssignmentTypeOK /\ OneIsActive
  BY DEF AssignmentsHold
<1>2. RemovalsEnd
  BY RemoveKeeps DEF RemovalsEnd
<1>3. ASSUME UNCHANGED <<assignments, assignmentShown>>, reviewing' \in BOOLEAN
      PROVE  AssignmentsHold'
  <2>1. assignments' = assignments /\ assignmentShown' = assignmentShown
    BY <1>3
  <2>2. AssignmentTypeOK'
    BY <1>1, <1>3, <2>1 DEF AssignmentTypeOK
  <2>3. OneIsActive'
    BY <1>1, <2>1 DEF OneIsActive
  <2> QED
    BY <2>2, <2>3 DEF AssignmentsHold
<1>4. ASSUME NEW k \in AssignmentDesks, ShowAssignments(k)
      PROVE  AssignmentsHold'
  <2>1. /\ UNCHANGED <<reviewing, assignments>>
        /\ assignmentShown' \in [AssignmentDesks -> Seq(Assignment)]
        /\ \A l \in AssignmentDesks :
             assignmentShown'[l] = IF l = k THEN assignments ELSE assignmentShown[l]
    BY <1>1, <1>4 DEF ShowAssignments, AssignmentTypeOK
  <2>2. AssignmentTypeOK'
    BY <1>1, <2>1 DEF AssignmentTypeOK
  <2>3. OneIsActive'
    BY <1>1, <2>1, AssignmentRows DEF OneIsActive
  <2> QED
    BY <2>2, <2>3 DEF AssignmentsHold
<1>5. CASE UNCHANGED assignmentVars
  BY <1>1, <1>2, <1>3, <1>5 DEF assignmentVars, AssignmentTypeOK
<1>6. CASE ReviewerChanges
  BY <1>1, <1>2, <1>3, <1>6 DEF ReviewerChanges, AssignmentTypeOK
<1> QED
  BY <1>2, <1>4, <1>5, <1>6, AssignKeeps, RemoveKeeps DEF AssignmentNext

\* Nobody is assigned at first.
LEMMA AssignmentBegins == AssignmentInit => AssignmentsHold
<1> SUFFICES ASSUME AssignmentInit PROVE AssignmentsHold
  OBVIOUS
<1>1. << >> \in Seq(Assignment) /\ Len(<< >>) = 0 /\ DOMAIN << >> = {}
  OBVIOUS
<1>2. AssignmentTypeOK
  BY <1>1 DEF AssignmentInit, AssignmentTypeOK
<1>3. OneIsActive
  BY <1>1 DEF AssignmentInit, OneIsActive
<1> QED
  BY <1>2, <1>3 DEF AssignmentsHold

HIDE ReviewAssignmentAssumption

-----------------------------------------------------------------------------
(***************************************************************************)
(* All parts.                                                              *)
(***************************************************************************)

SubmissionsHold ==
  /\ PeriodsHold /\ ReportsHold /\ PolicyHolds
  /\ WritingHolds /\ AnchorsHold /\ AssignmentsHold

\* Each part keeps what is known of it.
LEMMA PeriodsAlwaysHold == PeriodSpec => []PeriodsHold
<1>1. PeriodsHold /\ [PeriodNext]_periodVars => PeriodsHold'
  BY PeriodStep
<1> QED
  BY <1>1, PeriodBegins, PTL DEF PeriodSpec

\* The same for reports.
LEMMA ReportsAlwaysHold == ReportSpec => []ReportsHold
<1>1. ReportsHold /\ [ReportNext]_reportVars => ReportsHold'
  BY ReportStep
<1> QED
  BY <1>1, ReportBegins, PTL DEF ReportSpec

\* The same for the policy.
LEMMA PolicyAlwaysHolds == PolicySpec => []PolicyHolds
<1>1. PolicyHolds /\ [PolicyNext]_policyVars => PolicyHolds'
  BY PolicyStep
<1> QED
  BY <1>1, PolicyBegins, PTL DEF PolicySpec

\* The same for writing.
LEMMA WritingAlwaysHolds == WritingSpec => []WritingHolds
<1>1. WritingHolds /\ [WritingNext]_writingVars => WritingHolds'
  BY WritingStep
<1> QED
  BY <1>1, WritingBegins, PTL DEF WritingSpec

\* The same for anchor projects.
LEMMA AnchorsAlwaysHold == AnchorSpec => []AnchorsHold
<1>1. AnchorsHold /\ [AnchorNext]_anchorVars => AnchorsHold'
  BY AnchorStep
<1> QED
  BY <1>1, AnchorBegins, PTL DEF AnchorSpec

\* The same for assignments.
LEMMA AssignmentsAlwaysHold == AssignmentSpec => []AssignmentsHold
<1>1. AssignmentsHold /\ [AssignmentNext]_assignmentVars => AssignmentsHold'
  BY AssignmentStep
<1> QED
  BY <1>1, AssignmentBegins, PTL DEF AssignmentSpec

\* The parts share nothing.
SubmissionParts ==
  /\ PeriodSpec /\ ReportSpec /\ PolicySpec
  /\ WritingSpec /\ AnchorSpec /\ AssignmentSpec

\* Every part keeps its types; a structured report only collides with a weekly
\* one, and anchor projects are no more than the lookups that found none
\* (submit_structured_report, anchor_project_for_standalone_writing).
THEOREM SubmissionsKeepAgreeing == SubmissionParts => []SubmissionsAgree
<1>1. SubmissionsHold => SubmissionsAgree
  BY WeeklyOnesCollide
     DEF SubmissionsHold, SubmissionsAgree, PeriodsHold, ReportsHold, PolicyHolds,
         WritingHolds, AnchorsHold, AssignmentsHold
<1> QED
  BY <1>1, PeriodsAlwaysHold, ReportsAlwaysHold, PolicyAlwaysHolds,
     WritingAlwaysHolds, AnchorsAlwaysHold, AssignmentsAlwaysHold, PTL
     DEF SubmissionParts, SubmissionsHold

\* A period asks questions that are out and have not changed since it opened
\* (open_reporting_period, publish_template_version).
THEOREM PeriodsAskWhatWasPublished == PeriodSpec => PeriodTemplatesStay
<1>1. ASSUME PeriodsHold, [PeriodNext]_periodVars PROVE [QuestionsStay]_periodVars
  BY <1>1, PeriodStep
<1> QED
  BY <1>1, PeriodsAlwaysHold, PTL DEF PeriodSpec, PeriodTemplatesStay, QuestionsStay

\* A report follows the one its request has read, with or without a lock
\* (submit_structured_report, WeeklyReportService.submit_report).
THEOREM ReportsFollowTheirReading == ReportSpec => ReportsFollowWhatWasRead
<1>1. ASSUME ReportsHold, [ReportNext]_reportVars PROVE [LatestIsRead]_reportVars
  BY <1>1, ReportStep
<1> QED
  BY <1>1, ReportsAlwaysHold, PTL DEF ReportSpec, ReportsFollowWhatWasRead, LatestIsRead

\* A versioned change of the report schedule meets the policy its desk shows, or
\* a policy that was made anew (configure_project_report_schedule).
THEOREM PoliciesAreMeant == PolicySpec => OnlyNewRowsAreMistaken
<1>1. ASSUME PolicyHolds, [PolicyNext]_policyVars PROVE [ShownIsMeant]_policyVars
  BY <1>1, VersionsMean
<1> QED
  BY <1>1, PolicyAlwaysHolds, PTL DEF PolicySpec, OnlyNewRowsAreMistaken, ShownIsMeant

\* No version goes back from feedback but by a stale download, and a removed
\* reviewer has no access left (record_writing_version_download,
\* remove_review_assignment).
THEOREM ReviewsStayKept == WritingSpec /\ AssignmentSpec => ReviewsAreKept
<1>1. ASSUME WritingHolds, [WritingNext]_writingVars PROVE [NoneGoesBack]_writingVars
  BY <1>1, WritingStep
<1>2. ASSUME AssignmentsHold, [AssignmentNext]_assignmentVars
      PROVE  [RemovalsEnd]_assignmentVars
  BY <1>2, AssignmentStep
<1> QED
  BY <1>1, <1>2, WritingAlwaysHolds, AssignmentsAlwaysHold, PTL
     DEF WritingSpec, AssignmentSpec, ReviewsAreKept, OnlyStaleDownloadsHideFeedback,
         NoneGoesBack, RemovalEndsAccess, RemovalsEnd
=============================================================================

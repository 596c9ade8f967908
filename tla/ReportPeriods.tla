---------------------------- MODULE ReportPeriods ---------------------------
(***************************************************************************)
(* Report templates and the reporting periods of one week:                 *)
(* apps/submissions/report_template_services.py,                           *)
(* report_period_services.py and their views.                              *)
(*                                                                         *)
(* The periodic task goes through the projects that were active when it    *)
(* began, in the order of their ids: it looks for the template in force,   *)
(* publishes one if there is none, and opens the period.  The template     *)
(* comes from the advisor's hand, so a project without one whose advisor   *)
(* may not manage templates ends the whole run.                            *)
(*                                                                         *)
(* Questions are left out: a template version has a number that changes    *)
(* with its questions, 0 for none.                                         *)
(***************************************************************************)
EXTENDS Integers, Sequences, FiniteSets

CONSTANTS
  LastProject,   \* projects are 1 .. LastProject, by id
  Runs,          \* processes that run the periodic task
  MaxTemplates,  \* bound: versions of a template its advisor starts
  MaxQuestions   \* bound: changes of questions

ASSUME PeriodAssumption ==
  /\ LastProject \in Nat \ {0}
  /\ MaxTemplates \in Nat /\ MaxQuestions \in Nat \ {0}

VARIABLES
  courses,     \* what the projects allow
  templates,   \* ReportTemplate with its versions
  periods,     \* ReportingPeriod rows of the week
  runs         \* where each run of the task is

periodVars == <<courses, templates, periods, runs>>

-----------------------------------------------------------------------------
Projects == 1 .. LastProject

\* governed: the primary advisor is a working member and nothing is on hold
Course == [active : BOOLEAN, governed : BOOLEAN]

TemplateVersion == [status : {"draft", "published", "superseded"},
                    questions : 0 .. MaxQuestions]

\* The version in force, 0 for none, and all versions in their order
Template == [inForce : Nat, versions : Seq(TemplateVersion)]

Period == [state : {"none", "open", "closed"}, late : BOOLEAN,
           template : Nat]

RestingRun == [at |-> "rest"]

PeriodTypeOK ==
  /\ courses \in [Projects -> Course]
  /\ templates \in [Projects -> Template]
  /\ \A p \in Projects : templates[p].inForce <= Len(templates[p].versions)
  /\ periods \in [Projects -> Period]
  /\ runs \in [Runs -> {RestingRun} \cup
       [at : {"look", "ensure", "open"}, todo : SUBSET Projects, template : Nat]]

\* Projects exist; some have an advisor who may act and some, such as the
\* storage project of standalone writing, have no member at all.
PeriodInit ==
  /\ courses \in [Projects -> [active : {TRUE}, governed : BOOLEAN]]
  /\ templates = [p \in Projects |-> [inForce |-> 0, versions |-> <<>>]]
  /\ periods = [p \in Projects |->
                  [state |-> "none", late |-> FALSE, template |-> 0]]
  /\ runs = [o \in Runs |-> RestingRun]

-----------------------------------------------------------------------------
(***************************************************************************)
(* What happens to the projects meanwhile.                                 *)
(***************************************************************************)

SwitchCourse(p) ==
  /\ \/ courses' = [courses EXCEPT ![p].active = ~@]
     \/ courses' = [courses EXCEPT ![p].governed = ~@]
  /\ UNCHANGED <<templates, periods, runs>>

DeadlinePasses(p) ==
  /\ periods[p].state = "open" /\ ~periods[p].late
  /\ periods' = [periods EXCEPT ![p].late = TRUE]
  /\ UNCHANGED <<courses, templates, runs>>

-----------------------------------------------------------------------------
(***************************************************************************)
(* Templates, each operation under the lock of its version.                *)
(***************************************************************************)

\* canManageReportTemplates, of the primary advisor
ManagesTemplates(p) == courses[p].active /\ courses[p].governed

Drafts(p) ==
  {n \in DOMAIN templates[p].versions : templates[p].versions[n].status = "draft"}

\* A new version starts with the questions of the one in force.
WithDraft(t) ==
  [t EXCEPT !.versions = Append(@,
     [status |-> "draft",
      questions |-> IF t.inForce = 0 THEN 0 ELSE t.versions[t.inForce].questions])]

\* Version n comes into force.
WithPublished(t, n) ==
  [inForce |-> n,
   versions |-> [m \in DOMAIN t.versions |->
     IF m = n THEN [t.versions[m] EXCEPT !.status = "published"]
     ELSE IF t.versions[m].status = "published"
     THEN [t.versions[m] EXCEPT !.status = "superseded"]
     ELSE t.versions[m]]]

CreateDraft(p) ==
  /\ ManagesTemplates(p) /\ Drafts(p) = {}
  /\ Len(templates[p].versions) < MaxTemplates
  /\ templates' = [templates EXCEPT ![p] = WithDraft(@)]
  /\ UNCHANGED <<courses, periods, runs>>

\* replace_template_fields, which wants at least one question
ReplaceQuestions(p, n) ==
  /\ ManagesTemplates(p) /\ n \in Drafts(p)
  /\ templates[p].versions[n].questions < MaxQuestions
  /\ templates' = [templates EXCEPT ![p].versions[n].questions = @ + 1]
  /\ UNCHANGED <<courses, periods, runs>>

PublishDraft(p, n) ==
  /\ ManagesTemplates(p) /\ n \in Drafts(p)
  /\ templates[p].versions[n].questions # 0
  /\ templates' = [templates EXCEPT ![p] = WithPublished(@, n)]
  /\ UNCHANGED <<courses, periods, runs>>

-----------------------------------------------------------------------------
(***************************************************************************)
(* The periodic task.                                                      *)
(***************************************************************************)

FirstOf(todo) == CHOOSE p \in todo : \A q \in todo : p <= q

\* close_due_reporting_periods
ClosePeriods ==
  [p \in Projects |-> IF periods[p].state = "open" /\ periods[p].late
                      THEN [periods[p] EXCEPT !.state = "closed"] ELSE periods[p]]

\* Mutant of StartRun: only projects that have a template are gone through.
StartWithTemplates(o) ==
  /\ runs[o] = RestingRun
  /\ runs' = [runs EXCEPT ![o] =
       [at |-> "look", template |-> 0,
        todo |-> {p \in Projects : courses[p].active /\ templates[p].inForce # 0}]]
  /\ UNCHANGED <<courses, templates, periods>>

StartRun(o) ==
  /\ runs[o] = RestingRun
  /\ runs' = [runs EXCEPT ![o] =
       [at |-> "look", template |-> 0, todo |-> {p \in Projects : courses[p].active}]]
  /\ UNCHANGED <<courses, templates, periods>>

\* All projects are done, which the closing of due periods follows.
EndRun(o) ==
  /\ runs[o].at = "look" /\ runs[o].todo = {}
  /\ periods' = ClosePeriods
  /\ runs' = [runs EXCEPT ![o] = RestingRun]
  /\ UNCHANGED <<courses, templates>>

LookForTemplate(o) ==
  /\ runs[o].at = "look" /\ runs[o].todo # {}
  /\ LET found == templates[FirstOf(runs[o].todo)].inForce IN
       runs' = [runs EXCEPT ![o].at = IF found = 0 THEN "ensure" ELSE "open",
                            ![o].template = found]
  /\ UNCHANGED <<courses, templates, periods>>

\* The template with a draft, and that draft's number: the one there is, which
\* may have been started since, or a new one.
Drafted(p) == IF Drafts(p) = {} THEN WithDraft(templates[p]) ELSE templates[p]

DraftOf(t) == CHOOSE n \in DOMAIN t.versions : t.versions[n].status = "draft"

\* A draft without questions gets the default ones.
Filled(t) ==
  IF t.versions[DraftOf(t)].questions = 0
  THEN [t EXCEPT !.versions[DraftOf(t)].questions = 1] ELSE t

\* ensure_default_report_template in the advisor's name
EnsureTemplate(o) ==
  /\ runs[o].at = "ensure"
  /\ LET p == FirstOf(runs[o].todo)  t == Filled(Drafted(p)) IN
       /\ ManagesTemplates(p)
       /\ templates' = [templates EXCEPT ![p] = WithPublished(t, DraftOf(t))]
       /\ runs' = [runs EXCEPT ![o].at = "open", ![o].template = DraftOf(t)]
  /\ UNCHANGED <<courses, periods>>

\* The refusal is raised through the whole run; nothing is closed either.
AbortRun(o) ==
  /\ runs[o].at = "ensure" /\ ~ManagesTemplates(FirstOf(runs[o].todo))
  /\ runs' = [runs EXCEPT ![o] = RestingRun]
  /\ UNCHANGED <<courses, templates, periods>>

\* get_or_create
OpenPeriod(o) ==
  /\ runs[o].at = "open"
  /\ LET p == FirstOf(runs[o].todo) IN
       /\ periods' = IF periods[p].state # "none" THEN periods
                     ELSE [periods EXCEPT ![p] = [state |-> "open", late |-> FALSE,
                                                  template |-> runs[o].template]]
       /\ runs' = [runs EXCEPT ![o].at = "look", ![o].todo = @ \ {p}]
  /\ UNCHANGED <<courses, templates>>

-----------------------------------------------------------------------------
TemplatePage ==
  \E p \in Projects :
    \/ CreateDraft(p)
    \/ \E n \in DOMAIN templates[p].versions : ReplaceQuestions(p, n) \/ PublishDraft(p, n)

RunStep(o) ==
  \/ StartRun(o) \/ EndRun(o) \/ LookForTemplate(o)
  \/ EnsureTemplate(o) \/ AbortRun(o) \/ OpenPeriod(o)

PeriodNext ==
  \/ TemplatePage
  \/ \E o \in Runs : RunStep(o)
  \/ \E p \in Projects : SwitchCourse(p) \/ DeadlinePasses(p)

\* The task runs every five minutes.
PeriodFairness == \A o \in Runs : WF_periodVars(RunStep(o))

PeriodSpec == PeriodInit /\ [][PeriodNext]_periodVars /\ PeriodFairness

-----------------------------------------------------------------------------
(***************************************************************************)
(* Properties.                                                             *)
(***************************************************************************)

\* A period asks questions that are out and will not change: its version is no
\* draft, it has questions, and they stay what they were when the period opened
\* (replace_template_fields, publish_template_version, open_reporting_period).
PeriodTemplatesStay ==
  [][\A p \in Projects : periods[p].state # "none" =>
       LET n == periods[p].template IN
         /\ templates[p].versions[n].status # "draft"
         /\ templates[p].versions[n].questions # 0
         /\ templates'[p].versions[n].questions = templates[p].versions[n].questions
         /\ periods'[p].template = n]_periodVars

\* From some time on q cannot end a run: it has a template or somebody who may
\* publish one, or it stays out of the task's list.
OutOfTheWay(q) ==
  \/ <>[](templates[q].inForce # 0 \/ ManagesTemplates(q))
  \/ <>[](~courses[q].active)

\* A project that stays active gets its period, if no project up to it is in the
\* way: maintain_reporting_periods_task stops at the first that is, every time.
PeriodsOpen ==
  \A p \in Projects :
    <>[](courses[p].active) /\ (\A q \in 1 .. p : OutOfTheWay(q))
      => <>(periods[p].state # "none")

\* In the same way, a period whose deadline has passed is closed, if no project
\* at all is in the way (close_due_reporting_periods ends the run).
PeriodsClose ==
  (\A q \in Projects : OutOfTheWay(q))
    => \A p \in Projects : periods[p].late ~> periods[p].state = "closed"
=============================================================================

---------------------------- MODULE ReportReviews ----------------------------
(***************************************************************************)
(* The reports of one project's week:                                      *)
(* apps/submissions/report_services.py and its views.                      *)
(*                                                                         *)
(* Handing in a report is two steps, the check and the insertion.  A       *)
(* structured report holds the lock on its period between them, a weekly   *)
(* one holds nothing; both take the next revision number of the week as it *)
(* was at the check.  Answers are left out, and so is a request that       *)
(* repeats the key of a structured report: it is answered with that.       *)
(* Revisions are numbered by their place.                                  *)
(***************************************************************************)
EXTENDS Integers, Sequences, FiniteSets

CONSTANTS
  Authors,     \* students of the project
  Submitters,  \* requests that hand in a report
  MaxReports   \* bound: reports of a student for the week

ASSUME ReportAssumption == MaxReports \in Nat

VARIABLES
  writable,    \* the project is active
  period,      \* the reporting period: none yet, open, past its deadline
  handedIn,    \* WeeklyProgressReport rows of each student, by revision
  submitters   \* what each request that hands in a report has read

reportVars == <<writable, period, handedIn, submitters>>
weekVars == <<writable, period>>
studentVars == <<handedIn, submitters>>

-----------------------------------------------------------------------------
ReviewStatus == {"pending_review", "reviewed", "needs_revision", "closed"}

Report == [sort : {"weekly", "structured"}, status : ReviewStatus, late : BOOLEAN]

RestingSubmitter == [step |-> "rest"]

ReportTypeOK ==
  /\ writable \in BOOLEAN /\ period \in {"none", "open", "past"}
  /\ handedIn \in [Authors -> Seq(Report)]
  /\ \A a \in Authors : Len(handedIn[a]) <= MaxReports
  /\ submitters \in [Submitters -> {RestingSubmitter} \cup
       [step : {"weekly", "structured"}, author : Authors,
        after : 0 .. MaxReports, number : 1 .. MaxReports + 1]]

ReportInit ==
  /\ writable = TRUE /\ period = "none"
  /\ handedIn = [a \in Authors |-> <<>>]
  /\ submitters = [c \in Submitters |-> RestingSubmitter]

-----------------------------------------------------------------------------
(***************************************************************************)
(* What happens to the project and its week meanwhile.                     *)
(***************************************************************************)

ProjectTurns ==
  /\ writable' = ~writable
  /\ UNCHANGED <<period, studentVars>>

PeriodPasses ==
  /\ period' = CASE period = "none" -> "open" [] OTHER -> "past"
  /\ UNCHANGED <<writable, studentVars>>

-----------------------------------------------------------------------------
(***************************************************************************)
(* Handing in and reviewing.                                               *)
(***************************************************************************)

\* The report a new one of that sort would follow, 0 for none: a structured
\* one looks at the reports of the period only.
Latest(a, sort) ==
  LET own == {n \in DOMAIN handedIn[a] :
                sort = "weekly" \/ handedIn[a][n].sort = "structured"}
  IN IF own = {} THEN 0 ELSE CHOOSE n \in own : \A m \in own : m <= n

\* It must have been returned.
MayFollow(a, sort) ==
  Latest(a, sort) # 0 => handedIn[a][Latest(a, sort)].status = "needs_revision"

\* Mutant of PeriodLocked: nobody waits.
NeverLocked == FALSE

PeriodLocked == \E c \in Submitters : submitters[c].step = "structured"

\* What a request knows once it has passed its check.
Checked(c, a, sort) ==
  /\ submitters[c] = RestingSubmitter /\ writable
  /\ MayFollow(a, sort)
  /\ submitters' = [submitters EXCEPT ![c] =
       [step |-> sort, author |-> a, after |-> Latest(a, sort),
        number |-> Len(handedIn[a]) + 1]]
  /\ UNCHANGED <<weekVars, handedIn>>

CheckWeekly(c, a) == Checked(c, a, "weekly")

CheckStructured(c, a) ==
  period # "none" /\ ~PeriodLocked /\ Checked(c, a, "structured")

\* Mutant of NumberIsFree: the constraint on revision numbers is missing.
NumberIsAny(c) == TRUE

\* unique_together; the numbers in use are those up to the last
NumberIsFree(c) == submitters[c].number > Len(handedIn[submitters[c].author])

Inserted(c, late) ==
  /\ NumberIsFree(c)
  /\ Len(handedIn[submitters[c].author]) < MaxReports
  /\ handedIn' = [handedIn EXCEPT ![submitters[c].author] = Append(@,
       [sort |-> submitters[c].step, status |-> "pending_review", late |-> late])]
  /\ submitters' = [submitters EXCEPT ![c] = RestingSubmitter]
  /\ UNCHANGED weekVars

InsertWeekly(c) == submitters[c].step = "weekly" /\ Inserted(c, FALSE)

InsertStructured(c) ==
  submitters[c].step = "structured" /\ Inserted(c, period = "past")

\* The number was taken, or the request died.
LoseReport(c) ==
  /\ submitters[c] # RestingSubmitter
  /\ submitters' = [submitters EXCEPT ![c] = RestingSubmitter]
  /\ UNCHANGED <<weekVars, handedIn>>

\* update_review_status sets any status on any revision.
ReviewReport(a, n, status) ==
  /\ writable /\ n \in DOMAIN handedIn[a]
  /\ handedIn' = [handedIn EXCEPT ![a][n].status = status]
  /\ UNCHANGED <<weekVars, submitters>>

-----------------------------------------------------------------------------
StructuredReport ==
  \E c \in Submitters :
    (\E a \in Authors : CheckStructured(c, a)) \/ InsertStructured(c) \/ LoseReport(c)

ReportPage ==
  \/ \E c \in Submitters : (\E a \in Authors : CheckWeekly(c, a)) \/ InsertWeekly(c)
  \/ \E a \in Authors, n \in 1 .. MaxReports, status \in ReviewStatus :
       ReviewReport(a, n, status)

ReportNext ==
  \/ ProjectTurns \/ PeriodPasses
  \/ StructuredReport \/ ReportPage

ReportSpec == ReportInit /\ [][ReportNext]_reportVars

-----------------------------------------------------------------------------
(***************************************************************************)
(* Properties.                                                             *)
(***************************************************************************)

\* A report follows the one its request has read: no other of its sort slipped
\* in between the check and the insertion, although a weekly report holds no
\* lock at all (submit_structured_report, WeeklyReportService.submit_report).
ReportsFollowWhatWasRead ==
  [][\A c \in Submitters :
       LET read == submitters[c] IN
         read # RestingSubmitter /\ handedIn' # handedIn /\ submitters'[c] # read
           => Latest(read.author, read.step) = read.after]_reportVars

\* Two structured reports never collide: the number such a request goes for can
\* only be taken by a weekly report, which does not wait for the period's lock.
OnlyWeeklyReportsCollide ==
  \A c \in Submitters :
    submitters[c].step = "structured" /\ ~NumberIsFree(c)
      => handedIn[submitters[c].author][submitters[c].number].sort = "weekly"
=============================================================================

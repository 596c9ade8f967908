---------------------------- MODULE PaperImports ----------------------------
(***************************************************************************)
(* The shared paper library: PDF imports with their duplicate check, the   *)
(* maintainers' review of doubtful ones, renaming and deleting papers:     *)
(* apps/library/services/imports.py, duplicates.py, papers.py and views.   *)
(*                                                                         *)
(* An import is one transaction without locks: it looks for duplicates     *)
(* among the papers that are committed, and what it decides is inserted    *)
(* when it commits.  Reviews, renames and deletions act on the row their   *)
(* view loaded.                                                            *)
(*                                                                         *)
(* A file is its fingerprint; the title and the author read from it never  *)
(* change.  Years are left out, and two titles are alike for the fuzzy     *)
(* match when they are equal.  A PaperFile row belongs to one job and its  *)
(* "paper" is the job's accepted_paper.                                    *)
(***************************************************************************)
EXTENDS Integers, Sequences, FiniteSets

CONSTANTS
  Files,             \* the PDFs that are uploaded
  Titles,            \* titles of papers
  TitleOf, AuthorOf, \* what is extracted from a file, or Unknown
  Unknown,           \* no reliable title, no author
  Importers,         \* overlapping upload requests
  Maintainers,       \* requests of maintainers
  MaxJobs,           \* bound: imports
  MaxPapers          \* bound: papers

ASSUME PaperAssumption ==
  /\ Unknown \notin Titles
  /\ TitleOf \in [Files -> Titles \cup {Unknown}]
  /\ MaxJobs \in Nat /\ MaxPapers \in Nat

VARIABLES
  papers,      \* PaperRecord rows of the shared library
  jobs,        \* PaperImportJob rows with their PaperFile
  imports,     \* imports[i]: what upload request i has decided
  maintainers  \* maintainers[k]: the row that request k has loaded

paperVars == <<papers, jobs, imports, maintainers>>

-----------------------------------------------------------------------------
PaperRow == [file : Files, title : Titles, active : BOOLEAN]

JobStatus == {"rejected", "duplicate", "review", "accepted"}

JobRow == [file : Files, paper : 0 .. MaxPapers, status : JobStatus]

Idle == [step |-> "none"]

Decided == [step : {"decided"}, file : Files, decision : JobStatus, known : SUBSET Files]

LoadedJob == [step : {"job"}, job : 1 .. MaxJobs, status : JobStatus]

LoadedPaper == [step : {"paper"}, paper : 1 .. MaxPapers]

PaperTypeOK ==
  /\ papers \in Seq(PaperRow) /\ Len(papers) <= MaxPapers
  /\ jobs \in Seq(JobRow) /\ Len(jobs) <= MaxJobs
  /\ imports \in [Importers -> {Idle} \cup Decided]
  /\ maintainers \in [Maintainers -> {Idle} \cup LoadedJob \cup LoadedPaper]

PaperInit ==
  /\ papers = << >> /\ jobs = << >>
  /\ imports = [i \in Importers |-> Idle]
  /\ maintainers = [k \in Maintainers |-> Idle]

-----------------------------------------------------------------------------
(***************************************************************************)
(* Importing.                                                              *)
(***************************************************************************)

ActivePapers == {p \in DOMAIN papers : papers[p].active}

\* Files that a PaperFile row links to an active paper.
KnownFiles ==
  {f \in Files : \E j \in DOMAIN jobs : jobs[j].file = f /\ jobs[j].paper \in ActivePapers}

SameAuthor(f, g) == AuthorOf[f] # Unknown /\ AuthorOf[f] = AuthorOf[g]

\* Mutant of Detect: only titles and authors are compared.
DetectByTitle(f) ==
  IF TitleOf[f] = Unknown THEN "rejected"
  ELSE LET namesakes == {p \in ActivePapers : papers[p].title = TitleOf[f]}
       IN  IF \E p \in namesakes : SameAuthor(f, papers[p].file) THEN "duplicate"
           ELSE IF namesakes # {} THEN "review"
           ELSE "accepted"

\* extract_title_from_pdf_upload and detect_shared_paper_duplicate
Detect(f) ==
  IF TitleOf[f] = Unknown THEN "rejected"
  ELSE LET namesakes == {p \in ActivePapers : papers[p].title = TitleOf[f]}
       IN  IF f \in KnownFiles THEN "duplicate"
           ELSE IF \E p \in namesakes : SameAuthor(f, papers[p].file) THEN "duplicate"
           ELSE IF namesakes # {} THEN "review"
           ELSE "accepted"

\* "known" is history: the files that were known to the check.
CheckImport(i, f) ==
  /\ imports[i].step = "none"
  /\ imports' = [imports EXCEPT ![i] = [step |-> "decided", file |-> f,
                   decision |-> Detect(f), known |-> KnownFiles]]
  /\ UNCHANGED <<papers, jobs, maintainers>>

\* create_accepted_paper_from_import
Shelved(f) == Append(papers, [file |-> f, title |-> TitleOf[f], active |-> TRUE])

CommitImport(i) ==
  /\ imports[i].step = "decided"
  /\ Len(jobs) < MaxJobs
  /\ LET f == imports[i].file
         accepted == imports[i].decision = "accepted"
     IN  /\ accepted => Len(papers) < MaxPapers
         /\ papers' = IF accepted THEN Shelved(f) ELSE papers
         /\ jobs' = Append(jobs, [file |-> f, status |-> imports[i].decision,
                                  paper |-> IF accepted THEN Len(papers) + 1 ELSE 0])
  /\ imports' = [imports EXCEPT ![i] = Idle]
  /\ UNCHANGED maintainers

-----------------------------------------------------------------------------
(***************************************************************************)
(* Maintainers.                                                            *)
(***************************************************************************)

LeaveMaintainer(k) == maintainers' = [maintainers EXCEPT ![k] = Idle]

\* PaperImportReviewView loads the job.
OpenJob(k, j) ==
  /\ maintainers[k].step = "none" /\ j \in DOMAIN jobs
  /\ maintainers' = [maintainers EXCEPT
       ![k] = [step |-> "job", job |-> j, status |-> jobs[j].status]]
  /\ UNCHANGED <<papers, jobs, imports>>

\* review_paper_import judges the row that was loaded.
AwaitsReview(k) == maintainers[k].step = "job" /\ maintainers[k].status = "review"

ConfirmDuplicate(k) ==
  /\ AwaitsReview(k)
  /\ jobs' = [jobs EXCEPT ![maintainers[k].job].status = "duplicate"]
  /\ LeaveMaintainer(k)
  /\ UNCHANGED <<papers, imports>>

ConfirmDistinct(k) ==
  /\ AwaitsReview(k)
  /\ Len(papers) < MaxPapers
  /\ papers' = Shelved(jobs[maintainers[k].job].file)
  /\ jobs' = [jobs EXCEPT ![maintainers[k].job].status = "accepted",
                          ![maintainers[k].job].paper = Len(papers) + 1]
  /\ LeaveMaintainer(k)
  /\ UNCHANGED imports

\* SharedPaperDetailView loads a paper that is active.
OpenPaper(k, p) ==
  /\ maintainers[k].step = "none" /\ p \in ActivePapers
  /\ maintainers' = [maintainers EXCEPT ![k] = [step |-> "paper", paper |-> p]]
  /\ UNCHANGED <<papers, jobs, imports>>

\* same_title_is_distinguishable for paper p and another
Distinguishable(p, title) ==
  \A q \in ActivePapers \ {p} :
    papers[q].title = title =>
      /\ AuthorOf[papers[q].file] # Unknown /\ AuthorOf[papers[p].file] # Unknown
      /\ AuthorOf[papers[q].file] # AuthorOf[papers[p].file]

\* rename_shared_paper saves the title alone.
RenamePaper(k, title) ==
  /\ maintainers[k].step = "paper"
  /\ Distinguishable(maintainers[k].paper, title)
  /\ papers' = [papers EXCEPT ![maintainers[k].paper].title = title]
  /\ LeaveMaintainer(k)
  /\ UNCHANGED <<jobs, imports>>

\* delete_shared_paper
DeletePaper(k) ==
  /\ maintainers[k].step = "paper"
  /\ papers' = [papers EXCEPT ![maintainers[k].paper].active = FALSE]
  /\ LeaveMaintainer(k)
  /\ UNCHANGED <<jobs, imports>>

-----------------------------------------------------------------------------
\* SharedPaperListCreateView
ImportPage(i) == CommitImport(i) \/ \E f \in Files : CheckImport(i, f)

\* PaperImportReviewView
ReviewPage(k) ==
  ConfirmDuplicate(k) \/ ConfirmDistinct(k) \/ \E j \in DOMAIN jobs : OpenJob(k, j)

\* SharedPaperDetailView
PaperPage(k) ==
  \/ DeletePaper(k)
  \/ \E p \in ActivePapers : OpenPaper(k, p)
  \/ \E title \in Titles : RenamePaper(k, title)

PaperNext ==
  \/ \E i \in Importers : ImportPage(i)
  \/ \E k \in Maintainers : ReviewPage(k) \/ PaperPage(k)

PaperSpec == PaperInit /\ [][PaperNext]_paperVars

-----------------------------------------------------------------------------
(***************************************************************************)
(* Properties.                                                             *)
(***************************************************************************)

\* A file that is already behind an active paper gets another one only from
\* an import whose check was made before that paper was there, or because a
\* maintainer says it is distinct (detect_shared_paper_duplicate).
OnlyBlindImportsRepeatFiles ==
  [][\A f \in KnownFiles :
       Len(papers') > Len(papers) /\ papers'[Len(papers')].file = f =>
         \/ \E i \in Importers :
              /\ imports[i].step = "decided" /\ imports'[i] = Idle
              /\ imports[i].file = f /\ f \notin imports[i].known
         \/ \E k \in Maintainers :
              maintainers[k].step = "job" /\ maintainers'[k] = Idle]_paperVars

\* Every paper is the accepted one of a job, and a job has a paper exactly
\* when it is accepted.
JobsAccountForPapers ==
  /\ \A p \in DOMAIN papers : \E j \in DOMAIN jobs : jobs[j].paper = p
  /\ \A j \in DOMAIN jobs : jobs[j].status = "accepted" <=> jobs[j].paper # 0

\* This can only be spoilt by a reviewer whose page shows a job that another
\* reviewer has decided since (review_paper_import).
OnlyOverlappingReviewsMiscount ==
  [][JobsAccountForPapers /\ ~JobsAccountForPapers' =>
       \E k \in Maintainers :
         /\ maintainers[k].step = "job" /\ maintainers'[k] = Idle
         /\ maintainers[k].status = "review" /\ jobs[maintainers[k].job].status # "review"
     ]_paperVars
=============================================================================

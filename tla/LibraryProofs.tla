---------------------------- MODULE LibraryProofs ----------------------------
(***************************************************************************)
(* Theorems about papers, documents and code, for any number of files,     *)
(* works, projects, categories and requests.                               *)
(***************************************************************************)
EXTENDS PaperImports, PaperBatches, DocumentLibrary, CodeLibrary,
        SequenceTheorems, TLAPS

-----------------------------------------------------------------------------
(***************************************************************************)
(* The shared paper library.                                               *)
(***************************************************************************)

USE PaperAssumption

\* A file without a title never becomes a paper, and what a check accepts was
\* not known to it.
DecisionsHold ==
  \A i \in Importers :
    imports[i].step = "decided" =>
      /\ imports[i].decision \in {"accepted", "review"} =>
           TitleOf[imports[i].file] \in Titles
      /\ imports[i].decision = "accepted" => imports[i].file \notin imports[i].known

ReviewsHaveTitles ==
  \A j \in DOMAIN jobs : jobs[j].status = "review" => TitleOf[jobs[j].file] \in Titles

\* What a maintainer has loaded is there.
PagesHold ==
  \A k \in Maintainers :
    /\ maintainers[k].step = "job" =>
         /\ maintainers[k].job \in DOMAIN jobs
         /\ maintainers[k].status = "review" =>
              TitleOf[jobs[maintainers[k].job].file] \in Titles
    /\ maintainers[k].step = "paper" => maintainers[k].paper \in DOMAIN papers

PapersHold == PaperTypeOK /\ DecisionsHold /\ ReviewsHaveTitles /\ PagesHold

\* Papers and jobs are sequences of rows.
LEMMA PaperRows ==
  ASSUME PaperTypeOK
  PROVE  /\ papers \in Seq(PaperRow) /\ Len(papers) \in Nat
         /\ DOMAIN papers = 1 .. Len(papers)
         /\ \A p \in DOMAIN papers : papers[p] \in PaperRow
         /\ jobs \in Seq(JobRow) /\ Len(jobs) \in Nat
         /\ DOMAIN jobs = 1 .. Len(jobs)
         /\ \A j \in DOMAIN jobs : jobs[j] \in JobRow
<1>1. papers \in Seq(PaperRow) /\ jobs \in Seq(JobRow)
  BY DEF PaperTypeOK
<1> QED
  BY <1>1, ElementOfSeq, LenProperties

\* Rows are added and edited, never taken away, and a job keeps its file.
PapersGrow ==
  /\ papers' \in Seq(PaperRow) /\ Len(papers') <= MaxPapers
  /\ DOMAIN papers \subseteq DOMAIN papers'

JobsGrow ==
  /\ jobs' \in Seq(JobRow) /\ Len(jobs') <= MaxJobs
  /\ \A j \in DOMAIN jobs : j \in DOMAIN jobs' /\ jobs'[j].file = jobs[j].file
  /\ \A j \in DOMAIN jobs' :
       jobs'[j].status = "review" => TitleOf[jobs'[j].file] \in Titles

\* Rows that are only added or edited keep what the requests know of them.
LEMMA GrowingKeepsPapers ==
  ASSUME PapersHold, PapersGrow, JobsGrow,
         \/ imports' = imports
         \/ \E i \in Importers : imports' = [imports EXCEPT ![i] = Idle],
         \/ maintainers' = maintainers
         \/ \E k \in Maintainers : maintainers' = [maintainers EXCEPT ![k] = Idle]
  PROVE  PapersHold'
<1>1. PaperTypeOK /\ DecisionsHold /\ PagesHold
  BY DEF PapersHold
<1>2. /\ imports' \in [Importers -> {Idle} \cup Decided]
      /\ \A i \in Importers : imports'[i] = imports[i] \/ imports'[i] = Idle
  BY <1>1 DEF PaperTypeOK
<1>3. /\ maintainers' \in [Maintainers -> {Idle} \cup LoadedJob \cup LoadedPaper]
      /\ \A k \in Maintainers : maintainers'[k] = maintainers[k] \/ maintainers'[k] = Idle
  BY <1>1 DEF PaperTypeOK
<1>4. PaperTypeOK'
  BY <1>2, <1>3 DEF PaperTypeOK, PapersGrow, JobsGrow
<1>5. DecisionsHold'
  BY <1>1, <1>2 DEF DecisionsHold, Idle
<1>6. ReviewsHaveTitles'
  BY DEF ReviewsHaveTitles, JobsGrow
<1>7. PagesHold'
  BY <1>1, <1>3 DEF PagesHold, Idle, PapersGrow, JobsGrow
<1> QED
  BY <1>4, <1>5, <1>6, <1>7 DEF PapersHold

\* Rows that stay are among those that only grow.
LEMMA NothingGrown ==
  ASSUME PapersHold
  PROVE  /\ papers' = papers => PapersGrow
         /\ jobs' = jobs => JobsGrow
BY DEF PapersHold, PaperTypeOK, ReviewsHaveTitles, PapersGrow, JobsGrow

\* create_accepted_paper_from_import adds one paper, the last.
LEMMA PaperShelved ==
  ASSUME PapersHold, NEW f \in Files, TitleOf[f] \in Titles, Len(papers) < MaxPapers,
         papers' = Shelved(f)
  PROVE  /\ PapersGrow /\ Len(papers') = Len(papers) + 1
         /\ DOMAIN papers' = 1 .. Len(papers) + 1
         /\ papers'[Len(papers')].file = f
<1>1. /\ papers \in Seq(PaperRow) /\ Len(papers) \in Nat
      /\ DOMAIN papers = 1 .. Len(papers)
  BY PaperRows DEF PapersHold
<1> DEFINE row == [file |-> f, title |-> TitleOf[f], active |-> TRUE]
<1>2. row \in PaperRow /\ row.file = f
  BY DEF PaperRow
<1>3. papers' = Append(papers, row)
  BY DEF Shelved
<1> HIDE DEF row
<1>4. /\ papers' \in Seq(PaperRow) /\ Len(papers') = Len(papers) + 1
      /\ papers'[Len(papers) + 1] = row
  BY <1>1, <1>2, <1>3, AppendProperties
<1>5. DOMAIN papers' = 1 .. Len(papers) + 1
  BY <1>4, LenProperties
<1>6. 1 .. Len(papers) \subseteq 1 .. Len(papers) + 1
  BY <1>1
<1> QED
  BY <1>1, <1>2, <1>4, <1>5, <1>6 DEF PapersGrow

\* An import adds one job, the last.
LEMMA JobAdded ==
  ASSUME PapersHold, NEW row \in JobRow, Len(jobs) < MaxJobs, jobs' = Append(jobs, row),
         row.status = "review" => TitleOf[row.file] \in Titles
  PROVE  /\ JobsGrow /\ Len(jobs) + 1 \in DOMAIN jobs' /\ jobs'[Len(jobs) + 1] = row
         /\ \A j \in DOMAIN jobs : j \in DOMAIN jobs' /\ jobs'[j] = jobs[j]
         /\ \A j \in DOMAIN jobs' : j \in DOMAIN jobs \/ j = Len(jobs) + 1
<1>1. /\ jobs \in Seq(JobRow) /\ Len(jobs) \in Nat /\ DOMAIN jobs = 1 .. Len(jobs)
      /\ ReviewsHaveTitles
  BY PaperRows DEF PapersHold
<1>2. /\ jobs' \in Seq(JobRow) /\ Len(jobs') = Len(jobs) + 1
      /\ jobs'[Len(jobs) + 1] = row
      /\ \A j \in 1 .. Len(jobs) : jobs'[j] = jobs[j]
  BY <1>1, AppendProperties
<1>3. DOMAIN jobs' = 1 .. Len(jobs) + 1
  BY <1>2, LenProperties
<1>4. /\ \A j \in DOMAIN jobs : j \in DOMAIN jobs' /\ jobs'[j] = jobs[j]
      /\ \A j \in DOMAIN jobs' : j \in DOMAIN jobs \/ j = Len(jobs) + 1
      /\ Len(jobs) + 1 \in DOMAIN jobs' /\ Len(jobs') <= MaxJobs
  BY <1>1, <1>2, <1>3
<1> QED
  BY <1>1, <1>2, <1>4 DEF JobsGrow, ReviewsHaveTitles

\* A review writes the job it has loaded.
LEMMA JobEdited ==
  ASSUME PapersHold, NEW j \in DOMAIN jobs, NEW row \in JobRow, row.file = jobs[j].file,
         row.status # "review", jobs' = [jobs EXCEPT ![j] = row]
  PROVE  /\ JobsGrow /\ DOMAIN jobs' = DOMAIN jobs /\ jobs'[j] = row
         /\ \A i \in DOMAIN jobs : i # j => jobs'[i] = jobs[i]
<1>1. /\ jobs \in Seq(JobRow) /\ Len(jobs) \in Nat /\ DOMAIN jobs = 1 .. Len(jobs)
      /\ ReviewsHaveTitles /\ Len(jobs) <= MaxJobs
  BY PaperRows DEF PapersHold, PaperTypeOK
<1>2. /\ jobs' \in Seq(JobRow) /\ Len(jobs') = Len(jobs) /\ jobs'[j] = row
      /\ \A i \in 1 .. Len(jobs) : i # j => jobs'[i] = jobs[i]
  BY <1>1, ExceptSeq
<1>3. DOMAIN jobs' = DOMAIN jobs
  BY <1>1, <1>2, LenProperties
<1> QED
  BY <1>1, <1>2, <1>3 DEF JobsGrow, ReviewsHaveTitles

\* What is written when a paper is added to the shelf, and when the count of
\* jobs and papers is upset.
RepeatsAreBlind ==
  \A f \in KnownFiles :
    Len(papers') > Len(papers) /\ papers'[Len(papers')].file = f =>
      \/ \E i \in Importers :
           /\ imports[i].step = "decided" /\ imports'[i] = Idle
           /\ imports[i].file = f /\ f \notin imports[i].known
      \/ \E k \in Maintainers :
           maintainers[k].step = "job" /\ maintainers'[k] = Idle

MiscountsOverlap ==
  JobsAccountForPapers /\ ~JobsAccountForPapers' =>
    \E k \in Maintainers :
      /\ maintainers[k].step = "job" /\ maintainers'[k] = Idle
      /\ maintainers[k].status = "review" /\ jobs[maintainers[k].job].status # "review"

KeepsPapers == PapersHold' /\ RepeatsAreBlind /\ MiscountsOverlap

\* Steps that leave jobs and the number of papers alone upset nothing.
LEMMA Uncounted ==
  ASSUME PaperTypeOK, UNCHANGED jobs, Len(papers') = Len(papers),
         DOMAIN papers' = DOMAIN papers
  PROVE  RepeatsAreBlind /\ MiscountsOverlap
<1>1. ~(Len(papers') > Len(papers))
  BY PaperRows
<1>2. JobsAccountForPapers => JobsAccountForPapers'
  BY DEF JobsAccountForPapers
<1> QED
  BY <1>1, <1>2 DEF RepeatsAreBlind, MiscountsOverlap

\* The check of an import: what it accepts was not known to it.
LEMMA CheckKeepsPapers ==
  ASSUME PapersHold, NEW i \in Importers, NEW f \in Files, CheckImport(i, f)
  PROVE  KeepsPapers
<1>1. /\ PaperTypeOK /\ DecisionsHold /\ ReviewsHaveTitles /\ PagesHold
      /\ UNCHANGED <<papers, jobs, maintainers>>
  BY DEF PapersHold, CheckImport
<1> DEFINE row == [step |-> "decided", file |-> f, decision |-> Detect(f),
                   known |-> KnownFiles]
<1>2. /\ Detect(f) \in JobStatus
      /\ Detect(f) \in {"accepted", "review"} => TitleOf[f] \in Titles
      /\ Detect(f) = "accepted" => f \notin KnownFiles
  BY DEF Detect, JobStatus
<1>3. KnownFiles \in SUBSET Files
  BY DEF KnownFiles
<1>4. /\ row \in Decided /\ row.step = "decided" /\ row.file = f
      /\ row.decision = Detect(f) /\ row.known = KnownFiles
  BY <1>2, <1>3 DEF Decided
<1>5. imports' = [imports EXCEPT ![i] = row]
  BY DEF CheckImport
<1> HIDE DEF row
<1>6. /\ imports' \in [Importers -> {Idle} \cup Decided] /\ imports'[i] = row
      /\ \A j \in Importers \ {i} : imports'[j] = imports[j]
  BY <1>1, <1>4, <1>5 DEF PaperTypeOK
<1>7. DecisionsHold'
  BY <1>1, <1>2, <1>4, <1>6 DEF DecisionsHold
<1>8. PapersHold'
  BY <1>1, <1>6, <1>7 DEF PapersHold, PaperTypeOK, ReviewsHaveTitles, PagesHold
<1> QED
  BY <1>1, <1>8, Uncounted DEF KeepsPapers

\* The commit of an import adds its job, and its paper when accepted.
LEMMA CommitKeepsPapers ==
  ASSUME PapersHold, NEW i \in Importers, CommitImport(i)
  PROVE  KeepsPapers
<1>1. PaperTypeOK /\ DecisionsHold
  BY DEF PapersHold
<1>2. /\ imports[i].step = "decided" /\ Len(jobs) < MaxJobs
      /\ imports' = [imports EXCEPT ![i] = Idle] /\ maintainers' = maintainers
  BY DEF CommitImport
<1>3. imports[i] \in Decided
  BY <1>1, <1>2 DEF PaperTypeOK, Idle
<1>4. imports[i].file \in Files /\ imports[i].decision \in JobStatus
  BY <1>3 DEF Decided
<1>5. imports'[i] = Idle
  BY <1>1, <1>2 DEF PaperTypeOK
<1>6. PICK f \in Files : f = imports[i].file
  BY <1>4
<1>7. PICK d \in JobStatus : d = imports[i].decision
  BY <1>4
<1>8. /\ d \in {"accepted", "review"} => TitleOf[f] \in Titles
      /\ d = "accepted" => f \notin imports[i].known
  BY <1>1, <1>2, <1>6, <1>7 DEF DecisionsHold
<1>9. Len(papers) \in 0 .. MaxPapers /\ DOMAIN papers = 1 .. Len(papers)
  BY <1>1, PaperRows DEF PaperTypeOK
<1> DEFINE row == [file |-> f, status |-> d,
                   paper |-> IF d = "accepted" THEN Len(papers) + 1 ELSE 0]
<1>10. /\ d = "accepted" => Len(papers) < MaxPapers
       /\ papers' = IF d = "accepted" THEN Shelved(f) ELSE papers
       /\ jobs' = Append(jobs, row)
  BY <1>6, <1>7 DEF CommitImport
<1>11. /\ row \in JobRow /\ row.file = f /\ row.status = d
       /\ row.paper = (IF d = "accepted" THEN Len(papers) + 1 ELSE 0)
  BY <1>9, <1>10 DEF JobRow
<1> HIDE DEF row
<1>12. /\ JobsGrow /\ Len(jobs) + 1 \in DOMAIN jobs' /\ jobs'[Len(jobs) + 1] = row
       /\ \A j \in DOMAIN jobs : j \in DOMAIN jobs' /\ jobs'[j] = jobs[j]
       /\ \A j \in DOMAIN jobs' : j \in DOMAIN jobs \/ j = Len(jobs) + 1
  BY <1>2, <1>8, <1>10, <1>11, JobAdded
<1>13. CASE d = "accepted"
  <2>1. /\ PapersGrow /\ Len(papers') = Len(papers) + 1
        /\ DOMAIN papers' = 1 .. Len(papers) + 1 /\ papers'[Len(papers')].file = f
    BY <1>8, <1>10, <1>13, PaperShelved
  <2>2. PapersHold'
    BY <1>2, <1>12, <2>1, GrowingKeepsPapers
  <2>3. RepeatsAreBlind
    BY <1>2, <1>5, <1>6, <1>8, <1>13, <2>1 DEF RepeatsAreBlind
  <2>4. \A p \in 1 .. Len(papers) + 1 : p \in 1 .. Len(papers) \/ p = Len(papers) + 1
    BY <1>9
  <2>5. Len(papers) + 1 # 0
    BY <1>9
  <2>6. JobsAccountForPapers => JobsAccountForPapers'
    <3> SUFFICES ASSUME JobsAccountForPapers PROVE JobsAccountForPapers'
      OBVIOUS
    <3>1. ASSUME NEW p \in DOMAIN papers' PROVE \E j \in DOMAIN jobs' : jobs'[j].paper = p
      <4>1. CASE p = Len(papers) + 1
        BY <1>11, <1>12, <1>13, <4>1
      <4>2. CASE p \in DOMAIN papers
        BY <1>12, <4>2 DEF JobsAccountForPapers
      <4> QED
        BY <1>9, <2>1, <2>4, <3>1, <4>1, <4>2
    <3>2. ASSUME NEW j \in DOMAIN jobs'
          PROVE  jobs'[j].status = "accepted" <=> jobs'[j].paper # 0
      <4>1. CASE j = Len(jobs) + 1
        BY <1>11, <1>12, <1>13, <2>5, <4>1
      <4>2. CASE j \in DOMAIN jobs
        BY <1>12, <4>2 DEF JobsAccountForPapers
      <4> QED
        BY <1>12, <3>2, <4>1, <4>2
    <3> QED
      BY <3>1, <3>2 DEF JobsAccountForPapers
  <2> QED
    BY <2>2, <2>3, <2>6 DEF KeepsPapers, MiscountsOverlap
<1>14. CASE d # "accepted"
  <2>1. papers' = papers
    BY <1>10, <1>14
  <2>2. PapersHold'
    BY <1>2, <1>12, <2>1, NothingGrown, GrowingKeepsPapers
  <2>3. RepeatsAreBlind
    BY <1>9, <2>1 DEF RepeatsAreBlind
  <2>4. JobsAccountForPapers => JobsAccountForPapers'
    BY <1>11, <1>12, <1>14, <2>1 DEF JobsAccountForPapers
  <2> QED
    BY <2>2, <2>3, <2>4 DEF KeepsPapers, MiscountsOverlap
<1> QED
  BY <1>13, <1>14

\* review_paper_import: a job that still awaits its review has no paper.
LEMMA ReviewKeepsPapers ==
  ASSUME PapersHold, NEW k \in Maintainers, ConfirmDuplicate(k) \/ ConfirmDistinct(k)
  PROVE  KeepsPapers
<1>1. PaperTypeOK /\ PagesHold
  BY DEF PapersHold
<1>2. /\ maintainers[k].step = "job" /\ maintainers[k].status = "review"
      /\ maintainers' = [maintainers EXCEPT ![k] = Idle] /\ imports' = imports
  BY DEF ConfirmDuplicate, ConfirmDistinct, AwaitsReview, LeaveMaintainer
<1>3. maintainers'[k] = Idle
  BY <1>1, <1>2 DEF PaperTypeOK
<1>4. /\ maintainers[k].job \in DOMAIN jobs
      /\ TitleOf[jobs[maintainers[k].job].file] \in Titles
  BY <1>1, <1>2 DEF PagesHold
<1>5. PICK j \in DOMAIN jobs : j = maintainers[k].job
  BY <1>4
<1>6. jobs[j] \in JobRow /\ jobs[j].file \in Files
  BY <1>1, PaperRows DEF JobRow
<1>7. RepeatsAreBlind
  BY <1>2, <1>3 DEF RepeatsAreBlind
<1>8. jobs[j].status # "review" => MiscountsOverlap
  BY <1>2, <1>3, <1>5 DEF MiscountsOverlap
<1>9. CASE ConfirmDuplicate(k)
  <2> DEFINE row == [jobs[j] EXCEPT !.status = "duplicate"]
  <2>1. /\ row \in JobRow /\ row.file = jobs[j].file /\ row.status = "duplicate"
        /\ row.paper = jobs[j].paper
    BY <1>6 DEF JobRow, JobStatus
  <2>2. jobs' = [jobs EXCEPT ![j] = row] /\ papers' = papers
    BY <1>5, <1>9 DEF ConfirmDuplicate
  <2> HIDE DEF row
  <2>3. /\ JobsGrow /\ DOMAIN jobs' = DOMAIN jobs /\ jobs'[j] = row
        /\ \A i \in DOMAIN jobs : i # j => jobs'[i] = jobs[i]
    BY <2>1, <2>2, JobEdited
  <2>4. PapersHold'
    BY <1>2, <2>2, <2>3, NothingGrown, GrowingKeepsPapers
  <2>5. \A i \in DOMAIN jobs : jobs'[i].paper = jobs[i].paper
    BY <2>1, <2>3
  <2>6. ASSUME jobs[j].status = "review", JobsAccountForPapers PROVE JobsAccountForPapers'
    <3>1. jobs[j].paper = 0
      BY <2>6 DEF JobsAccountForPapers
    <3>2. \A i \in DOMAIN jobs' : jobs'[i].status = "accepted" <=> jobs'[i].paper # 0
      BY <2>1, <2>3, <2>6, <3>1 DEF JobsAccountForPapers
    <3>3. \A p \in DOMAIN papers' : \E i \in DOMAIN jobs' : jobs'[i].paper = p
      BY <2>2, <2>3, <2>5, <2>6 DEF JobsAccountForPapers
    <3> QED
      BY <3>2, <3>3 DEF JobsAccountForPapers
  <2> QED
    BY <1>7, <1>8, <2>4, <2>6 DEF KeepsPapers, MiscountsOverlap
<1>10. CASE ConfirmDistinct(k)
  <2>1. Len(papers) \in Nat /\ Len(papers) < MaxPapers /\ DOMAIN papers = 1 .. Len(papers)
    BY <1>1, <1>10, PaperRows DEF ConfirmDistinct
  <2>a. Len(papers) + 1 \in 0 .. MaxPapers /\ Len(papers) + 1 # 0
    BY <2>1
  <2> DEFINE row == [jobs[j] EXCEPT !.status = "accepted", !.paper = Len(papers) + 1]
  <2>2. /\ row \in JobRow /\ row.file = jobs[j].file /\ row.status = "accepted"
        /\ row.paper = Len(papers) + 1 /\ Len(papers) + 1 # 0
    BY <1>6, <2>a DEF JobRow, JobStatus
  <2>3. jobs' = [jobs EXCEPT ![j] = row] /\ papers' = Shelved(jobs[j].file)
    BY <1>5, <1>10 DEF ConfirmDistinct
  <2> HIDE DEF row
  <2>4. /\ JobsGrow /\ DOMAIN jobs' = DOMAIN jobs /\ jobs'[j] = row
        /\ \A i \in DOMAIN jobs : i # j => jobs'[i] = jobs[i]
    BY <2>2, <2>3, JobEdited
  <2>5. PapersGrow /\ DOMAIN papers' = 1 .. Len(papers) + 1
    BY <1>4, <1>5, <1>6, <2>1, <2>3, PaperShelved
  <2>6. PapersHold'
    BY <1>2, <2>4, <2>5, GrowingKeepsPapers
  <2>7. ASSUME jobs[j].status = "review", JobsAccountForPapers PROVE JobsAccountForPapers'
    <3>1. jobs[j].paper = 0
      BY <2>7 DEF JobsAccountForPapers
    <3>2. \A i \in DOMAIN jobs' : jobs'[i].status = "accepted" <=> jobs'[i].paper # 0
      BY <2>2, <2>4, <2>7 DEF JobsAccountForPapers
    <3>3. ASSUME NEW p \in DOMAIN papers' PROVE \E i \in DOMAIN jobs' : jobs'[i].paper = p
      <4>1. p \in DOMAIN papers \/ p = Len(papers) + 1
        BY <2>1, <2>5
      <4>2. CASE p = Len(papers) + 1
        BY <2>2, <2>4, <4>2
      <4>3. CASE p \in DOMAIN papers
        <5>1. PICK i \in DOMAIN jobs : jobs[i].paper = p
          BY <2>7, <4>3 DEF JobsAccountForPapers
        <5>2. i # j
          BY <2>1, <3>1, <4>3, <5>1
        <5> QED
          BY <2>4, <5>1, <5>2
      <4> QED
        BY <4>1, <4>2, <4>3
    <3> QED
      BY <3>2, <3>3 DEF JobsAccountForPapers
  <2> QED
    BY <1>7, <1>8, <2>6, <2>7 DEF KeepsPapers, MiscountsOverlap
<1> QED
  BY <1>9, <1>10

\* The views of a maintainer load rows that are there.
LEMMA OpeningKeepsPapers ==
  ASSUME PapersHold, NEW k \in Maintainers,
         \/ \E j \in DOMAIN jobs : OpenJob(k, j)
         \/ \E p \in ActivePapers : OpenPaper(k, p)
  PROVE  KeepsPapers
<1>1. /\ PaperTypeOK /\ DecisionsHold /\ ReviewsHaveTitles /\ PagesHold
      /\ UNCHANGED <<papers, jobs, imports>>
  BY DEF PapersHold, OpenJob, OpenPaper
<1>2. RepeatsAreBlind /\ MiscountsOverlap
  BY <1>1, Uncounted
<1>3. ASSUME NEW j \in DOMAIN jobs, OpenJob(k, j) PROVE PapersHold'
  <2> DEFINE row == [step |-> "job", job |-> j, status |-> jobs[j].status]
  <2>1. jobs[j] \in JobRow /\ j \in 1 .. MaxJobs
    BY <1>1, PaperRows DEF PaperTypeOK
  <2>2. /\ row \in LoadedJob /\ row.step = "job" /\ row.job = j
        /\ row.status = jobs[j].status
    BY <2>1 DEF LoadedJob, JobRow
  <2>3. maintainers' = [maintainers EXCEPT ![k] = row]
    BY <1>3 DEF OpenJob
  <2> HIDE DEF row
  <2>4. /\ maintainers' \in [Maintainers -> {Idle} \cup LoadedJob \cup LoadedPaper]
        /\ maintainers'[k] = row
        /\ \A i \in Maintainers \ {k} : maintainers'[i] = maintainers[i]
    BY <1>1, <2>2, <2>3 DEF PaperTypeOK
  <2>5. PagesHold'
    BY <1>1, <2>2, <2>4 DEF PagesHold, ReviewsHaveTitles
  <2> QED
    BY <1>1, <2>4, <2>5 DEF PapersHold, PaperTypeOK, DecisionsHold, ReviewsHaveTitles
<1>4. ASSUME NEW p \in ActivePapers, OpenPaper(k, p) PROVE PapersHold'
  <2> DEFINE row == [step |-> "paper", paper |-> p]
  <2>1. p \in DOMAIN papers /\ p \in 1 .. MaxPapers
    BY <1>1, PaperRows DEF PaperTypeOK, ActivePapers
  <2>2. row \in LoadedPaper /\ row.step = "paper" /\ row.paper = p
    BY <2>1 DEF LoadedPaper
  <2>3. maintainers' = [maintainers EXCEPT ![k] = row]
    BY <1>4 DEF OpenPaper
  <2> HIDE DEF row
  <2>4. /\ maintainers' \in [Maintainers -> {Idle} \cup LoadedJob \cup LoadedPaper]
        /\ maintainers'[k] = row
        /\ \A i \in Maintainers \ {k} : maintainers'[i] = maintainers[i]
    BY <1>1, <2>2, <2>3 DEF PaperTypeOK
  <2>5. PagesHold'
    BY <1>1, <2>1, <2>2, <2>4 DEF PagesHold
  <2> QED
    BY <1>1, <2>4, <2>5 DEF PapersHold, PaperTypeOK, DecisionsHold, ReviewsHaveTitles
<1> QED
  BY <1>2, <1>3, <1>4 DEF KeepsPapers

\* rename_shared_paper and delete_shared_paper write one paper.
LEMMA PaperPageKeepsPapers ==
  ASSUME PapersHold, NEW k \in Maintainers,
         DeletePaper(k) \/ \E title \in Titles : RenamePaper(k, title)
  PROVE  KeepsPapers
<1>1. PaperTypeOK /\ PagesHold
  BY DEF PapersHold
<1>2. /\ maintainers[k].step = "paper" /\ UNCHANGED <<jobs, imports>>
      /\ maintainers' = [maintainers EXCEPT ![k] = Idle]
  BY DEF DeletePaper, RenamePaper, LeaveMaintainer
<1>3. PICK p \in DOMAIN papers : p = maintainers[k].paper
  BY <1>1, <1>2 DEF PagesHold
<1>4. papers[p] \in PaperRow
  BY <1>1, PaperRows
<1>5. \E row \in PaperRow : papers' = [papers EXCEPT ![p] = row]
  <2>1. CASE DeletePaper(k)
    <3>1. [papers[p] EXCEPT !.active = FALSE] \in PaperRow
      BY <1>4 DEF PaperRow
    <3> QED
      BY <1>3, <2>1, <3>1 DEF DeletePaper
  <2>2. ASSUME NEW title \in Titles, RenamePaper(k, title) PROVE <1>5
    <3>1. [papers[p] EXCEPT !.title = title] \in PaperRow
      BY <1>4 DEF PaperRow
    <3> QED
      BY <1>3, <2>2, <3>1 DEF RenamePaper
  <2> QED
    BY <2>1, <2>2
<1>6. PICK row \in PaperRow : papers' = [papers EXCEPT ![p] = row]
  BY <1>5
<1>7. papers' \in Seq(PaperRow) /\ Len(papers') = Len(papers)
  BY <1>1, <1>6, PaperRows, ExceptSeq
<1>8. DOMAIN papers' = DOMAIN papers
  BY <1>1, <1>7, PaperRows, LenProperties
<1>9. PapersGrow
  BY <1>1, <1>7, <1>8 DEF PapersGrow, PaperTypeOK
<1>10. PapersHold'
  BY <1>2, <1>9, NothingGrown, GrowingKeepsPapers
<1> QED
  BY <1>1, <1>2, <1>7, <1>8, <1>10, Uncounted DEF KeepsPapers

\* Every request of the shared library keeps what is known of its rows.
LEMMA PaperStep == PapersHold /\ PaperNext => KeepsPapers
<1> SUFFICES ASSUME PapersHold, PaperNext PROVE KeepsPapers
  OBVIOUS
<1>1. ASSUME NEW i \in Importers, ImportPage(i) PROVE KeepsPapers
  BY <1>1, CommitKeepsPapers, CheckKeepsPapers DEF ImportPage
<1>2. ASSUME NEW k \in Maintainers, ReviewPage(k) PROVE KeepsPapers
  BY <1>2, ReviewKeepsPapers, OpeningKeepsPapers DEF ReviewPage
<1>3. ASSUME NEW k \in Maintainers, PaperPage(k) PROVE KeepsPapers
  BY <1>3, PaperPageKeepsPapers, OpeningKeepsPapers DEF PaperPage
<1> QED
  BY <1>1, <1>2, <1>3 DEF PaperNext

\* An empty library has no rows to be wrong about.
LEMMA PaperBegins == PaperInit => PapersHold
<1> SUFFICES ASSUME PaperInit PROVE PapersHold
  OBVIOUS
<1>1. /\ papers \in Seq(PaperRow) /\ Len(papers) = 0
      /\ jobs \in Seq(JobRow) /\ Len(jobs) = 0 /\ DOMAIN jobs = {}
  BY DEF PaperInit
<1> QED
  BY <1>1 DEF PaperInit, PapersHold, PaperTypeOK, DecisionsHold, ReviewsHaveTitles,
              PagesHold, Idle

\* Papers, jobs and what the requests have loaded agree.
THEOREM SharedPapersHold == PaperSpec => []PapersHold
<1>1. PapersHold /\ [PaperNext]_paperVars => PapersHold'
  BY PaperStep DEF KeepsPapers, paperVars, PapersHold, PaperTypeOK, DecisionsHold,
                   ReviewsHaveTitles, PagesHold
<1> QED
  BY <1>1, PaperBegins, PTL DEF PaperSpec

\* A file gets a second paper only from an import that looked before the first
\* was there, or by a maintainer's decision (detect_shared_paper_duplicate).
THEOREM FilesRepeatBlindly == PaperSpec => OnlyBlindImportsRepeatFiles
<1>1. ASSUME PapersHold, [PaperNext]_paperVars PROVE [RepeatsAreBlind]_paperVars
  BY <1>1, PaperStep DEF KeepsPapers
<1> QED
  BY <1>1, SharedPapersHold, PTL DEF PaperSpec, OnlyBlindImportsRepeatFiles, RepeatsAreBlind

\* Jobs cease to account for the papers only by a review of a job that was
\* decided since its page was loaded (review_paper_import).
THEOREM MiscountsAreOverlaps == PaperSpec => OnlyOverlappingReviewsMiscount
<1>1. ASSUME PapersHold, [PaperNext]_paperVars PROVE [MiscountsOverlap]_paperVars
  BY <1>1, PaperStep DEF KeepsPapers
<1> QED
  BY <1>1, SharedPapersHold, PTL
     DEF PaperSpec, OnlyOverlappingReviewsMiscount, MiscountsOverlap

HIDE PaperAssumption

-----------------------------------------------------------------------------
(***************************************************************************)
(* Papers of a project and their batches.                                  *)
(***************************************************************************)

USE BatchAssumption

WorksDiffer(items) ==
  \A m, n \in Accepted(items) : items[m].work = items[n].work => m = n

\* A batch is stubbed as a whole.
FormsAgree(items) ==
  /\ \A m, n \in Accepted(items) : items[m].form = items[n].form
  /\ \A n \in DOMAIN items : items[n].form = "stub" => n \in Accepted(items)

BatchesHold ==
  \A b \in Batches :
    /\ FormsAgree(batches[b])
    /\ \A n \in DOMAIN batches[b] : batches[b][n].form = "stub" => WorksDiffer(batches[b])

\* What a request has loaded is the batch, or the batch before it was stubbed.
LoadedOf(items, b) ==
  /\ batches[b] # << >> /\ DOMAIN items = DOMAIN batches[b]
  /\ \A n \in DOMAIN items :
       /\ items[n].work = batches[b][n].work /\ items[n].status = batches[b][n].status
       /\ items[n].form = "stub" => batches[b][n].form = "stub"

StubOf(entry) ==
  \E b \in Batches : \E m \in DOMAIN batches[b] :
    batches[b][m].work = entry.work /\ batches[b][m].form = "stub"

ClerksHold ==
  \A c \in Clerks :
    /\ clerks[c].step = "page" =>
         LoadedOf(clerks[c].items, clerks[c].batch) /\ FormsAgree(clerks[c].items)
    /\ clerks[c].step = "checked" =>
         /\ clerks[c].batch \in Batches =>
              batches[clerks[c].batch] # << >> /\ WorksDiffer(batches[clerks[c].batch])
         /\ \A k \in DOMAIN clerks[c].adds :
              /\ clerks[c].adds[k] \notin clerks[c].seen
              /\ clerks[c].adds[k].form = "stub" => StubOf(clerks[c].adds[k])

BatchInv == BatchTypeOK /\ BatchesHold /\ ClerksHold /\ StubsComeFromCommitted

\* A step that adds a paper again saw it too early.
RepeatsUnseen ==
  \A n \in Len(shelf) + 1 .. Len(shelf') :
    shelf'[n] \in OnShelf =>
      \E c \in Clerks :
        /\ clerks[c].step = "checked" /\ clerks'[c] = NoClerk
        /\ shelf'[n] \notin clerks[c].seen

KeepsBatches == BatchInv' /\ RepeatsUnseen

\* The papers of a project are a sequence of entries.
LEMMA ShelfRows ==
  ASSUME BatchTypeOK
  PROVE  /\ shelf \in Seq(Entry) /\ Len(shelf) \in Nat /\ DOMAIN shelf = 1 .. Len(shelf)
         /\ OnShelf \subseteq Entry
<1>1. shelf \in Seq(Entry)
  BY DEF BatchTypeOK
<1> QED
  BY <1>1, ElementOfSeq, LenProperties DEF OnShelf

\* Batches that were staged keep their items but for their form.
BatchesStay ==
  /\ batches' \in [Batches -> Seq(Item)]
  /\ \A b \in Batches :
       batches[b] # << >> =>
         /\ batches'[b] # << >> /\ DOMAIN batches'[b] = DOMAIN batches[b]
         /\ \A n \in DOMAIN batches[b] :
              /\ batches'[b][n].work = batches[b][n].work
              /\ batches'[b][n].status = batches[b][n].status
              /\ batches[b][n].form = "stub" => batches'[b][n].form = "stub"

\* A stub in a batch stays one, whatever else is written.
LEMMA StubsStay ==
  ASSUME BatchTypeOK, BatchesStay, NEW entry, StubOf(entry)
  PROVE  StubOf(entry)'
<1>1. PICK b \in Batches : \E m \in DOMAIN batches[b] :
        batches[b][m].work = entry.work /\ batches[b][m].form = "stub"
  BY DEF StubOf
<1>2. batches[b] # << >>
  BY <1>1
<1> QED
  BY <1>1, <1>2 DEF StubOf, BatchesStay

\* What was loaded of a batch stays true of it.
LEMMA LoadedStays ==
  ASSUME BatchesStay, NEW items, NEW b \in Batches, LoadedOf(items, b)
  PROVE  LoadedOf(items, b)'
BY DEF LoadedOf, BatchesStay

\* Clerks who rest or keep what they know.
LEMMA ClerksStay ==
  ASSUME BatchInv, BatchesStay,
         \A c \in Clerks : clerks'[c] = clerks[c] \/ clerks'[c] = NoClerk
  PROVE  ClerksHold'
<1>1. BatchTypeOK /\ ClerksHold
  BY DEF BatchInv
<1>2. ASSUME NEW c \in Clerks, clerks'[c].step = "page"
      PROVE  LoadedOf(clerks[c].items, clerks[c].batch)' /\ FormsAgree(clerks[c].items)
             /\ clerks'[c] = clerks[c]
  <2>1. /\ clerks'[c] = clerks[c] /\ clerks[c].step = "page"
        /\ LoadedOf(clerks[c].items, clerks[c].batch) /\ FormsAgree(clerks[c].items)
    BY <1>1, <1>2 DEF ClerksHold, NoClerk
  <2>2. clerks[c] \in Page
    BY <1>1, <2>1 DEF BatchTypeOK, NoClerk, Checked
  <2>3. clerks[c].batch \in Batches
    BY <2>2 DEF Page
  <2>4. PICK b \in Batches : b = clerks[c].batch
    BY <2>3
  <2>5. PICK items : items = clerks[c].items
    OBVIOUS
  <2>6. LoadedOf(items, b)'
    BY <2>1, <2>4, <2>5, LoadedStays
  <2> QED
    BY <2>1, <2>4, <2>5, <2>6 DEF LoadedOf
<1>3. ASSUME NEW c \in Clerks, clerks'[c].step = "checked"
      PROVE  /\ clerks'[c] = clerks[c]
             /\ clerks[c].batch \in Batches =>
                  batches'[clerks[c].batch] # << >> /\ WorksDiffer(batches'[clerks[c].batch])
             /\ \A k \in DOMAIN clerks[c].adds :
                  /\ clerks[c].adds[k] \notin clerks[c].seen
                  /\ clerks[c].adds[k].form = "stub" => StubOf(clerks[c].adds[k])'
  <2>1. /\ clerks'[c] = clerks[c] /\ clerks[c].step = "checked"
    BY <1>3 DEF NoClerk
  <2>2. clerks[c].batch \in Batches =>
          batches'[clerks[c].batch] # << >> /\ WorksDiffer(batches'[clerks[c].batch])
    <3> SUFFICES ASSUME NEW b \in Batches, b = clerks[c].batch
                 PROVE  batches'[b] # << >> /\ WorksDiffer(batches'[b])
      OBVIOUS
    <3>1. batches[b] # << >> /\ WorksDiffer(batches[b])
      BY <1>1, <2>1 DEF ClerksHold
    <3>2. Accepted(batches'[b]) = Accepted(batches[b])
      BY <3>1 DEF Accepted, BatchesStay
    <3>3. Accepted(batches[b]) \subseteq DOMAIN batches[b]
      BY DEF Accepted
    <3>4. /\ batches'[b] # << >>
          /\ \A n \in DOMAIN batches[b] : batches'[b][n].work = batches[b][n].work
      BY <3>1 DEF BatchesStay
    <3> QED
      BY <3>1, <3>2, <3>3, <3>4 DEF WorksDiffer
  <2>3. \A k \in DOMAIN clerks[c].adds :
          /\ clerks[c].adds[k] \notin clerks[c].seen
          /\ clerks[c].adds[k].form = "stub" => StubOf(clerks[c].adds[k])
    BY <1>1, <2>1 DEF ClerksHold
  <2>4. ASSUME NEW k \in DOMAIN clerks[c].adds, clerks[c].adds[k].form = "stub"
        PROVE  StubOf(clerks[c].adds[k])'
    <3>1. PICK entry : entry = clerks[c].adds[k]
      OBVIOUS
    <3>2. StubOf(entry)'
      BY <1>1, <2>3, <2>4, <3>1, StubsStay
    <3> QED
      BY <2>1, <3>1, <3>2 DEF StubOf
  <2> QED
    BY <2>1, <2>2, <2>3, <2>4
<1> QED
  BY <1>2, <1>3 DEF ClerksHold

\* Batches that nobody writes stay.
LEMMA BatchesUnchanged ==
  ASSUME BatchTypeOK, UNCHANGED batches
  PROVE  BatchesStay
BY DEF BatchTypeOK, BatchesStay

\* A step that adds no paper repeats none.
LEMMA NothingRepeats ==
  ASSUME BatchTypeOK, UNCHANGED shelf
  PROVE  RepeatsUnseen
<1>1. Len(shelf) + 1 .. Len(shelf') = {}
  BY ShelfRows
<1> QED
  BY <1>1 DEF RepeatsUnseen

\* stage_import fills a batch that was not staged.
LEMMA StagingKeepsBatches ==
  ASSUME BatchInv, NEW b \in Batches, NEW works \in Works \X Works, StageImport(b, works)
  PROVE  KeepsBatches
<1>1. /\ BatchTypeOK /\ BatchesHold /\ ClerksHold /\ StubsComeFromCommitted
      /\ batches[b] = << >> /\ UNCHANGED <<writable, shelf, clerks>>
  BY DEF BatchInv, StageImport
<1> DEFINE items == [n \in DOMAIN works |->
                 [work |-> works[n], form |-> "full",
                  status |-> IF [work |-> works[n], form |-> "full"] \in OnShelf
                             THEN "duplicate" ELSE "accepted"]]
<1>2. /\ DOMAIN works = 1 .. 2 /\ \A n \in 1 .. 2 : works[n] \in Works
  OBVIOUS
<1>3. /\ items \in [1 .. 2 -> Item] /\ \A n \in 1 .. 2 : items[n].form = "full"
  BY <1>2 DEF Item
<1>4. batches' = [batches EXCEPT ![b] = items]
  BY DEF StageImport
<1> HIDE DEF items
<1>5. items \in Seq(Item) /\ DOMAIN items = 1 .. 2
  <2>1. items \in [1 .. 2 -> Item] /\ 2 \in Nat
    BY <1>3
  <2>2. items \in UNION {[1 .. n -> Item] : n \in Nat}
    BY <2>1
  <2> QED
    BY <2>1, <2>2, SeqDef
<1>6. /\ batches' \in [Batches -> Seq(Item)] /\ batches'[b] = items
      /\ \A a \in Batches \ {b} : batches'[a] = batches[a]
  BY <1>1, <1>4, <1>5 DEF BatchTypeOK
<1>7. BatchesStay
  BY <1>1, <1>6 DEF BatchesStay
<1>8. BatchesHold'
  <2>1. FormsAgree(items) /\ \A n \in DOMAIN items : items[n].form # "stub"
    BY <1>3, <1>5 DEF FormsAgree, Accepted
  <2> QED
    BY <1>1, <1>6, <2>1 DEF BatchesHold
<1>9. ClerksHold'
  BY <1>1, <1>7, ClerksStay
<1>10. StubsComeFromCommitted'
  BY <1>1, <1>7, StubsStay DEF StubsComeFromCommitted, StubOf
<1>11. BatchTypeOK'
  BY <1>1, <1>6 DEF BatchTypeOK
<1> QED
  BY <1>1, <1>8, <1>9, <1>10, <1>11, NothingRepeats DEF KeepsBatches, BatchInv

\* Steps of a clerk that leave batches and papers alone.
LEMMA ClerkMoves ==
  ASSUME BatchInv, NEW c \in Clerks, NEW row \in {NoClerk} \cup Checked \cup Page,
         clerks' = [clerks EXCEPT ![c] = row], UNCHANGED <<writable, shelf, batches>>,
         row.step = "page" => LoadedOf(row.items, row.batch) /\ FormsAgree(row.items),
         row.step = "checked" =>
           /\ row.batch \in Batches =>
                batches[row.batch] # << >> /\ WorksDiffer(batches[row.batch])
           /\ \A k \in DOMAIN row.adds :
                /\ row.adds[k] \notin row.seen
                /\ row.adds[k].form = "stub" => StubOf(row.adds[k])
  PROVE  KeepsBatches
<1>1. BatchTypeOK /\ BatchesHold /\ ClerksHold /\ StubsComeFromCommitted
  BY DEF BatchInv
<1>2. /\ clerks' \in [Clerks -> {NoClerk} \cup Checked \cup Page] /\ clerks'[c] = row
      /\ \A d \in Clerks \ {c} : clerks'[d] = clerks[d]
  BY <1>1 DEF BatchTypeOK
<1>3. ClerksHold'
  <2>1. SUFFICES ASSUME NEW d \in Clerks
                 PROVE  (/\ clerks[d].step = "page" =>
                              LoadedOf(clerks[d].items, clerks[d].batch)
                              /\ FormsAgree(clerks[d].items)
                         /\ clerks[d].step = "checked" =>
                              /\ clerks[d].batch \in Batches =>
                                   batches[clerks[d].batch] # << >>
                                   /\ WorksDiffer(batches[clerks[d].batch])
                              /\ \A k \in DOMAIN clerks[d].adds :
                                   /\ clerks[d].adds[k] \notin clerks[d].seen
                                   /\ clerks[d].adds[k].form = "stub" =>
                                        StubOf(clerks[d].adds[k]))'
    BY DEF ClerksHold
  <2>2. CASE d = c
    BY <1>2, <2>2 DEF LoadedOf, StubOf
  <2>3. CASE d # c
    BY <1>1, <1>2, <2>3 DEF ClerksHold, LoadedOf, StubOf
  <2> QED
    BY <2>2, <2>3
<1> QED
  BY <1>1, <1>2, <1>3, NothingRepeats
     DEF KeepsBatches, BatchInv, BatchTypeOK, BatchesHold, StubsComeFromCommitted

\* create_paper and upload_paper: what is checked was not on the shelf.
LEMMA CheckPaperKeepsBatches ==
  ASSUME BatchInv, NEW c \in Clerks, NEW w \in Works, CheckPaper(c, w)
  PROVE  KeepsBatches
<1>1. BatchTypeOK
  BY DEF BatchInv
<1> DEFINE entry == [work |-> w, form |-> "full"]
           row == [step |-> "checked", batch |-> 0, adds |-> <<entry>>, seen |-> OnShelf]
<1>2. entry \in Entry /\ entry.form = "full" /\ entry \notin OnShelf
  BY DEF Entry, CheckPaper
<1>3. clerks' = [clerks EXCEPT ![c] = row] /\ UNCHANGED <<writable, shelf, batches>>
  BY DEF CheckPaper
<1> HIDE DEF entry
<1>4. <<entry>> \in Seq(Entry) /\ DOMAIN <<entry>> = {1} /\ <<entry>>[1] = entry
  BY <1>2
<1>5. /\ row \in Checked /\ row.step = "checked" /\ row.batch = 0
      /\ row.adds = <<entry>> /\ row.seen = OnShelf
  BY <1>1, <1>4, ShelfRows DEF Checked
<1> HIDE DEF row
<1> QED
  BY <1>2, <1>3, <1>4, <1>5, ClerkMoves

\* The view loads the batch as it is.
LEMMA OpenBatchKeepsBatches ==
  ASSUME BatchInv, NEW c \in Clerks, NEW b \in Batches, OpenBatch(c, b)
  PROVE  KeepsBatches
<1>1. BatchTypeOK /\ BatchesHold
  BY DEF BatchInv
<1> DEFINE row == [step |-> "page", batch |-> b, items |-> batches[b]]
<1>2. /\ row \in Page /\ row.step = "page" /\ row.batch = b /\ row.items = batches[b]
  BY <1>1 DEF Page, BatchTypeOK
<1>3. /\ clerks' = [clerks EXCEPT ![c] = row] /\ UNCHANGED <<writable, shelf, batches>>
      /\ batches[b] # << >>
  BY DEF OpenBatch
<1> HIDE DEF row
<1>4. LoadedOf(row.items, row.batch) /\ FormsAgree(row.items)
  BY <1>1, <1>2, <1>3 DEF LoadedOf, BatchesHold
<1> QED
  BY <1>2, <1>3, <1>4, ClerkMoves

\* commit_import checks the items that were loaded, which may be stubbed since.
LEMMA CheckBatchKeepsBatches ==
  ASSUME BatchInv, NEW c \in Clerks, CheckBatch(c)
  PROVE  KeepsBatches
<1>1. BatchTypeOK /\ ClerksHold /\ clerks[c].step = "page"
  BY DEF BatchInv, CheckBatch
<1>2. clerks[c] \in Page
  BY <1>1 DEF BatchTypeOK, NoClerk, Checked
<1>3. /\ clerks[c].batch \in Batches /\ clerks[c].items \in Seq(Item)
  BY <1>2 DEF Page
<1>4. PICK b \in Batches : b = clerks[c].batch
  BY <1>3
<1>5. PICK items \in Seq(Item) : items = clerks[c].items
  BY <1>3
<1>6. LoadedOf(items, b) /\ FormsAgree(items) /\ AllNew(items)
  BY <1>1, <1>4, <1>5 DEF ClerksHold, CheckBatch
<1>7. \A n \in DOMAIN items : items[n] \in Item
  BY ElementOfSeq, LenProperties
<1>8. PICK order \in InOrder(items) :
        clerks' = [clerks EXCEPT ![c] = [step |-> "checked", batch |-> b,
          adds |-> [k \in DOMAIN order |-> Plain(items[order[k]])], seen |-> OnShelf]]
  <2>1. PICK order \in InOrder(clerks[c].items) :
          clerks' = [clerks EXCEPT ![c] = [step |-> "checked", batch |-> clerks[c].batch,
            adds |-> [k \in DOMAIN order |-> Plain(clerks[c].items[order[k]])],
            seen |-> OnShelf]]
    BY Zenon DEF CheckBatch
  <2> QED
    BY <1>4, <1>5, <2>1
<1>9. PICK size \in Nat : order \in [1 .. size -> Accepted(items)]
  BY LenProperties DEF InOrder
<1> DEFINE adds == [k \in DOMAIN order |-> Plain(items[order[k]])]
           row == [step |-> "checked", batch |-> b, adds |-> adds, seen |-> OnShelf]
<1>10. \A k \in 1 .. size : order[k] \in Accepted(items) /\ items[order[k]] \in Item
  BY <1>7, <1>9 DEF Accepted
<1>11. \A k \in 1 .. size : Plain(items[order[k]]) \in Entry
  BY <1>10 DEF Plain, Item, Entry
<1>12. /\ adds \in [1 .. size -> Entry]
       /\ \A k \in 1 .. size : adds[k] = Plain(items[order[k]])
  BY <1>9, <1>11
<1>13. clerks' = [clerks EXCEPT ![c] = row]
  BY <1>8
<1> HIDE DEF adds
<1>14. adds \in Seq(Entry) /\ DOMAIN adds = 1 .. size
  BY <1>12
<1>15. /\ row \in Checked /\ row.step = "checked" /\ row.batch = b
       /\ row.adds = adds /\ row.seen = OnShelf
  BY <1>1, <1>14, ShelfRows DEF Checked
<1> HIDE DEF row
<1>16. ASSUME NEW k \in DOMAIN adds
       PROVE  /\ adds[k] \notin OnShelf
              /\ adds[k].form = "stub" => StubOf(adds[k])
  <2>1. /\ adds[k] = Plain(items[order[k]]) /\ order[k] \in Accepted(items)
    BY <1>10, <1>12, <1>14
  <2>2. PICK n \in DOMAIN items : n = order[k] /\ n \in Accepted(items)
    BY <2>1 DEF Accepted
  <2>3. /\ adds[k].form = items[n].form /\ adds[k].work = items[n].work
    BY <2>1, <2>2 DEF Plain
  <2>4. adds[k] \notin OnShelf
    BY <1>6, <2>1, <2>2 DEF AllNew
  <2> QED
    BY <1>6, <2>3, <2>4 DEF LoadedOf, StubOf
<1>17. WorksDiffer(batches[b])
  <2>1. WorksDiffer(items)
    BY <1>6 DEF AllNew, NoRepeats, FormsAgree, WorksDiffer, Plain
  <2> QED
    BY <1>6, <2>1 DEF WorksDiffer, LoadedOf, Accepted
<1>18. batches[b] # << >> /\ UNCHANGED <<writable, shelf, batches>>
  BY <1>6 DEF LoadedOf, CheckBatch
<1> QED
  BY <1>13, <1>15, <1>16, <1>17, <1>18, ClerkMoves

\* The commit of commit_import appends what was checked and stubs the batch.
LEMMA CommitKeepsBatches ==
  ASSUME BatchInv, NEW c \in Clerks, CommitPapers(c)
  PROVE  KeepsBatches
<1>1. /\ BatchTypeOK /\ BatchesHold /\ ClerksHold /\ StubsComeFromCommitted
      /\ clerks[c].step = "checked"
  BY DEF BatchInv, CommitPapers
<1>2. clerks[c] \in Checked
  BY <1>1 DEF BatchTypeOK, NoClerk, Page
<1>3. /\ clerks[c].adds \in Seq(Entry) /\ clerks[c].batch \in Batches \cup {0}
  BY <1>2 DEF Checked
<1>4. PICK adds \in Seq(Entry) : adds = clerks[c].adds
  BY <1>3
<1>5. PICK b \in Batches \cup {0} : b = clerks[c].batch
  BY <1>3
<1>6. /\ b \in Batches => batches[b] # << >> /\ WorksDiffer(batches[b])
      /\ \A k \in DOMAIN adds : /\ adds[k] \notin clerks[c].seen
                                /\ adds[k].form = "stub" => StubOf(adds[k])
  BY <1>1, <1>4, <1>5 DEF ClerksHold
<1>7. /\ Len(shelf) + Len(adds) <= MaxShelf /\ shelf' = shelf \o adds
      /\ clerks' = [clerks EXCEPT ![c] = NoClerk] /\ writable' = writable
      /\ batches' = [a \in Batches |-> IF a = b THEN Stubbed(batches[a]) ELSE batches[a]]
  BY <1>4, <1>5 DEF CommitPapers
<1>8. /\ shelf \in Seq(Entry) /\ Len(shelf) \in Nat /\ DOMAIN shelf = 1 .. Len(shelf)
      /\ Len(adds) \in Nat /\ DOMAIN adds = 1 .. Len(adds)
  BY <1>1, ShelfRows, LenProperties
<1>9. /\ shelf' \in Seq(Entry) /\ Len(shelf') = Len(shelf) + Len(adds)
      /\ \A n \in 1 .. Len(shelf) + Len(adds) :
           shelf'[n] = IF n <= Len(shelf) THEN shelf[n] ELSE adds[n - Len(shelf)]
  BY <1>7, <1>8, ConcatProperties
<1>10. DOMAIN shelf' = 1 .. Len(shelf) + Len(adds)
  BY <1>9, LenProperties
<1>11. /\ clerks' \in [Clerks -> {NoClerk} \cup Checked \cup Page] /\ clerks'[c] = NoClerk
       /\ \A d \in Clerks : clerks'[d] = clerks[d] \/ clerks'[d] = NoClerk
  BY <1>1, <1>7 DEF BatchTypeOK
<1>12. ASSUME NEW a \in Batches
       PROVE  /\ Stubbed(batches[a]) \in Seq(Item)
              /\ DOMAIN Stubbed(batches[a]) = DOMAIN batches[a]
              /\ \A n \in DOMAIN batches[a] :
                   /\ Stubbed(batches[a])[n].work = batches[a][n].work
                   /\ Stubbed(batches[a])[n].status = batches[a][n].status
                   /\ Stubbed(batches[a])[n].form =
                        IF n \in Accepted(batches[a]) THEN "stub" ELSE batches[a][n].form
  <2>1. PICK items \in Seq(Item) : items = batches[a]
    BY <1>1 DEF BatchTypeOK
  <2>2. /\ Len(items) \in Nat /\ DOMAIN items = 1 .. Len(items)
        /\ \A n \in DOMAIN items : items[n] \in Item
    BY ElementOfSeq, LenProperties
  <2>3. ASSUME NEW n \in DOMAIN items
        PROVE  /\ Stubbed(items)[n] \in Item
               /\ Stubbed(items)[n].work = items[n].work
               /\ Stubbed(items)[n].status = items[n].status
               /\ Stubbed(items)[n].form =
                        IF n \in Accepted(items) THEN "stub" ELSE items[n].form
    <3>1. Stubbed(items)[n] =
            IF n \in Accepted(items) THEN [items[n] EXCEPT !.form = "stub"] ELSE items[n]
      BY DEF Stubbed
    <3>2. items[n] \in Item
      BY <2>2
    <3> QED
      BY <3>1, <3>2 DEF Item
  <2>4. DOMAIN Stubbed(items) = 1 .. Len(items) /\ Stubbed(items) \in [1 .. Len(items) -> Item]
    BY <2>2, <2>3 DEF Stubbed
  <2>5. Stubbed(items) \in Seq(Item)
    BY <2>2, <2>4
  <2> QED
    BY <2>1, <2>2, <2>3, <2>4, <2>5
<1>13. \A a \in Batches : batches'[a] = IF a = b THEN Stubbed(batches[a]) ELSE batches[a]
  BY <1>7
<1>14. BatchesStay
  <2>1. batches' \in [Batches -> Seq(Item)]
    BY <1>1, <1>7, <1>12 DEF BatchTypeOK
  <2>2. ASSUME NEW a \in Batches, batches[a] # << >>
        PROVE  /\ batches'[a] # << >> /\ DOMAIN batches'[a] = DOMAIN batches[a]
               /\ \A n \in DOMAIN batches[a] :
                    /\ batches'[a][n].work = batches[a][n].work
                    /\ batches'[a][n].status = batches[a][n].status
                    /\ batches[a][n].form = "stub" => batches'[a][n].form = "stub"
    <3>1. batches[a] \in Seq(Item)
      BY <1>1 DEF BatchTypeOK
    <3>2. DOMAIN batches[a] # {}
      <4>1. PICK items \in Seq(Item) : items = batches[a] /\ items # << >>
        BY <2>2, <3>1
      <4>2. Len(items) \in Nat \ {0} /\ DOMAIN items = 1 .. Len(items)
        BY <4>1, EmptySeq, LenProperties
      <4>3. 1 \in DOMAIN items
        BY <4>2
      <4> QED
        BY <4>1, <4>3
    <3>3. CASE a = b
      <4>1. batches'[a] = Stubbed(batches[a])
        BY <1>13, <3>3
      <4>2. DOMAIN batches'[a] # {}
        BY <1>12, <3>2, <4>1
      <4> QED
        BY <1>12, <4>1, <4>2
    <3>4. CASE a # b
      BY <1>13, <2>2, <3>4
    <3> QED
      BY <3>3, <3>4
  <2> QED
    BY <2>1, <2>2 DEF BatchesStay
<1>15. BatchesHold'
  <2>1. ASSUME NEW a \in Batches
        PROVE  /\ FormsAgree(batches'[a])
               /\ \A n \in DOMAIN batches'[a] :
                    batches'[a][n].form = "stub" => WorksDiffer(batches'[a])
    <3>1. CASE a = b
      <4>1. /\ batches'[a] = Stubbed(batches[a]) /\ WorksDiffer(batches[a])
            /\ FormsAgree(batches[a])
        BY <1>1, <1>6, <1>13, <3>1 DEF BatchesHold
      <4>2. Accepted(Stubbed(batches[a])) = Accepted(batches[a])
        BY <1>12 DEF Accepted
      <4>3. Accepted(batches[a]) \subseteq DOMAIN batches[a]
        BY DEF Accepted
      <4>4. WorksDiffer(Stubbed(batches[a]))
        BY <1>12, <4>1, <4>2, <4>3 DEF WorksDiffer
      <4>5. FormsAgree(Stubbed(batches[a]))
        BY <1>12, <4>1, <4>2, <4>3 DEF FormsAgree
      <4> QED
        BY <4>1, <4>4, <4>5
    <3>2. CASE a # b
      BY <1>1, <1>13, <3>2 DEF BatchesHold
    <3> QED
      BY <3>1, <3>2
  <2> QED
    BY <2>1 DEF BatchesHold
<1>16. ClerksHold'
  BY <1>11, <1>14, ClerksStay
<1>17. ASSUME NEW n \in 1 .. Len(shelf) + Len(adds)
       PROVE  \/ n \in DOMAIN shelf /\ n <= Len(shelf) /\ shelf'[n] = shelf[n]
              \/ n - Len(shelf) \in DOMAIN adds /\ shelf'[n] = adds[n - Len(shelf)]
  BY <1>8, <1>9
<1>18. StubsComeFromCommitted'
  <2>1. ASSUME NEW n \in DOMAIN shelf', shelf'[n].form = "stub" PROVE StubOf(shelf[n])'
    <3>1. PICK entry : entry = shelf'[n]
      OBVIOUS
    <3>2. StubOf(entry)
      BY <1>1, <1>6, <1>10, <1>17, <2>1, <3>1 DEF StubsComeFromCommitted, StubOf
    <3>3. StubOf(entry)'
      BY <1>1, <1>14, <3>2, StubsStay
    <3> QED
      BY <3>1, <3>3 DEF StubOf
  <2> QED
    BY <2>1 DEF StubsComeFromCommitted, StubOf
<1>19. RepeatsUnseen
  <2>1. ASSUME NEW n \in Len(shelf) + 1 .. Len(shelf') PROVE shelf'[n] \notin clerks[c].seen
    <3>1. n \in 1 .. Len(shelf) + Len(adds) /\ ~(n <= Len(shelf))
      BY <1>8, <1>9
    <3>2. n - Len(shelf) \in DOMAIN adds /\ shelf'[n] = adds[n - Len(shelf)]
      BY <1>17, <3>1
    <3> QED
      BY <1>6, <3>2
  <2> QED
    BY <1>1, <1>11, <2>1 DEF RepeatsUnseen
<1>20. BatchTypeOK'
  BY <1>1, <1>7, <1>9, <1>11, <1>14 DEF BatchTypeOK, BatchesStay
<1> QED
  BY <1>15, <1>16, <1>18, <1>19, <1>20 DEF KeepsBatches, BatchInv

\* Every request of the project's papers keeps what is known of the batches.
LEMMA BatchStep == BatchInv /\ BatchNext => KeepsBatches
<1> SUFFICES ASSUME BatchInv, BatchNext PROVE KeepsBatches
  OBVIOUS
<1>1. BatchTypeOK /\ BatchesHold /\ ClerksHold /\ StubsComeFromCommitted
  BY DEF BatchInv
<1>2. CASE ShelfProjectTurns
  <2>1. ClerksHold'
    BY <1>1, <1>2 DEF ShelfProjectTurns, ClerksHold, LoadedOf, StubOf
  <2> QED
    BY <1>1, <1>2, <2>1, NothingRepeats
       DEF ShelfProjectTurns, KeepsBatches, BatchInv, BatchTypeOK, BatchesHold,
           StubsComeFromCommitted
<1>3. ASSUME NEW c \in Clerks, GiveUpBatch(c) PROVE KeepsBatches
  <2>1. NoClerk.step = "none"
    BY DEF NoClerk
  <2> QED
    BY <1>3, <2>1, ClerkMoves DEF GiveUpBatch
<1>4. ASSUME NEW c \in Clerks, ClerkPage(c) PROVE KeepsBatches
  BY <1>3, <1>4, CheckPaperKeepsBatches, OpenBatchKeepsBatches, CheckBatchKeepsBatches,
     CommitKeepsBatches DEF ClerkPage
<1> QED
  BY <1>2, <1>4, StagingKeepsBatches DEF BatchNext

\* Nothing is staged at first.
LEMMA BatchBegins == BatchInit => BatchInv
<1> SUFFICES ASSUME BatchInit PROVE BatchInv
  OBVIOUS
<1>1. shelf \in Seq(Entry) /\ Len(shelf) = 0 /\ DOMAIN shelf = {} /\ << >> \in Seq(Item)
  BY DEF BatchInit
<1>2. \A b \in Batches : batches[b] = << >> /\ DOMAIN batches[b] = {}
  BY DEF BatchInit
<1>3. BatchTypeOK
  BY <1>1 DEF BatchInit, BatchTypeOK
<1>4. BatchesHold
  BY <1>2 DEF BatchesHold, FormsAgree, Accepted
<1> QED
  BY <1>1, <1>3, <1>4 DEF BatchInit, BatchInv, ClerksHold, NoClerk, StubsComeFromCommitted

\* Batches are stubbed as a whole, and what requests have loaded or checked
\* follows from them.
THEOREM BatchesAreTold ==
  BatchSpec => []BatchInv
<1>1. BatchInv /\ [BatchNext]_batchVars => BatchInv'
  <2>1. BatchInv /\ UNCHANGED batchVars => BatchInv'
    BY DEF batchVars, BatchInv, BatchTypeOK, BatchesHold, ClerksHold, LoadedOf, StubOf,
           StubsComeFromCommitted
  <2> QED
    BY <2>1, BatchStep DEF KeepsBatches
<1> QED
  BY <1>1, BatchBegins, PTL DEF BatchSpec

\* A batch with a stub was checked, so its items differ.
LEMMA TwinsToo == BatchInv => TwinsAreNeverCommitted
<1> SUFFICES ASSUME BatchInv, NEW b \in Batches, ~NoRepeats(batches[b]),
                    NEW n \in DOMAIN batches[b]
             PROVE  batches[b][n].form = "full"
  BY DEF TwinsAreNeverCommitted
<1>1. ~WorksDiffer(batches[b])
  BY DEF WorksDiffer, NoRepeats, Plain
<1>2. batches[b][n].form # "stub"
  BY <1>1 DEF BatchInv, BatchesHold
<1>3. batches[b] \in Seq(Item)
  BY DEF BatchInv, BatchTypeOK
<1>4. batches[b][n] \in Item
  BY <1>3, ElementOfSeq, LenProperties
<1> QED
  BY <1>2, <1>4 DEF Item

\* A paper is added again only by a request that looked before it was there
\* (find_duplicate without a lock).
THEOREM PapersRepeatUnseen == BatchSpec => OnlyBlindRequestsRepeatPapers
<1>1. ASSUME BatchInv, [BatchNext]_batchVars PROVE [RepeatsUnseen]_batchVars
  BY <1>1, BatchStep DEF KeepsBatches
<1> QED
  BY <1>1, BatchesAreTold, PTL DEF BatchSpec, OnlyBlindRequestsRepeatPapers, RepeatsUnseen

HIDE BatchAssumption

-----------------------------------------------------------------------------
(***************************************************************************)
(* Documents and materials.                                                *)
(***************************************************************************)

USE DocumentAssumption

\* Records keep what they are, and an archived one stays archived.
DocumentsGrow ==
  /\ documents' \in Seq(Document) /\ Len(documents') <= MaxDocuments
  /\ Len(documents) <= Len(documents')
  /\ \A d \in DOMAIN documents :
       /\ d \in DOMAIN documents'
       /\ documents'[d].home = documents[d].home
       /\ documents'[d].category = documents[d].category
       /\ documents'[d].kind = documents[d].kind
       /\ documents'[d].active => documents[d].active

\* What a request that is to come to its end has found and still holds: the
\* category had no active documents, the title none that counted.
DeletionChecked(k) ==
  /\ archivists[k].since <= Len(documents)
  /\ \A d \in ActiveIn(archivists[k].category) : archivists[k].since < d

RenameChecked(k) ==
  /\ archivists[k].document \in DOMAIN documents
  /\ archivists[k].twins \subseteq DOMAIN documents
  /\ Rivals(archivists[k].document, archivists[k].route) \cap archivists[k].twins = {}

ChecksHold ==
  \A k \in Archivists :
    /\ archivists[k].step = "deleting" => DeletionChecked(k)
    /\ archivists[k].step = "renaming" => RenameChecked(k)

DocumentsAgree == DocumentTypeOK /\ MaterialsAgree /\ ChecksHold

\* What has been checked stays so while records only grow.
LEMMA ChecksStay ==
  ASSUME DocumentTypeOK, ChecksHold, DocumentsGrow,
         \A k \in Archivists : archivists'[k] = archivists[k] \/ archivists'[k] = AtRest
  PROVE  ChecksHold'
<1>0. documents \in Seq(Document) /\ documents' \in Seq(Document)
  BY DEF DocumentTypeOK, DocumentsGrow
<1>1. /\ Len(documents) \in Nat /\ Len(documents') \in Nat
      /\ DOMAIN documents = 1 .. Len(documents) /\ DOMAIN documents' = 1 .. Len(documents')
      /\ Len(documents) <= Len(documents')
  BY <1>0, LenProperties DEF DocumentsGrow
<1>2. ASSUME NEW k \in Archivists, archivists'[k].step = "deleting"
      PROVE  DeletionChecked(k)'
  <2>1. archivists'[k] = archivists[k] /\ DeletionChecked(k)
    BY <1>2 DEF ChecksHold, AtRest
  <2>2. archivists[k].since \in Nat
    BY <1>2, <2>1 DEF DocumentTypeOK, Archivist, AtRest
  <2>3. ASSUME NEW d \in DOMAIN documents', documents'[d].active,
               documents'[d].category = archivists'[k].category
        PROVE  archivists'[k].since < d
    <3>1. CASE d \in DOMAIN documents
      BY <2>1, <2>3, <3>1 DEF DocumentsGrow, DeletionChecked, ActiveIn
    <3>2. CASE d \notin DOMAIN documents
      BY <1>1, <2>1, <2>2, <3>2 DEF DeletionChecked
    <3> QED
      BY <3>1, <3>2
  <2>4. archivists'[k].since <= Len(documents')
    BY <1>1, <2>1, <2>2 DEF DeletionChecked
  <2> QED
    BY <2>3, <2>4 DEF DeletionChecked, ActiveIn
<1>3. ASSUME NEW k \in Archivists, archivists'[k].step = "renaming"
      PROVE  RenameChecked(k)'
  <2>1. archivists'[k] = archivists[k] /\ RenameChecked(k)
    BY <1>3 DEF ChecksHold, AtRest
  <2>2. /\ archivists[k].document \in DOMAIN documents'
        /\ archivists[k].twins \subseteq DOMAIN documents'
    BY <2>1 DEF RenameChecked, DocumentsGrow
  <2>3. ASSUME NEW e \in archivists'[k].twins,
               e \in Rivals(archivists[k].document, archivists[k].route)'
        PROVE  FALSE
    <3>1. e \in DOMAIN documents /\ archivists[k].document \in DOMAIN documents
      BY <2>1, <2>3 DEF RenameChecked
    <3>2. e \in Rivals(archivists[k].document, archivists[k].route)
      BY <2>1, <2>3, <3>1 DEF Rivals, ActiveIn, DocumentsGrow
    <3> QED
      BY <2>1, <2>3, <3>2 DEF RenameChecked
  <2> QED
    BY <2>1, <2>2, <2>3 DEF RenameChecked
<1> QED
  BY <1>2, <1>3 DEF ChecksHold

\* A new document is the last.
LEMMA RecordAdded ==
  ASSUME DocumentTypeOK, NEW record \in Document, Len(documents) < MaxDocuments,
         documents' = Append(documents, record)
  PROVE  /\ DocumentsGrow /\ Len(documents') = Len(documents) + 1
         /\ DOMAIN documents' = DOMAIN documents \cup {Len(documents')}
         /\ Len(documents') \notin DOMAIN documents
         /\ documents'[Len(documents')] = record
         /\ \A d \in DOMAIN documents : documents'[d] = documents[d]
<1>1. documents \in Seq(Document)
  BY DEF DocumentTypeOK
<1>2. /\ documents' \in Seq(Document) /\ Len(documents') = Len(documents) + 1
      /\ documents'[Len(documents) + 1] = record
      /\ \A d \in 1 .. Len(documents) : documents'[d] = documents[d]
  BY <1>1, AppendProperties
<1>3. Len(documents) \in Nat /\ DOMAIN documents = 1 .. Len(documents)
      /\ DOMAIN documents' = 1 .. Len(documents')
  BY <1>1, <1>2, LenProperties
<1>4. /\ DOMAIN documents' = DOMAIN documents \cup {Len(documents')}
      /\ Len(documents') \notin DOMAIN documents
      /\ Len(documents) <= Len(documents') /\ Len(documents') <= MaxDocuments
  BY <1>2, <1>3
<1>5. DocumentsGrow
  BY <1>2, <1>3, <1>4 DEF DocumentsGrow
<1> QED
  BY <1>2, <1>3, <1>4, <1>5

\* A document is renamed, archived or deleted in place.
LEMMA RecordChanged ==
  ASSUME DocumentTypeOK, NEW d \in DOMAIN documents, NEW record \in Document,
         documents' = [documents EXCEPT ![d] = record],
         record.home = documents[d].home, record.category = documents[d].category,
         record.kind = documents[d].kind, record.active => documents[d].active
  PROVE  /\ DocumentsGrow
         /\ DOMAIN documents' = DOMAIN documents /\ documents'[d] = record
         /\ \A e \in DOMAIN documents \ {d} : documents'[e] = documents[e]
<1>1. documents \in Seq(Document)
  BY DEF DocumentTypeOK
<1>2. Len(documents) \in Nat /\ DOMAIN documents = 1 .. Len(documents)
  BY <1>1, LenProperties
<1>3. /\ documents' \in Seq(Document) /\ Len(documents') = Len(documents)
      /\ DOMAIN documents' = DOMAIN documents /\ documents'[d] = record
      /\ \A e \in DOMAIN documents \ {d} : documents'[e] = documents[e]
  BY <1>1, <1>2, ExceptSeq
<1>4. DocumentsGrow
  BY <1>2, <1>3 DEF DocumentsGrow, DocumentTypeOK
<1> QED
  BY <1>3, <1>4

\* The bodies of OnlyEarlyChecksUnshelve and OnlyUncheckedTitlesRepeat.
UnshelvesRightly ==
  \A d \in Unshelved' \ Unshelved :
    \/ documents'[d].kind = "material" /\ documents'[d].category = Default
    \/ \E k \in Archivists : Ends(k, "uploading") /\ d \notin DOMAIN documents
    \/ \E k \in Archivists : Ends(k, "deleting") /\ archivists[k].since < d

RepeatsRightly ==
  \A d, e \in DOMAIN documents :
    Twins(d, e)' /\ ~Twins(d, e) =>
      \E k \in Archivists :
        /\ Ends(k, "renaming") /\ archivists[k].document \in {d, e}
        /\ LET other == CHOOSE o \in {d, e} : o # archivists[k].document
           IN  \/ other \notin Rivals(archivists[k].document, archivists[k].route)
               \/ other \notin archivists[k].twins

Tidy == DocumentsAgree' /\ UnshelvesRightly /\ RepeatsRightly

\* Where no title is written, none repeats among the records there were.
LEMMA TitlesStay ==
  ASSUME DocumentTypeOK, DocumentsGrow,
         \A d \in DOMAIN documents : documents'[d].title = documents[d].title
  PROVE  RepeatsRightly
BY DEF RepeatsRightly, Twins, DocumentsGrow

\* Where no category is archived and no record added, none loses its shelf.
LEMMA ShelvesStay ==
  ASSUME DocumentTypeOK, DocumentsGrow, DOMAIN documents' = DOMAIN documents,
         \A c \in Categories : categories'[c] = "archived" => categories[c] = "archived"
  PROVE  UnshelvesRightly
<1>0. documents \in Seq(Document) /\ \A d \in DOMAIN documents : documents[d].category \in Categories
  <2>1. documents \in Seq(Document)
    BY DEF DocumentTypeOK
  <2>2. \A d \in DOMAIN documents : documents[d] \in Document
    BY <2>1, ElementOfSeq, LenProperties
  <2> QED
    BY <2>1, <2>2 DEF Document
<1> QED
  BY <1>0 DEF UnshelvesRightly, Unshelved, DocumentsGrow

\* The checks of delete_category, upload_document and rename_document.
LEMMA CheckingIsTidy ==
  ASSUME DocumentsAgree, NEW k \in Archivists,
         \/ \E c \in Categories : BeginDelete(k, c) \/ BeginUpload(k, c)
         \/ \E d \in DOMAIN documents, title \in DocTitles, route \in {"project", "shared"} :
              BeginRename(k, d, title, route)
  PROVE  Tidy
<1>1. DocumentTypeOK /\ MaterialsAgree /\ ChecksHold
  BY DEF DocumentsAgree
<1>2. documents \in Seq(Document)
  BY <1>1 DEF DocumentTypeOK
<1>3. /\ Len(documents) \in 0 .. MaxDocuments /\ DOMAIN documents = 1 .. Len(documents)
      /\ DOMAIN documents \subseteq 1 .. MaxDocuments
  BY <1>1, <1>2, LenProperties DEF DocumentTypeOK
<1>4. UNCHANGED <<categories, documents, materials>>
  BY DEF BeginDelete, BeginUpload, BeginRename
<1>5. \E note \in Archivist :
        /\ archivists' = [archivists EXCEPT ![k] = note]
        /\ note.step = "deleting" =>
             note.since <= Len(documents) /\ ActiveIn(note.category) = {}
        /\ note.step = "renaming" =>
             /\ note.document \in DOMAIN documents /\ note.twins \subseteq DOMAIN documents
             /\ Rivals(note.document, note.route) \cap note.twins = {}
  <2>1. ASSUME NEW c \in Categories, BeginDelete(k, c) PROVE <1>5
    <3> DEFINE note == [step |-> "deleting", category |-> c, since |-> Len(documents)]
    <3>1. note \in Archivist
      BY <1>3 DEF Archivist
    <3>2. /\ note.step = "deleting" /\ note.category = c /\ ActiveIn(c) = {}
          /\ archivists' = [archivists EXCEPT ![k] = note]
      BY <2>1 DEF BeginDelete
    <3>3. note.since <= Len(documents)
      BY <1>3
    <3> HIDE DEF note
    <3> QED
      BY <3>1, <3>2, <3>3
  <2>2. ASSUME NEW c \in Categories, BeginUpload(k, c) PROVE <1>5
    <3> DEFINE note == [step |-> "uploading", category |-> c, since |-> Len(documents)]
    <3>1. note \in Archivist
      BY <1>3 DEF Archivist
    <3> QED
      BY <2>2, <3>1 DEF BeginUpload
  <2>3. ASSUME NEW d \in DOMAIN documents, NEW title \in DocTitles,
               NEW route \in {"project", "shared"}, BeginRename(k, d, title, route)
        PROVE  <1>5
    <3> DEFINE note == [step |-> "renaming", document |-> d, title |-> title,
                        route |-> route, twins |-> Titled(title)]
    <3>1. note \in Archivist /\ Titled(title) \subseteq DOMAIN documents
      BY <1>3 DEF Archivist, Titled
    <3> QED
      BY <2>3, <3>1 DEF BeginRename
  <2> QED
    BY <2>1, <2>2, <2>3
<1>6. PICK note \in Archivist :
        /\ archivists' = [archivists EXCEPT ![k] = note]
        /\ note.step = "deleting" =>
             note.since <= Len(documents) /\ ActiveIn(note.category) = {}
        /\ note.step = "renaming" =>
             /\ note.document \in DOMAIN documents /\ note.twins \subseteq DOMAIN documents
             /\ Rivals(note.document, note.route) \cap note.twins = {}
  BY <1>5
<1>7. DocumentTypeOK' /\ archivists'[k] = note
      /\ \A j \in Archivists \ {k} : archivists'[j] = archivists[j]
  BY <1>1, <1>4, <1>6 DEF DocumentTypeOK
<1>8. ChecksHold'
  <2> SUFFICES ASSUME NEW j \in Archivists
               PROVE  /\ archivists'[j].step = "deleting" => DeletionChecked(j)'
                      /\ archivists'[j].step = "renaming" => RenameChecked(j)'
    BY DEF ChecksHold
  <2>1. CASE j = k
    BY <1>4, <1>6, <1>7, <2>1 DEF DeletionChecked, RenameChecked, ActiveIn, Rivals
  <2>2. CASE j # k
    BY <1>1, <1>4, <1>7, <2>2 DEF ChecksHold, DeletionChecked, RenameChecked, ActiveIn, Rivals
  <2> QED
    BY <2>1, <2>2
<1>9. UnshelvesRightly /\ RepeatsRightly
  BY <1>4 DEF UnshelvesRightly, RepeatsRightly, Unshelved, Twins
<1> QED
  BY <1>1, <1>4, <1>7, <1>8, <1>9 DEF Tidy, DocumentsAgree, MaterialsAgree

\* upload_document and upload_standalone_document add one document.
LEMMA UploadIsTidy ==
  ASSUME DocumentsAgree, NEW k \in Archivists, NEW home \in Homes, NEW title \in DocTitles,
         FinishUpload(k, home, title)
  PROVE  Tidy
<1>1. DocumentTypeOK /\ MaterialsAgree /\ ChecksHold
  BY DEF DocumentsAgree
<1> DEFINE record == [home |-> home, category |-> archivists[k].category, title |-> title,
                      kind |-> "shared", visibility |-> "group", active |-> TRUE]
<1>2. /\ archivists[k].step = "uploading" /\ Len(documents) < MaxDocuments
      /\ documents' = Append(documents, record)
      /\ archivists' = [archivists EXCEPT ![k] = AtRest]
      /\ categories' = categories /\ materials' = materials
  BY DEF FinishUpload, Rest
<1>3. record \in Document /\ record.kind = "shared"
  BY <1>1, <1>2 DEF DocumentTypeOK, Archivist, AtRest, Document
<1> HIDE DEF record
<1>4. /\ DocumentsGrow
      /\ DOMAIN documents' = DOMAIN documents \cup {Len(documents')}
      /\ Len(documents') \notin DOMAIN documents
      /\ documents'[Len(documents')] = record
      /\ \A d \in DOMAIN documents : documents'[d] = documents[d]
  BY <1>1, <1>2, <1>3, RecordAdded
<1>5. DocumentTypeOK'
  <2>1. archivists' \in [Archivists -> {AtRest} \cup Archivist]
    BY <1>1, <1>2 DEF DocumentTypeOK
  <2>2. DOMAIN materials' = {d \in DOMAIN documents' : documents'[d].kind = "material"}
    BY <1>1, <1>2, <1>3, <1>4 DEF DocumentTypeOK
  <2> QED
    BY <1>1, <1>2, <1>4, <2>1, <2>2 DEF DocumentTypeOK, DocumentsGrow
<1>6. MaterialsAgree'
  BY <1>1, <1>2, <1>4 DEF DocumentTypeOK, MaterialsAgree
<1>7. archivists'[k] = AtRest /\ \A j \in Archivists \ {k} : archivists'[j] = archivists[j]
  BY <1>1, <1>2 DEF DocumentTypeOK
<1>8. ChecksHold'
  BY <1>1, <1>4, <1>7, ChecksStay
<1>9. UnshelvesRightly
  <2> SUFFICES ASSUME NEW d \in Unshelved' \ Unshelved
               PROVE  Ends(k, "uploading") /\ d \notin DOMAIN documents
    BY DEF UnshelvesRightly
  <2>1. d \notin DOMAIN documents
    BY <1>2, <1>4 DEF Unshelved
  <2> QED
    BY <1>2, <1>7, <2>1 DEF Ends
<1>10. RepeatsRightly
  BY <1>1, <1>4, TitlesStay
<1> QED
  BY <1>5, <1>6, <1>8, <1>9, <1>10 DEF Tidy, DocumentsAgree

\* A material comes with its record, in the default category whatever that is.
LEMMA MaterialIsTidy ==
  ASSUME DocumentsAgree, NEW home \in Homes, NEW title \in DocTitles,
         NEW visibility \in {"members", "group"}, CreateMaterial(home, title, visibility)
  PROVE  Tidy
<1>1. DocumentTypeOK /\ MaterialsAgree /\ ChecksHold
  BY DEF DocumentsAgree
<1> DEFINE record == [home |-> home, category |-> Default, title |-> title,
                      kind |-> "material", visibility |-> visibility, active |-> TRUE]
<1>2. /\ Len(documents) < MaxDocuments
      /\ documents' = Append(documents, record)
      /\ archivists' = archivists
      /\ categories' = [categories EXCEPT ![Default] = IF @ = "absent" THEN "active" ELSE @]
      /\ materials' = [d \in DOMAIN materials \cup {Len(documents')} |->
                         IF d \in DOMAIN materials THEN materials[d] ELSE visibility]
  BY DEF CreateMaterial
<1>3. /\ record \in Document /\ record.kind = "material" /\ record.category = Default
      /\ record.visibility = visibility
  BY DEF Document
<1> HIDE DEF record
<1>4. /\ DocumentsGrow
      /\ DOMAIN documents' = DOMAIN documents \cup {Len(documents')}
      /\ Len(documents') \notin DOMAIN documents
      /\ documents'[Len(documents')] = record
      /\ \A d \in DOMAIN documents : documents'[d] = documents[d]
  BY <1>1, <1>2, <1>3, RecordAdded
<1>5. /\ categories' \in [Categories -> {"absent", "active", "archived"}]
      /\ \A c \in Categories : categories'[c] = "archived" => categories[c] = "archived"
  BY <1>1, <1>2 DEF DocumentTypeOK
<1>6. DOMAIN materials' = {d \in DOMAIN documents' : documents'[d].kind = "material"}
  BY <1>1, <1>2, <1>3, <1>4 DEF DocumentTypeOK
<1>7. DocumentTypeOK'
  BY <1>1, <1>2, <1>4, <1>5, <1>6 DEF DocumentTypeOK, DocumentsGrow
<1>8. MaterialsAgree'
  <2> SUFFICES ASSUME NEW d \in DOMAIN materials'
               PROVE  materials'[d] = documents'[d].visibility
    BY DEF MaterialsAgree
  <2>1. CASE d \in DOMAIN materials
    BY <1>1, <1>2, <1>4, <2>1 DEF DocumentTypeOK, MaterialsAgree
  <2>2. CASE d \notin DOMAIN materials
    BY <1>2, <1>3, <1>4, <2>2
  <2> QED
    BY <2>1, <2>2
<1>9. ChecksHold'
  BY <1>1, <1>2, <1>4, ChecksStay
<1>10. UnshelvesRightly
  <2> SUFFICES ASSUME NEW d \in Unshelved' \ Unshelved
               PROVE  documents'[d].kind = "material" /\ documents'[d].category = Default
    BY DEF UnshelvesRightly
  <2>1. d \notin DOMAIN documents
    <3>1. documents \in Seq(Document) /\ \A e \in DOMAIN documents : documents[e] \in Document
      BY <1>1, ElementOfSeq, LenProperties DEF DocumentTypeOK
    <3> QED
      BY <1>4, <1>5, <3>1 DEF Unshelved, Document
  <2> QED
    BY <1>3, <1>4, <2>1 DEF Unshelved
<1>11. RepeatsRightly
  BY <1>1, <1>4, TitlesStay
<1> QED
  BY <1>7, <1>8, <1>9, <1>10, <1>11 DEF Tidy, DocumentsAgree

\* Documents are a sequence of rows.
LEMMA RecordsAreDocuments ==
  ASSUME DocumentTypeOK
  PROVE  /\ documents \in Seq(Document) /\ Len(documents) \in Nat
         /\ DOMAIN documents = 1 .. Len(documents)
         /\ \A d \in DOMAIN documents : documents[d] \in Document
<1>1. documents \in Seq(Document)
  BY DEF DocumentTypeOK
<1> QED
  BY <1>1, ElementOfSeq, LenProperties

\* A rename compared the title with every record that counts for its route.
LEMMA RenameIsTidy ==
  ASSUME DocumentsAgree, NEW k \in Archivists, FinishRename(k)
  PROVE  Tidy
<1>1. DocumentTypeOK /\ MaterialsAgree /\ ChecksHold
  BY DEF DocumentsAgree
<1>2. archivists[k].step = "renaming" /\ RenameChecked(k)
  BY <1>1 DEF FinishRename, ChecksHold
<1>3. archivists[k].title \in DocTitles
  BY <1>1, <1>2 DEF DocumentTypeOK, Archivist, AtRest
<1>4. PICK d \in DOMAIN documents : d = archivists[k].document
  BY <1>2 DEF RenameChecked
<1> DEFINE record == [documents[d] EXCEPT !.title = archivists[k].title]
<1>5. documents[d] \in Document
  BY <1>1, RecordsAreDocuments
<1>6. /\ record \in Document /\ record.home = documents[d].home
      /\ record.category = documents[d].category /\ record.kind = documents[d].kind
      /\ record.active = documents[d].active /\ record.visibility = documents[d].visibility
  BY <1>3, <1>5 DEF Document
<1>7. /\ documents' = [documents EXCEPT ![d] = record]
      /\ archivists' = [archivists EXCEPT ![k] = AtRest]
      /\ categories' = categories /\ materials' = materials
  BY <1>4 DEF FinishRename, Rest
<1> HIDE DEF record
<1>8. /\ DocumentsGrow
      /\ DOMAIN documents' = DOMAIN documents /\ documents'[d] = record
      /\ \A e \in DOMAIN documents \ {d} : documents'[e] = documents[e]
  BY <1>1, <1>6, <1>7, RecordChanged
<1>9. DocumentTypeOK'
  <2>1. archivists' \in [Archivists -> {AtRest} \cup Archivist]
    BY <1>1, <1>7 DEF DocumentTypeOK
  <2>2. {e \in DOMAIN documents' : documents'[e].kind = "material"} = DOMAIN materials
    BY <1>1, <1>6, <1>8 DEF DocumentTypeOK
  <2> QED
    BY <1>1, <1>7, <1>8, <2>1, <2>2 DEF DocumentTypeOK, DocumentsGrow
<1>10. MaterialsAgree'
  BY <1>1, <1>6, <1>7, <1>8 DEF DocumentTypeOK, MaterialsAgree
<1>11. archivists'[k] = AtRest /\ \A j \in Archivists \ {k} : archivists'[j] = archivists[j]
  BY <1>1, <1>7 DEF DocumentTypeOK
<1>12. ChecksHold'
  BY <1>1, <1>8, <1>11, ChecksStay
<1>13. UnshelvesRightly
  BY <1>1, <1>7, <1>8, ShelvesStay
<1>14. RepeatsRightly
  <2> SUFFICES ASSUME NEW a \in DOMAIN documents, NEW b \in DOMAIN documents,
                      Twins(a, b)', ~Twins(a, b)
               PROVE  /\ Ends(k, "renaming") /\ archivists[k].document \in {a, b}
                      /\ \A o \in {a, b} : o # archivists[k].document =>
                           \/ o \notin Rivals(archivists[k].document, archivists[k].route)
                           \/ o \notin archivists[k].twins
    BY DEF RepeatsRightly, Twins
  <2>1. a = d \/ b = d
    BY <1>8 DEF Twins
  <2> QED
    BY <1>2, <1>4, <1>11, <2>1 DEF RenameChecked, Ends
<1> QED
  BY <1>9, <1>10, <1>12, <1>13, <1>14 DEF Tidy, DocumentsAgree

\* Archiving and showing or hiding a record.
LEMMA RowIsTidy ==
  ASSUME DocumentsAgree, NEW d \in DOMAIN documents,
         \/ Archive(d)
         \/ d \in DOMAIN materials
            /\ \E visibility \in {"members", "group"} : ChangeVisibility(d, visibility)
  PROVE  Tidy
<1>1. DocumentTypeOK /\ MaterialsAgree /\ ChecksHold
  BY DEF DocumentsAgree
<1>2. documents[d] \in Document
  BY <1>1, RecordsAreDocuments
<1>3. \E record \in Document :
        /\ documents' = [documents EXCEPT ![d] = record]
        /\ record.home = documents[d].home /\ record.category = documents[d].category
        /\ record.kind = documents[d].kind /\ record.title = documents[d].title
        /\ record.active => documents[d].active
        /\ categories' = categories /\ archivists' = archivists
        /\ \/ record.visibility = documents[d].visibility /\ materials' = materials
           \/ d \in DOMAIN materials
              /\ materials' = [materials EXCEPT ![d] = record.visibility]
  <2>1. ASSUME Archive(d) PROVE <1>3
    <3> DEFINE record == [documents[d] EXCEPT !.active = FALSE]
    <3>1. /\ record \in Document /\ ~record.active
          /\ record.home = documents[d].home /\ record.category = documents[d].category
          /\ record.kind = documents[d].kind /\ record.title = documents[d].title
          /\ record.visibility = documents[d].visibility
      BY <1>2 DEF Document
    <3>2. documents' = [documents EXCEPT ![d] = record]
          /\ UNCHANGED <<categories, archivists, materials>>
      BY <2>1 DEF Archive
    <3> HIDE DEF record
    <3> QED
      BY <3>1, <3>2
  <2>2. ASSUME d \in DOMAIN materials, NEW visibility \in {"members", "group"},
               ChangeVisibility(d, visibility)
        PROVE  <1>3
    <3> DEFINE record == [documents[d] EXCEPT !.visibility = visibility]
    <3>1. /\ record \in Document /\ record.active = documents[d].active
          /\ record.home = documents[d].home /\ record.category = documents[d].category
          /\ record.kind = documents[d].kind /\ record.title = documents[d].title
          /\ record.visibility = visibility
      BY <1>2 DEF Document
    <3>2. /\ documents' = [documents EXCEPT ![d] = record]
          /\ materials' = [materials EXCEPT ![d] = visibility]
          /\ UNCHANGED <<categories, archivists>>
      BY <2>2 DEF ChangeVisibility
    <3> HIDE DEF record
    <3> QED
      BY <2>2, <3>1, <3>2
  <2> QED
    BY <2>1, <2>2
<1>4. PICK record \in Document :
        /\ documents' = [documents EXCEPT ![d] = record]
        /\ record.home = documents[d].home /\ record.category = documents[d].category
        /\ record.kind = documents[d].kind /\ record.title = documents[d].title
        /\ record.active => documents[d].active
        /\ categories' = categories /\ archivists' = archivists
        /\ \/ record.visibility = documents[d].visibility /\ materials' = materials
           \/ d \in DOMAIN materials
              /\ materials' = [materials EXCEPT ![d] = record.visibility]
  BY <1>3
<1>5. /\ DocumentsGrow
      /\ DOMAIN documents' = DOMAIN documents /\ documents'[d] = record
      /\ \A e \in DOMAIN documents \ {d} : documents'[e] = documents[e]
  BY <1>1, <1>4, RecordChanged
<1>6. /\ DOMAIN materials' = DOMAIN materials
      /\ \A e \in DOMAIN materials \ {d} : materials'[e] = materials[e]
      /\ d \in DOMAIN materials =>
           \/ record.visibility = documents[d].visibility /\ materials'[d] = materials[d]
           \/ materials'[d] = record.visibility
  BY <1>4
<1>7. DocumentTypeOK'
  <2>1. {e \in DOMAIN documents' : documents'[e].kind = "material"} = DOMAIN materials
    BY <1>1, <1>4, <1>5 DEF DocumentTypeOK
  <2> QED
    BY <1>1, <1>4, <1>5, <1>6, <2>1 DEF DocumentTypeOK, DocumentsGrow
<1>8. MaterialsAgree'
  BY <1>1, <1>5, <1>6 DEF MaterialsAgree, DocumentTypeOK
<1>9. ChecksHold'
  BY <1>1, <1>4, <1>5, ChecksStay
<1>10. UnshelvesRightly
  BY <1>1, <1>4, <1>5, ShelvesStay
<1>11. RepeatsRightly
  BY <1>1, <1>4, <1>5, TitlesStay
<1> QED
  BY <1>7, <1>8, <1>9, <1>10, <1>11 DEF Tidy, DocumentsAgree

\* Categories are added, and deleted by requests that saw them empty.
LEMMA CategoryIsTidy ==
  ASSUME DocumentsAgree,
         \/ \E c \in Categories : CreateCategory(c)
         \/ \E k \in Archivists : FinishDelete(k)
  PROVE  Tidy
<1>1. DocumentTypeOK /\ MaterialsAgree /\ ChecksHold
  BY DEF DocumentsAgree
<1>2. documents' = documents /\ materials' = materials
  BY DEF CreateCategory, FinishDelete
<1>3. DocumentsGrow
  BY <1>1, <1>2, RecordsAreDocuments DEF DocumentsGrow, DocumentTypeOK
<1>4. MaterialsAgree' /\ RepeatsRightly
  BY <1>1, <1>2, <1>3, TitlesStay DEF MaterialsAgree
<1>5. ASSUME NEW c \in Categories, CreateCategory(c)
      PROVE  Tidy
  <2>1. DocumentTypeOK' /\ archivists' = archivists
    BY <1>1, <1>5 DEF DocumentTypeOK, CreateCategory
  <2>2. ChecksHold'
    BY <1>1, <1>3, <2>1, ChecksStay
  <2>3. \A b \in Categories : categories'[b] = "archived" => categories[b] = "archived"
    BY <1>1, <1>5 DEF DocumentTypeOK, CreateCategory
  <2>4. UnshelvesRightly
    BY <1>1, <1>2, <1>3, <2>3, ShelvesStay
  <2> QED
    BY <1>4, <2>1, <2>2, <2>4 DEF Tidy, DocumentsAgree
<1>6. ASSUME NEW k \in Archivists, FinishDelete(k)
      PROVE  Tidy
  <2>1. archivists[k].step = "deleting" /\ archivists[k].category \in Categories
    BY <1>1, <1>6 DEF FinishDelete, DocumentTypeOK, Archivist, AtRest
  <2>2. /\ DocumentTypeOK' /\ archivists'[k] = AtRest
        /\ \A j \in Archivists \ {k} : archivists'[j] = archivists[j]
    BY <1>1, <1>6, <2>1 DEF DocumentTypeOK, FinishDelete, Rest
  <2>3. ChecksHold'
    BY <1>1, <1>3, <2>2, ChecksStay
  <2>4. UnshelvesRightly
    <3> SUFFICES ASSUME NEW d \in Unshelved' \ Unshelved
                 PROVE  Ends(k, "deleting") /\ archivists[k].since < d
      BY DEF UnshelvesRightly
    <3>1. d \in DOMAIN documents /\ documents[d].active
      BY <1>2 DEF Unshelved
    <3>2. documents[d].category = archivists[k].category
      <4>1. documents[d].category \in Categories
        BY <1>1, <3>1, RecordsAreDocuments DEF Document
      <4> QED
        BY <1>1, <1>2, <1>6, <3>1, <4>1 DEF Unshelved, FinishDelete, DocumentTypeOK
    <3>3. archivists[k].since < d
      BY <1>1, <2>1, <3>1, <3>2 DEF ChecksHold, DeletionChecked, ActiveIn
    <3> QED
      BY <2>1, <2>2, <3>3 DEF Ends
  <2> QED
    BY <1>4, <2>2, <2>3, <2>4 DEF Tidy, DocumentsAgree
<1> QED
  BY <1>5, <1>6

\* Every request for documents and materials is tidy.
LEMMA DocumentActs ==
  ASSUME DocumentsAgree, DocumentNext
  PROVE  Tidy
<1>1. ASSUME CategoryRequest PROVE Tidy
  BY <1>1, CategoryIsTidy, CheckingIsTidy DEF CategoryRequest
<1>2. ASSUME DocumentRequest PROVE Tidy
  BY <1>2, CheckingIsTidy, UploadIsTidy, RowIsTidy
     DEF DocumentRequest, UploadToProject, ArchiveInProject, RenameInProject
<1>3. ASSUME SharedRequest PROVE Tidy
  BY <1>3, CheckingIsTidy, UploadIsTidy, RowIsTidy
     DEF SharedRequest, UploadStandalone, DeleteShared, RenameShared
<1>4. ASSUME MaterialRequest PROVE Tidy
  <2>1. \A d \in DOMAIN materials : d \in DOMAIN documents
    BY DEF DocumentsAgree, DocumentTypeOK
  <2> QED
    BY <1>4, <2>1, MaterialIsTidy, RowIsTidy DEF MaterialRequest
<1> QED
  BY <1>1, <1>2, <1>3, <1>4, CategoryIsTidy, RenameIsTidy DEF DocumentNext

\* DocumentsAgree is inductive.
LEMMA DocumentsAgreeStep == DocumentsAgree /\ [DocumentNext]_documentVars => DocumentsAgree'
<1> SUFFICES ASSUME DocumentsAgree, [DocumentNext]_documentVars PROVE DocumentsAgree'
  OBVIOUS
<1>1. CASE UNCHANGED documentVars
  BY <1>1 DEF documentVars, DocumentsAgree, DocumentTypeOK, MaterialsAgree, ChecksHold,
              DeletionChecked, RenameChecked, ActiveIn, Rivals
<1>2. CASE DocumentNext
  BY <1>2, DocumentActs DEF Tidy
<1> QED
  BY <1>1, <1>2

\* There are no documents at first.
LEMMA DocumentsAgreeInit == DocumentInit => DocumentsAgree
<1> SUFFICES ASSUME DocumentInit PROVE DocumentsAgree
  OBVIOUS
<1>1. documents = << >> /\ documents \in Seq(Document) /\ Len(documents) = 0
      /\ DOMAIN documents = {} /\ materials = << >> /\ DOMAIN materials = {}
  BY DEF DocumentInit
<1>2. DocumentTypeOK
  BY <1>1 DEF DocumentInit, DocumentTypeOK
<1> QED
  BY <1>1, <1>2 DEF DocumentInit, DocumentsAgree, MaterialsAgree, ChecksHold, AtRest

\* Documents, materials and what requests have checked agree.
THEOREM DocumentsHold == DocumentSpec => []DocumentsAgree
  BY DocumentsAgreeInit, DocumentsAgreeStep, PTL DEF DocumentSpec

\* A document loses its category only by a deletion whose check was too early
\* (delete_category).
THEOREM ShelvesKept == DocumentSpec => OnlyEarlyChecksUnshelve
<1>1. ASSUME DocumentsAgree, [DocumentNext]_documentVars
      PROVE  [UnshelvesRightly]_documentVars
  BY <1>1, DocumentActs DEF Tidy
<1> QED
  BY <1>1, DocumentsHold, PTL DEF DocumentSpec, OnlyEarlyChecksUnshelve, UnshelvesRightly

\* Two documents get one title only by requests that compared too early, or not
\* at all (rename_document, upload_document).
THEOREM TitlesKept == DocumentSpec => OnlyUncheckedTitlesRepeat
<1>1. ASSUME DocumentsAgree, [DocumentNext]_documentVars
      PROVE  [RepeatsRightly]_documentVars
  BY <1>1, DocumentActs DEF Tidy
<1> QED
  BY <1>1, DocumentsHold, PTL DEF DocumentSpec, OnlyUncheckedTitlesRepeat, RepeatsRightly

HIDE DocumentAssumption

-----------------------------------------------------------------------------
(***************************************************************************)
(* Code artifacts and their versions.                                      *)
(***************************************************************************)

USE CodeAssumption

\* What a request has compared, it compared with all rows there were, and none
\* of them has come to clash since.
UploadCompared(k) ==
  /\ coders[k].since <= Len(artifacts)
  /\ \A a \in Compared(coders[k].home, coders[k].route) :
       artifacts[a].archive = coders[k].archive => a > coders[k].since

ImportCompared(k) ==
  /\ coders[k].artifact \in DOMAIN artifacts
  /\ coders[k].since <= Len(codeVersions)
  /\ \A v \in VersionsOf(artifacts[coders[k].artifact].home) :
       Clashes(v, coders[k].label, coders[k].archive) => v > coders[k].since

ComparisonsHold ==
  \A k \in Coders :
    /\ coders[k].step = "uploading" => UploadCompared(k)
    /\ coders[k].step = "importing" => ImportCompared(k)

VersionsHaveArtifacts ==
  \A v \in DOMAIN codeVersions : codeVersions[v].artifact \in DOMAIN artifacts

Compiled == CodeTypeOK /\ VersionsHaveArtifacts /\ ComparisonsHold

\* Artifacts and versions are sequences of rows.
LEMMA RowsAreSequences ==
  ASSUME CodeTypeOK
  PROVE  /\ artifacts \in Seq(Artifact) /\ Len(artifacts) \in Nat
         /\ DOMAIN artifacts = 1 .. Len(artifacts)
         /\ \A a \in DOMAIN artifacts : artifacts[a] \in Artifact
         /\ codeVersions \in Seq(CodeVersion) /\ Len(codeVersions) \in Nat
         /\ DOMAIN codeVersions = 1 .. Len(codeVersions)
         /\ \A v \in DOMAIN codeVersions : codeVersions[v] \in CodeVersion
<1>1. artifacts \in Seq(Artifact) /\ codeVersions \in Seq(CodeVersion)
  BY DEF CodeTypeOK
<1> QED
  BY <1>1, ElementOfSeq, LenProperties

\* Artifacts are added and archived; versions are added.
ArtifactsGrow ==
  /\ artifacts' \in Seq(Artifact) /\ Len(artifacts') <= MaxArtifacts
  /\ Len(artifacts) <= Len(artifacts')
  /\ DOMAIN artifacts' = 1 .. Len(artifacts')
  /\ \A a \in DOMAIN artifacts :
       /\ a \in DOMAIN artifacts'
       /\ artifacts'[a].home = artifacts[a].home
       /\ artifacts'[a].archive = artifacts[a].archive
       /\ artifacts'[a].kind = artifacts[a].kind
       /\ artifacts'[a].active => artifacts[a].active

VersionRowsGrow ==
  /\ codeVersions' \in Seq(CodeVersion) /\ Len(codeVersions') <= MaxCodeVersions
  /\ Len(codeVersions) <= Len(codeVersions')
  /\ DOMAIN codeVersions' = 1 .. Len(codeVersions')
  /\ \A v \in DOMAIN codeVersions :
       v \in DOMAIN codeVersions' /\ codeVersions'[v] = codeVersions[v]

\* New rows come after those a request has compared with.
LEMMA ComparisonsStay ==
  ASSUME Compiled, ArtifactsGrow, VersionRowsGrow,
         \A k \in Coders : coders'[k] = coders[k] \/ coders'[k] = RestingCoder
  PROVE  ComparisonsHold'
<1>1. CodeTypeOK /\ ComparisonsHold
  BY DEF Compiled
<1>2. /\ Len(artifacts) \in Nat /\ DOMAIN artifacts = 1 .. Len(artifacts)
      /\ Len(codeVersions) \in Nat /\ DOMAIN codeVersions = 1 .. Len(codeVersions)
      /\ Len(artifacts') \in Nat /\ Len(codeVersions') \in Nat
  BY <1>1, RowsAreSequences, LenProperties DEF ArtifactsGrow, VersionRowsGrow
<1>3. ASSUME NEW k \in Coders, coders'[k].step = "uploading"
      PROVE  UploadCompared(k)'
  <2>1. coders'[k] = coders[k] /\ UploadCompared(k)
    BY <1>1, <1>3 DEF ComparisonsHold, RestingCoder
  <2>2. coders[k].since \in Nat
    BY <1>1, <1>3, <2>1 DEF CodeTypeOK, Coder, RestingCoder
  <2>3. ASSUME NEW a \in Compared(coders[k].home, coders[k].route)',
               artifacts'[a].archive = coders[k].archive
        PROVE  a > coders[k].since
    <3>0. a \in DOMAIN artifacts'
      BY <2>1 DEF Compared
    <3>1. CASE a \in DOMAIN artifacts
      BY <2>1, <2>3, <3>1 DEF ArtifactsGrow, UploadCompared, Compared
    <3>2. CASE a \notin DOMAIN artifacts
      BY <1>2, <2>1, <2>2, <3>0, <3>2 DEF UploadCompared, ArtifactsGrow
    <3> QED
      BY <3>1, <3>2
  <2>4. coders[k].since <= Len(artifacts')
    BY <1>2, <2>1, <2>2 DEF UploadCompared, ArtifactsGrow
  <2> QED
    BY <2>1, <2>3, <2>4 DEF UploadCompared
<1>4. ASSUME NEW k \in Coders, coders'[k].step = "importing"
      PROVE  ImportCompared(k)'
  <2>1. coders'[k] = coders[k] /\ ImportCompared(k)
    BY <1>1, <1>4 DEF ComparisonsHold, RestingCoder
  <2>2. coders[k].since \in Nat
    BY <1>1, <1>4, <2>1 DEF CodeTypeOK, Coder, RestingCoder
  <2>3. /\ coders[k].artifact \in DOMAIN artifacts
        /\ coders[k].artifact \in DOMAIN artifacts'
        /\ artifacts'[coders[k].artifact].home = artifacts[coders[k].artifact].home
    BY <2>1 DEF ImportCompared, ArtifactsGrow
  <2>4. ASSUME NEW v \in VersionsOf(artifacts[coders[k].artifact].home)',
               Clashes(v, coders[k].label, coders[k].archive)'
        PROVE  v > coders[k].since
    <3>0. v \in DOMAIN codeVersions'
      BY DEF VersionsOf
    <3>1. CASE v \in DOMAIN codeVersions
      BY <2>1, <2>3, <2>4, <3>1 DEF VersionRowsGrow, ImportCompared, VersionsOf, Clashes
    <3>2. CASE v \notin DOMAIN codeVersions
      BY <1>2, <2>1, <2>2, <3>0, <3>2 DEF ImportCompared, VersionRowsGrow
    <3> QED
      BY <3>1, <3>2
  <2>5. coders[k].since <= Len(codeVersions')
    BY <1>2, <2>1, <2>2 DEF ImportCompared, VersionRowsGrow
  <2> QED
    BY <2>1, <2>3, <2>4, <2>5 DEF ImportCompared
<1> QED
  BY <1>3, <1>4 DEF ComparisonsHold

\* A new artifact is the last.
LEMMA ArtifactAdded ==
  ASSUME CodeTypeOK, NEW row \in Artifact, Len(artifacts) < MaxArtifacts,
         artifacts' = Append(artifacts, row)
  PROVE  /\ ArtifactsGrow /\ Len(artifacts') = Len(artifacts) + 1
         /\ artifacts'[Len(artifacts')] = row /\ Len(artifacts') \in DOMAIN artifacts'
<1>1. artifacts \in Seq(Artifact) /\ Len(artifacts) \in Nat
      /\ DOMAIN artifacts = 1 .. Len(artifacts)
  BY RowsAreSequences
<1>2. /\ artifacts' \in Seq(Artifact) /\ Len(artifacts') = Len(artifacts) + 1
      /\ artifacts'[Len(artifacts) + 1] = row
      /\ \A a \in 1 .. Len(artifacts) : artifacts'[a] = artifacts[a]
  BY <1>1, AppendProperties
<1>3. DOMAIN artifacts' = 1 .. Len(artifacts')
  BY <1>2, LenProperties
<1>4. ArtifactsGrow
  BY <1>1, <1>2, <1>3 DEF ArtifactsGrow
<1> QED
  BY <1>1, <1>2, <1>3, <1>4

\* A new version is the last.
LEMMA VersionAdded ==
  ASSUME CodeTypeOK, NEW row \in CodeVersion, Len(codeVersions) < MaxCodeVersions,
         codeVersions' = Append(codeVersions, row)
  PROVE  /\ VersionRowsGrow
         /\ \A v \in DOMAIN codeVersions' :
              IF v \in DOMAIN codeVersions THEN codeVersions'[v] = codeVersions[v]
                                           ELSE codeVersions'[v] = row
<1>1. codeVersions \in Seq(CodeVersion) /\ Len(codeVersions) \in Nat
      /\ DOMAIN codeVersions = 1 .. Len(codeVersions)
  BY RowsAreSequences
<1>2. /\ codeVersions' \in Seq(CodeVersion) /\ Len(codeVersions') = Len(codeVersions) + 1
      /\ codeVersions'[Len(codeVersions) + 1] = row
      /\ \A v \in 1 .. Len(codeVersions) : codeVersions'[v] = codeVersions[v]
  BY <1>1, AppendProperties
<1>3. DOMAIN codeVersions' = 1 .. Len(codeVersions')
  BY <1>2, LenProperties
<1>4. VersionRowsGrow
  BY <1>1, <1>2, <1>3 DEF VersionRowsGrow
<1> QED
  BY <1>1, <1>2, <1>3, <1>4

\* Rows that only grow keep what is known of them.
LEMMA GrowingIsCompiled ==
  ASSUME Compiled, ArtifactsGrow, VersionRowsGrow,
         coders' \in [Coders -> {RestingCoder} \cup Coder],
         \A k \in Coders : coders'[k] = coders[k] \/ coders'[k] = RestingCoder,
         \A v \in DOMAIN codeVersions' :
           v \notin DOMAIN codeVersions =>
             /\ codeVersions'[v].artifact \in DOMAIN artifacts'
             /\ codeVersions'[v].home = artifacts'[codeVersions'[v].artifact].home
  PROVE  Compiled'
<1>1. CodeTypeOK /\ VersionsHaveArtifacts
  BY DEF Compiled
<1>2. ASSUME NEW v \in DOMAIN codeVersions'
      PROVE  /\ codeVersions'[v].artifact \in DOMAIN artifacts'
             /\ codeVersions'[v].home = artifacts'[codeVersions'[v].artifact].home
  <2>1. CASE v \in DOMAIN codeVersions
    BY <1>1, <2>1 DEF CodeTypeOK, VersionsHaveArtifacts, ArtifactsGrow, VersionRowsGrow
  <2> QED
    BY <2>1
<1>3. CodeTypeOK' /\ VersionsHaveArtifacts'
  BY <1>2 DEF CodeTypeOK, VersionsHaveArtifacts, ArtifactsGrow, VersionRowsGrow
<1> QED
  BY <1>3, ComparisonsStay DEF Compiled

\* Rows that stay are among those that only grow.
LEMMA NothingGrows ==
  ASSUME CodeTypeOK
  PROVE  /\ artifacts' = artifacts => ArtifactsGrow
         /\ codeVersions' = codeVersions => VersionRowsGrow
BY RowsAreSequences DEF ArtifactsGrow, VersionRowsGrow, CodeTypeOK

\* An artifact with its file comes with the first version of it.
LEMMA FilesAreCompiled ==
  ASSUME Compiled, NEW home \in CodeHomes, NEW archive \in Archives,
         NEW kind \in {"shared", "material"}, WithFile(home, archive, kind),
         coders' \in [Coders -> {RestingCoder} \cup Coder],
         \A k \in Coders : coders'[k] = coders[k] \/ coders'[k] = RestingCoder
  PROVE  Compiled'
<1>1. CodeTypeOK
  BY DEF Compiled
<1> DEFINE row == [home |-> home, archive |-> archive, kind |-> kind, active |-> TRUE]
           version == [artifact |-> Len(artifacts'), home |-> home, label |-> NoLabel,
                       archive |-> archive]
<1>2. row \in Artifact /\ row.home = home
  BY DEF Artifact
<1>3. /\ Len(artifacts) < MaxArtifacts /\ Len(codeVersions) < MaxCodeVersions
      /\ artifacts' = Append(artifacts, row) /\ codeVersions' = Append(codeVersions, version)
  BY DEF WithFile
<1> HIDE DEF row
<1>4. /\ ArtifactsGrow /\ Len(artifacts') = Len(artifacts) + 1
      /\ artifacts'[Len(artifacts')] = row /\ Len(artifacts') \in DOMAIN artifacts'
  BY <1>1, <1>2, <1>3, ArtifactAdded
<1>5. version \in CodeVersion /\ version.artifact = Len(artifacts') /\ version.home = home
  BY <1>1, <1>3, <1>4, RowsAreSequences DEF CodeVersion, ArtifactsGrow
<1> HIDE DEF version
<1>6. /\ VersionRowsGrow
      /\ \A v \in DOMAIN codeVersions' :
           v \notin DOMAIN codeVersions => codeVersions'[v] = version
  BY <1>1, <1>3, <1>5, VersionAdded
<1> QED
  BY <1>2, <1>4, <1>5, <1>6, GrowingIsCompiled

\* The commits of upload_archive, import_version and create_material.
LEMMA FinishingIsCompiled ==
  ASSUME Compiled,
         \/ \E home \in CodeHomes, archive \in Archives : CreateCodeMaterial(home, archive)
         \/ \E k \in Coders : FinishArchive(k) \/ FinishImport(k)
  PROVE  Compiled'
<1>1. CodeTypeOK
  BY DEF Compiled
<1>2. ASSUME NEW home \in CodeHomes, NEW archive \in Archives,
             CreateCodeMaterial(home, archive)
      PROVE  Compiled'
  BY <1>1, <1>2, FilesAreCompiled DEF CreateCodeMaterial, CodeTypeOK
<1>3. ASSUME NEW k \in Coders, coders' = [coders EXCEPT ![k] = RestingCoder]
      PROVE  /\ coders' \in [Coders -> {RestingCoder} \cup Coder]
             /\ \A j \in Coders : coders'[j] = coders[j] \/ coders'[j] = RestingCoder
  BY <1>1, <1>3 DEF CodeTypeOK
<1>4. ASSUME NEW k \in Coders, FinishArchive(k) PROVE Compiled'
  <2>1. coders[k].home \in CodeHomes /\ coders[k].archive \in Archives
    BY <1>1, <1>4 DEF FinishArchive, CodeTypeOK, Coder, RestingCoder
  <2> QED
    BY <1>3, <1>4, <2>1, FilesAreCompiled DEF FinishArchive, RestCoder
<1>5. ASSUME NEW k \in Coders, FinishImport(k) PROVE Compiled'
  <2> DEFINE a == coders[k].artifact
             version == [artifact |-> a, home |-> artifacts[a].home,
                         label |-> coders[k].label, archive |-> coders[k].archive]
  <2>1. /\ a \in DOMAIN artifacts /\ a \in 1 .. MaxArtifacts
        /\ coders[k].label \in Labels /\ coders[k].archive \in Archives
    BY <1>1, <1>5 DEF FinishImport, CodeTypeOK, Coder, RestingCoder, Compiled,
                      ComparisonsHold, ImportCompared
  <2>2. artifacts[a].home \in CodeHomes
    BY <1>1, <2>1, RowsAreSequences DEF Artifact
  <2>3. version \in CodeVersion /\ version.artifact = a /\ version.home = artifacts[a].home
    BY <2>1, <2>2 DEF CodeVersion
  <2>4. /\ Len(codeVersions) < MaxCodeVersions /\ codeVersions' = Append(codeVersions, version)
        /\ artifacts' = artifacts /\ coders' = [coders EXCEPT ![k] = RestingCoder]
    BY <1>5 DEF FinishImport, RestCoder
  <2> HIDE DEF version
  <2>5. /\ VersionRowsGrow
        /\ \A v \in DOMAIN codeVersions' :
             v \notin DOMAIN codeVersions => codeVersions'[v] = version
    BY <1>1, <2>3, <2>4, VersionAdded
  <2>6. ArtifactsGrow
    BY <1>1, <2>4, NothingGrows
  <2>7. PICK b \in DOMAIN artifacts : b = a
    BY <2>1
  <2> HIDE DEF a
  <2> QED
    BY <1>3, <2>3, <2>4, <2>5, <2>6, <2>7, GrowingIsCompiled
<1> QED
  BY <1>2, <1>4, <1>5

\* Artifacts are created without an archive, and archived.
LEMMA ArtifactsAreCompiled ==
  ASSUME Compiled,
         \/ \E home \in CodeHomes : CreateArtifact(home)
         \/ \E a \in DOMAIN artifacts : ArchiveArtifact(a)
  PROVE  Compiled'
<1>1. CodeTypeOK /\ coders' = coders /\ codeVersions' = codeVersions
  BY DEF Compiled, CreateArtifact, ArchiveArtifact
<1>2. VersionRowsGrow
  BY <1>1, NothingGrows
<1>3. ASSUME NEW home \in CodeHomes, CreateArtifact(home) PROVE ArtifactsGrow
  <2> DEFINE row == [home |-> home, archive |-> NoArchive, kind |-> "shared",
                     active |-> TRUE]
  <2>1. row \in Artifact
    BY DEF Artifact
  <2>2. Len(artifacts) < MaxArtifacts /\ artifacts' = Append(artifacts, row)
    BY <1>3 DEF CreateArtifact
  <2> QED
    BY <1>1, <2>1, <2>2, ArtifactAdded
<1>4. ASSUME NEW a \in DOMAIN artifacts, ArchiveArtifact(a) PROVE ArtifactsGrow
  <2> DEFINE row == [artifacts[a] EXCEPT !.active = FALSE]
  <2>1. artifacts[a] \in Artifact /\ a \in 1 .. Len(artifacts)
    BY <1>1, RowsAreSequences
  <2>2. /\ row \in Artifact /\ ~row.active /\ row.home = artifacts[a].home
        /\ row.archive = artifacts[a].archive /\ row.kind = artifacts[a].kind
    BY <2>1 DEF Artifact
  <2>3. artifacts' = [artifacts EXCEPT ![a] = row]
    BY <1>4 DEF ArchiveArtifact
  <2> HIDE DEF row
  <2>4. /\ artifacts' \in Seq(Artifact) /\ Len(artifacts') = Len(artifacts)
        /\ artifacts'[a] = row
        /\ \A b \in 1 .. Len(artifacts) : b # a => artifacts'[b] = artifacts[b]
    BY <1>1, <2>1, <2>2, <2>3, RowsAreSequences, ExceptSeq
  <2>5. DOMAIN artifacts' = 1 .. Len(artifacts')
    BY <2>4, LenProperties
  <2> QED
    BY <1>1, <2>1, <2>2, <2>4, <2>5, RowsAreSequences DEF ArtifactsGrow, CodeTypeOK
<1>5. \A v \in DOMAIN codeVersions' : v \in DOMAIN codeVersions
  BY <1>1
<1> QED
  BY <1>1, <1>2, <1>3, <1>4, <1>5, GrowingIsCompiled DEF CodeTypeOK

\* The checks of upload_archive and import_version.
LEMMA ComparingIsCompiled ==
  ASSUME Compiled, NEW k \in Coders,
         \/ \E home \in CodeHomes, route \in {"project", "shared"}, archive \in Archives :
              BeginArchive(k, home, route, archive)
         \/ \E a \in DOMAIN artifacts, label \in Labels, archive \in Archives :
              BeginImport(k, a, label, archive)
  PROVE  Compiled'
<1>1. CodeTypeOK /\ VersionsHaveArtifacts /\ ComparisonsHold
  BY DEF Compiled
<1>2. UNCHANGED <<artifacts, codeVersions>>
  BY DEF BeginArchive, BeginImport
<1>3. /\ Len(artifacts) \in 0 .. MaxArtifacts /\ DOMAIN artifacts = 1 .. Len(artifacts)
      /\ Len(codeVersions) \in 0 .. MaxCodeVersions
  BY <1>1, RowsAreSequences DEF CodeTypeOK
<1>4. coders' \in [Coders -> {RestingCoder} \cup Coder]
      /\ \A j \in Coders \ {k} : coders'[j] = coders[j]
  <2>1. ASSUME NEW home \in CodeHomes, NEW route \in {"project", "shared"},
               NEW archive \in Archives, BeginArchive(k, home, route, archive)
        PROVE  <1>4
    <3>1. [step |-> "uploading", home |-> home, route |-> route, archive |-> archive,
           since |-> Len(artifacts)] \in Coder
      BY <1>3 DEF Coder
    <3> QED
      BY <1>1, <2>1, <3>1 DEF BeginArchive, CodeTypeOK
  <2>2. ASSUME NEW a \in DOMAIN artifacts, NEW label \in Labels, NEW archive \in Archives,
               BeginImport(k, a, label, archive)
        PROVE  <1>4
    <3>1. [step |-> "importing", artifact |-> a, label |-> label, archive |-> archive,
           since |-> Len(codeVersions)] \in Coder
      BY <1>3 DEF Coder
    <3> QED
      BY <1>1, <2>2, <3>1 DEF BeginImport, CodeTypeOK
  <2> QED
    BY <2>1, <2>2
<1>5. /\ coders'[k].step = "uploading" => UploadCompared(k)'
      /\ coders'[k].step = "importing" => ImportCompared(k)'
  <2>1. ASSUME NEW home \in CodeHomes, NEW route \in {"project", "shared"},
               NEW archive \in Archives, BeginArchive(k, home, route, archive)
        PROVE  <1>5
    <3>1. coders'[k] = [step |-> "uploading", home |-> home, route |-> route,
                        archive |-> archive, since |-> Len(artifacts)]
      BY <1>1, <2>1 DEF BeginArchive, CodeTypeOK
    <3>2. \A a \in Compared(home, route) : artifacts[a].archive # archive
      BY <2>1 DEF BeginArchive
    <3>3. coders'[k].since <= Len(artifacts)
      BY <1>3, <3>1
    <3> QED
      BY <1>2, <3>1, <3>2, <3>3 DEF UploadCompared, Compared
  <2>2. ASSUME NEW a \in DOMAIN artifacts, NEW label \in Labels, NEW archive \in Archives,
               BeginImport(k, a, label, archive)
        PROVE  <1>5
    <3>1. coders'[k] = [step |-> "importing", artifact |-> a, label |-> label,
                        archive |-> archive, since |-> Len(codeVersions)]
      BY <1>1, <2>2 DEF BeginImport, CodeTypeOK
    <3>2. \A v \in VersionsOf(artifacts[a].home) : ~Clashes(v, label, archive)
      BY <2>2 DEF BeginImport
    <3>3. coders'[k].since <= Len(codeVersions)
      BY <1>3, <3>1
    <3> QED
      BY <1>2, <3>1, <3>2, <3>3 DEF ImportCompared, VersionsOf, Clashes
  <2> QED
    BY <2>1, <2>2
<1>6. \A j \in Coders \ {k} :
        /\ coders'[j].step = "uploading" => UploadCompared(j)'
        /\ coders'[j].step = "importing" => ImportCompared(j)'
  BY <1>1, <1>2, <1>4 DEF ComparisonsHold, UploadCompared, ImportCompared, Compared,
                          VersionsOf, Clashes
<1>7. ComparisonsHold'
  BY <1>5, <1>6 DEF ComparisonsHold
<1> QED
  BY <1>1, <1>2, <1>4, <1>7 DEF Compiled, CodeTypeOK, VersionsHaveArtifacts

\* Compiled is inductive.
LEMMA CompiledStep == Compiled /\ [CodeNext]_codeVars => Compiled'
<1> SUFFICES ASSUME Compiled, [CodeNext]_codeVars PROVE Compiled'
  OBVIOUS
<1>1. CASE UNCHANGED codeVars
  BY <1>1 DEF codeVars, Compiled, CodeTypeOK, VersionsHaveArtifacts, ComparisonsHold,
              UploadCompared, ImportCompared, Compared, VersionsOf, Clashes
<1>2. CASE ArtifactRequest \/ VersionRequest \/ SharedArtifactRequest \/ SharedArtifactDeletion
  BY <1>2, ArtifactsAreCompiled, ComparingIsCompiled
     DEF ArtifactRequest, VersionRequest, SharedArtifactRequest, SharedArtifactDeletion,
         UploadArchive, UploadStandaloneArchive, DeleteSharedArtifact
<1> QED
  BY <1>1, <1>2, FinishingIsCompiled DEF CodeNext

\* There is no code at first.
LEMMA CompiledInit == CodeInit => Compiled
<1> SUFFICES ASSUME CodeInit PROVE Compiled
  OBVIOUS
<1>1. /\ artifacts = << >> /\ artifacts \in Seq(Artifact) /\ Len(artifacts) = 0
      /\ codeVersions = << >> /\ codeVersions \in Seq(CodeVersion) /\ Len(codeVersions) = 0
      /\ DOMAIN codeVersions = {}
  BY DEF CodeInit
<1>2. CodeTypeOK
  BY <1>1 DEF CodeInit, CodeTypeOK
<1> QED
  BY <1>1, <1>2 DEF CodeInit, Compiled, VersionsHaveArtifacts, ComparisonsHold, RestingCoder

\* Versions have artifacts, and what a request has compared came before it.
THEOREM CodeCompared == CodeSpec => []Compiled
  BY CompiledInit, CompiledStep, PTL DEF CodeSpec

\* An archive or a label is repeated only with rows that came after the
\* request's check (upload_archive, import_version).
THEOREM CodeRepeatsRightly == CodeSpec => OnlyEarlyChecksRepeatCode
<1> DEFINE Right ==
      \A k \in Coders :
        /\ coders[k].step = "uploading" /\ coders'[k] = RestingCoder =>
             \A a \in Compared(coders[k].home, coders[k].route) :
               artifacts[a].archive = coders[k].archive => a > coders[k].since
        /\ coders[k].step = "importing" /\ coders'[k] = RestingCoder =>
             \A v \in VersionsOf(artifacts[coders[k].artifact].home) :
               Clashes(v, coders[k].label, coders[k].archive) => v > coders[k].since
<1>1. Compiled => [Right]_codeVars
  BY DEF Compiled, ComparisonsHold, UploadCompared, ImportCompared
<1> QED
  BY <1>1, CodeCompared, PTL DEF CodeSpec, OnlyEarlyChecksRepeatCode
=============================================================================

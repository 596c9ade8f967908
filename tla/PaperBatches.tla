---------------------------- MODULE PaperBatches ----------------------------
(***************************************************************************)
(* Papers of one project and the batches that import them: create_paper,   *)
(* upload_paper, stage_import and commit_import of                         *)
(* apps/library/services/imports.py with find_duplicate, and their view.   *)
(*                                                                         *)
(* A commit is one transaction: it looks for a duplicate of each item      *)
(* among the papers that are committed and its own, and gives up at the    *)
(* first.  It replaces each item by a stub, the id and title of the paper  *)
(* it made, and never asks whether the batch was committed before.         *)
(*                                                                         *)
(* A work is what the bibliographic data say: a paper or an item that      *)
(* carries all of them is "full" and a stub has the title alone, and two   *)
(* are duplicates when both the work and the form agree.                   *)
(***************************************************************************)
EXTENDS Integers, Sequences, FiniteSets

CONSTANTS
  Works,      \* works that are imported
  Batches,    \* ids of batches
  Clerks,     \* overlapping requests to add papers
  MaxShelf    \* bound: papers of the project

ASSUME BatchAssumption == MaxShelf \in Nat /\ 0 \notin Batches

VARIABLES
  writable,   \* the project is not archived
  shelf,      \* PaperRecord rows of the project
  batches,    \* PaperImportBatch rows: the items of each, << >> before it is staged
  clerks      \* what each request has checked

batchVars == <<writable, shelf, batches, clerks>>

Entry == [work : Works, form : {"full", "stub"}]
Item == [work : Works, form : {"full", "stub"}, status : {"accepted", "duplicate"}]

NoClerk == [step |-> "none"]

\* Batch 0: a paper of its own.
Checked ==
  [step : {"checked"}, adds : Seq(Entry), batch : Batches \cup {0}, seen : SUBSET Entry]

Page == [step : {"page"}, batch : Batches, items : Seq(Item)]

BatchTypeOK ==
  /\ writable \in BOOLEAN
  /\ shelf \in Seq(Entry) /\ Len(shelf) <= MaxShelf
  /\ batches \in [Batches -> Seq(Item)]
  /\ clerks \in [Clerks -> {NoClerk} \cup Checked \cup Page]

BatchInit ==
  /\ writable = TRUE
  /\ shelf = << >>
  /\ batches = [b \in Batches |-> << >>]
  /\ clerks = [c \in Clerks |-> NoClerk]

-----------------------------------------------------------------------------
OnShelf == {shelf[n] : n \in DOMAIN shelf}

ShelfProjectTurns == writable' = ~writable /\ UNCHANGED <<shelf, batches, clerks>>

\* create_paper or upload_paper: the checks.
CheckPaper(c, w) ==
  /\ clerks[c].step = "none" /\ writable
  /\ [work |-> w, form |-> "full"] \notin OnShelf
  /\ clerks' = [clerks EXCEPT ![c] = [step |-> "checked", batch |-> 0,
       adds |-> <<[work |-> w, form |-> "full"]>>, seen |-> OnShelf]]
  /\ UNCHANGED <<writable, shelf, batches>>

\* stage_import compares each item with the papers there are, not with the
\* other items.
StageImport(b, works) ==
  /\ writable /\ batches[b] = << >>
  /\ batches' = [batches EXCEPT
       ![b] = [n \in DOMAIN works |->
                 [work |-> works[n], form |-> "full",
                  status |-> IF [work |-> works[n], form |-> "full"] \in OnShelf
                             THEN "duplicate" ELSE "accepted"]]]
  /\ UNCHANGED <<writable, shelf, clerks>>

\* The view loads the batch.
OpenBatch(c, b) ==
  /\ clerks[c].step = "none" /\ batches[b] # << >>
  /\ clerks' = [clerks EXCEPT
       ![c] = [step |-> "page", batch |-> b, items |-> batches[b]]]
  /\ UNCHANGED <<writable, shelf, batches>>

Plain(item) == [work |-> item.work, form |-> item.form]

Accepted(items) == {n \in DOMAIN items : items[n].status = "accepted"}

\* The accepted items in the order of the batch.
InOrder(items) ==
  {order \in UNION {[1 .. k -> Accepted(items)] : k \in 0 .. Len(items)} :
     /\ \A n \in Accepted(items) : \E k \in DOMAIN order : order[k] = n
     /\ \A j, k \in DOMAIN order : j < k => order[j] < order[k]}

NoRepeats(items) ==
  \A m, n \in Accepted(items) : Plain(items[m]) = Plain(items[n]) => m = n

\* commit_import finds no duplicate of any accepted item.
AllNew(items) ==
  NoRepeats(items) /\ \A n \in Accepted(items) : Plain(items[n]) \notin OnShelf

\* "seen" is history: the papers there were.
CheckBatch(c) ==
  /\ clerks[c].step = "page" /\ writable
  /\ AllNew(clerks[c].items)
  /\ \E order \in InOrder(clerks[c].items) :
       clerks' = [clerks EXCEPT ![c] = [step |-> "checked", batch |-> clerks[c].batch,
         adds |-> [k \in DOMAIN order |-> Plain(clerks[c].items[order[k]])],
         seen |-> OnShelf]]
  /\ UNCHANGED <<writable, shelf, batches>>

\* A duplicate, or an archived project: the transaction is rolled back.
GiveUpBatch(c) ==
  /\ clerks[c].step = "page"
  /\ ~writable \/ ~AllNew(clerks[c].items)
  /\ clerks' = [clerks EXCEPT ![c] = NoClerk]
  /\ UNCHANGED <<writable, shelf, batches>>

Stubbed(items) ==
  [n \in DOMAIN items |->
     IF n \in Accepted(items) THEN [items[n] EXCEPT !.form = "stub"] ELSE items[n]]

\* The transaction commits.  A batch that another request has committed since
\* holds the same stubs.
CommitPapers(c) ==
  /\ clerks[c].step = "checked"
  /\ Len(shelf) + Len(clerks[c].adds) <= MaxShelf
  /\ shelf' = shelf \o clerks[c].adds
  /\ batches' = [b \in Batches |->
                   IF b = clerks[c].batch THEN Stubbed(batches[b]) ELSE batches[b]]
  /\ clerks' = [clerks EXCEPT ![c] = NoClerk]
  /\ UNCHANGED writable

-----------------------------------------------------------------------------
\* PaperViewSet
ClerkPage(c) ==
  \/ \E w \in Works : CheckPaper(c, w)
  \/ \E b \in Batches : OpenBatch(c, b)
  \/ CheckBatch(c) \/ GiveUpBatch(c) \/ CommitPapers(c)

BatchNext ==
  \/ ShelfProjectTurns
  \/ \E b \in Batches, works \in Works \X Works : StageImport(b, works)
  \/ \E c \in Clerks : ClerkPage(c)

BatchSpec == BatchInit /\ [][BatchNext]_batchVars

-----------------------------------------------------------------------------
(***************************************************************************)
(* Properties.                                                             *)
(***************************************************************************)

\* A duplicate of a paper the project has is added only by a request that
\* looked before that paper was there (find_duplicate without a lock).
OnlyBlindRequestsRepeatPapers ==
  [][\A n \in Len(shelf) + 1 .. Len(shelf') :
       shelf'[n] \in OnShelf =>
         \E c \in Clerks :
           /\ clerks[c].step = "checked" /\ clerks'[c] = NoClerk
           /\ shelf'[n] \notin clerks[c].seen]_batchVars

\* A batch that holds one paper twice never adds anything: commit_import
\* refuses each time what stage_import accepted.
TwinsAreNeverCommitted ==
  \A b \in Batches :
    batches[b] # << >> /\ ~NoRepeats(batches[b]) =>
      \A n \in DOMAIN batches[b] : batches[b][n].form = "full"

\* A work without its data is in the project only if a batch was committed a
\* second time.
StubsComeFromCommitted ==
  \A n \in DOMAIN shelf :
    shelf[n].form = "stub" =>
      \E b \in Batches : \E m \in DOMAIN batches[b] :
        batches[b][m].work = shelf[n].work /\ batches[b][m].form = "stub"
=============================================================================

------------------------------ MODULE MCRecords ------------------------------
(***************************************************************************)
(* Records that share no state, checked together: accounts, the sessions   *)
(* of one account, the paper library, the papers of a project, documents   *)
(* with project materials, code repositories, the stock of one resource,   *)
(* and an export of the audit log.  A behaviour is one of the part named   *)
(* by focus, and the others rest.                                          *)
(***************************************************************************)
EXTENDS AccountLifecycle, AccountSecurity, PaperImports, PaperBatches,
        DocumentLibrary, CodeLibrary, ConsumableStock, AuditExports, TLC

VARIABLE focus

accountParts == <<accountVars, securityVars>>
libraryParts == <<paperVars, batchVars, documentVars, codeVars>>
serviceParts == <<stockVars, exportVars>>

MCInit ==
  /\ focus \in {"accounts", "security", "papers", "batches", "documents",
                "code", "stock", "exports"}
  /\ AccountInit /\ SecurityInit
  /\ PaperInit /\ BatchInit /\ DocumentInit /\ CodeInit
  /\ StockInit /\ ExportInit

LibraryNext ==
  \/ focus = "papers" /\ PaperNext
     /\ UNCHANGED <<batchVars, documentVars, codeVars>>
  \/ focus = "batches" /\ BatchNext
     /\ UNCHANGED <<paperVars, documentVars, codeVars>>
  \/ focus = "documents" /\ DocumentNext
     /\ UNCHANGED <<paperVars, batchVars, codeVars>>
  \/ focus = "code" /\ CodeNext
     /\ UNCHANGED <<paperVars, batchVars, documentVars>>

MCNext ==
  /\ UNCHANGED focus
  /\ \/ focus = "accounts" /\ AccountNext
        /\ UNCHANGED <<securityVars, libraryParts, serviceParts>>
     \/ focus = "security" /\ SecurityNext
        /\ UNCHANGED <<accountVars, libraryParts, serviceParts>>
     \/ LibraryNext /\ UNCHANGED <<accountParts, serviceParts>>
     \/ focus = "stock" /\ StockNext
        /\ UNCHANGED <<accountParts, libraryParts, exportVars>>
     \/ focus = "exports" /\ ExportNext
        /\ UNCHANGED <<accountParts, libraryParts, stockVars>>

MCVars == <<focus, accountParts, libraryParts, serviceParts>>

MCSpec == MCInit /\ [][MCNext]_MCVars

\* The values of the files' metadata: two files of one paper, and one that
\* says nothing.
CONSTANTS f1, f2, f3

MCTitleOf == (f1 :> "t1") @@ (f2 :> "t1") @@ (f3 :> Unknown)
MCAuthorOf == (f1 :> "a1") @@ (f2 :> "a2") @@ (f3 :> Unknown)

\* Requests, projects and titles (works, checksums, labels) are
\* interchangeable; the parts share their model values.
Symmetry ==
  Permutations(Archivists) \cup Permutations(Homes) \cup Permutations(DocTitles)

\* Requests about accounts that are in progress.
InProgress ==
  {<<"guest", g>> : g \in {h \in Guests : guests[h] # IdleGuest}}
    \cup {<<"desk", k>> : k \in {j \in Desks : desks[j] # IdleDesk}}

\* Bounds.  At most two requests about accounts are in progress at once, and no
\* code is void while there are; while two of administrators have loaded a row,
\* the accounts hold no requests for roles.  While two requests of one account
\* are in progress, no recovery has been asked for; while two about documents or
\* code are, the documents and the artifacts are of one project, and documents
\* are seen by the group.  At most two requests about papers are in progress.
OneThingAtATime ==
  /\ Cardinality(InProgress) <= 2
  /\ Cardinality(InProgress) = 2 => \A u \in Accounts : codes[u] # "void"
  /\ (\A k \in Desks : desks[k].step \in {"open", "guarded"}) =>
       \A u \in Accounts : activations[u] = << >>
  /\ (\A c \in Clients : clients[c] # IdleClient) =>
       \A r \in Recoveries : recoveries[r] = "absent"
  /\ (\E j, k \in Archivists : j # k /\ archivists[j] # AtRest /\ archivists[k] # AtRest) =>
       \A d, e \in DOMAIN documents :
         documents[d].home = documents[e].home /\ documents[d].visibility = "group"
  /\ (\A k \in Coders : coders[k] # RestingCoder) =>
       \A a, b \in DOMAIN artifacts : artifacts[a].home = artifacts[b].home
  /\ Cardinality({i \in Importers : imports[i] # Idle})
       + Cardinality({k \in Maintainers : maintainers[k] # Idle}) <= 2

\* The group is left without an administrator, and an account without access,
\* by none but the named steps (_guard_last_admin, AccountsService).
AccountsStayUsable == OnlyStaleDesksRemoveLast /\ OnlyDecisionsLockOut

\* Every part keeps its types; role requests and profiles agree, materials show
\* what their records say, what a batch leaves in a project can be told from
\* the batch, and transactions account for the stock (decide_role_activation,
\* change_material_visibility, commit_import, record_stock_transaction).
RecordsAgree ==
  /\ AccountTypeOK /\ SecurityTypeOK /\ ProfileMatchesApproval
  /\ PaperTypeOK /\ BatchTypeOK /\ DocumentTypeOK /\ CodeTypeOK /\ StockTypeOK
  /\ ExportTypeOK
  /\ MaterialsAgree /\ TwinsAreNeverCommitted /\ StubsComeFromCommitted
  /\ LedgerExplainsStock

\* Papers repeat and job counts go wrong by overlapping or blind requests only
\* (detect_shared_paper_duplicate, review_paper_import, find_duplicate).
OnlyOverlapsSpoilPapers ==
  /\ OnlyBlindImportsRepeatFiles /\ OnlyOverlappingReviewsMiscount
  /\ OnlyBlindRequestsRepeatPapers

\* Documents lose their category, titles repeat, and archives, labels and
\* versions of code repeat by steps that looked too early or not at all
\* (delete_category, rename_document, upload_archive).
OnlyEarlyChecksSpoilShelves ==
  OnlyEarlyChecksUnshelve /\ OnlyUncheckedTitlesRepeat /\ OnlyEarlyChecksRepeatCode

\* Low stock goes unseen by edits only, and reports of use end up with a
\* consumable or are decided again by late requests only (update_resource,
\* decide_use_submission).
OnlyEditsAndLateRequestsUpsetStock == OnlyEditsHideLowStock /\ OnlyLateRequestsMixUses
=============================================================================

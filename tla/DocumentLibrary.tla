--------------------------- MODULE DocumentLibrary ---------------------------
(***************************************************************************)
(* Documents, their categories and titles, and the documents that are a    *)
(* project's materials: apps/library/services/documents.py and its views,  *)
(* apps/projects/material_services.py and the material views.              *)
(*                                                                         *)
(* A request that uploads or renames a document, or deletes a category,    *)
(* checks first and writes later, without a lock: a step for each.  An     *)
(* uploaded document belongs to a project but is classified as shared: the *)
(* shared library lists it whatever visibility it was given, which is left *)
(* out.  A material is listed while it is visible to the group.  Who may   *)
(* do what is left out too (a refusal changes nothing), and so is the      *)
(* clean-up of seeded examples.                                            *)
(***************************************************************************)
EXTENDS Integers, Sequences

CONSTANTS
  Homes,               \* projects
  Categories, Default, \* names of categories; the one of project materials
  DocTitles,           \* titles, normalised
  Archivists,          \* overlapping requests
  MaxDocuments         \* bound: documents

ASSUME DocumentAssumption == Default \in Categories /\ MaxDocuments \in Nat

VARIABLES
  categories,  \* DocumentCategory rows by name
  documents,   \* DocumentRecord rows in the order of their ids
  materials,   \* visibility_state of the ProjectMaterial of a document
  archivists   \* what each request has checked

documentVars == <<categories, documents, materials, archivists>>

-----------------------------------------------------------------------------
Document ==
  [home : Homes, category : Categories, title : DocTitles,
   kind : {"shared", "material"}, visibility : {"members", "group"},
   active : BOOLEAN]

AtRest == [step |-> "none"]

\* since: the documents there were; twins: those that had the title.
Archivist ==
  [step : {"uploading", "deleting"}, category : Categories, since : 0 .. MaxDocuments]
    \cup [step : {"renaming"}, document : 1 .. MaxDocuments, title : DocTitles,
          route : {"project", "shared"}, twins : SUBSET (1 .. MaxDocuments)]

DocumentTypeOK ==
  /\ categories \in [Categories -> {"absent", "active", "archived"}]
  /\ documents \in Seq(Document) /\ Len(documents) <= MaxDocuments
  /\ DOMAIN materials = {d \in DOMAIN documents : documents[d].kind = "material"}
  /\ archivists \in [Archivists -> {AtRest} \cup Archivist]

DocumentInit ==
  /\ categories = [c \in Categories |-> "absent"]
  /\ documents = << >>
  /\ materials = << >>
  /\ archivists = [k \in Archivists |-> AtRest]

Rest(k) == archivists' = [archivists EXCEPT ![k] = AtRest]

-----------------------------------------------------------------------------
(***************************************************************************)
(* Categories.                                                             *)
(***************************************************************************)

\* create_category: the name of an archived category stays taken.
CreateCategory(c) ==
  /\ categories[c] = "absent"
  /\ categories' = [categories EXCEPT ![c] = "active"]
  /\ UNCHANGED <<documents, materials, archivists>>

ActiveIn(c) == {d \in DOMAIN documents : documents[d].active /\ documents[d].category = c}

\* Mutant of BeginDelete: documents are not looked for.
BeginDeleteAny(k, c) ==
  /\ archivists[k].step = "none"
  /\ categories[c] = "active"
  /\ archivists' = [archivists EXCEPT
       ![k] = [step |-> "deleting", category |-> c, since |-> Len(documents)]]
  /\ UNCHANGED <<categories, documents, materials>>

\* delete_category: check, and later archive.
BeginDelete(k, c) ==
  /\ archivists[k].step = "none"
  /\ categories[c] = "active" /\ ActiveIn(c) = {}
  /\ archivists' = [archivists EXCEPT
       ![k] = [step |-> "deleting", category |-> c, since |-> Len(documents)]]
  /\ UNCHANGED <<categories, documents, materials>>

FinishDelete(k) ==
  /\ archivists[k].step = "deleting"
  /\ categories' = [categories EXCEPT ![archivists[k].category] = "archived"]
  /\ Rest(k)
  /\ UNCHANGED <<documents, materials>>

-----------------------------------------------------------------------------
(***************************************************************************)
(* Documents.                                                              *)
(***************************************************************************)

\* The category that is asked for is active.
BeginUpload(k, c) ==
  /\ archivists[k].step = "none"
  /\ categories[c] = "active"
  /\ archivists' = [archivists EXCEPT
       ![k] = [step |-> "uploading", category |-> c, since |-> Len(documents)]]
  /\ UNCHANGED <<categories, documents, materials>>

\* The file is stored and the record created, whatever the titles there are.
FinishUpload(k, home, title) ==
  /\ archivists[k].step = "uploading"
  /\ Len(documents) < MaxDocuments
  /\ documents' = Append(documents,
       [home |-> home, category |-> archivists[k].category, title |-> title,
        kind |-> "shared", visibility |-> "group", active |-> TRUE])
  /\ Rest(k)
  /\ UNCHANGED <<categories, materials>>

\* upload_document in a project; upload_standalone_document for the group.
UploadToProject(k, home, title)  == FinishUpload(k, home, title)
UploadStandalone(k, home, title) == FinishUpload(k, home, title)

\* The documents among which a title must be new, by the route of the rename.
Rivals(d, route) ==
  {e \in ActiveIn(documents[d].category) \ {d} :
     IF route = "project" THEN documents[e].home = documents[d].home
                          ELSE documents[e].kind = "shared"}

Titled(title) == {d \in DOMAIN documents : documents[d].active /\ documents[d].title = title}

\* rename_document and rename_shared_document up to the check.
BeginRename(k, d, title, route) ==
  /\ archivists[k].step = "none"
  /\ documents[d].active
  /\ route = "shared" => documents[d].kind = "shared"
  /\ Rivals(d, route) \cap Titled(title) = {}
  /\ archivists' = [archivists EXCEPT
       ![k] = [step |-> "renaming", document |-> d, title |-> title, route |-> route,
               twins |-> Titled(title)]]
  /\ UNCHANGED <<categories, documents, materials>>

RenameInProject(k, d, title) == BeginRename(k, d, title, "project")
RenameShared(k, d, title)    == BeginRename(k, d, title, "shared")

\* Only the title is saved.
FinishRename(k) ==
  /\ archivists[k].step = "renaming"
  /\ documents' = [documents EXCEPT ![archivists[k].document].title = archivists[k].title]
  /\ Rest(k)
  /\ UNCHANGED <<categories, materials>>

Archive(d) ==
  /\ documents[d].active
  /\ documents' = [documents EXCEPT ![d].active = FALSE]
  /\ UNCHANGED <<categories, materials, archivists>>

\* archive_document; delete_shared_document not for a material.
ArchiveInProject(d) == Archive(d)
DeleteShared(d)     == documents[d].kind = "shared" /\ Archive(d)

-----------------------------------------------------------------------------
(***************************************************************************)
(* Project materials.                                                      *)
(***************************************************************************)

\* _create_backing_record: the default category is taken or created, whatever
\* its status.
CreateMaterial(home, title, visibility) ==
  /\ Len(documents) < MaxDocuments
  /\ categories' = [categories EXCEPT
       ![Default] = IF @ = "absent" THEN "active" ELSE @]
  /\ documents' = Append(documents,
       [home |-> home, category |-> Default, title |-> title, kind |-> "material",
        visibility |-> visibility, active |-> TRUE])
  /\ materials' = [d \in DOMAIN materials \cup {Len(documents')} |->
                     IF d \in DOMAIN materials THEN materials[d] ELSE visibility]
  /\ UNCHANGED archivists

\* change_project_material_visibility, one transaction.
ChangeVisibility(d, visibility) ==
  /\ materials' = [materials EXCEPT ![d] = visibility]
  /\ documents' = [documents EXCEPT ![d].visibility = visibility]
  /\ UNCHANGED <<categories, archivists>>

-----------------------------------------------------------------------------
\* DocumentCategoryView and DocumentCategoryDetailView
CategoryRequest ==
  \E c \in Categories :
    \/ CreateCategory(c)
    \/ \E k \in Archivists : BeginDelete(k, c)

\* DocumentViewSet
DocumentRequest ==
  \E k \in Archivists :
    \/ \E c \in Categories : BeginUpload(k, c)
    \/ \E home \in Homes, title \in DocTitles : UploadToProject(k, home, title)
    \/ \E d \in DOMAIN documents :
         ArchiveInProject(d) \/ \E title \in DocTitles : RenameInProject(k, d, title)

\* SharedDocumentListCreateView and SharedDocumentDetailView
SharedRequest ==
  \E k \in Archivists :
    \/ \E home \in Homes, title \in DocTitles : UploadStandalone(k, home, title)
    \/ \E d \in DOMAIN documents :
         DeleteShared(d) \/ \E title \in DocTitles : RenameShared(k, d, title)

\* The materials of a project: create and change.
MaterialRequest ==
  \E visibility \in {"members", "group"} :
    \/ \E home \in Homes, title \in DocTitles : CreateMaterial(home, title, visibility)
    \/ \E d \in DOMAIN materials : ChangeVisibility(d, visibility)

DocumentNext ==
  \/ CategoryRequest \/ DocumentRequest \/ SharedRequest \/ MaterialRequest
  \/ \E k \in Archivists : FinishDelete(k) \/ FinishRename(k)

DocumentSpec == DocumentInit /\ [][DocumentNext]_documentVars

-----------------------------------------------------------------------------
(***************************************************************************)
(* Properties.                                                             *)
(***************************************************************************)

Ends(k, step) == archivists[k].step = step /\ archivists'[k] = AtRest

\* Active documents whose category is archived.
Unshelved ==
  {d \in DOMAIN documents :
     documents[d].active /\ categories[documents[d].category] = "archived"}

\* An active document comes to be in an archived category only by a request
\* that checked too early: an upload that found the category active, or a
\* deletion that found it empty before the document came; or it is a material,
\* for which nobody looks (delete_category, upload_document,
\* _default_document_category).
OnlyEarlyChecksUnshelve ==
  [][\A d \in Unshelved' \ Unshelved :
       \/ documents'[d].kind = "material" /\ documents'[d].category = Default
       \/ \E k \in Archivists : Ends(k, "uploading") /\ d \notin DOMAIN documents
       \/ \E k \in Archivists : Ends(k, "deleting") /\ archivists[k].since < d
     ]_documentVars

Twins(d, e) ==
  /\ {d, e} \subseteq DOMAIN documents /\ d # e
  /\ documents[d].active /\ documents[e].active
  /\ documents[d].category = documents[e].category
  /\ documents[d].title = documents[e].title

\* Two documents of a category get the same title only by an upload, or by a
\* rename for whose route the other document does not count (of another
\* project, or a material), or that had its title checked before the other
\* document got it (rename_document, rename_shared_document).
OnlyUncheckedTitlesRepeat ==
  [][\A d, e \in DOMAIN documents :
       Twins(d, e)' /\ ~Twins(d, e) =>
         \E k \in Archivists :
           /\ Ends(k, "renaming") /\ archivists[k].document \in {d, e}
           /\ LET other == CHOOSE o \in {d, e} : o # archivists[k].document
              IN  \/ other \notin Rivals(archivists[k].document, archivists[k].route)
                  \/ other \notin archivists[k].twins]_documentVars

\* A material and the record behind it agree on who sees it, archived or not
\* (change_project_material_visibility).
MaterialsAgree ==
  \A d \in DOMAIN materials : materials[d] = documents[d].visibility
=============================================================================

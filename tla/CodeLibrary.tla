----------------------------- MODULE CodeLibrary -----------------------------
(***************************************************************************)
(* Code artifacts and their versions: CodeArtifactService and the shared   *)
(* code services of apps/repositories/services.py with their views, and    *)
(* the code materials of apps/projects/material_services.py.               *)
(*                                                                         *)
(* An upload or an import compares checksums and labels with the rows      *)
(* there are and inserts its own later; no index refuses what an           *)
(* overlapping request inserted meanwhile.  An artifact uploaded to a      *)
(* project is classified as shared, like one of the shared library; a      *)
(* material is not.  Who may do what and the names of artifacts are left   *)
(* out (renaming checks names as DocumentLibrary does titles); a commit    *)
(* reference is treated as a label is.                                     *)
(***************************************************************************)
EXTENDS Integers, Sequences

CONSTANTS
  CodeHomes,           \* projects
  Archives, NoArchive, \* checksums, and that of an artifact without a file
  Labels, NoLabel,     \* version labels, and the empty one
  Coders,              \* overlapping requests
  MaxArtifacts,        \* bound: artifacts
  MaxCodeVersions      \* bound: versions

ASSUME CodeAssumption ==
  /\ NoArchive \notin Archives /\ NoLabel \notin Labels
  /\ MaxArtifacts \in Nat /\ MaxCodeVersions \in Nat

VARIABLES
  artifacts,     \* CodeArtifact rows in the order of their ids
  codeVersions,  \* CodeArtifactVersion rows in the order of their ids
  coders         \* what each request has checked

codeVars == <<artifacts, codeVersions, coders>>

-----------------------------------------------------------------------------
Artifact == [home : CodeHomes, archive : Archives \cup {NoArchive},
             kind : {"shared", "material"}, active : BOOLEAN]

CodeVersion == [artifact : 1 .. MaxArtifacts, home : CodeHomes,
                label : Labels \cup {NoLabel}, archive : Archives]

RestingCoder == [step |-> "none"]

\* since: the rows there were at the check.
Coder ==
  [step : {"uploading"}, home : CodeHomes, route : {"project", "shared"},
   archive : Archives, since : 0 .. MaxArtifacts]
    \cup [step : {"importing"}, artifact : 1 .. MaxArtifacts,
          label : Labels, archive : Archives, since : 0 .. MaxCodeVersions]

CodeTypeOK ==
  /\ artifacts \in Seq(Artifact) /\ Len(artifacts) <= MaxArtifacts
  /\ codeVersions \in Seq(CodeVersion) /\ Len(codeVersions) <= MaxCodeVersions
  /\ \A v \in DOMAIN codeVersions :
       codeVersions[v].home = artifacts[codeVersions[v].artifact].home
  /\ coders \in [Coders -> {RestingCoder} \cup Coder]

CodeInit ==
  /\ artifacts = << >> /\ codeVersions = << >>
  /\ coders = [k \in Coders |-> RestingCoder]

RestCoder(k) == coders' = [coders EXCEPT ![k] = RestingCoder]

-----------------------------------------------------------------------------
(***************************************************************************)
(* Artifacts.                                                              *)
(***************************************************************************)

\* create_artifact and create_standalone_artifact: no file, no version.
CreateArtifact(home) ==
  /\ Len(artifacts) < MaxArtifacts
  /\ artifacts' = Append(artifacts,
       [home |-> home, archive |-> NoArchive, kind |-> "shared", active |-> TRUE])
  /\ UNCHANGED <<codeVersions, coders>>

\* The artifacts among which a checksum must be new, by the route.
Compared(home, route) ==
  {a \in DOMAIN artifacts :
     /\ artifacts[a].active
     /\ IF route = "project" THEN artifacts[a].home = home
                             ELSE artifacts[a].kind = "shared"}

\* The checksum is compared.
BeginArchive(k, home, route, archive) ==
  /\ coders[k].step = "none"
  /\ \A a \in Compared(home, route) : artifacts[a].archive # archive
  /\ coders' = [coders EXCEPT
       ![k] = [step |-> "uploading", home |-> home, route |-> route,
               archive |-> archive, since |-> Len(artifacts)]]
  /\ UNCHANGED <<artifacts, codeVersions>>

\* upload_archive and upload_standalone_archive
UploadArchive(k, home, archive)           == BeginArchive(k, home, "project", archive)
UploadStandaloneArchive(k, home, archive) == BeginArchive(k, home, "shared", archive)

\* An artifact with its file and the first version of it.
WithFile(home, archive, kind) ==
  /\ Len(artifacts) < MaxArtifacts /\ Len(codeVersions) < MaxCodeVersions
  /\ artifacts' = Append(artifacts,
       [home |-> home, archive |-> archive, kind |-> kind, active |-> TRUE])
  /\ codeVersions' = Append(codeVersions,
       [artifact |-> Len(artifacts'), home |-> home, label |-> NoLabel,
        archive |-> archive])

FinishArchive(k) ==
  /\ coders[k].step = "uploading"
  /\ WithFile(coders[k].home, coders[k].archive, "shared")
  /\ RestCoder(k)

\* A code material: nothing is compared.
CreateCodeMaterial(home, archive) ==
  WithFile(home, archive, "material") /\ UNCHANGED coders

\* archive_artifact, whatever the kind; delete_shared_code_artifact.
ArchiveArtifact(a) ==
  /\ artifacts[a].active
  /\ artifacts' = [artifacts EXCEPT ![a].active = FALSE]
  /\ UNCHANGED <<codeVersions, coders>>

DeleteSharedArtifact(a) == artifacts[a].kind = "shared" /\ ArchiveArtifact(a)

-----------------------------------------------------------------------------
(***************************************************************************)
(* Versions.                                                               *)
(***************************************************************************)

VersionsOf(home) == {v \in DOMAIN codeVersions : codeVersions[v].home = home}

Clashes(v, label, archive) ==
  codeVersions[v].label = label \/ codeVersions[v].archive = archive

\* import_version: label and checksum are new in the project, among the
\* versions of archived artifacts too.
BeginImport(k, a, label, archive) ==
  /\ coders[k].step = "none"
  /\ artifacts[a].active
  /\ \A v \in VersionsOf(artifacts[a].home) : ~Clashes(v, label, archive)
  /\ coders' = [coders EXCEPT
       ![k] = [step |-> "importing", artifact |-> a, label |-> label,
               archive |-> archive, since |-> Len(codeVersions)]]
  /\ UNCHANGED <<artifacts, codeVersions>>

FinishImport(k) ==
  /\ coders[k].step = "importing"
  /\ Len(codeVersions) < MaxCodeVersions
  /\ codeVersions' = Append(codeVersions,
       [artifact |-> coders[k].artifact, home |-> artifacts[coders[k].artifact].home,
        label |-> coders[k].label, archive |-> coders[k].archive])
  /\ RestCoder(k)
  /\ UNCHANGED artifacts

-----------------------------------------------------------------------------
\* CodeArtifactViewSet
ArtifactRequest ==
  \/ \E home \in CodeHomes :
       \/ CreateArtifact(home)
       \/ \E k \in Coders, archive \in Archives : UploadArchive(k, home, archive)
  \/ \E a \in DOMAIN artifacts : ArchiveArtifact(a)

\* The versions action of the view set
VersionRequest ==
  \E k \in Coders, a \in DOMAIN artifacts, label \in Labels, archive \in Archives :
    BeginImport(k, a, label, archive)

\* SharedCodeArtifactListCreateView
SharedArtifactRequest ==
  \E k \in Coders, home \in CodeHomes, archive \in Archives :
    UploadStandaloneArchive(k, home, archive)

\* SharedCodeArtifactDetailView
SharedArtifactDeletion == \E a \in DOMAIN artifacts : DeleteSharedArtifact(a)

CodeNext ==
  \/ ArtifactRequest \/ VersionRequest
  \/ SharedArtifactRequest \/ SharedArtifactDeletion
  \/ \E home \in CodeHomes, archive \in Archives : CreateCodeMaterial(home, archive)
  \/ \E k \in Coders : FinishArchive(k) \/ FinishImport(k)

CodeSpec == CodeInit /\ [][CodeNext]_codeVars

-----------------------------------------------------------------------------
(***************************************************************************)
(* Properties.                                                             *)
(***************************************************************************)

\* A new artifact repeats the file of an active one, or a new version the
\* label or file of another of its project, only if the request compared
\* before the other row was there, or does not compare the two: an upload
\* looks at one project or at what is shared, and never at the versions, and a
\* material at nothing (upload_archive, upload_standalone_archive,
\* import_version).
OnlyEarlyChecksRepeatCode ==
  [][\A k \in Coders :
       /\ coders[k].step = "uploading" /\ coders'[k] = RestingCoder =>
            \A a \in Compared(coders[k].home, coders[k].route) :
              artifacts[a].archive = coders[k].archive => a > coders[k].since
       /\ coders[k].step = "importing" /\ coders'[k] = RestingCoder =>
            \A v \in VersionsOf(artifacts[coders[k].artifact].home) :
              Clashes(v, coders[k].label, coders[k].archive) => v > coders[k].since
     ]_codeVars
=============================================================================

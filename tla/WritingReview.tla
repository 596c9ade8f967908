---------------------------- MODULE WritingReview ----------------------------
(***************************************************************************)
(* Writing pieces, their versions and the feedback on them:                *)
(* writing_services.py, writing_participant_services.py and                *)
(* feedback_services.py of apps/submissions, and their views.              *)
(*                                                                         *)
(* A view reads the rows it works on before it checks and writes: a        *)
(* request holds what it has read of a piece, or of a version's status,    *)
(* until it writes.                                                        *)
(*                                                                         *)
(* Files, titles and the records of downloads are left out.  A version is  *)
(* its place.                                                              *)
(***************************************************************************)
EXTENDS Integers, Sequences, FiniteSets

CONSTANTS
  Pieces,       \* writing pieces
  Teachers,     \* accounts that may become the advisor of a project
  Admin,        \* an administrator
  Requests,     \* requests that are under way
  MaxVersions   \* bound: versions of a piece

ASSUME WritingAssumption ==
  Admin \notin Teachers /\ MaxVersions \in Nat

VARIABLES
  openProject,  \* the project is active
  advisor,      \* its advisor
  pieces,       \* WritingProject with its bound advisor and versions
  requests      \* what each request has read

projectVars == <<openProject, advisor>>
pieceVars == <<pieces, requests>>
writingVars == <<projectVars, pieceVars>>

-----------------------------------------------------------------------------
\* The statuses the code sets, in their order; closed is never set.
VersionStatus == 1 .. 3
submitted == 1
underReview == 2
feedbackAvailable == 3

Nobody == "nobody"

\* bound is the participant who is the bound advisor
Piece == [status : {"none", "active", "archived"}, bound : Teachers \cup {Nobody},
          versions : Seq(VersionStatus)]

RestingRequest == [at |-> "rest"]

WritingTypeOK ==
  /\ openProject \in BOOLEAN /\ advisor \in Teachers
  /\ pieces \in [Pieces -> Piece]
  /\ \A p \in Pieces : Len(pieces[p].versions) <= MaxVersions
  /\ requests \in [Requests -> {RestingRequest} \cup
       [at : {"upload", "archive"}, piece : Pieces] \cup
       [at : {"download", "feedback"}, piece : Pieces,
        number : 1 .. MaxVersions, status : VersionStatus]]

WritingInit ==
  /\ openProject = TRUE /\ advisor \in Teachers
  /\ pieces = [p \in Pieces |-> [status |-> "none", bound |-> Nobody, versions |-> <<>>]]
  /\ requests = [r \in Requests |-> RestingRequest]

-----------------------------------------------------------------------------
(***************************************************************************)
(* Around the pieces: the project changes hands, is archived and reopened. *)
(***************************************************************************)

ProjectMoves ==
  /\ \/ openProject' = ~openProject /\ UNCHANGED advisor
     \/ \E t \in Teachers : advisor' = t /\ UNCHANGED openProject
  /\ UNCHANGED <<pieceVars>>

-----------------------------------------------------------------------------
(***************************************************************************)
(* Pieces and versions.                                                    *)
(***************************************************************************)

\* ensure_default_writing_participants binds who is the advisor now.
CreatePiece(p) ==
  /\ openProject /\ pieces[p].status = "none"
  /\ pieces' = [pieces EXCEPT ![p].status = "active", ![p].bound = advisor]
  /\ UNCHANGED <<projectVars, requests>>

\* can_review_writing_project: the bound advisor, whoever the advisor is now,
\* and every administrator
Reviewers(p) == {pieces[p].bound, Admin} \ {Nobody}

\* A view has read and checked the piece, for its author's upload or archiving.
BeginManage(r, at, p) ==
  /\ requests[r] = RestingRequest
  /\ openProject /\ pieces[p].status = "active"
  /\ requests' = [requests EXCEPT ![r] = [at |-> at, piece |-> p]]
  /\ UNCHANGED <<projectVars, pieces>>

\* The author's downloads change nothing; the project may be archived.
BeginReview(r, at, p, n, u) ==
  /\ requests[r] = RestingRequest
  /\ n \in DOMAIN pieces[p].versions /\ u \in Reviewers(p)
  /\ at = "feedback" => openProject
  /\ requests' = [requests EXCEPT ![r] =
       [at |-> at, piece |-> p, number |-> n, status |-> pieces[p].versions[n]]]
  /\ UNCHANGED <<projectVars, pieces>>

\* The lock on the piece orders uploads; its status is not looked at again.
FinishUpload(r) ==
  /\ requests[r].at = "upload"
  /\ Len(pieces[requests[r].piece].versions) < MaxVersions
  /\ pieces' = [pieces EXCEPT ![requests[r].piece].versions = Append(@, submitted)]
  /\ requests' = [requests EXCEPT ![r] = RestingRequest]
  /\ UNCHANGED <<projectVars>>

FinishArchive(r) ==
  /\ requests[r].at = "archive"
  /\ pieces' = [pieces EXCEPT ![requests[r].piece].status = "archived"]
  /\ requests' = [requests EXCEPT ![r] = RestingRequest]
  /\ UNCHANGED <<projectVars>>

\* Mutant of FinishDownload: the download always puts the version under review.
DownloadAlways(r) ==
  /\ requests[r].at = "download"
  /\ pieces' = [pieces EXCEPT
       ![requests[r].piece].versions[requests[r].number] = underReview]
  /\ requests' = [requests EXCEPT ![r] = RestingRequest]
  /\ UNCHANGED <<projectVars>>

\* record_writing_version_download goes by the status that was read.
FinishDownload(r) ==
  /\ requests[r].at = "download"
  /\ pieces' = IF requests[r].status # submitted THEN pieces
               ELSE [pieces EXCEPT
                 ![requests[r].piece].versions[requests[r].number] = underReview]
  /\ requests' = [requests EXCEPT ![r] = RestingRequest]
  /\ UNCHANGED <<projectVars>>

FinishFeedback(r) ==
  /\ requests[r].at = "feedback"
  /\ pieces' = [pieces EXCEPT
       ![requests[r].piece].versions[requests[r].number] = feedbackAvailable]
  /\ requests' = [requests EXCEPT ![r] = RestingRequest]
  /\ UNCHANGED <<projectVars>>

-----------------------------------------------------------------------------
Authoring ==
  \/ \E p \in Pieces : CreatePiece(p)
  \/ \E r \in Requests, p \in Pieces, at \in {"upload", "archive"} : BeginManage(r, at, p)
  \/ \E r \in Requests : FinishArchive(r)

ReviewPages ==
  \/ \E r \in Requests, p \in Pieces, at \in {"download", "feedback"},
        n \in 1 .. MaxVersions, u \in Teachers \cup {Admin} : BeginReview(r, at, p, n, u)
  \/ \E r \in Requests : FinishUpload(r) \/ FinishDownload(r) \/ FinishFeedback(r)

WritingNext ==
  Authoring \/ ReviewPages \/ ProjectMoves

WritingSpec == WritingInit /\ [][WritingNext]_writingVars

-----------------------------------------------------------------------------
(***************************************************************************)
(* Properties.                                                             *)
(***************************************************************************)

\* A version only advances: none goes back from feedback to review, unless a
\* download that has read it as submitted is recorded after the feedback
\* (record_writing_version_download, submit_feedback).
OnlyStaleDownloadsHideFeedback ==
  [][\A p \in Pieces : \A n \in DOMAIN pieces[p].versions :
       pieces'[p].versions[n] < pieces[p].versions[n] =>
         \E r \in Requests :
           /\ requests[r].at = "download" /\ requests[r].status = submitted
           /\ requests[r].piece = p /\ requests[r].number = n
           /\ requests'[r] = RestingRequest]_writingVars
=============================================================================

------------------------- MODULE ProjectGovernance -------------------------
(***************************************************************************)
(* One project: who may do what, memberships, ownership, closeout and      *)
(* reopening: apps/projects/access_services.py, services.py,               *)
(* collaboration_services.py, closeout_services.py and the views.          *)
(*                                                                         *)
(* The collaboration services and the closeout lock the project or the     *)
(* membership, read them again, and are one step.  The services of         *)
(* services.py act on the row the view loaded, without a lock: a request   *)
(* loads a page, which holds the project row or a membership row, and its  *)
(* service is a step of its own.  Capabilities are computed from that row  *)
(* and from the actor's membership as it is now.                           *)
(*                                                                         *)
(* A client that names a version which is compared under the lock, or a   *)
(* transfer whose key is recorded (it answers with the record), changes    *)
(* nothing else: versions of memberships and keys are left out.  Reviewer  *)
(* and observer have the same rights here: "observer" stands for both.     *)
(*                                                                         *)
(* Administrators are one actor, which is no member.  What the other       *)
(* services add to a project is open work of four sorts, which a closeout  *)
(* may dispose of or not: tasks and reports, deliverables, bookings still  *)
(* to come and bookings that have begun.  place_governance_hold has no     *)
(* caller: projects are held from the start or never.                      *)
(***************************************************************************)
EXTENDS Integers, FiniteSets

CONSTANTS
  Teachers, Students,   \* accounts, by their approved role
  Admin,                \* the administrators
  Pages,                \* requests that work with a row they loaded
  MaxGovernance         \* bound: the version of the project

ASSUME GovernanceAssumption ==
  /\ Teachers \cap Students = {} /\ Admin \notin Teachers \cup Students
  /\ MaxGovernance \in Nat \ {0}

VARIABLES
  project,    \* ResearchProject row
  members,    \* ProjectMembership rows, one for each account
  working,    \* accounts that are active and verified
  openWork,   \* sorts of open work in the project
  closedOut,  \* there is a ProjectCloseoutRecord row
  pages       \* what each request has loaded

governanceVars ==
  <<project, members, working, openWork, closedOut, pages>>

-----------------------------------------------------------------------------
People == Teachers \cup Students

Collaborator == {"co_advisor", "observer"}
ProjectRole == Collaborator \cup {"advisor", "student"}

ProjectRow == [status : {"active", "archived"}, held : BOOLEAN,
               advisor : Teachers, version : 1 .. MaxGovernance]

MemberRow == [status : {"absent", "active", "removed"}, role : ProjectRole]

\* What build_closeout_preflight asks about.
ProjectWork == {"reporting", "deliverable"}
Bookings == {"booked", "inUse"}
WorkSort == ProjectWork \cup Bookings

NoPage == [step |-> "none"]

GovernanceTypeOK ==
  /\ project \in ProjectRow
  /\ members \in [People -> MemberRow]
  /\ working \subseteq People
  /\ openWork \subseteq WorkSort
  /\ closedOut \in BOOLEAN
  /\ pages \in
       [Pages -> {NoPage} \cup [step : {"project"}, row : ProjectRow]
                   \cup [step : {"member"}, user : People, role : ProjectRole]]

Absentee == [status |-> "absent", role |-> "student"]

\* create_project; a migration may have left the project on hold.
GovernanceInit ==
  /\ project \in [status : {"active"}, held : BOOLEAN, advisor : Teachers,
                  version : {1}]
  /\ members = [u \in People |->
       IF u = project.advisor
       THEN [status |-> "active", role |-> "advisor"] ELSE Absentee]
  /\ working = People
  /\ openWork = {}
  /\ closedOut = FALSE
  /\ pages = [q \in Pages |-> NoPage]

-----------------------------------------------------------------------------
(***************************************************************************)
(* project_capabilities                                                    *)
(***************************************************************************)

Holds(u, role) ==
  u \in working /\ members[u].status = "active" /\ members[u].role = role

Primary(u) == Holds(u, "advisor")
Manager(u) == Primary(u) \/ Holds(u, "co_advisor")

Open(row) == row.status = "active" /\ ~row.held

\* canEditProject, canMutateProjectWork and the like
CanWrite(u, row) == Manager(u) /\ Open(row)

\* canManageMembers
CanManageMembers(u, row) == (Manager(u) \/ u = Admin) /\ Open(row)

\* canManageCollaborators
CanManageCollaborators(u, row) == (Primary(u) \/ u = Admin) /\ Open(row)

\* canTransferOwnership or canResolveGovernanceHold
CanTransfer(u, row) == IF row.held THEN u = Admin ELSE Primary(u) \/ u = Admin

\* canArchiveProject and canReopenProject
CanArchive(u, row) == Primary(u) /\ Open(row)
CanReopen(u, row)  == Primary(u) /\ row.status = "archived" /\ ~row.held

Somebody(Can(_, _), row) == \E u \in People \cup {Admin} : Can(u, row)

\* The partial unique index unique_active_primary_advisor
OnePrimary(rows) ==
  \A u, v \in People :
    /\ rows[u].status = "active" /\ rows[u].role = "advisor"
    /\ rows[v].status = "active" /\ rows[v].role = "advisor"
    => u = v

-----------------------------------------------------------------------------
(***************************************************************************)
(* What happens around the project.                                        *)
(***************************************************************************)

\* An administrator suspends or reactivates an account (AccountsService).
SwitchWorking(u) ==
  /\ working' = IF u \in working THEN working \ {u} ELSE working \cup {u}
  /\ UNCHANGED <<project, members, openWork, closedOut, pages>>

\* A view loads the project, or the project and one membership of it.
LoadProject(q) ==
  /\ pages[q].step = "none"
  /\ pages' = [pages EXCEPT ![q] = [step |-> "project", row |-> project]]
  /\ UNCHANGED <<project, members, working, openWork, closedOut>>

LoadMember(q, u) ==
  /\ pages[q].step = "none"
  /\ members[u].status = "active"
  /\ pages' = [pages EXCEPT ![q] = [step |-> "member", user |-> u,
                                    role |-> members[u].role]]
  /\ UNCHANGED <<project, members, working, openWork, closedOut>>

LeavePage(q) == pages' = [pages EXCEPT ![q] = NoPage]

\* TaskService and the report services ask for a membership and a project that
\* is not archived, those of deliverables also for one without a hold: all of
\* them of the project they loaded.
AddWork(q, sort) ==
  /\ pages[q].step = "project" /\ pages[q].row.status = "active"
  /\ \E u \in People : members[u].status = "active"
  /\ sort = "deliverable" => ~pages[q].row.held
  /\ openWork' = openWork \cup {sort}
  /\ LeavePage(q)
  /\ UNCHANGED <<project, members, working, closedOut>>

\* The bookings of a project's address: whoever books a resource gives the
\* booking to any project, in whatever state that is.
AttachBooking(sort) ==
  /\ openWork' = openWork \cup {sort}
  /\ UNCHANGED <<project, members, working, closedOut, pages>>

\* Time passes: one of the bookings to come begins, or the only one.
BookingBegins ==
  /\ "booked" \in openWork
  /\ openWork' \in {openWork \cup {"inUse"}, (openWork \ {"booked"}) \cup {"inUse"}}
  /\ UNCHANGED <<project, members, working, closedOut, pages>>

FinishWork(sort) ==
  /\ sort \in openWork
  /\ openWork' = openWork \ {sort}
  /\ UNCHANGED <<project, members, working, closedOut, pages>>

-----------------------------------------------------------------------------
(***************************************************************************)
(* services.py: on the row that was loaded.                                *)
(***************************************************************************)

\* Mutant of UpdateProject: it saves a held project too.
UpdateEvenHeld(q) ==
  /\ pages[q].step = "project"
  /\ \E u \in People : Manager(u) /\ pages[q].row.status = "active"
  /\ project' = [pages[q].row EXCEPT !.held = FALSE]
  /\ LeavePage(q)
  /\ UNCHANGED <<members, working, openWork, closedOut>>

\* update_project saves the whole row, whatever has become of it.
UpdateProject(q) ==
  /\ pages[q].step = "project" /\ Somebody(CanWrite, pages[q].row)
  /\ project' = pages[q].row
  /\ LeavePage(q)
  /\ UNCHANGED <<members, working, openWork, closedOut>>

ReopenProject(q) ==
  /\ pages[q].step = "project" /\ Somebody(CanReopen, pages[q].row)
  /\ project' = [project EXCEPT !.status = "active"]
  /\ LeavePage(q)
  /\ UNCHANGED <<members, working, openWork, closedOut>>

\* add_student_member takes up an earlier membership without a new version.
AddStudent(q, u) ==
  /\ pages[q].step = "project" /\ Somebody(CanManageMembers, pages[q].row)
  /\ u \in Students \cap working
  /\ members[u].status # "active"
  /\ members' = [members EXCEPT ![u].status = "active", ![u].role = "student"]
  /\ LeavePage(q)
  /\ UNCHANGED <<project, working, openWork, closedOut>>

\* add_member, which the view calls for any account and any role.
AddMember(q, u, role) ==
  /\ pages[q].step = "project" /\ Somebody(CanManageMembers, pages[q].row)
  /\ members' = [members EXCEPT ![u].status = "active", ![u].role = role]
  /\ OnePrimary(members')
  /\ LeavePage(q)
  /\ UNCHANGED <<project, working, openWork, closedOut>>

\* remove_member; an advisor's own membership is refused.
RemoveMember(q) ==
  /\ pages[q].step = "member"
  /\ \E actor \in People \cup {Admin} :
       /\ CanManageMembers(actor, project)
       /\ ~(pages[q].role = "advisor" /\ pages[q].user = actor)
  /\ members' = [members EXCEPT ![pages[q].user].status = "removed"]
  /\ LeavePage(q)
  /\ UNCHANGED <<project, working, openWork, closedOut>>

-----------------------------------------------------------------------------
(***************************************************************************)
(* collaboration_services.py: locked and read again.                       *)
(***************************************************************************)

\* ensure_teacher_eligible
Eligible(u) == u \in Teachers \cap working

AssignCollaborator(u, role) ==
  /\ Somebody(CanManageCollaborators, project)
  /\ Eligible(u) /\ members[u].status # "active"
  /\ members' = [members EXCEPT ![u] = [status |-> "active", role |-> role]]
  /\ UNCHANGED <<project, working, openWork, closedOut, pages>>

\* change_role names any membership but the primary advisor's.
ChangeRole(u, role) ==
  /\ Somebody(CanManageCollaborators, project)
  /\ members[u].status # "absent" /\ members[u].role # "advisor"
  /\ Eligible(u)
  /\ members' = [members EXCEPT ![u].role = role]
  /\ UNCHANGED <<project, working, openWork, closedOut, pages>>

RemoveCollaborator(u) ==
  /\ Somebody(CanManageCollaborators, project)
  /\ members[u].status # "absent" /\ members[u].role # "advisor"
  /\ members' = [members EXCEPT ![u].status = "removed"]
  /\ UNCHANGED <<project, working, openWork, closedOut, pages>>

\* The memberships when u takes over: every active advisor gets the role the
\* transfer leaves behind, or is removed.
Succession(u, behind) ==
  [v \in People |->
     IF v = u THEN [status |-> "active", role |-> "advisor"]
     ELSE IF members[v] # [status |-> "active", role |-> "advisor"]
     THEN members[v]
     ELSE IF behind = "removed" THEN [status |-> "removed", role |-> "observer"]
     ELSE [status |-> "active", role |-> behind]]

\* transfer_ownership also ends a hold.
TransferOwnership(u, behind) ==
  /\ Somebody(CanTransfer, project)
  /\ Eligible(u) /\ u # project.advisor
  /\ project.version < MaxGovernance
  /\ members' = Succession(u, behind)
  /\ project' = [project EXCEPT !.advisor = u, !.held = FALSE, !.version = @ + 1]
  /\ UNCHANGED <<working, openWork, closedOut, pages>>

\* cancelOpenTasks, closePendingReports, cancelOpenBookings
LeftBy(dispose) ==
  IF dispose THEN openWork \ {"reporting", "booked"} ELSE openWork

\* Mutant of Closeout: the checks are those of the page, before the lock.
CloseoutUnchecked(dispose) ==
  /\ Somebody(CanArchive, project)
  /\ openWork' = LeftBy(dispose)
  /\ closedOut' = TRUE
  /\ project' = [project EXCEPT !.status = "archived"]
  /\ UNCHANGED <<members, working, pages>>

\* closeout_and_archive: dispose, check again, record, archive.
Closeout(dispose) ==
  /\ Somebody(CanArchive, project)
  /\ LeftBy(dispose) = {} /\ openWork' = {}
  /\ closedOut' = TRUE
  /\ project' = [project EXCEPT !.status = "archived"]
  /\ UNCHANGED <<members, working, pages>>

-----------------------------------------------------------------------------
\* The views of ProjectViewSet, in their order.
ProjectPage(q) == LoadProject(q) \/ UpdateProject(q)

WorkPage(q) == \E sort \in ProjectWork : AddWork(q, sort)

MembersPage(q) ==
  \E u \in People :
    AddStudent(q, u) \/ \E role \in ProjectRole : AddMember(q, u, role)

MemberPage(q) == (\E u \in People : LoadMember(q, u)) \/ RemoveMember(q)

CollaboratorRequest ==
  \E u \in People :
    \/ \E role \in Collaborator : AssignCollaborator(u, role) \/ ChangeRole(u, role)
    \/ RemoveCollaborator(u)

OwnershipRequest ==
  \E u \in People, behind \in Collaborator \cup {"removed"} :
    TransferOwnership(u, behind)

ArchiveRequest == \E dispose \in BOOLEAN : Closeout(dispose)

GovernanceNext ==
  \/ \E q \in Pages :
       \/ ProjectPage(q) \/ MembersPage(q) \/ MemberPage(q)
       \/ WorkPage(q) \/ ReopenProject(q)
  \/ CollaboratorRequest \/ OwnershipRequest \/ ArchiveRequest
  \/ \E u \in People : SwitchWorking(u)
  \/ \E sort \in WorkSort : FinishWork(sort)
  \/ \E sort \in Bookings : AttachBooking(sort)
  \/ BookingBegins

GovernanceSpec == GovernanceInit /\ [][GovernanceNext]_governanceVars

-----------------------------------------------------------------------------
(***************************************************************************)
(* Properties.                                                             *)
(***************************************************************************)

\* A request whose page is outdated saves it (update_project).
StaleSave(q) ==
  /\ pages[q].step = "project" /\ pages[q].row # project
  /\ project' = pages[q].row

\* Nothing takes governance back but such a save: otherwise the version never
\* falls, the owner and a hold change only with a new version (which is what
\* transfer_ownership compares), and an archived project has a record that it
\* was closed out and an owner who reopened it.
OnlyStaleSavesUndoGovernance ==
  [][\/ \E q \in Pages : StaleSave(q)
     \/ /\ project'.version >= project.version
        /\ project'.advisor # project.advisor \/ project'.held # project.held
             => project'.version > project.version
        /\ project'.status = "archived" /\ project.status = "active"
             => closedOut' /\ openWork' = {}
        /\ project'.status = "active" /\ project.status = "archived"
             => Somebody(CanReopen, project)]_governanceVars

\* A project is archived with nothing open, and what is open in an archived one
\* is there by a booking or by a request that loaded the project while it was
\* active (closeout_and_archive; ensure_project_writable reads the row loaded;
\* the bookings of a project ask nothing of it).
ArchivedGetsBookingsOnly ==
  [][project'.status = "archived" /\ openWork' # {} =>
       /\ project.status = "archived"
       /\ \/ openWork' \subseteq openWork \cup Bookings
          \/ \E q \in Pages :
               /\ pages[q].step = "project" /\ pages[q].row.status = "active"
               /\ pages'[q] = NoPage]_governanceVars

\* The owner the project names and the primary advisor among its members are
\* the same account, unless a member was removed or added by hand or an
\* outdated page was saved (remove_member, add_member, update_project).
OwnersAgree ==
  \A u \in People :
    members[u].status = "active" /\ members[u].role = "advisor"
      => u = project.advisor

OnlyLegacyStepsSplitOwners ==
  [][OwnersAgree /\ ~OwnersAgree' =>
       \E q \in Pages :
         /\ pages[q].step = "project" /\ pages'[q] = NoPage
         /\ \/ StaleSave(q)
            \/ /\ project' = project
               /\ ~\E u \in People :
                     members[u].status = "active" /\ members[u].role = "advisor"
     ]_governanceVars

\* Governance is undone, and ownership split, by named steps only (the versions
\* of transfer_ownership, the saves of update_project).
GovernanceHolds == OnlyStaleSavesUndoGovernance /\ OnlyLegacyStepsSplitOwners
=============================================================================

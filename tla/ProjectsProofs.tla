--------------------------- MODULE ProjectsProofs ----------------------------
(***************************************************************************)
(* Theorems about the governance, decisions and tasks of a project, and    *)
(* about schedule series, for any number of people, pages, decisions,      *)
(* tasks, series and requests; and about all of them together: every part  *)
(* behaves in MCProjects as it does alone.                                 *)
(***************************************************************************)
EXTENDS MCProjects, SequenceTheorems, FiniteSetTheorems, TLAPS

-----------------------------------------------------------------------------
(***************************************************************************)
(* Members, the advisor and the end of a project.                          *)
(***************************************************************************)

USE GovernanceAssumption

\* A hold is never placed again: who loaded the project without one knows that
\* it has none.
HoldsOnlyEnd ==
  \A q \in Pages :
    pages[q].step = "project" /\ project.held => pages[q].row.held

Governed == GovernanceTypeOK /\ HoldsOnlyEnd

ActiveAdvisor(rows, u) == rows[u].status = "active" /\ rows[u].role = "advisor"

\* Pages a step may leave: as they were, or one of them at rest.
OnlyLeaves == pages' = pages \/ \E q \in Pages : LeavePage(q)

\* Steps that at most end a request keep what is known of the pages.
LEMMA LeavingIsGoverned ==
  ASSUME Governed, OnlyLeaves,
         project' \in ProjectRow, project'.held => project.held,
         members' \in [People -> MemberRow], working' \subseteq People,
         openWork' \subseteq WorkSort, closedOut' \in BOOLEAN
  PROVE  Governed'
<1>1. GovernanceTypeOK'
  BY DEF Governed, GovernanceTypeOK, OnlyLeaves, LeavePage
<1>2. \A q \in Pages : pages'[q].step = "project" => pages'[q] = pages[q]
  BY DEF Governed, GovernanceTypeOK, OnlyLeaves, LeavePage, NoPage
<1>3. HoldsOnlyEnd'
  BY <1>2 DEF Governed, HoldsOnlyEnd
<1> QED
  BY <1>1, <1>3 DEF Governed

\* What one changed membership leaves, whichever fields were written.
LEMMA OneMember ==
  ASSUME Governed, NEW u \in People, NEW s \in {"active", "removed"},
         NEW role \in ProjectRole,
         \/ members' = [members EXCEPT ![u].status = s, ![u].role = role]
         \/ members' = [members EXCEPT ![u] = [status |-> s, role |-> role]]
  PROVE  /\ members' \in [People -> MemberRow]
         /\ members'[u] = [status |-> s, role |-> role]
         /\ \A v \in People \ {u} : members'[v] = members[v]
<1>1. members \in [People -> MemberRow]
  BY DEF Governed, GovernanceTypeOK
<1>2. members[u] \in MemberRow
  BY <1>1
<1>3. members[u] = [status |-> members[u].status, role |-> members[u].role]
  BY <1>2 DEF MemberRow
<1>4. members'[u] = [status |-> s, role |-> role]
  BY <1>1, <1>2, <1>3 DEF MemberRow
<1>5. /\ \A v \in People \ {u} : members'[v] = members[v]
      /\ DOMAIN members' = People
      /\ members' = [v \in People |-> members'[v]]
  BY <1>1
<1>6. [status |-> s, role |-> role] \in MemberRow
  BY DEF MemberRow
<1> QED
  BY <1>1, <1>4, <1>5, <1>6

\* The same where one field is written.
LEMMA OneField ==
  ASSUME Governed, NEW u \in People, NEW s \in {"active", "removed"},
         NEW role \in ProjectRole,
         \/ members' = [members EXCEPT ![u].status = s]
         \/ members' = [members EXCEPT ![u].role = role]
  PROVE  /\ members' \in [People -> MemberRow]
         /\ \/ members'[u].status = s /\ members'[u].role = members[u].role
            \/ members'[u].status = members[u].status /\ members'[u].role = role
         /\ \A v \in People \ {u} : members'[v] = members[v]
BY DEF Governed, GovernanceTypeOK, MemberRow

\* The memberships after a transfer: the new owner alone is an active advisor.
LEMMA SuccessionHasOneAdvisor ==
  ASSUME Governed, NEW u \in People,
         NEW behind \in Collaborator \cup {"removed"}
  PROVE  /\ Succession(u, behind) \in [People -> MemberRow]
         /\ \A v \in People : ActiveAdvisor(Succession(u, behind), v) => v = u
<1>1. members \in [People -> MemberRow]
  BY DEF Governed, GovernanceTypeOK
<1>2. /\ [status |-> "active", role |-> "advisor"] \in MemberRow
      /\ [status |-> "removed", role |-> "observer"] \in MemberRow
      /\ behind # "removed" => [status |-> "active", role |-> behind] \in MemberRow
  BY DEF MemberRow, ProjectRole, Collaborator
<1>3. Succession(u, behind) \in [People -> MemberRow]
  BY <1>1, <1>2 DEF Succession
<1>4. ASSUME NEW v \in People, v # u
      PROVE  ~ActiveAdvisor(Succession(u, behind), v)
  <2>1. CASE members[v] # [status |-> "active", role |-> "advisor"]
    <3>1. Succession(u, behind)[v] = members[v]
      BY <1>4, <2>1 DEF Succession
    <3>2. members[v] = [status |-> members[v].status, role |-> members[v].role]
      BY <1>1 DEF MemberRow
    <3> QED
      BY <2>1, <3>1, <3>2 DEF ActiveAdvisor
  <2>2. CASE members[v] = [status |-> "active", role |-> "advisor"]
    BY <1>4, <2>2 DEF Succession, ActiveAdvisor, Collaborator
  <2> QED
    BY <2>1, <2>2
<1> QED
  BY <1>3, <1>4

-----------------------------------------------------------------------------
\* What a step on the project row does: nothing, an outdated save, or one of the
\* changes that somebody has the right to make.
RowStep ==
  \/ project' = project
  \/ \E q \in Pages : StaleSave(q) /\ ~project'.held /\ project'.status = "active"
  \/ /\ project' = [project EXCEPT !.status = "active"]
     /\ project.status = "archived" => Somebody(CanReopen, project)
  \/ /\ project' = [project EXCEPT !.status = "archived"]
     /\ closedOut' /\ openWork' = {}
  \/ \E u \in Teachers :
       /\ project.version < MaxGovernance
       /\ project' = [project EXCEPT !.advisor = u, !.held = FALSE, !.version = @ + 1]

\* The whole effect of a step on rows, pages and work.
Effect ==
  /\ RowStep
  /\ members' \in [People -> MemberRow]
  /\ project' \in ProjectRow /\ (project'.held => project.held)
  /\ Governed'
  /\ OwnersAgree /\ ~OwnersAgree' =>
       \E q \in Pages :
         /\ pages[q].step = "project" /\ pages'[q] = NoPage
         /\ \/ StaleSave(q)
            \/ project' = project /\ ~\E u \in People : ActiveAdvisor(members, u)
  /\ project'.status = "archived" /\ openWork' # {} =>
       /\ project.status = "archived"
       /\ \/ openWork' \subseteq openWork \cup Bookings
          \/ \E q \in Pages :
               /\ pages[q].step = "project" /\ pages[q].row.status = "active"
               /\ pages'[q] = NoPage

\* Requests that write neither the project nor a membership.
LEMMA WorkHasEffect ==
  ASSUME Governed, project' = project, members' = members, closedOut' = closedOut,
         working' \subseteq People,
         \/ openWork' \subseteq openWork \cup Bookings /\ OnlyLeaves
         \/ \E q \in Pages, sort \in ProjectWork : AddWork(q, sort)
  PROVE  Effect
<1>1. openWork' \subseteq WorkSort /\ OnlyLeaves
  BY DEF AddWork, Governed, GovernanceTypeOK, OnlyLeaves, WorkSort
<1>2. Governed'
  BY <1>1, LeavingIsGoverned DEF Governed, GovernanceTypeOK
<1>3. OwnersAgree => OwnersAgree'
  BY DEF OwnersAgree
<1>4. ASSUME NEW q \in Pages, NEW sort \in ProjectWork, AddWork(q, sort),
             project.status = "archived"
      PROVE  /\ pages[q].step = "project" /\ pages[q].row.status = "active"
             /\ pages'[q] = NoPage
  BY <1>4 DEF AddWork, LeavePage, Governed, GovernanceTypeOK
<1> QED
  BY <1>2, <1>3, <1>4 DEF Effect, RowStep, Governed, GovernanceTypeOK

\* A view loads the project or a membership.
LEMMA LoadingHasEffect ==
  ASSUME Governed, NEW q \in Pages,
         LoadProject(q) \/ \E u \in People : LoadMember(q, u)
  PROVE  Effect
<1>1. UNCHANGED <<project, members, working, openWork, closedOut>>
  BY DEF LoadProject, LoadMember
<1>2. GovernanceTypeOK'
  <2>1. LoadProject(q) => GovernanceTypeOK'
    BY DEF LoadProject, Governed, GovernanceTypeOK
  <2>2. ASSUME NEW u \in People, LoadMember(q, u)
        PROVE  GovernanceTypeOK'
    <3>1. members[u].role \in ProjectRole
      BY DEF Governed, GovernanceTypeOK, MemberRow
    <3> QED
      BY <2>2, <3>1 DEF LoadMember, Governed, GovernanceTypeOK
  <2> QED
    BY <2>1, <2>2
<1>3. HoldsOnlyEnd'
  BY DEF LoadProject, LoadMember, Governed, GovernanceTypeOK, HoldsOnlyEnd
<1>4. OwnersAgree => OwnersAgree'
  BY <1>1 DEF OwnersAgree
<1> QED
  BY <1>1, <1>2, <1>3, <1>4 DEF Effect, RowStep, Governed, GovernanceTypeOK

\* update_project: the row that was loaded, outdated or not
LEMMA UpdatingHasEffect ==
  ASSUME Governed, NEW q \in Pages, UpdateProject(q)
  PROVE  Effect
<1>1. /\ pages[q].step = "project" /\ project' = pages[q].row
      /\ pages' = [pages EXCEPT ![q] = NoPage]
      /\ UNCHANGED <<members, working, openWork, closedOut>>
      /\ project'.status = "active" /\ ~project'.held
  BY DEF UpdateProject, LeavePage, Somebody, CanWrite, Open
<1>2. project' \in ProjectRow /\ pages'[q] = NoPage
  BY <1>1 DEF Governed, GovernanceTypeOK, NoPage
<1>3. Governed'
  BY <1>1, <1>2, LeavingIsGoverned
     DEF OnlyLeaves, LeavePage, Governed, GovernanceTypeOK
<1>4. project' = project \/ StaleSave(q)
  BY <1>1 DEF StaleSave
<1>5. project' = project /\ OwnersAgree => OwnersAgree'
  BY <1>1 DEF OwnersAgree
<1> QED
  BY <1>1, <1>2, <1>3, <1>4, <1>5 DEF Effect, RowStep, Governed, GovernanceTypeOK

\* reopen_project: whoever finds the loaded project archived and not held may
\* reopen the stored one, for a hold is never placed again.
LEMMA ReopeningHasEffect ==
  ASSUME Governed, NEW q \in Pages, ReopenProject(q)
  PROVE  Effect
<1>1. /\ pages[q].step = "project" /\ LeavePage(q)
      /\ project' = [project EXCEPT !.status = "active"]
      /\ UNCHANGED <<members, working, openWork, closedOut>>
  BY DEF ReopenProject
<1>2. PICK u \in People \cup {Admin} :
        Primary(u) /\ pages[q].row.status = "archived" /\ ~pages[q].row.held
  BY DEF ReopenProject, Somebody, CanReopen
<1>3. ~project.held
  BY <1>1, <1>2 DEF Governed, HoldsOnlyEnd
<1>4. project.status = "archived" => Somebody(CanReopen, project)
  BY <1>2, <1>3 DEF Somebody, CanReopen
<1>5. /\ project' \in ProjectRow /\ project'.held = project.held
      /\ project'.advisor = project.advisor /\ project'.status = "active"
  BY <1>1 DEF Governed, GovernanceTypeOK, ProjectRow
<1>6. Governed'
  BY <1>1, <1>5, LeavingIsGoverned DEF OnlyLeaves, Governed, GovernanceTypeOK
<1>7. OwnersAgree => OwnersAgree'
  BY <1>1, <1>5 DEF OwnersAgree
<1> QED
  BY <1>1, <1>4, <1>5, <1>6, <1>7 DEF Effect, RowStep, Governed, GovernanceTypeOK

\* A change of one membership splits the owners only where an advisor is added
\* by hand while there is none (add_member and the unique index).
LEMMA MembersHaveEffect ==
  ASSUME Governed,
         UNCHANGED <<project, working, openWork, closedOut>>,
         members' \in [People -> MemberRow], OnlyLeaves,
         NEW u \in People, \A v \in People \ {u} : members'[v] = members[v],
         \/ ActiveAdvisor(members', u) => ActiveAdvisor(members, u)
         \/ /\ OnePrimary(members')
            /\ \E q \in Pages : pages[q].step = "project" /\ LeavePage(q)
  PROVE  Effect
<1>1. Governed'
  BY LeavingIsGoverned DEF Governed, GovernanceTypeOK
<1>2. CASE ActiveAdvisor(members', u) => ActiveAdvisor(members, u)
  <2>1. OwnersAgree => OwnersAgree'
    BY <1>2 DEF OwnersAgree, ActiveAdvisor
  <2> QED
    BY <1>1, <2>1 DEF Effect, RowStep, Governed, GovernanceTypeOK
<1>3. CASE ~(ActiveAdvisor(members', u) => ActiveAdvisor(members, u))
  <2>1. PICK q \in Pages : pages[q].step = "project" /\ LeavePage(q)
    BY <1>3
  <2>2. pages'[q] = NoPage
    BY <2>1 DEF LeavePage, Governed, GovernanceTypeOK
  <2>3. ~\E v \in People : ActiveAdvisor(members, v)
    BY <1>3 DEF OnePrimary, ActiveAdvisor
  <2> QED
    BY <1>1, <2>1, <2>2, <2>3 DEF Effect, RowStep, Governed, GovernanceTypeOK
<1> QED
  BY <1>2, <1>3

\* Members are added, changed and removed as the properties say.
LEMMA MembershipHasEffect ==
  ASSUME Governed,
         \/ \E q \in Pages : MembersPage(q) \/ RemoveMember(q)
         \/ CollaboratorRequest
  PROVE  Effect
<1>1. ASSUME NEW q \in Pages, NEW u \in People, AddStudent(q, u)
      PROVE  Effect
  <2>1. /\ members' = [members EXCEPT ![u].status = "active", ![u].role = "student"]
        /\ LeavePage(q) /\ UNCHANGED <<project, working, openWork, closedOut>>
    BY <1>1 DEF AddStudent
  <2>2. /\ members' \in [People -> MemberRow]
        /\ members'[u] = [status |-> "active", role |-> "student"]
        /\ \A v \in People \ {u} : members'[v] = members[v]
    BY <2>1, OneMember DEF ProjectRole
  <2> QED
    BY <2>1, <2>2, MembersHaveEffect DEF ActiveAdvisor, OnlyLeaves
<1>2. ASSUME NEW q \in Pages, NEW u \in People, NEW role \in ProjectRole,
             AddMember(q, u, role)
      PROVE  Effect
  <2>1. /\ members' = [members EXCEPT ![u].status = "active", ![u].role = role]
        /\ OnePrimary(members') /\ pages[q].step = "project"
        /\ LeavePage(q) /\ UNCHANGED <<project, working, openWork, closedOut>>
    BY <1>2 DEF AddMember
  <2>2. /\ members' \in [People -> MemberRow]
        /\ \A v \in People \ {u} : members'[v] = members[v]
    BY <2>1, OneMember
  <2> QED
    BY <2>1, <2>2, MembersHaveEffect DEF OnlyLeaves
<1>3. ASSUME NEW q \in Pages, RemoveMember(q)
      PROVE  Effect
  <2> DEFINE u == pages[q].user
  <2>1. /\ members' = [members EXCEPT ![u].status = "removed"]
        /\ LeavePage(q) /\ UNCHANGED <<project, working, openWork, closedOut>>
        /\ pages[q].step = "member"
    BY <1>3 DEF RemoveMember
  <2>2. u \in People
    BY <2>1 DEF Governed, GovernanceTypeOK, NoPage
  <2>3. /\ members' \in [People -> MemberRow]
        /\ members'[u].status = "removed"
        /\ \A v \in People \ {u} : members'[v] = members[v]
    BY <2>1, <2>2 DEF Governed, GovernanceTypeOK, MemberRow
  <2> HIDE DEF u
  <2> QED
    BY <2>1, <2>2, <2>3, MembersHaveEffect DEF ActiveAdvisor, OnlyLeaves
<1>4. ASSUME NEW u \in People, NEW role \in Collaborator, AssignCollaborator(u, role)
      PROVE  Effect
  <2>1. /\ members' = [members EXCEPT ![u] = [status |-> "active", role |-> role]]
        /\ UNCHANGED <<project, working, openWork, closedOut, pages>>
    BY <1>4 DEF AssignCollaborator
  <2>2. /\ members' \in [People -> MemberRow]
        /\ members'[u] = [status |-> "active", role |-> role]
        /\ \A v \in People \ {u} : members'[v] = members[v]
    BY <2>1, OneMember DEF ProjectRole
  <2>3. role # "advisor"
    BY DEF Collaborator
  <2> QED
    BY <2>1, <2>2, <2>3, MembersHaveEffect DEF ActiveAdvisor, OnlyLeaves
<1>5. ASSUME NEW u \in People, NEW role \in Collaborator, ChangeRole(u, role)
      PROVE  Effect
  <2>1. /\ members' = [members EXCEPT ![u].role = role]
        /\ UNCHANGED <<project, working, openWork, closedOut, pages>>
    BY <1>5 DEF ChangeRole
  <2>2. /\ members' \in [People -> MemberRow] /\ members'[u].role = role
        /\ \A v \in People \ {u} : members'[v] = members[v]
    BY <2>1 DEF Governed, GovernanceTypeOK, MemberRow, ProjectRole
  <2>3. role # "advisor"
    BY DEF Collaborator
  <2> QED
    BY <2>1, <2>2, <2>3, MembersHaveEffect DEF ActiveAdvisor, OnlyLeaves
<1>6. ASSUME NEW u \in People, RemoveCollaborator(u)
      PROVE  Effect
  <2>1. /\ members' = [members EXCEPT ![u].status = "removed"]
        /\ UNCHANGED <<project, working, openWork, closedOut, pages>>
    BY <1>6 DEF RemoveCollaborator
  <2>2. /\ members' \in [People -> MemberRow] /\ members'[u].status = "removed"
        /\ \A v \in People \ {u} : members'[v] = members[v]
    BY <2>1 DEF Governed, GovernanceTypeOK, MemberRow
  <2> QED
    BY <2>1, <2>2, MembersHaveEffect DEF ActiveAdvisor, OnlyLeaves
<1> QED
  BY <1>1, <1>2, <1>3, <1>4, <1>5, <1>6 DEF MembersPage, CollaboratorRequest

\* transfer_ownership
LEMMA TransferHasEffect ==
  ASSUME Governed, NEW u \in People, NEW behind \in Collaborator \cup {"removed"},
         TransferOwnership(u, behind)
  PROVE  Effect
<1>1. /\ u \in Teachers /\ project.version < MaxGovernance
      /\ members' = Succession(u, behind)
      /\ project' = [project EXCEPT !.advisor = u, !.held = FALSE, !.version = @ + 1]
      /\ UNCHANGED <<working, openWork, closedOut, pages>>
  BY DEF TransferOwnership, Eligible
<1>2. project \in ProjectRow
  BY DEF Governed, GovernanceTypeOK
<1>3. /\ project'.advisor = u /\ ~project'.held /\ project'.status = project.status
      /\ project' \in ProjectRow
  <2>1. project.version + 1 \in 1 .. MaxGovernance
    BY <1>1, <1>2 DEF ProjectRow
  <2> QED
    BY <1>1, <1>2, <2>1 DEF ProjectRow
<1>4. /\ members' \in [People -> MemberRow]
      /\ \A v \in People : ActiveAdvisor(members', v) => v = u
  BY <1>1, SuccessionHasOneAdvisor
<1>5. Governed'
  BY <1>1, <1>3, <1>4, LeavingIsGoverned DEF OnlyLeaves, Governed, GovernanceTypeOK
<1>6. OwnersAgree'
  BY <1>3, <1>4 DEF OwnersAgree, ActiveAdvisor
<1>7. RowStep
  BY <1>1 DEF RowStep
<1> QED
  BY <1>1, <1>3, <1>4, <1>5, <1>6, <1>7 DEF Effect

\* closeout_and_archive
LEMMA CloseoutHasEffect ==
  ASSUME Governed, NEW dispose \in BOOLEAN, Closeout(dispose)
  PROVE  Effect
<1>1. /\ openWork' = {} /\ closedOut' = TRUE
      /\ project' = [project EXCEPT !.status = "archived"]
      /\ UNCHANGED <<members, working, pages>>
  BY DEF Closeout
<1>2. /\ project' \in ProjectRow /\ project'.held = project.held
      /\ project'.advisor = project.advisor
  BY <1>1 DEF Governed, GovernanceTypeOK, ProjectRow
<1>3. Governed'
  BY <1>1, <1>2, LeavingIsGoverned DEF OnlyLeaves, Governed, GovernanceTypeOK
<1>4. OwnersAgree => OwnersAgree'
  BY <1>1, <1>2 DEF OwnersAgree
<1>5. RowStep
  BY <1>1 DEF RowStep
<1> QED
  BY <1>1, <1>2, <1>3, <1>4, <1>5 DEF Effect, Governed, GovernanceTypeOK

\* Every step of governance has an effect that the properties allow.
LEMMA EveryStepHasEffect ==
  ASSUME Governed, [GovernanceNext]_governanceVars
  PROVE  Effect
<1>1. ASSUME NEW q \in Pages, ProjectPage(q) \/ WorkPage(q) \/ MemberPage(q)
      PROVE  Effect
  <2>1. CASE WorkPage(q)
    <3>1. UNCHANGED <<project, members, working, closedOut>>
      BY <2>1 DEF WorkPage, AddWork
    <3>2. \E sort \in ProjectWork : AddWork(q, sort)
      BY <2>1 DEF WorkPage
    <3> QED
      BY <3>1, <3>2, WorkHasEffect DEF Governed, GovernanceTypeOK
  <2>2. CASE MemberPage(q) /\ ~RemoveMember(q)
    BY <2>2, LoadingHasEffect DEF MemberPage
  <2>3. CASE ProjectPage(q)
    BY <2>3, LoadingHasEffect, UpdatingHasEffect DEF ProjectPage
  <2> QED
    BY <1>1, <2>1, <2>2, <2>3, MembershipHasEffect DEF MemberPage
<1>2. ASSUME NEW u \in People, SwitchWorking(u)
      PROVE  Effect
  <2>1. working' \subseteq People /\ UNCHANGED <<project, members, openWork, closedOut, pages>>
    BY <1>2 DEF SwitchWorking, Governed, GovernanceTypeOK
  <2> QED
    BY <2>1, WorkHasEffect DEF OnlyLeaves
<1>3. ASSUME \/ \E sort \in WorkSort : FinishWork(sort)
             \/ \E sort \in Bookings : AttachBooking(sort)
             \/ BookingBegins
      PROVE  Effect
  <2>1. /\ openWork' \subseteq openWork \cup Bookings
        /\ UNCHANGED <<project, members, working, closedOut, pages>>
    BY <1>3 DEF FinishWork, AttachBooking, BookingBegins, Bookings
  <2> QED
    BY <2>1, WorkHasEffect DEF OnlyLeaves, Governed, GovernanceTypeOK
<1>4. CASE UNCHANGED governanceVars
  <2>1. UNCHANGED <<project, members, working, openWork, closedOut, pages>>
    BY <1>4 DEF governanceVars
  <2> QED
    BY <2>1, WorkHasEffect DEF OnlyLeaves, Governed, GovernanceTypeOK
<1>5. CASE OwnershipRequest
  BY <1>5, TransferHasEffect DEF OwnershipRequest
<1>6. CASE ArchiveRequest
  BY <1>6, CloseoutHasEffect DEF ArchiveRequest
<1> QED
  BY <1>1, <1>2, <1>3, <1>4, <1>5, <1>6, MembershipHasEffect, ReopeningHasEffect
     DEF GovernanceNext

-----------------------------------------------------------------------------
\* Governed is inductive.
LEMMA AlwaysGoverned == GovernanceSpec => []Governed
<1>1. GovernanceInit => Governed
  <2> SUFFICES ASSUME GovernanceInit
               PROVE  Governed
    OBVIOUS
  <2>1. project \in ProjectRow
    BY DEF GovernanceInit, ProjectRow
  <2>2. members \in [People -> MemberRow]
    BY DEF GovernanceInit, MemberRow, ProjectRole, Absentee
  <2> QED
    BY <2>1, <2>2 DEF GovernanceInit, Governed, GovernanceTypeOK, HoldsOnlyEnd, NoPage
<1>2. Governed /\ [GovernanceNext]_governanceVars => Governed'
  BY EveryStepHasEffect DEF Effect
<1> QED
  BY <1>1, <1>2, PTL DEF GovernanceSpec

\* Nothing but the save of an outdated page takes governance back, and nothing
\* but such a save or an advisor added by hand splits the owner from the primary
\* advisor (update_project, add_member, transfer_ownership).
THEOREM GovernanceIsKept == GovernanceSpec => GovernanceHolds
<1>1. ASSUME Governed, RowStep
      PROVE  \/ \E q \in Pages : StaleSave(q)
             \/ /\ project'.version >= project.version
                /\ project'.advisor # project.advisor \/ project'.held # project.held
                     => project'.version > project.version
                /\ project'.status = "archived" /\ project.status = "active"
                     => closedOut' /\ openWork' = {}
                /\ project'.status = "active" /\ project.status = "archived"
                     => Somebody(CanReopen, project)
  <2>1. project \in ProjectRow /\ project.version \in Int
    BY <1>1 DEF Governed, GovernanceTypeOK, ProjectRow
  <2>2. CASE project' = project
    BY <2>1, <2>2
  <2>3. CASE /\ project' = [project EXCEPT !.status = "active"]
             /\ project.status = "archived" => Somebody(CanReopen, project)
    <3>1. /\ project'.version = project.version /\ project'.advisor = project.advisor
          /\ project'.held = project.held /\ project'.status = "active"
      BY <2>1, <2>3 DEF ProjectRow
    <3> QED
      BY <2>1, <2>3, <3>1
  <2>4. CASE /\ project' = [project EXCEPT !.status = "archived"]
             /\ closedOut' /\ openWork' = {}
    <3>1. /\ project'.version = project.version /\ project'.advisor = project.advisor
          /\ project'.held = project.held /\ project'.status = "archived"
      BY <2>1, <2>4 DEF ProjectRow
    <3> QED
      BY <2>1, <2>4, <3>1
  <2>5. ASSUME NEW u \in Teachers,
               project' = [project EXCEPT !.advisor = u, !.held = FALSE, !.version = @ + 1]
        PROVE  /\ project'.version >= project.version
               /\ project'.version > project.version
               /\ project'.status = project.status
    <3>1. project'.version = project.version + 1 /\ project'.status = project.status
      BY <2>1, <2>5 DEF ProjectRow
    <3> QED
      BY <2>1, <3>1
  <2>6. CASE \E u \in Teachers :
               project' = [project EXCEPT !.advisor = u, !.held = FALSE, !.version = @ + 1]
    <3>1. /\ project'.version >= project.version
          /\ project'.version > project.version
          /\ project'.status = project.status
      BY <2>5, <2>6
    <3>2. project.status \in {"active", "archived"}
      BY <2>1 DEF ProjectRow
    <3> QED
      BY <3>1, <3>2
  <2> QED
    BY <1>1, <2>2, <2>3, <2>4, <2>6 DEF RowStep
<1>2. Governed /\ [GovernanceNext]_governanceVars =>
        [\/ \E q \in Pages : StaleSave(q)
         \/ /\ project'.version >= project.version
            /\ project'.advisor # project.advisor \/ project'.held # project.held
                 => project'.version > project.version
            /\ project'.status = "archived" /\ project.status = "active"
                 => closedOut' /\ openWork' = {}
            /\ project'.status = "active" /\ project.status = "archived"
                 => Somebody(CanReopen, project)]_governanceVars
  BY <1>1, EveryStepHasEffect DEF Effect
<1>3. Governed /\ [GovernanceNext]_governanceVars =>
        [OwnersAgree /\ ~OwnersAgree' =>
           \E q \in Pages :
             /\ pages[q].step = "project" /\ pages'[q] = NoPage
             /\ \/ StaleSave(q)
                \/ /\ project' = project
                   /\ ~\E u \in People :
                         members[u].status = "active" /\ members[u].role = "advisor"
        ]_governanceVars
  BY EveryStepHasEffect DEF Effect, ActiveAdvisor
<1>4. GovernanceSpec => OnlyStaleSavesUndoGovernance
  BY <1>2, AlwaysGoverned, PTL DEF GovernanceSpec, OnlyStaleSavesUndoGovernance
<1>5. GovernanceSpec => OnlyLegacyStepsSplitOwners
  BY <1>3, AlwaysGoverned, PTL DEF GovernanceSpec, OnlyLegacyStepsSplitOwners
<1> QED
  BY <1>4, <1>5 DEF GovernanceHolds

\* Nothing is left open by a closeout, and what is open in an archived project is
\* a booking or comes from a request that loaded the project while it was active
\* (closeout_and_archive, ensure_project_writable).
THEOREM ArchivedGetsNoOtherWork == GovernanceSpec => ArchivedGetsBookingsOnly
<1>1. Governed /\ [GovernanceNext]_governanceVars =>
        [project'.status = "archived" /\ openWork' # {} =>
           /\ project.status = "archived"
           /\ \/ openWork' \subseteq openWork \cup Bookings
              \/ \E q \in Pages :
                   /\ pages[q].step = "project" /\ pages[q].row.status = "active"
                   /\ pages'[q] = NoPage]_governanceVars
  BY EveryStepHasEffect DEF Effect
<1> QED
  BY <1>1, AlwaysGoverned, PTL DEF GovernanceSpec, ArchivedGetsBookingsOnly

HIDE GovernanceAssumption

-----------------------------------------------------------------------------
(***************************************************************************)
(* The line of succession of decisions.                                    *)
(***************************************************************************)

USE DecisionAssumption

\* A request holds the id of a decision that exists, or none.
PredecessorsExist ==
  \A p \in Publishers :
    publishing[p].step = "found" =>
      publishing[p].predecessor \in 0 .. Len(decisions)

\* What SuccessionIsLinear says without counting: the successor is named.
OneSuccessor ==
  \A d \in DOMAIN decisions :
    /\ decisions[d].supersedes < d
    /\ decisions[d].status = "current" => Successors(d) = {}
    /\ decisions[d].status # "current" =>
         \E e \in DOMAIN decisions : Successors(d) = {e}

KeysAreUnique ==
  \A d, e \in DOMAIN decisions :
    decisions[d].key = decisions[e].key /\ decisions[d].key # NoKey => d = e

Lines == DecisionTypeOK /\ PredecessorsExist /\ OneSuccessor /\ KeysAreUnique

\* What a publication leaves of the rows: all keep their key and predecessor,
\* the superseded one alone changes its status (publish_decision).
LEMMA FinishAppends ==
  ASSUME Lines, NEW p \in Publishers, FinishPublish(p)
  PROVE  /\ decisions' \in Seq(Decision)
         /\ Len(decisions') = Len(decisions) + 1
         /\ Len(decisions') <= MaxDecisions
         /\ \A d \in 1 .. Len(decisions) :
              /\ decisions'[d].key = decisions[d].key
              /\ decisions'[d].supersedes = decisions[d].supersedes
              /\ decisions'[d].status =
                   IF d = publishing[p].predecessor THEN "superseded"
                   ELSE decisions[d].status
         /\ decisions'[Len(decisions) + 1] =
              [status |-> "current", supersedes |-> publishing[p].predecessor,
               key |-> publishing[p].key]
<1> DEFINE n   == Len(decisions)
           row == [status |-> "current", supersedes |-> publishing[p].predecessor,
                   key |-> publishing[p].key]
           old == [d \in DOMAIN decisions |->
                     IF d = publishing[p].predecessor
                     THEN [decisions[d] EXCEPT !.status = "superseded"]
                     ELSE decisions[d]]
<1>1. /\ decisions \in Seq(Decision) /\ n \in Nat /\ DOMAIN decisions = 1 .. n
      /\ \A d \in 1 .. n : decisions[d] \in Decision
  BY LenProperties, ElementOfSeq DEF Lines, DecisionTypeOK
<1>2. row \in Decision
  BY DEF Lines, DecisionTypeOK, FinishPublish, Decision, RestingPublisher
<1>3. old \in [1 .. n -> Decision]
  BY <1>1 DEF Decision
<1>4. old \in Seq(Decision) /\ Len(old) = n
  <2>1. old \in Seq(Decision)
    BY <1>1, <1>3, SeqDef
  <2> QED
    BY <2>1, <1>1, <1>3, LenProperties
<1>5. decisions' = Append(old, row)
  BY DEF FinishPublish
<1>6. /\ decisions' \in Seq(Decision) /\ Len(decisions') = n + 1
      /\ \A d \in 1 .. n : decisions'[d] = old[d]
      /\ decisions'[n + 1] = row
  <2> HIDE DEF old, row, n
  <2> QED
    BY <1>2, <1>4, <1>5, AppendProperties
<1>7. n + 1 <= MaxDecisions
  BY <1>1 DEF FinishPublish
<1>8. \A d \in 1 .. n :
        /\ old[d].key = decisions[d].key
        /\ old[d].supersedes = decisions[d].supersedes
        /\ old[d].status = IF d = publishing[p].predecessor THEN "superseded"
                           ELSE decisions[d].status
  BY <1>1 DEF Decision
<1> QED
  <2> HIDE DEF old, row
  <2>1. row = [status |-> "current", supersedes |-> publishing[p].predecessor,
               key |-> publishing[p].key]
    BY DEF row
  <2> QED
    BY <1>6, <1>7, <1>8, <2>1

\* A publication makes the new decision the only successor of the one it names,
\* which was current, and leaves the others with theirs (publish_decision).
LEMMA FinishKeepsLines ==
  ASSUME Lines, NEW p \in Publishers, FinishPublish(p)
  PROVE  Lines'
<1> DEFINE n == Len(decisions)
           q == publishing[p].predecessor
<1>1. /\ n \in Nat /\ DOMAIN decisions = 1 .. n /\ DOMAIN decisions' = 1 .. n + 1
      /\ Len(decisions') = n + 1
  <2>1. /\ decisions \in Seq(Decision) /\ decisions' \in Seq(Decision)
        /\ Len(decisions') = n + 1
    BY FinishAppends DEF Lines, DecisionTypeOK
  <2> QED
    BY ONLY <2>1, LenProperties
<1>2. /\ q \in 0 .. n /\ publishing[p].step = "found"
      /\ publishing' = [publishing EXCEPT ![p] = RestingPublisher]
  BY DEF Lines, PredecessorsExist, FinishPublish, Rest
<1>3. /\ \A d \in 1 .. n : decisions'[d].supersedes = decisions[d].supersedes
      /\ decisions'[n + 1].supersedes = q
      /\ decisions'[n + 1].status = "current"
      /\ decisions'[n + 1].key = publishing[p].key
      /\ \A d \in 1 .. n : decisions'[d].key = decisions[d].key
      /\ \A d \in 1 .. n : decisions'[d].status =
                             IF d = q THEN "superseded" ELSE decisions[d].status
  <2>1. decisions'[n + 1] = [status |-> "current", supersedes |-> q,
                             key |-> publishing[p].key]
    BY FinishAppends
  <2>2. \A d \in 1 .. n :
          /\ decisions'[d].supersedes = decisions[d].supersedes
          /\ decisions'[d].key = decisions[d].key
          /\ decisions'[d].status =
               IF d = q THEN "superseded" ELSE decisions[d].status
    BY FinishAppends
  <2> HIDE DEF n, q
  <2> QED
    BY <2>1, <2>2
<1>4. DecisionTypeOK'
  BY <1>2, FinishAppends DEF Lines, DecisionTypeOK, FinishPublish
<1>5. PredecessorsExist'
  BY <1>1, <1>2 DEF Lines, PredecessorsExist, DecisionTypeOK, RestingPublisher
<1>6. \A d \in 1 .. n : decisions[d].supersedes < d /\ decisions[d].supersedes \in 0 .. n
  <2>1. \A d \in 1 .. n : decisions[d].supersedes \in Nat
    <3>1. \A d \in 1 .. n : decisions[d] \in Decision
      BY ElementOfSeq DEF Lines, DecisionTypeOK
    <3> QED
      BY <3>1 DEF Decision
  <2>2. \A d \in 1 .. n : decisions[d].supersedes < d
    BY <1>1 DEF Lines, OneSuccessor
  <2> HIDE DEF n
  <2> QED
    BY <1>1, <2>1, <2>2
<1>7. q # 0 => decisions[q].status = "current"
  BY DEF FinishPublish, IsCurrent
<1>8. OneSuccessor'
  <2> SUFFICES ASSUME NEW d \in 1 .. n + 1
               PROVE  /\ decisions'[d].supersedes < d
                      /\ decisions'[d].status = "current" => Successors(d)' = {}
                      /\ decisions'[d].status # "current" =>
                           \E e \in 1 .. n + 1 : Successors(d)' = {e}
    BY <1>1 DEF OneSuccessor
  <2> HIDE DEF n, q
  <2>0. Successors(d)' = {e \in 1 .. n + 1 : decisions'[e].supersedes = d}
    BY <1>1 DEF Successors
  <2>1. CASE d = n + 1
    <3>1. Successors(d)' = {}
      BY <1>1, <1>2, <1>3, <1>6, <2>0, <2>1
    <3> QED
      BY <1>1, <1>2, <1>3, <2>1, <3>1
  <2>2. CASE d \in 1 .. n /\ d # q
    <3>1. Successors(d)' = Successors(d)
      BY <1>1, <1>3, <2>0, <2>2 DEF Successors
    <3> QED
      BY <1>1, <1>3, <2>2, <3>1 DEF Lines, OneSuccessor
  <2>3. CASE d = q
    <3>1. Successors(d) = {}
      BY <1>1, <1>2, <1>7, <2>3 DEF Lines, OneSuccessor
    <3>2. Successors(d)' = {n + 1}
      BY <1>1, <1>3, <2>0, <2>3, <3>1 DEF Successors
    <3>3. d \in 1 .. n
      BY <1>1, <1>2, <2>3
    <3> QED
      BY <1>1, <1>3, <1>6, <2>3, <3>2, <3>3
  <2> QED
    BY <1>1, <2>1, <2>2, <2>3
<1>9. KeysAreUnique'
  <2>1. publishing[p].key # NoKey =>
          \A d \in 1 .. n : decisions[d].key # publishing[p].key
    BY <1>1 DEF FinishPublish, KeyIsUsed
  <2>2. \A d, e \in 1 .. n :
          decisions[d].key = decisions[e].key /\ decisions[d].key # NoKey => d = e
    BY <1>1 DEF Lines, KeysAreUnique
  <2> HIDE DEF n
  <2> QED
    BY <1>1, <1>3, <2>1, <2>2 DEF KeysAreUnique
<1> QED
  BY <1>4, <1>5, <1>8, <1>9 DEF Lines

\* Lines is inductive: a request re-reads the decision it succeeds under a lock.
LEMMA DecisionsFormLines == DecisionSpec => []Lines
<1>1. DecisionInit => Lines
  BY EmptySeq DEF DecisionInit, Lines, DecisionTypeOK, PredecessorsExist, OneSuccessor,
                  KeysAreUnique, RestingPublisher
<1>2. Lines /\ [DecisionNext]_decisionVars => Lines'
  <2> SUFFICES ASSUME Lines, [DecisionNext]_decisionVars
               PROVE  Lines'
    OBVIOUS
  <2>1. ASSUME decisions' = decisions, DecisionTypeOK', PredecessorsExist'
        PROVE  Lines'
    BY <2>1 DEF Lines, OneSuccessor, KeysAreUnique, Successors
  <2>2. CASE GovernedTurns
    <3>1. DecisionTypeOK' /\ PredecessorsExist'
      BY <2>2 DEF GovernedTurns, Lines, DecisionTypeOK, PredecessorsExist
    <3> QED
      BY <2>1, <2>2, <3>1 DEF GovernedTurns
  <2>3. ASSUME NEW p \in Publishers, NEW key \in Keys \cup {NoKey},
               NEW d \in 0 .. Len(decisions), BeginPublish(p, key, d)
        PROVE  Lines'
    <3>1. Len(decisions) \in Nat /\ Len(decisions) <= MaxDecisions
      BY LenProperties DEF Lines, DecisionTypeOK
    <3>2. DecisionTypeOK'
      BY <2>3, <3>1 DEF BeginPublish, Lines, DecisionTypeOK
    <3>3. PredecessorsExist'
      BY <2>3 DEF BeginPublish, Lines, DecisionTypeOK, PredecessorsExist
    <3> QED
      BY <2>1, <2>3, <3>2, <3>3 DEF BeginPublish
  <2>4. ASSUME NEW p \in Publishers, NEW key \in Keys \cup {NoKey},
               PublishNew(p, key) \/ PublishSuccessor(p, key)
        PROVE  Lines'
    <3>1. Len(decisions) \in Nat /\ DOMAIN decisions = 1 .. Len(decisions)
      BY LenProperties DEF Lines, DecisionTypeOK
    <3> QED
      BY <2>3, <2>4, <3>1 DEF PublishNew, PublishSuccessor
  <2>5. ASSUME NEW p \in Publishers, FinishPublish(p)
        PROVE  Lines'
    BY <2>5, FinishKeepsLines
  <2>6. ASSUME NEW p \in Publishers, FailPublish(p)
        PROVE  Lines'
    <3>1. DecisionTypeOK' /\ PredecessorsExist'
      BY <2>6 DEF FailPublish, Rest, Lines, DecisionTypeOK, PredecessorsExist,
                  RestingPublisher
    <3> QED
      BY <2>1, <2>6, <3>1 DEF FailPublish
  <2>7. CASE UNCHANGED decisionVars
    BY <2>1, <2>7 DEF decisionVars, Lines, DecisionTypeOK, PredecessorsExist
  <2> QED
    BY <2>2, <2>4, <2>5, <2>6, <2>7 DEF DecisionNext
<1> QED
  BY <1>1, <1>2, PTL DEF DecisionSpec

\* However publications of one project overlap, its decisions form lines: a
\* superseded decision has one successor, a current one none, a decision is
\* newer than the one it replaces, and no key is recorded twice.
THEOREM SuccessionHolds == DecisionSpec => []SuccessionIsLinear
<1>1. Lines => SuccessionIsLinear
  BY FS_EmptySet, FS_Singleton DEF Lines, OneSuccessor, KeysAreUnique, SuccessionIsLinear
<1> QED
  BY <1>1, DecisionsFormLines, PTL

HIDE DecisionAssumption

-----------------------------------------------------------------------------
(***************************************************************************)
(* Tasks, their parents and due days.                                      *)
(***************************************************************************)

USE TaskAssumption

\* The parent that a row names was created, and a deleted id is not used again.
WasCreated(t) == t # NoTask => tasks[t] # Unused

ParentsWereCreated ==
  /\ \A t \in Tasks : Exists(t) => WasCreated(tasks[t].parent)
  /\ \A e \in TaskRequests :
       taskRequests[e].step # "none" => WasCreated(taskRequests[e].row.parent)

\* What a request has read and checked is right.
IsFresh(t, step, row) ==
  IF step = "loaded" THEN Exists(t) /\ row = tasks[t]
  ELSE /\ tasks[t] # Deleted
       /\ Exists(t) => row \in Changed(tasks[t])
       /\ IsClean(t, row)

\* It stays right while nobody writes.
RequestsAreFresh ==
  \A e \in TaskRequests :
    taskRequests[e].step # "none" =>
      /\ taskRequests[e].at <= writes
      /\ taskRequests[e].at = writes =>
           IsFresh(taskRequests[e].task, taskRequests[e].step, taskRequests[e].row)

TasksHold == TaskTypeOK /\ ParentsWereCreated /\ RequestsAreFresh

\* What a step may do to the tasks when no overtaken row is saved.
TasksStayInOrder ==
  /\ IsForest => IsForest'
  /\ \A t \in Tasks :
       /\ tasks[t] = Deleted => tasks'[t] = Deleted
       /\ Exists(t) /\ Exists(t)' /\ tasks[t].completedAt => tasks'[t].completedAt
       /\ t \in LateChildren' \ LateChildren =>
            /\ tasks'[t] = tasks[t]
            /\ tasks'[Parent(t)].due # tasks[Parent(t)].due

TanglesRightly == (\A e \in TaskRequests : ~IsOvertaken(e)) => TasksStayInOrder

KeepsTasks == TasksHold' /\ TanglesRightly

-----------------------------------------------------------------------------
\* The tasks above t include t, and the parents of those they include.
LEMMA AboveHoldsParents ==
  ASSUME NEW t \in Tasks, \A s \in Tasks : Parent(s) \in Tasks \cup {NoTask}
  PROVE  /\ t \in Above(t) /\ Above(t) \subseteq Tasks
         /\ HoldsParents(Above(t))
<1>1. t \in Above(t) /\ Above(t) \subseteq Tasks
  BY DEF Above
<1>2. ASSUME NEW s \in Above(t), Parent(s) # NoTask
      PROVE  Parent(s) \in Above(t)
  <2>1. s \in Tasks /\ Parent(s) \in Tasks
    BY <1>2 DEF Above
  <2>2. ASSUME NEW S \in SUBSET Tasks, HoldsParents(S), t \in S \cup {NoTask}
        PROVE  Parent(s) \in S
    <3>1. s \in S
      BY <2>2 DEF Above
    <3> QED
      BY <1>2, <2>2, <3>1 DEF HoldsParents
  <2> QED
    BY <2>1, <2>2 DEF Above
<1> QED
  BY <1>1, <1>2 DEF HoldsParents

\* The tasks above t are the fewest of that kind.
LEMMA AboveIsLeast ==
  ASSUME NEW t, NEW S \in SUBSET Tasks, HoldsParents(S), t \in S \cup {NoTask}
  PROVE  Above(t) \subseteq S
BY DEF Above

\* There is nothing above no task.
LEMMA NothingAboveNoTask == Above(NoTask) = {}
<1>1. HoldsParents({}) /\ {} \in SUBSET Tasks
  BY DEF HoldsParents
<1> QED
  BY <1>1, AboveIsLeast

\* The parent of a task is a task, or none.
LEMMA ParentsAreTasks ==
  ASSUME TaskTypeOK
  PROVE  \A s \in Tasks : Parent(s) \in Tasks \cup {NoTask}
BY DEF TaskTypeOK, Parent, Exists, TaskRow

\* When only u gets another parent, and u is not above its new parent, what is
\* not above u stays as it is, and the rest has at most the new tasks above it.
LEMMA MovingOne ==
  ASSUME TaskTypeOK, TaskTypeOK', NEW u \in Tasks, NEW p \in Tasks \cup {NoTask},
         Parent(u)' = p, u \notin Above(p),
         \A s \in Tasks \ {u} : Parent(s)' = Parent(s)
  PROVE  /\ u \notin Above(p)'
         /\ \A x \in Tasks \cup {NoTask} :
              Above(x)' \subseteq Above(x) \cup {u} \cup Above(p)
         /\ \A x \in Tasks \cup {NoTask} : u \notin Above(x) => Above(x)' \subseteq Above(x)
<1>1. \A s \in Tasks : Parent(s) \in Tasks \cup {NoTask}
  BY ParentsAreTasks
<1>2. \A x \in Tasks \cup {NoTask} :
        /\ Above(x) \subseteq Tasks /\ HoldsParents(Above(x)) /\ x \in Above(x) \cup {NoTask}
  BY <1>1, AboveHoldsParents, NothingAboveNoTask DEF HoldsParents
<1>3. ASSUME NEW x \in Tasks \cup {NoTask}, u \notin Above(x)
      PROVE  Above(x)' \subseteq Above(x)
  <2>1. HoldsParents(Above(x)) /\ Above(x) \in SUBSET Tasks /\ x \in Above(x) \cup {NoTask}
    BY <1>2
  <2>2. PICK S \in SUBSET Tasks : S = Above(x)
    BY <2>1
  <2>3. \A s \in S : Parent(s)' \in S \cup {NoTask}
    BY <1>3, <2>1, <2>2 DEF HoldsParents
  <2> QED
    BY <2>1, <2>2, <2>3 DEF Above, HoldsParents
<1>4. ASSUME NEW x \in Tasks \cup {NoTask}
      PROVE  Above(x)' \subseteq Above(x) \cup {u} \cup Above(p)
  <2>1. /\ HoldsParents(Above(x)) /\ Above(x) \in SUBSET Tasks /\ x \in Above(x) \cup {NoTask}
        /\ HoldsParents(Above(p)) /\ Above(p) \in SUBSET Tasks /\ p \in Above(p) \cup {NoTask}
    BY <1>2
  <2>2. PICK S \in SUBSET Tasks : S = Above(x) \cup {u} \cup Above(p)
    BY <2>1
  <2>3. ASSUME NEW s \in S PROVE Parent(s)' \in S \cup {NoTask}
    <3>1. CASE s = u
      BY <2>1, <2>2, <3>1
    <3>2. CASE s # u
      <4>1. Parent(s)' = Parent(s)
        BY <2>2, <3>2
      <4>2. s \in Above(x) \/ s \in Above(p)
        BY <2>2, <2>3, <3>2
      <4> QED
        BY <2>1, <2>2, <4>1, <4>2 DEF HoldsParents
    <3> QED
      BY <3>1, <3>2
  <2> QED
    BY <2>1, <2>2, <2>3 DEF Above, HoldsParents
<1>5. u \notin Above(p)'
  BY <1>3
<1> QED
  BY <1>3, <1>4, <1>5

\* A task that moves below none of its own keeps the tasks free of cycles.
LEMMA MovingKeepsForest ==
  ASSUME TaskTypeOK, TaskTypeOK', NEW u \in Tasks, NEW p \in Tasks \cup {NoTask},
         Parent(u)' = p, u \notin Above(p), Exists(u)',
         \A s \in Tasks \ {u} : Parent(s)' = Parent(s) /\ (Exists(s)' <=> Exists(s)),
         IsForest
  PROVE  IsForest'
<1>1. /\ u \notin Above(p)'
      /\ \A x \in Tasks \cup {NoTask} :
           Above(x)' \subseteq Above(x) \cup {u} \cup Above(p)
      /\ \A x \in Tasks \cup {NoTask} : u \notin Above(x) => Above(x)' \subseteq Above(x)
  BY MovingOne
<1>2. /\ \A s \in Tasks : Parent(s) \in Tasks \cup {NoTask}
  BY ParentsAreTasks
<1>3. ASSUME NEW s \in Tasks, s # u, Exists(s)' PROVE s \notin Above(Parent(s))'
  <2>1. Exists(s) /\ Parent(s)' = Parent(s) /\ s \notin Above(Parent(s))
    BY <1>3 DEF IsForest
  <2>2. PICK x \in Tasks \cup {NoTask} : x = Parent(s)
    BY <1>2
  <2>3. CASE u \notin Above(x)
    <3>1. s \notin Above(x)'
      BY <1>1, <2>1, <2>2, <2>3
    <3> QED
      BY <2>1, <2>2, <3>1
  <2>4. CASE u \in Above(x)
    <3>1. s \notin Above(p)
      <4> SUFFICES ASSUME s \in Above(p) PROVE FALSE
        OBVIOUS
      <4>1. p \in Tasks /\ HoldsParents(Above(p)) /\ Above(p) \in SUBSET Tasks
        BY <1>2, AboveHoldsParents, NothingAboveNoTask
      <4>2. x \in Above(p) \cup {NoTask}
        BY <2>2, <4>1 DEF HoldsParents
      <4>3. Above(x) \subseteq Above(p)
        BY <4>1, <4>2, AboveIsLeast
      <4> QED
        BY <2>4, <4>3
    <3>2. s \notin Above(x)'
      BY <1>1, <1>3, <2>1, <2>2, <3>1
    <3> QED
      BY <2>1, <2>2, <3>2
  <2> QED
    BY <2>3, <2>4
<1>4. u \notin Above(Parent(u))'
  BY <1>1
<1> QED
  BY <1>3, <1>4 DEF IsForest

\* A task is late after a step that keeps it only if its parent's deadline moved.
LEMMA LatenessComesFromParents ==
  ASSUME NEW t \in Tasks, tasks'[t] = tasks[t], t \in LateChildren' \ LateChildren
  PROVE  tasks'[Parent(t)].due # tasks[Parent(t)].due
<1>1. Exists(t) /\ IsLate(tasks[t])' /\ ~IsLate(tasks[t]) /\ Parent(t) = tasks[t].parent
  BY DEF LateChildren, Exists, Parent
<1> QED
  BY <1>1 DEF IsLate

\* The rows that a request may ask for are rows of tasks.
LEMMA ChangedAreRows ==
  ASSUME NEW old \in TaskRow
  PROVE  /\ Changed(old) \subseteq TaskRow
         /\ \A row \in Changed(old) :
              /\ row.parent \in Tasks \cup {NoTask}
              /\ old.completedAt => row.completedAt
<1>2. old.completedAt \in BOOLEAN
  BY DEF TaskRow
<1>3. \A parent \in Tasks \cup {NoTask} :
        LET row == [old EXCEPT !.parent = parent]
        IN  row \in TaskRow /\ row.completedAt = old.completedAt
  BY DEF TaskRow
<1>4. \A due \in 0 .. LastDue :
        LET row == [old EXCEPT !.due = due]
        IN  row \in TaskRow /\ row.completedAt = old.completedAt
  BY DEF TaskRow
<1>5. ASSUME NEW status \in {"open", "completed"}
      PROVE  LET row == [old EXCEPT !.status = status,
                                         !.completedAt = @ \/ status = "completed"]
             IN  row \in TaskRow /\ (old.completedAt => row.completedAt)
  <2> DEFINE at == old.completedAt \/ status = "completed"
             row == [old EXCEPT !.status = status, !.completedAt = at]
  <2>1. at \in BOOLEAN /\ (old.completedAt => at)
    BY <1>2
  <2> HIDE DEF at
  <2>2. row \in TaskRow /\ row.completedAt = at
    BY <2>1 DEF TaskRow
  <2> QED
    BY <2>1, <2>2 DEF at
<1>6. ASSUME NEW row \in Changed(old)
      PROVE  row \in TaskRow /\ (old.completedAt => row.completedAt)
  <2>1. CASE \E parent \in Tasks \cup {NoTask} : row = [old EXCEPT !.parent = parent]
    BY <1>3, <2>1
  <2>2. CASE \E due \in 0 .. LastDue : row = [old EXCEPT !.due = due]
    BY <1>4, <2>2
  <2>3. CASE \E status \in {"open", "completed"} :
               row = [old EXCEPT !.status = status,
                                      !.completedAt = @ \/ status = "completed"]
    BY <1>5, <2>3
  <2> QED
    BY <1>6, <2>1, <2>2, <2>3 DEF Changed
<1>7. \A row \in TaskRow : row.parent \in Tasks \cup {NoTask}
  BY DEF TaskRow
<1> QED
  BY <1>6, <1>7

\* One row is written: by the save of create_task or update_task.
LEMMA WritingKeepsTasks ==
  ASSUME TasksHold, NEW u \in Tasks, NEW row \in TaskRow,
         tasks' = [tasks EXCEPT ![u] = row], writes' = writes + 1, writes < MaxTaskWrites,
         WasCreated(row.parent),
         taskRequests' \in [TaskRequests -> {RestingRequest} \cup TaskRequest],
         \A e \in TaskRequests :
           taskRequests'[e] = taskRequests[e] \/ taskRequests'[e] = RestingRequest
  PROVE  TasksHold'
<1>1. TaskTypeOK /\ ParentsWereCreated /\ RequestsAreFresh /\ writes \in Nat
  BY DEF TasksHold, TaskTypeOK
<1>2. /\ tasks' \in [Tasks -> {Unused, Deleted} \cup TaskRow] /\ tasks'[u] = row
      /\ \A s \in Tasks \ {u} : tasks'[s] = tasks[s]
  BY <1>1 DEF TaskTypeOK
<1>3. row # Unused
  BY DEF TaskRow, Unused
<1>4. ASSUME NEW p \in Tasks \cup {NoTask}, WasCreated(p) PROVE WasCreated(p)'
  BY <1>2, <1>3, <1>4 DEF WasCreated
<1>5. ASSUME NEW t \in Tasks, Exists(t)' PROVE WasCreated(tasks[t].parent)'
  <2>1. tasks'[t] \in TaskRow
    BY <1>2, <1>5 DEF Exists
  <2>2. PICK p \in Tasks \cup {NoTask} : p = tasks'[t].parent
    BY <2>1 DEF TaskRow
  <2>3. WasCreated(p)
    BY <1>1, <1>2, <1>5, <2>2 DEF ParentsWereCreated, Exists
  <2>4. WasCreated(p)'
    BY <1>4, <2>3
  <2> QED
    BY <2>2, <2>4 DEF WasCreated
<1>6. ASSUME NEW e \in TaskRequests, taskRequests'[e].step # "none"
      PROVE  /\ taskRequests'[e] = taskRequests[e] /\ taskRequests[e] \in TaskRequest
             /\ taskRequests[e].step # "none"
  BY <1>1, <1>6 DEF TaskTypeOK, RestingRequest
<1>7. ASSUME NEW e \in TaskRequests, taskRequests'[e].step # "none"
      PROVE  WasCreated(taskRequests[e].row.parent)'
  <2>1. /\ taskRequests'[e] = taskRequests[e] /\ taskRequests[e] \in TaskRequest
        /\ taskRequests[e].step # "none"
    BY <1>6, <1>7
  <2>2. PICK p \in Tasks \cup {NoTask} : p = taskRequests[e].row.parent
    BY <2>1 DEF TaskRequest, TaskRow
  <2>3. WasCreated(p)
    BY <1>1, <2>1, <2>2 DEF ParentsWereCreated
  <2>4. WasCreated(p)'
    BY <1>4, <2>3
  <2> QED
    BY <2>1, <2>2, <2>4 DEF WasCreated
<1>8. ASSUME NEW e \in TaskRequests, taskRequests'[e].step # "none"
      PROVE  /\ taskRequests'[e].at <= writes' /\ taskRequests'[e].at # writes'
  <2>1. /\ taskRequests'[e] = taskRequests[e] /\ taskRequests[e].at <= writes
        /\ taskRequests[e].at \in Nat
    BY <1>1, <1>6, <1>8 DEF RequestsAreFresh, TaskRequest
  <2> QED
    BY <1>1, <2>1
<1>9. RequestsAreFresh'
  BY <1>8 DEF RequestsAreFresh
<1>10. ParentsWereCreated'
  BY <1>5, <1>7 DEF ParentsWereCreated
<1>11. TaskTypeOK'
  BY <1>1, <1>2 DEF TaskTypeOK
<1> QED
  BY <1>9, <1>10, <1>11 DEF TasksHold

\* The save of create_task or update_task: what was read and checked holds unless
\* somebody wrote since.
LEMMA SavingKeepsTasks ==
  ASSUME TasksHold, NEW e \in TaskRequests, Save(e)
  PROVE  KeepsTasks
<1>1. /\ TaskTypeOK /\ ParentsWereCreated /\ RequestsAreFresh
      /\ taskRequests[e].step = "checked"
      /\ writes < MaxTaskWrites /\ writes' = writes + 1
      /\ taskRequests' = [taskRequests EXCEPT ![e] = RestingRequest]
  BY DEF TasksHold, Save, Wrote
<1>2. taskRequests[e] \in TaskRequest
  BY <1>1 DEF TaskTypeOK, RestingRequest
<1>3. PICK u \in Tasks : u = taskRequests[e].task
  BY <1>2 DEF TaskRequest
<1>4. PICK row \in TaskRow : row = taskRequests[e].row
  BY <1>2 DEF TaskRequest
<1>5. tasks' = [tasks EXCEPT ![u] = row]
  BY <1>3, <1>4 DEF Save
<1>6. WasCreated(row.parent)
  BY <1>1, <1>4 DEF ParentsWereCreated
<1>7. /\ taskRequests' \in [TaskRequests -> {RestingRequest} \cup TaskRequest]
      /\ \A f \in TaskRequests :
           taskRequests'[f] = taskRequests[f] \/ taskRequests'[f] = RestingRequest
      /\ taskRequests'[e] = RestingRequest
  BY <1>1 DEF TaskTypeOK
<1>8. TasksHold'
  BY <1>1, <1>5, <1>6, <1>7, WritingKeepsTasks
<1>9. tasks'[u] = row /\ \A s \in Tasks \ {u} : tasks'[s] = tasks[s]
  BY <1>1, <1>5 DEF TaskTypeOK
<1>10. ASSUME ~IsOvertaken(e) PROVE TasksStayInOrder
  <2>1. taskRequests[e].at = writes
    <3>1. taskRequests[e].at <= writes /\ ~(taskRequests[e].at < writes)
      BY <1>1, <1>7, <1>10 DEF RequestsAreFresh, IsOvertaken
    <3>2. taskRequests[e].at \in Nat /\ writes \in Nat
      BY <1>1, <1>2 DEF TaskRequest, TaskTypeOK
    <3> QED
      BY <3>1, <3>2
  <2>2. /\ tasks[u] # Deleted /\ IsClean(u, row)
        /\ Exists(u) => row \in Changed(tasks[u])
    BY <1>1, <1>3, <1>4, <2>1 DEF RequestsAreFresh, IsFresh
  <2>3. /\ row.parent \in Tasks \cup {NoTask}
        /\ Exists(u) /\ tasks[u].completedAt => row.completedAt
    BY <1>1, <2>2, ChangedAreRows DEF TaskRow, TaskTypeOK, Exists
  <2>4. row \notin {Unused, Deleted}
    BY DEF TaskRow, Unused, Deleted
  <2>5. PICK p \in Tasks \cup {NoTask} : p = row.parent
    BY <2>3
  <2>6. /\ p # NoTask => u \notin Above(p)
        /\ p # NoTask => ~IsLate(row)
    BY <2>2, <2>5 DEF IsClean
  <2>7. u \notin Above(p)
    BY <2>6, NothingAboveNoTask
  <2>8. p # u
    BY <1>1, <2>6, <2>7, AboveHoldsParents, ParentsAreTasks
  <2>9. IsForest => IsForest'
    <3>1. Parent(u)' = p /\ Exists(u)'
      BY <1>9, <2>4, <2>5 DEF Parent, Exists
    <3>2. \A s \in Tasks \ {u} : Parent(s)' = Parent(s) /\ (Exists(s)' <=> Exists(s))
      BY <1>9 DEF Parent, Exists
    <3>3. TaskTypeOK'
      BY <1>8 DEF TasksHold
    <3> QED
      BY <1>1, <2>7, <3>1, <3>2, <3>3, MovingKeepsForest
  <2>10. ASSUME NEW t \in Tasks
         PROVE  /\ tasks[t] = Deleted => tasks'[t] = Deleted
                /\ Exists(t) /\ Exists(t)' /\ tasks[t].completedAt => tasks'[t].completedAt
                /\ t \in LateChildren' \ LateChildren =>
                     /\ tasks'[t] = tasks[t]
                     /\ tasks'[Parent(t)].due # tasks[Parent(t)].due
    <3>1. CASE t = u
      <4>1. tasks[t] # Deleted
        BY <2>2, <3>1
      <4>2. ~IsLate(tasks[t])'
        <5>1. p # NoTask => tasks'[p] = tasks[p]
          BY <1>9, <2>8
        <5>2. tasks'[t] = row
          BY <1>9, <3>1
        <5> QED
          BY <2>5, <2>6, <5>1, <5>2 DEF IsLate
      <4> QED
        BY <1>9, <2>3, <3>1, <4>1, <4>2 DEF LateChildren
    <3>2. CASE t # u
      BY <1>9, <3>2, LatenessComesFromParents
    <3> QED
      BY <3>1, <3>2
  <2> QED
    BY <2>9, <2>10 DEF TasksStayInOrder
<1> QED
  BY <1>8, <1>10 DEF KeepsTasks, TanglesRightly

\* delete_task takes what is below, so lines of parents only get shorter.
LEMMA DeletingKeepsTasks ==
  ASSUME TasksHold, NEW u \in Tasks, DeleteTask(u)
  PROVE  KeepsTasks
<1>1. /\ TaskTypeOK /\ ParentsWereCreated /\ RequestsAreFresh
      /\ tasks' = [s \in Tasks |-> IF Exists(s) /\ u \in Above(s) THEN Deleted ELSE tasks[s]]
      /\ writes < MaxTaskWrites /\ writes' = writes + 1 /\ taskRequests' = taskRequests
      /\ writes \in Nat
  BY DEF TasksHold, DeleteTask, Wrote, TaskTypeOK
<1>2. TaskTypeOK'
  BY <1>1 DEF TaskTypeOK
<1>3. \A s \in Tasks : tasks'[s] = tasks[s] \/ (tasks'[s] = Deleted /\ Exists(s))
  BY <1>1
<1>4. Deleted # Unused
  BY DEF Deleted, Unused
<1>5. \A s \in Tasks : Exists(s)' => tasks'[s] = tasks[s] /\ Exists(s)
  BY <1>3 DEF Exists
<1>6. ASSUME NEW p \in Tasks \cup {NoTask}, WasCreated(p) PROVE WasCreated(p)'
  BY <1>3, <1>4, <1>6 DEF WasCreated
<1>7. ParentsWereCreated'
  <2>1. ASSUME NEW t \in Tasks, Exists(t)' PROVE WasCreated(tasks[t].parent)'
    <3>1. tasks'[t] = tasks[t] /\ Exists(t) /\ tasks[t] \in TaskRow
      BY <1>1, <1>5, <2>1 DEF TaskTypeOK, Exists
    <3>2. PICK p \in Tasks \cup {NoTask} : p = tasks[t].parent
      BY <3>1 DEF TaskRow
    <3>3. WasCreated(p)'
      BY <1>1, <1>6, <3>1, <3>2 DEF ParentsWereCreated
    <3> QED
      BY <3>1, <3>2, <3>3 DEF WasCreated
  <2>2. ASSUME NEW e \in TaskRequests, taskRequests'[e].step # "none"
        PROVE  WasCreated(taskRequests[e].row.parent)'
    <3>1. taskRequests'[e] = taskRequests[e] /\ taskRequests[e] \in TaskRequest
      BY <1>1, <2>2 DEF TaskTypeOK, RestingRequest
    <3>2. PICK p \in Tasks \cup {NoTask} : p = taskRequests[e].row.parent
      BY <3>1 DEF TaskRequest, TaskRow
    <3>3. WasCreated(p)'
      BY <1>1, <1>6, <2>2, <3>1, <3>2 DEF ParentsWereCreated
    <3> QED
      BY <3>1, <3>2, <3>3 DEF WasCreated
  <2> QED
    BY <2>1, <2>2 DEF ParentsWereCreated
<1>8. RequestsAreFresh'
  <2>1. ASSUME NEW e \in TaskRequests, taskRequests'[e].step # "none"
        PROVE  taskRequests'[e].at <= writes' /\ taskRequests'[e].at # writes'
    <3>1. /\ taskRequests'[e] = taskRequests[e] /\ taskRequests[e] \in TaskRequest
          /\ taskRequests[e].at <= writes
      BY <1>1, <2>1 DEF TaskTypeOK, RestingRequest, RequestsAreFresh
    <3>2. taskRequests[e].at \in Nat
      BY <3>1 DEF TaskRequest
    <3> QED
      BY <1>1, <3>1, <3>2
  <2> QED
    BY <2>1 DEF RequestsAreFresh
<1>9. ASSUME IsForest PROVE IsForest'
  <2>1. \A s \in Tasks : Parent(s)' \in {Parent(s), NoTask}
    BY <1>3 DEF Parent, Exists
  <2>2. \A s \in Tasks : Parent(s) \in Tasks \cup {NoTask}
    BY <1>1, ParentsAreTasks
  <2>3. ASSUME NEW x \in Tasks \cup {NoTask} PROVE Above(x)' \subseteq Above(x)
    <3>1. /\ HoldsParents(Above(x)) /\ Above(x) \in SUBSET Tasks
          /\ x \in Above(x) \cup {NoTask}
      BY <2>2, AboveHoldsParents, NothingAboveNoTask DEF HoldsParents
    <3>2. PICK S \in SUBSET Tasks : S = Above(x)
      BY <3>1
    <3>3. \A s \in S : Parent(s)' \in S \cup {NoTask}
      BY <2>1, <3>1, <3>2 DEF HoldsParents
    <3> QED
      BY <3>1, <3>2, <3>3 DEF Above, HoldsParents
  <2>4. ASSUME NEW s \in Tasks, Exists(s)' PROVE s \notin Above(Parent(s))'
    <3>1. Exists(s) /\ Parent(s)' = Parent(s)
      BY <1>5, <2>4 DEF Parent, Exists
    <3>2. PICK x \in Tasks \cup {NoTask} : x = Parent(s)
      BY <2>2
    <3>3. s \notin Above(x)'
      BY <1>9, <2>3, <3>1, <3>2 DEF IsForest
    <3> QED
      BY <3>1, <3>2, <3>3
  <2> QED
    BY <2>4 DEF IsForest
<1>10. ASSUME NEW t \in Tasks
       PROVE  /\ tasks[t] = Deleted => tasks'[t] = Deleted
              /\ Exists(t) /\ Exists(t)' /\ tasks[t].completedAt => tasks'[t].completedAt
              /\ t \in LateChildren' \ LateChildren =>
                   /\ tasks'[t] = tasks[t]
                   /\ tasks'[Parent(t)].due # tasks[Parent(t)].due
  BY <1>3, <1>5, LatenessComesFromParents DEF LateChildren
<1>11. TasksHold'
  BY <1>2, <1>7, <1>8 DEF TasksHold
<1> QED
  BY <1>9, <1>10, <1>11 DEF KeepsTasks, TanglesRightly, TasksStayInOrder

\* What the checks say of a row follows from the tasks.
LEMMA ChecksReadTasks ==
  ASSUME tasks' = tasks, NEW t, NEW step, NEW row
  PROVE  /\ Exists(t)' <=> Exists(t)
         /\ IsFresh(t, step, row)' <=> IsFresh(t, step, row)
<1>1. \A s : (Exists(s)' <=> Exists(s)) /\ Parent(s)' = Parent(s)
  BY DEF Exists, Parent
<1>2. \A S : HoldsParents(S)' <=> HoldsParents(S)
  BY <1>1 DEF HoldsParents
<1>3. \A s : Above(s)' = Above(s)
  BY <1>2 DEF Above
<1>4. Changed(tasks[t])' = Changed(tasks[t])
  BY DEF Changed
<1>5. IsLate(row)' <=> IsLate(row)
  BY DEF IsLate
<1>6. ASSUME NEW p PROVE EndsAbove(p)' <=> EndsAbove(p)
  BY <1>1, <1>3 DEF EndsAbove
<1>7. PICK p : p = row.parent
  OBVIOUS
<1>8. IsClean(t, row)' <=> IsClean(t, row)
  BY <1>1, <1>3, <1>5, <1>6, <1>7 DEF IsClean
<1> QED
  BY <1>1, <1>4, <1>8 DEF IsFresh

\* Nothing was written: a request that holds what it held is as fresh as before.
LEMMA FreshnessStays ==
  ASSUME TasksHold, tasks' = tasks, writes' = writes,
         NEW e \in TaskRequests, taskRequests'[e] = taskRequests[e],
         taskRequests[e].step # "none"
  PROVE  /\ taskRequests'[e].at <= writes'
         /\ taskRequests'[e].at = writes' =>
              IsFresh(taskRequests[e].task, taskRequests[e].step, taskRequests[e].row)'
<1>1. PICK t : t = taskRequests[e].task
  OBVIOUS
<1>2. PICK step : step = taskRequests[e].step
  OBVIOUS
<1>3. PICK row : row = taskRequests[e].row
  OBVIOUS
<1>4. /\ taskRequests[e].at <= writes
      /\ taskRequests[e].at = writes => IsFresh(t, step, row)
  BY <1>1, <1>2, <1>3 DEF TasksHold, RequestsAreFresh
<1>5. IsFresh(t, step, row)' <=> IsFresh(t, step, row)
  BY ChecksReadTasks
<1> QED
  BY <1>1, <1>2, <1>3, <1>4, <1>5

\* Requests that are not overtaken by a step stay so.
LEMMA OthersStayFresh ==
  ASSUME TasksHold, tasks' = tasks, writes' = writes, TaskTypeOK',
         \A e \in TaskRequests :
           \/ taskRequests'[e] = taskRequests[e] \/ taskRequests'[e] = RestingRequest
  PROVE  TasksHold'
<1>1. TaskTypeOK /\ ParentsWereCreated
  BY DEF TasksHold
<1>2. ASSUME NEW e \in TaskRequests, taskRequests'[e].step # "none"
      PROVE  taskRequests'[e] = taskRequests[e] /\ taskRequests[e].step # "none"
  BY <1>2 DEF RestingRequest
<1>3. RequestsAreFresh'
  BY <1>2, FreshnessStays DEF RequestsAreFresh
<1>4. ParentsWereCreated'
  BY <1>1, <1>2 DEF ParentsWereCreated, WasCreated, Exists
<1> QED
  BY <1>3, <1>4 DEF TasksHold

\* A request takes hold of a row: its reads and checks are as fresh as the count
\* of writes it keeps says.
LEMMA HoldingKeepsTasks ==
  ASSUME TasksHold, tasks' = tasks, writes' = writes,
         NEW e \in TaskRequests, NEW step \in {"loaded", "checked"}, NEW t \in Tasks,
         NEW row \in TaskRow, NEW at \in 0 .. MaxTaskWrites,
         HoldsRow(e, step, t, row, at), WasCreated(row.parent),
         at <= writes, at = writes => IsFresh(t, step, row)
  PROVE  TasksHold'
<1> DEFINE request == [step |-> step, task |-> t, row |-> row, at |-> at]
<1>1. TaskTypeOK /\ ParentsWereCreated
  BY DEF TasksHold
<1>2. /\ request \in TaskRequest /\ request.step = step /\ request.task = t
      /\ request.row = row /\ request.at = at
  BY DEF TaskRequest
<1>3. taskRequests' = [taskRequests EXCEPT ![e] = request]
  BY DEF HoldsRow
<1> HIDE DEF request
<1>4. /\ taskRequests' \in [TaskRequests -> {RestingRequest} \cup TaskRequest]
      /\ taskRequests'[e] = request
      /\ \A f \in TaskRequests \ {e} : taskRequests'[f] = taskRequests[f]
  BY <1>1, <1>2, <1>3 DEF TaskTypeOK
<1>5. ParentsWereCreated'
  BY <1>1, <1>2, <1>4 DEF ParentsWereCreated, WasCreated, Exists
<1>6. RequestsAreFresh'
  <2>1. ASSUME NEW f \in TaskRequests \ {e}, taskRequests'[f].step # "none"
        PROVE  /\ taskRequests'[f].at <= writes'
               /\ taskRequests'[f].at = writes' =>
                    IsFresh(taskRequests[f].task, taskRequests[f].step, taskRequests[f].row)'
    BY <1>4, <2>1, FreshnessStays
  <2>2. IsFresh(t, step, row)' <=> IsFresh(t, step, row)
    BY ChecksReadTasks
  <2>3. /\ taskRequests'[e].at <= writes'
        /\ taskRequests'[e].at = writes' => IsFresh(t, step, row)'
    BY <1>2, <1>4, <2>2
  <2>4. /\ taskRequests'[e].task = t /\ taskRequests'[e].step = step
        /\ taskRequests'[e].row = row
    BY <1>2, <1>4
  <2> QED
    BY <2>1, <2>3, <2>4 DEF RequestsAreFresh
<1> QED
  BY <1>1, <1>4, <1>5, <1>6 DEF TasksHold, TaskTypeOK

\* A parent that a row passes clean with exists.
LEMMA CleanParents ==
  ASSUME NEW t, NEW row, IsClean(t, row)
  PROVE  WasCreated(row.parent)
BY DEF IsClean, WasCreated, Exists

\* The check of update_task: the row that was loaded is changed.
LEMMA CheckUpdateHolds ==
  ASSUME TasksHold, NEW e \in TaskRequests, CheckUpdate(e)
  PROVE  TasksHold'
<1>1. /\ TaskTypeOK /\ RequestsAreFresh /\ taskRequests[e].step = "loaded"
      /\ tasks' = tasks /\ writes' = writes
  BY DEF TasksHold, CheckUpdate
<1>2. taskRequests[e] \in TaskRequest
  BY <1>1 DEF TaskTypeOK, RestingRequest
<1>3. PICK t \in Tasks, old \in TaskRow, at \in 0 .. MaxTaskWrites :
        t = taskRequests[e].task /\ old = taskRequests[e].row /\ at = taskRequests[e].at
  BY <1>2 DEF TaskRequest
<1>4. PICK row \in Changed(old) :
        IsClean(t, row) /\ HoldsRow(e, "checked", t, row, at)
  BY <1>3 DEF CheckUpdate
<1>5. row \in TaskRow
  BY ChangedAreRows
<1>6. WasCreated(row.parent)
  BY <1>4, CleanParents
<1>7. at <= writes /\ (at = writes => IsFresh(t, "loaded", old))
  BY <1>1, <1>3 DEF RequestsAreFresh
<1>8. at = writes => IsFresh(t, "checked", row)
  BY <1>4, <1>7 DEF IsFresh, Exists
<1> QED
  BY <1>1, <1>4, <1>5, <1>6, <1>7, <1>8, HoldingKeepsTasks

\* Steps that write no task.
LEMMA CheckingKeepsTasks ==
  ASSUME TasksHold, NEW e \in TaskRequests,
         \/ SaveFails(e) \/ RefuseUpdate(e) \/ CheckUpdate(e)
         \/ \E t \in Tasks : LoadTask(e, t) \/ \E row \in TaskRow : BeginCreate(e, t, row)
  PROVE  KeepsTasks
<1>1. /\ TaskTypeOK /\ ParentsWereCreated
      /\ tasks' = tasks /\ writes' = writes /\ writes \in 0 .. MaxTaskWrites
  BY DEF TasksHold, SaveFails, RefuseUpdate, CheckUpdate, LoadTask, BeginCreate, TaskTypeOK
<1>2. TasksStayInOrder
  BY <1>1 DEF TasksStayInOrder, IsForest, LateChildren, Above, HoldsParents, Parent, Exists,
              IsLate
<1>3. ASSUME SaveFails(e) \/ RefuseUpdate(e) PROVE TasksHold'
  <2>1. /\ taskRequests' \in [TaskRequests -> {RestingRequest} \cup TaskRequest]
        /\ \A f \in TaskRequests :
             taskRequests'[f] = taskRequests[f] \/ taskRequests'[f] = RestingRequest
    BY <1>1, <1>3 DEF SaveFails, RefuseUpdate, TaskTypeOK
  <2> QED
    BY <1>1, <2>1, OthersStayFresh DEF TaskTypeOK
<1>4. ASSUME NEW t \in Tasks, LoadTask(e, t) PROVE TasksHold'
  <2>1. PICK row \in TaskRow : row = tasks[t]
    BY <1>1, <1>4 DEF LoadTask, Exists, TaskTypeOK
  <2>2. HoldsRow(e, "loaded", t, row, writes) /\ IsFresh(t, "loaded", row)
    BY <1>4, <2>1 DEF LoadTask, IsFresh
  <2>3. WasCreated(row.parent)
    BY <1>1, <1>4, <2>1 DEF LoadTask, ParentsWereCreated
  <2> QED
    BY <1>1, <2>2, <2>3, HoldingKeepsTasks
<1>5. ASSUME NEW t \in Tasks, NEW row \in TaskRow, BeginCreate(e, t, row)
      PROVE  TasksHold'
  <2>1. /\ tasks[t] = Unused /\ IsClean(t, row)
        /\ HoldsRow(e, "checked", t, row, writes)
    BY <1>5 DEF BeginCreate
  <2>2. IsFresh(t, "checked", row)
    BY <2>1 DEF IsFresh, Exists, Unused, Deleted
  <2>3. WasCreated(row.parent)
    BY <2>1, CleanParents
  <2> QED
    BY <1>1, <2>1, <2>2, <2>3, HoldingKeepsTasks
<1> QED
  BY <1>2, <1>3, <1>4, <1>5, CheckUpdateHolds DEF KeepsTasks, TanglesRightly

\* Every request for tasks keeps what is known of them.
LEMMA TaskStep == TasksHold /\ TaskNext => KeepsTasks
BY SavingKeepsTasks, DeletingKeepsTasks, CheckingKeepsTasks
   DEF TaskNext, CreateTask, UpdateTask

\* Tasks have parents that were created, and what a request has checked of them
\* is true unless another request overtook it.
THEOREM TaskRowsHold == TaskSpec => []TasksHold
<1>1. TaskInit => TasksHold
  BY DEF TaskInit, TasksHold, TaskTypeOK, ParentsWereCreated, RequestsAreFresh, Exists,
         RestingRequest
<1>2. TasksHold /\ UNCHANGED taskVars => TasksHold'
  BY OthersStayFresh DEF taskVars, TasksHold, TaskTypeOK
<1>3. TasksHold /\ [TaskNext]_taskVars => TasksHold'
  BY <1>2, TaskStep DEF KeepsTasks
<1> QED
  BY <1>1, <1>3, PTL DEF TaskSpec

\* The tasks stay a forest, the deleted ones deleted, and completions and deadlines
\* in order, while no row is saved that another write overtook (clean, update_task).
THEOREM TasksTangleRightly == TaskSpec => OnlyOvertakenRowsTangle
<1>1. ASSUME TasksHold, [TaskNext]_taskVars PROVE [TanglesRightly]_taskVars
  BY <1>1, TaskStep DEF KeepsTasks
<1> QED
  BY <1>1, TaskRowsHold, PTL
     DEF TaskSpec, OnlyOvertakenRowsTangle, TanglesRightly, TasksStayInOrder

HIDE TaskAssumption

-----------------------------------------------------------------------------
(***************************************************************************)
(* Schedule series and their occurrences.                                  *)
(***************************************************************************)

USE SeriesAssumption

\* A page of the current version shows the series as it is.
PagesAreTrue ==
  \A k \in Clients :
    clients[k].step = "page" =>
      LET i == clients[k].id
      IN  /\ clients[k].row.version <= series[i].version
          /\ series[i].live /\ series[i].version = clients[k].row.version =>
               series[i] = clients[k].row /\ marks[i] = clients[k].marks

\* No key is ahead of its series.
KeysAreOld == \A a \in announced : a.version <= series[a.series].version

SeriesHold == SeriesTypeOK /\ PagesAreTrue /\ KeysAreOld

SeriesPage == [step : {"page"}, id : DOMAIN series, row : SeriesRow, marks : Marks]

Key == [series : DOMAIN series, event : {"published", "changed", "cancelled"},
        version : 1 .. MaxEdition + 2]

\* What each property says of a step.
ChangesAreSeen ==
  \A k \in Clients :
    clients[k].step = "page" /\ clients'[k] = Away =>
      LET i == clients[k].id
      IN  \/ series'[i] = series[i] /\ marks'[i] = marks[i]
          \/ series[i] = clients[k].row /\ marks[i] = clients[k].marks

MarksAreKept ==
  \A i \in DOMAIN series : \A d \in DaysOf(i) :
    Shown(series[i], MarkOf(i, d)) # "active" =>
      \A j \in DOMAIN series' :
        \/ ~(j = i \/ (series'[j].origin = i /\ j \notin DOMAIN series))
        \/ d \notin DaysIn(series'[j])
        \/ Shown(series'[j], MarkOf(j, d)') # "active"
        \/ j = i /\ MarkOf(i, d)' = "rescheduled"
        \/ j # i /\ MarkOf(i, d) # "none"
        \/ series'[j].time # series[i].time

DaysAreDivided ==
  \A j \in DOMAIN series' \ DOMAIN series :
    LET i == series'[j].origin
        d == series'[j].cut
        Both == DaysIn(series'[i]) \cup DaysIn(series'[j])
    IN  i # 0 =>
          /\ \A e \in DaysIn(series'[i]) : e < d
          /\ \A e \in DaysOf(i) : e < d => e \in DaysIn(series'[i])
          /\ series'[j].from = d /\ series'[j].until = series[i].until =>
               DaysOf(i) \subseteq Both /\ (d \in DaysOf(i) => Both = DaysOf(i))

WasChanged(i) == series'[i] # series[i] \/ marks'[i] # marks[i]

Told == announced' \ announced

TellsTruly ==
  /\ \A i \in DOMAIN series :
       WasChanged(i) /\ series'[i].scope = "group" =>
         \/ IsCompletion(i)
         \/ \E a \in Told : a.series = i \/ a.series \notin DOMAIN series
  /\ \A a \in Told :
       \/ a.series \notin DOMAIN series \/ WasChanged(a.series)
       \/ ~series[a.series].recurs /\ a.event = "changed"

KeepsSeries ==
  SeriesHold' /\ ChangesAreSeen /\ MarksAreKept /\ DaysAreDivided /\ TellsTruly

-----------------------------------------------------------------------------
\* Series, marks and pages are rows of their kinds.
LEMMA SeriesRows ==
  ASSUME SeriesTypeOK
  PROVE  /\ series \in Seq(SeriesRow) /\ Len(series) \in Nat
         /\ DOMAIN series = 1 .. Len(series)
         /\ \A i \in DOMAIN series : series[i] \in SeriesRow
         /\ marks \in Seq(Marks) /\ Len(marks) = Len(series)
         /\ DOMAIN marks = DOMAIN series
         /\ \A i \in DOMAIN series : marks[i] \in Marks
         /\ \A a \in announced : a \in Key
         /\ \A k \in Clients : clients[k] \in {Away} \cup SeriesPage
<1>1. series \in Seq(SeriesRow) /\ marks \in Seq(Marks) /\ Len(marks) = Len(series)
  BY DEF SeriesTypeOK
<1>2. /\ Len(series) \in Nat /\ DOMAIN series = 1 .. Len(series)
      /\ \A i \in DOMAIN series : series[i] \in SeriesRow
      /\ DOMAIN marks = 1 .. Len(marks) /\ \A i \in DOMAIN marks : marks[i] \in Marks
  BY <1>1, ElementOfSeq, LenProperties
<1>3. /\ \A a \in announced : a \in Key
      /\ \A k \in Clients : clients[k] \in {Away} \cup SeriesPage
  BY DEF SeriesTypeOK, Key, SeriesPage
<1> QED
  BY <1>1, <1>2, <1>3

\* The page that a request was made from shows what there is.
LEMMA CurrentIsSeen ==
  ASSUME SeriesHold, NEW k \in Clients, NEW i \in DOMAIN series, Current(k, i)
  PROVE  /\ clients[k] \in SeriesPage /\ clients[k].id = i
         /\ series[i] = clients[k].row /\ marks[i] = clients[k].marks
         /\ series[i] \in SeriesRow /\ marks[i] \in Marks
         /\ series[i].live /\ series[i].version \in 1 .. MaxEdition - 1
         /\ i \in 1 .. Len(series) /\ i \in 1 .. MaxSeries
<1>1. SeriesTypeOK /\ PagesAreTrue
  BY DEF SeriesHold
<1>2. clients[k] \in SeriesPage /\ clients[k].id = i
  BY <1>1, SeriesRows DEF Current, Away
<1>3. series[i] = clients[k].row /\ marks[i] = clients[k].marks
  BY <1>1, <1>2 DEF PagesAreTrue, Current
<1>4. series[i] \in SeriesRow /\ marks[i] \in Marks
  BY <1>1, SeriesRows
<1>5. series[i].version \in 1 .. MaxEdition + 2
  BY <1>4 DEF SeriesRow
<1>6. series[i].version \in 1 .. MaxEdition - 1
  BY <1>5 DEF Current
<1>7. i \in 1 .. Len(series) /\ i \in 1 .. MaxSeries
  BY <1>1, SeriesRows DEF SeriesTypeOK
<1> QED
  BY <1>2, <1>3, <1>4, <1>6, <1>7 DEF Current

\* Pages of others: the series they show stay, or have a later version, or are
\* deleted.
LEMMA PagesStayTrue ==
  ASSUME SeriesHold, DOMAIN series \subseteq DOMAIN series',
         \A k \in Clients : clients'[k] = clients[k] \/ clients'[k] = Away,
         \A i \in DOMAIN series :
           \/ series'[i] = series[i] /\ marks'[i] = marks[i]
           \/ series'[i].version > series[i].version /\ series'[i].version \in Nat
           \/ series'[i].version = series[i].version /\ ~series'[i].live
  PROVE  PagesAreTrue'
<1>1. SeriesTypeOK /\ PagesAreTrue
  BY DEF SeriesHold
<1>2. ASSUME NEW k \in Clients, clients'[k].step = "page"
      PROVE  LET i == clients[k].id
             IN  /\ clients'[k] = clients[k]
                 /\ clients[k].row.version <= series'[i].version
                 /\ series'[i].live /\ series'[i].version = clients[k].row.version =>
                      series'[i] = clients[k].row /\ marks'[i] = clients[k].marks
  <2>1. clients'[k] = clients[k] /\ clients[k].step = "page"
    BY <1>2 DEF Away
  <2>2. clients[k] \in SeriesPage
    BY <1>1, <2>1, SeriesRows DEF Away
  <2>3. clients[k].id \in DOMAIN series /\ clients[k].row \in SeriesRow
    BY <2>2 DEF SeriesPage
  <2>4. PICK i \in DOMAIN series : i = clients[k].id
    BY <2>3
  <2>5. /\ clients[k].row.version <= series[i].version
        /\ series[i].live /\ series[i].version = clients[k].row.version =>
             series[i] = clients[k].row /\ marks[i] = clients[k].marks
    BY <1>1, <2>1, <2>4 DEF PagesAreTrue
  <2>6. series[i].version \in Nat /\ clients[k].row.version \in Nat
    <3>1. \A row \in SeriesRow : row.version \in 1 .. MaxEdition + 2
      BY DEF SeriesRow
    <3>2. series[i] \in SeriesRow
      BY <1>1, <2>4, SeriesRows
    <3>3. /\ series[i].version \in 1 .. MaxEdition + 2
          /\ clients[k].row.version \in 1 .. MaxEdition + 2
      BY <2>3, <3>1, <3>2
    <3> QED
      BY <3>3
  <2>7. CASE series'[i] = series[i] /\ marks'[i] = marks[i]
    BY <2>1, <2>4, <2>5, <2>7
  <2>8. CASE series'[i].version > series[i].version /\ series'[i].version \in Nat
    BY <2>1, <2>4, <2>5, <2>6, <2>8
  <2>9. CASE series'[i].version = series[i].version /\ ~series'[i].live
    BY <2>1, <2>4, <2>5, <2>9
  <2> QED
    BY <2>7, <2>8, <2>9
<1> QED
  BY <1>2 DEF PagesAreTrue

\* A request has come to its end.
LEMMA Left ==
  ASSUME SeriesTypeOK, NEW k \in Clients, Leave(k), DOMAIN series \subseteq DOMAIN series'
  PROVE  /\ clients' \in [Clients -> {Away} \cup [step : {"page"}, id : DOMAIN series',
                                                  row : SeriesRow, marks : Marks]]
         /\ clients'[k] = Away
         /\ \A j \in Clients \ {k} : clients'[j] = clients[j]
<1>1. /\ clients' = [clients EXCEPT ![k] = Away]
      /\ clients \in [Clients -> {Away} \cup SeriesPage]
  BY DEF Leave, SeriesTypeOK, SeriesPage
<1>2. SeriesPage \subseteq [step : {"page"}, id : DOMAIN series', row : SeriesRow, marks : Marks]
  BY DEF SeriesPage
<1> QED
  BY <1>1, <1>2

\* The row of a series is saved, with the mark of a day or without.
LEMMA SavingKeepsSeries ==
  ASSUME SeriesHold, NEW k \in Clients, NEW i \in DOMAIN series, Current(k, i), Leave(k),
         NEW saved \in SeriesRow, NEW mark \in Marks, NEW told,
         series' = [series EXCEPT ![i] = saved],
         marks' = [marks EXCEPT ![i] = mark],
         announced' = announced \cup told,
         \/ saved.version = series[i].version + 1
         \/ saved.version = series[i].version /\ ~saved.live /\ told = {},
         \/ told = {}
         \/ \E event \in {"published", "changed", "cancelled"} :
              told = {[series |-> i, event |-> event, version |-> saved.version]},
         saved.status \in {series[i].status, "completed", "cancelled"},
         \A t \in Times, d \in Days : mark[t][d] = marks[i][t][d] \/ mark[t][d] # "none",
         saved.scope = "group" /\ told = {} => IsCompletion(i)
  PROVE  KeepsSeries
<1>1. SeriesTypeOK /\ PagesAreTrue /\ KeysAreOld
  BY DEF SeriesHold
<1>2. /\ clients[k] \in SeriesPage /\ clients[k].id = i
      /\ series[i] = clients[k].row /\ marks[i] = clients[k].marks
      /\ series[i] \in SeriesRow /\ marks[i] \in Marks
      /\ series[i].version \in 1 .. MaxEdition - 1 /\ i \in 1 .. Len(series)
  BY CurrentIsSeen
<1>3. /\ series' \in Seq(SeriesRow) /\ Len(series') = Len(series) /\ series'[i] = saved
      /\ \A j \in 1 .. Len(series) : j # i => series'[j] = series[j]
  BY <1>1, <1>2, SeriesRows, ExceptSeq
<1>4. /\ marks' \in Seq(Marks) /\ Len(marks') = Len(marks) /\ marks'[i] = mark
      /\ \A j \in 1 .. Len(series) : j # i => marks'[j] = marks[j]
  BY <1>1, <1>2, SeriesRows, ExceptSeq
<1>5. DOMAIN series' = DOMAIN series /\ DOMAIN series = 1 .. Len(series)
  BY <1>1, <1>3, SeriesRows, LenProperties
<1>6. /\ clients' \in [Clients -> {Away} \cup [step : {"page"}, id : DOMAIN series',
                                               row : SeriesRow, marks : Marks]]
      /\ clients'[k] = Away
      /\ \A j \in Clients \ {k} : clients'[j] = clients[j]
  BY <1>1, <1>5, Left
<1>7. saved.version \in Nat /\ saved.version \in 1 .. MaxEdition + 2
  BY DEF SeriesRow
<1>8. told \subseteq Key /\ \A a \in told : a.series = i /\ a.version = saved.version
  BY <1>7 DEF Key
<1>9. SeriesTypeOK'
  <2>1. announced' \subseteq [series : DOMAIN series',
                              event : {"published", "changed", "cancelled"},
                              version : 1 .. MaxEdition + 2]
    BY <1>1, <1>5, <1>8, SeriesRows DEF Key
  <2> QED
    BY <1>1, <1>3, <1>4, <1>6, <2>1 DEF SeriesTypeOK
<1>10. saved.version >= series[i].version
  BY <1>2, <1>7
<1>11. KeysAreOld'
  <2>1. ASSUME NEW a \in announced' PROVE a.version <= series'[a.series].version
    <3>1. CASE a \in told
      BY <1>3, <1>7, <1>8, <3>1
    <3>2. CASE a \in announced
      <4>1. a \in Key /\ a.version <= series[a.series].version
        BY <1>1, <3>2, SeriesRows DEF KeysAreOld
      <4>2. a.version \in Nat /\ a.series \in DOMAIN series
        BY <4>1 DEF Key
      <4>3. CASE a.series = i
        BY <1>2, <1>3, <1>7, <1>10, <4>1, <4>2, <4>3
      <4>4. CASE a.series # i
        BY <1>3, <1>5, <4>1, <4>2, <4>4
      <4> QED
        BY <4>3, <4>4
    <3> QED
      BY <2>1, <3>1, <3>2
  <2> QED
    BY <2>1 DEF KeysAreOld
<1>12. PagesAreTrue'
  <2>1. ASSUME NEW j \in DOMAIN series
        PROVE  \/ series'[j] = series[j] /\ marks'[j] = marks[j]
               \/ series'[j].version > series[j].version /\ series'[j].version \in Nat
               \/ series'[j].version = series[j].version /\ ~series'[j].live
    <3>1. CASE j = i
      <4>1. /\ saved.version \in Nat /\ series[i].version \in Nat
            /\ \/ saved.version = series[i].version + 1
               \/ saved.version = series[i].version /\ ~saved.live
        BY <1>2, <1>7
      <4>2. series'[j] = saved
        BY <1>3, <3>1
      <4> QED
        BY ONLY <3>1, <4>1, <4>2
    <3>2. CASE j # i
      BY <1>3, <1>4, <1>5, <3>2
    <3> QED
      BY <3>1, <3>2
  <2> QED
    BY <1>5, <1>6, <2>1, PagesStayTrue
<1>13. ChangesAreSeen
  <2>1. ASSUME NEW j \in Clients, clients[j].step = "page", clients'[j] = Away
        PROVE  j = k
    BY <1>6, <2>1 DEF Away
  <2> QED
    BY <1>2, <2>1 DEF ChangesAreSeen
<1>14. MarksAreKept
  <2>1. ASSUME NEW n \in DOMAIN series, NEW d \in DaysOf(n),
               Shown(series[n], MarkOf(n, d)) # "active",
               series'[n].time = series[n].time
        PROVE  Shown(series'[n], MarkOf(n, d)') # "active" \/ MarkOf(n, d)' = "rescheduled"
    <3>1. CASE n = i
      <4> DEFINE t == series[i].time
      <4>1. d \in Days
        <5>1. series[n] \in SeriesRow /\ d \in DaysIn(series[n])
          BY <1>2, <2>1, <3>1 DEF DaysOf
        <5>2. PICK row \in SeriesRow : d \in DaysIn(row)
          BY <5>1
        <5>3. row.from \in Days /\ row.until \in 0 .. LastDay
          BY ONLY <5>2 DEF SeriesRow
        <5> QED
          BY <5>2, <5>3 DEF DaysIn, Days
      <4>2. /\ series'[n] = saved /\ MarkOf(n, d)' = mark[t][d]
            /\ MarkOf(n, d) = marks[i][t][d] /\ t \in Times
        BY <1>2, <1>3, <1>4, <2>1, <3>1 DEF MarkOf, SeriesRow
      <4>3. mark[t][d] \in {"none", "rescheduled", "completed", "cancelled"}
        BY <4>1, <4>2 DEF Marks
      <4> HIDE DEF t
      <4>4. CASE mark[t][d] = marks[i][t][d]
        BY <2>1, <3>1, <4>2, <4>4 DEF Shown
      <4>5. CASE mark[t][d] # "none"
        BY <4>2, <4>3, <4>5 DEF Shown
      <4> QED
        BY <4>1, <4>2, <4>4, <4>5
    <3>2. CASE n # i
      BY <1>3, <1>4, <1>5, <2>1, <3>2 DEF MarkOf
    <3> QED
      BY <3>1, <3>2
  <2> QED
    BY <1>5, <2>1 DEF MarksAreKept
<1>15. DaysAreDivided
  BY <1>5 DEF DaysAreDivided
<1>16. TellsTruly
  <2>1. ASSUME told # {} PROVE Told = told /\ WasChanged(i) /\ \E a \in told : a.series = i
    <3>1. saved.version = series[i].version + 1
      BY <2>1
    <3>2. saved # series[i]
      BY <1>2, <3>1
    <3>3. \A a \in announced : a \notin told
      <4>1. ASSUME NEW a \in announced, a \in told PROVE FALSE
        <5>1. a.series = i /\ a.version = saved.version /\ a.version <= series[a.series].version
          BY <1>1, <1>8, <4>1 DEF KeysAreOld
        <5> QED
          BY <1>2, <3>1, <5>1
      <4> QED
        BY <4>1
    <3> QED
      BY <1>3, <1>8, <2>1, <3>2, <3>3 DEF Told, WasChanged
  <2>2. told = {} => Told = {}
    BY DEF Told
  <2>3. ASSUME NEW n \in DOMAIN series, WasChanged(n), series'[n].scope = "group"
        PROVE  IsCompletion(n) \/ \E a \in Told : a.series = n
    <3>1. n = i
      BY <1>3, <1>4, <1>5, <2>3 DEF WasChanged
    <3>2. CASE told # {}
      BY <2>1, <3>1, <3>2
    <3>3. CASE told = {}
      BY <1>3, <2>3, <3>1, <3>3
    <3> QED
      BY <3>2, <3>3
  <2>4. ASSUME NEW a \in Told PROVE WasChanged(a.series)
    BY <1>8, <2>1, <2>2
  <2> QED
    BY <2>3, <2>4 DEF TellsTruly
<1> QED
  BY <1>9, <1>11, <1>12, <1>13, <1>14, <1>15, <1>16 DEF KeepsSeries, SeriesHold

\* A day divides an interval, and adds nothing if it is in it.
LEMMA DayDividesInterval ==
  ASSUME NEW lo \in Nat, NEW hi \in Nat, NEW d \in Nat
  PROVE  /\ \A e \in lo .. d - 1 : e < d
         /\ \A e \in lo .. hi : e < d => e \in lo .. d - 1
         /\ lo .. hi \subseteq (lo .. d - 1) \cup (d .. hi)
         /\ d \in lo .. hi => (lo .. d - 1) \cup (d .. hi) = lo .. hi
OBVIOUS

\* What a split at day d leaves of series i, and what it splits off.
IsRest(old, i, d) ==
  /\ old \in SeriesRow /\ old.version > series[i].version
  /\ old.from = series[i].from /\ old.until = d - 1 /\ old.time = series[i].time
  /\ old.live = series[i].live /\ old.recurs = series[i].recurs
  /\ old.status = series[i].status /\ old.scope = series[i].scope

IsFuture(new, i, d) ==
  /\ new \in SeriesRow /\ new.live /\ new.origin = i /\ new.cut = d
  /\ new.recurs \/ new.until = 0
  /\ new.status \in {series[i].status, "completed", "cancelled"}

\* The future of a series is split off: the old row ends the day before, and
\* the new row starts without marks.
LEMMA SplitKeepsSeries ==
  ASSUME SeriesHold, NEW k \in Clients, NEW i \in DOMAIN series,
         NEW t \in Times, NEW d \in Days,
         NEW old, NEW new, NEW told,
         Split(k, i, t, old, new), announced' = announced \cup told,
         IsRest(old, i, d), IsFuture(new, i, d),
         \/ told = {}
         \/ \E event \in {"published", "changed", "cancelled"} :
              told = {[series |-> Len(series) + 1, event |-> event,
                       version |-> new.version]},
         series[i].scope = "group" /\ told = {} =>
           /\ new.status = "completed"
           /\ old = [series[i] EXCEPT !.until = d - 1, !.version = @ + 2]
  PROVE  KeepsSeries
<1> DEFINE n == Len(series) + 1
<1>0. /\ Current(k, i) /\ series[i].recurs /\ series[i].live /\ Len(series) < MaxSeries
      /\ series' = Append([series EXCEPT ![i] = old], new)
      /\ marks' = Append(marks, NoMarks) /\ Leave(k)
      /\ old \in SeriesRow /\ new \in SeriesRow
      /\ old.from = series[i].from /\ old.until = d - 1 /\ old.live /\ old.recurs
      /\ old.time = series[i].time
      /\ old.status = series[i].status /\ old.scope = series[i].scope
      /\ old.version > series[i].version
      /\ new.live /\ (new.recurs \/ new.until = 0) /\ new.origin = i /\ new.cut = d
      /\ new.status \in {series[i].status, "completed", "cancelled"}
  BY DEF Split, Current, IsRest, IsFuture
<1> USE <1>0
<1>1. SeriesTypeOK /\ PagesAreTrue /\ KeysAreOld
  BY DEF SeriesHold
<1>2. /\ clients[k] \in SeriesPage /\ clients[k].id = i
      /\ series[i] = clients[k].row /\ marks[i] = clients[k].marks
      /\ series[i] \in SeriesRow /\ marks[i] \in Marks
      /\ series[i].version \in 1 .. MaxEdition - 1 /\ i \in 1 .. Len(series)
  BY CurrentIsSeen
<1>3. /\ series \in Seq(SeriesRow) /\ Len(series) \in Nat /\ DOMAIN series = 1 .. Len(series)
      /\ marks \in Seq(Marks) /\ Len(marks) = Len(series) /\ DOMAIN marks = DOMAIN series
  BY <1>1, SeriesRows
<1>4. /\ series' \in Seq(SeriesRow) /\ Len(series') = n
      /\ series'[n] = new /\ series'[i] = old
      /\ \A j \in 1 .. Len(series) : j # i => series'[j] = series[j]
  <2> DEFINE cut == [series EXCEPT ![i] = old]
  <2>1. /\ cut \in Seq(SeriesRow) /\ Len(cut) = Len(series) /\ cut[i] = old
        /\ \A j \in 1 .. Len(series) : j # i => cut[j] = series[j]
    BY <1>2, <1>3, ExceptSeq
  <2>2. series' = Append(cut, new)
    BY <1>0
  <2> HIDE DEF cut
  <2> DEFINE longer == Append(cut, new)
  <2>3. /\ longer \in Seq(SeriesRow) /\ Len(longer) = Len(cut) + 1
        /\ longer[Len(cut) + 1] = new
        /\ \A j \in 1 .. Len(cut) : longer[j] = cut[j]
    <3>1. cut \in Seq(SeriesRow) /\ new \in SeriesRow
      BY <2>1
    <3> QED
      BY ONLY <3>1, AppendProperties
  <2>4. series' = longer
    BY <2>2
  <2> HIDE DEF longer
  <2>5. n = Len(cut) + 1 /\ i \in 1 .. Len(cut) /\ 1 .. Len(cut) = 1 .. Len(series)
    BY <1>2, <2>1
  <2> QED
    BY ONLY <2>1, <2>3, <2>4, <2>5
<1>5. /\ marks' \in Seq(Marks) /\ Len(marks') = n /\ marks'[n] = NoMarks
      /\ \A j \in 1 .. Len(series) : marks'[j] = marks[j]
  <2>1. NoMarks \in Marks
    BY DEF NoMarks, Marks
  <2> QED
    BY <1>0, <1>3, <2>1, AppendProperties
<1>6. /\ DOMAIN series' = 1 .. n /\ DOMAIN series \subseteq DOMAIN series'
      /\ DOMAIN series' \ DOMAIN series = {n} /\ n \notin DOMAIN series /\ n # i
  <2>1. DOMAIN series' = 1 .. n
    BY <1>4, LenProperties
  <2> QED
    BY <1>2, <1>3, <2>1
<1>7. /\ clients' \in [Clients -> {Away} \cup [step : {"page"}, id : DOMAIN series',
                                               row : SeriesRow, marks : Marks]]
      /\ clients'[k] = Away
      /\ \A j \in Clients \ {k} : clients'[j] = clients[j]
  BY <1>0, <1>1, <1>6, Left
<1>8. /\ \A row \in SeriesRow : row.version \in 1 .. MaxEdition + 2
      /\ \A row \in SeriesRow : row.from \in Days /\ row.until \in 0 .. LastDay
  BY DEF SeriesRow
<1>9. /\ new.version \in Nat /\ new.version \in 1 .. MaxEdition + 2
      /\ old.version \in Nat /\ series[i].version \in Nat
  <2>1. /\ new.version \in 1 .. MaxEdition + 2 /\ old.version \in 1 .. MaxEdition + 2
        /\ series[i].version \in 1 .. MaxEdition + 2
    BY <1>2, <1>8
  <2> QED
    BY <2>1
<1>10. \A a \in told : /\ a.series = n /\ a.version = new.version
                       /\ a \in [series : DOMAIN series',
                                 event : {"published", "changed", "cancelled"},
                                 version : 1 .. MaxEdition + 2]
  BY <1>6, <1>9
<1>11. SeriesTypeOK'
  <2>1. announced' \subseteq [series : DOMAIN series',
                              event : {"published", "changed", "cancelled"},
                              version : 1 .. MaxEdition + 2]
    BY <1>3, <1>6, <1>10, SeriesRows, <1>1 DEF Key
  <2>2. n <= MaxSeries
    BY <1>0, <1>3
  <2> QED
    BY <1>4, <1>5, <1>7, <2>1, <2>2 DEF SeriesTypeOK
<1>12. KeysAreOld'
  <2>1. ASSUME NEW a \in announced' PROVE a.version <= series'[a.series].version
    <3>1. CASE a \in told
      BY <1>4, <1>9, <1>10, <3>1
    <3>2. CASE a \in announced
      <4>1. a \in Key /\ a.version <= series[a.series].version
        BY <1>1, <3>2, SeriesRows DEF KeysAreOld
      <4>2. a.version \in Nat /\ a.series \in DOMAIN series
        BY <4>1 DEF Key
      <4>3. CASE a.series = i
        BY <1>4, <1>9, <4>1, <4>2, <4>3
      <4>4. CASE a.series # i
        BY <1>3, <1>4, <4>1, <4>2, <4>4
      <4> QED
        BY <4>3, <4>4
    <3> QED
      BY <2>1, <3>1, <3>2
  <2> QED
    BY <2>1 DEF KeysAreOld
<1>13. PagesAreTrue'
  <2>1. ASSUME NEW j \in DOMAIN series
        PROVE  \/ series'[j] = series[j] /\ marks'[j] = marks[j]
               \/ series'[j].version > series[j].version /\ series'[j].version \in Nat
    <3>1. CASE j = i
      BY <1>4, <1>9, <3>1
    <3>2. CASE j # i
      BY <1>3, <1>4, <1>5, <3>2
    <3> QED
      BY <3>1, <3>2
  <2>2. \A j \in Clients : clients'[j] = clients[j] \/ clients'[j] = Away
    BY <1>7
  <2> QED
    BY <1>6, <2>1, <2>2, PagesStayTrue
<1>14. ChangesAreSeen
  <2>1. ASSUME NEW j \in Clients, clients[j].step = "page", clients'[j] = Away
        PROVE  j = k
    BY <1>7, <2>1 DEF Away
  <2> QED
    BY <1>2, <2>1 DEF ChangesAreSeen
<1>15. MarksAreKept
  <2>1. ASSUME NEW m \in DOMAIN series, NEW e \in DaysOf(m),
               Shown(series[m], MarkOf(m, e)) # "active"
        PROVE  Shown(series'[m], MarkOf(m, e)') # "active"
    <3>1. CASE m = i
      <4>1. MarkOf(m, e)' = MarkOf(m, e) /\ series'[m].status = series[m].status
        BY <1>2, <1>4, <1>5, <3>1 DEF MarkOf
      <4> QED
        BY <2>1, <4>1 DEF Shown
    <3>2. CASE m # i
      BY <1>3, <1>4, <1>5, <2>1, <3>2 DEF MarkOf
    <3> QED
      BY <3>1, <3>2
  <2>2. ASSUME NEW m \in DOMAIN series, NEW e \in DaysOf(m),
               Shown(series[m], MarkOf(m, e)) # "active", series'[n].origin = m,
               MarkOf(m, e) = "none"
        PROVE  Shown(series'[n], marks'[n][new.time][e]) # "active"
    <3>1. m = i
      BY <1>4, <2>2
    <3>2. series[i].status # "active"
      BY <2>2, <3>1 DEF Shown
    <3>3. e \in Days
      <4>1. series[i].from \in Days /\ series[i].until \in 0 .. LastDay
        BY <1>2, <1>8
      <4>2. e \in series[i].from .. series[i].until
        BY <1>0, <2>2, <3>1 DEF DaysOf, DaysIn
      <4> QED
        BY <4>1, <4>2 DEF Days
    <3>4. marks'[n][new.time][e] = "none"
      <4>1. new.time \in Times
        BY DEF SeriesRow
      <4>2. NoMarks[new.time][e] = "none"
        BY <3>3, <4>1 DEF NoMarks
      <4> QED
        BY <1>5, <4>2
    <3> QED
      BY <1>4, <3>2, <3>4 DEF Shown
  <2>4. \A j \in DOMAIN series' : j \notin DOMAIN series => j = n
    BY <1>6
  <2>5. ASSUME NEW m \in DOMAIN series, NEW e \in DaysOf(m),
               Shown(series[m], MarkOf(m, e)) # "active", NEW j \in DOMAIN series'
        PROVE  \/ ~(j = m \/ (series'[j].origin = m /\ j \notin DOMAIN series))
               \/ Shown(series'[j], MarkOf(j, e)') # "active"
               \/ j # m /\ MarkOf(m, e) # "none"
    <3>1. CASE j = m
      BY <2>1, <2>5, <3>1
    <3>2. CASE j # m /\ series'[j].origin = m /\ j \notin DOMAIN series
      <4>1. j = n
        BY <2>4, <3>2
      <4>2. CASE MarkOf(m, e) = "none"
        <5>1. Shown(series'[n], marks'[n][new.time][e]) # "active"
          BY <2>2, <2>5, <3>2, <4>1, <4>2
        <5>2. MarkOf(j, e)' = marks'[n][new.time][e]
          BY <1>4, <4>1 DEF MarkOf
        <5> QED
          BY <4>1, <5>1, <5>2
      <4> QED
        BY <3>2, <4>2
    <3> QED
      BY <3>1, <3>2
  <2> QED
    BY <2>5 DEF MarksAreKept
<1>16. DaysAreDivided
  <2> DEFINE Both == DaysIn(series'[i]) \cup DaysIn(series'[n])
  <2>1. /\ DaysOf(i) = series[i].from .. series[i].until
        /\ DaysIn(series'[i]) = series[i].from .. d - 1
    BY <1>0, <1>4 DEF DaysOf, DaysIn
  <2>2. series[i].from \in Nat \ {0} /\ series[i].until \in Nat /\ d \in Nat
    <3>1. series[i].from \in Days /\ series[i].until \in 0 .. LastDay
      BY <1>2, <1>8
    <3> QED
      BY <3>1 DEF Days
  <2>3. /\ \A e \in series[i].from .. d - 1 : e < d
        /\ \A e \in series[i].from .. series[i].until : e < d => e \in series[i].from .. d - 1
        /\ series[i].from .. series[i].until \subseteq
             (series[i].from .. d - 1) \cup (d .. series[i].until)
        /\ d \in series[i].from .. series[i].until =>
             (series[i].from .. d - 1) \cup (d .. series[i].until) =
               series[i].from .. series[i].until
    BY <2>2, DayDividesInterval
  <2>4. ASSUME series'[n].from = d, series'[n].until = series[i].until
        PROVE  DaysOf(i) \subseteq Both /\ (d \in DaysOf(i) => Both = DaysOf(i))
    <3>1. CASE new.recurs
      <4>1. DaysIn(series'[n]) = d .. series[i].until
        BY <1>4, <2>4, <3>1 DEF DaysIn
      <4> QED
        BY ONLY <2>1, <2>3, <4>1
    <3>2. CASE new.until = 0
      <4>1. series[i].from .. series[i].until = {}
        BY <1>4, <2>2, <2>4, <3>2
      <4> QED
        BY ONLY <2>1, <4>1
    <3> QED
      BY <3>1, <3>2
  <2>5. \A e \in DaysIn(series'[i]) : e < d
    BY ONLY <2>1, <2>3
  <2>6. \A e \in DaysOf(i) : e < d => e \in DaysIn(series'[i])
    BY ONLY <2>1, <2>3
  <2>7. \A j \in DOMAIN series' \ DOMAIN series :
          j = n /\ series'[j].origin = i /\ series'[j].cut = d
    BY <1>4, <1>6
  <2> QED
    BY <2>4, <2>5, <2>6, <2>7, Zenon DEF DaysAreDivided
<1>17. TellsTruly
  <2>1. told \subseteq Told
    <3>1. \A a \in announced : a.series \in DOMAIN series
      BY <1>1, SeriesRows DEF Key
    <3> QED
      BY <1>6, <1>10, <3>1 DEF Told
  <2>2. ASSUME NEW m \in DOMAIN series, WasChanged(m), series'[m].scope = "group"
        PROVE  IsCompletion(m) \/ \E a \in Told : a.series \notin DOMAIN series
    <3>1. m = i
      BY <1>3, <1>4, <1>5, <2>2 DEF WasChanged
    <3>2. CASE told # {}
      BY <1>6, <1>10, <2>1, <3>2
    <3>3. CASE told = {}
      <4>1. /\ new.status = "completed"
            /\ old = [series[i] EXCEPT !.until = d - 1, !.version = @ + 2]
        BY <1>4, <2>2, <3>1, <3>3
      <4>2. /\ n \in DOMAIN series' \ DOMAIN series /\ marks'[i] = marks[i]
            /\ series'[n].origin = i /\ series'[n].status = "completed"
            /\ series'[n].cut = d /\ series'[i] = old
        BY <1>0, <1>2, <1>4, <1>5, <1>6, <4>1
      <4>3. series'[i] = [series[i] EXCEPT !.until = series'[n].cut - 1, !.version = @ + 2]
        BY <4>1, <4>2
      <4> QED
        BY ONLY <3>1, <4>2, <4>3 DEF IsCompletion
    <3> QED
      BY <3>2, <3>3
  <2>3. ASSUME NEW a \in Told PROVE a.series \notin DOMAIN series
    BY <1>6, <1>10 DEF Told
  <2> QED
    BY <2>2, <2>3 DEF TellsTruly
<1> QED
  BY <1>11, <1>12, <1>13, <1>14, <1>15, <1>16, <1>17 DEF KeepsSeries, SeriesHold

\* A page is opened or left, and nothing else happens; or an event that takes
\* place once is announced again.
LEMMA PagesKeepSeries ==
  ASSUME SeriesHold, series' = series, marks' = marks,
         NEW told, announced' = announced \cup told,
         \A a \in told : /\ a \in Key /\ a.version = series[a.series].version
                         /\ ~series[a.series].recurs /\ a.event = "changed",
         NEW k \in Clients, NEW page \in {Away} \cup SeriesPage,
         page = Away \/ (/\ page.row = series[page.id]
                         /\ page.marks = marks[page.id]),
         clients' = [clients EXCEPT ![k] = page]
  PROVE  KeepsSeries
<1>1. SeriesTypeOK /\ PagesAreTrue /\ KeysAreOld
  BY DEF SeriesHold
<1>2. clients \in [Clients -> {Away} \cup SeriesPage]
  BY <1>1 DEF SeriesTypeOK, SeriesPage
<1>3. /\ clients' \in [Clients -> {Away} \cup SeriesPage]
      /\ clients'[k] = page /\ \A j \in Clients \ {k} : clients'[j] = clients[j]
  BY <1>2
<1>4. SeriesTypeOK'
  BY <1>1, <1>3, SeriesRows DEF SeriesTypeOK, SeriesPage, Key
<1>5. \A a \in Key : a.version \in Nat
  BY DEF Key
<1>6. KeysAreOld'
  BY <1>1, <1>5, SeriesRows DEF KeysAreOld
<1>7. PagesAreTrue'
  <2>1. \A row \in SeriesRow : row.version \in Nat
    BY DEF SeriesRow
  <2>2. ASSUME NEW j \in Clients, clients'[j].step = "page"
        PROVE  LET i == clients'[j].id
               IN  /\ clients'[j].row.version <= series[i].version
                   /\ series[i].live /\ series[i].version = clients'[j].row.version =>
                        series[i] = clients'[j].row /\ marks[i] = clients'[j].marks
    <3>1. CASE j # k
      BY <1>1, <1>3, <2>2, <3>1 DEF PagesAreTrue
    <3>2. CASE j = k
      <4>1. page \in SeriesPage /\ page.row = series[page.id] /\ page.marks = marks[page.id]
        BY <1>3, <2>2, <3>2 DEF Away
      <4>2. page.row \in SeriesRow
        BY <4>1 DEF SeriesPage
      <4> QED
        BY <1>3, <2>1, <3>2, <4>1, <4>2
    <3> QED
      BY <3>1, <3>2
  <2> QED
    BY <2>2 DEF PagesAreTrue
<1>8. ChangesAreSeen /\ DaysAreDivided /\ MarksAreKept
  <2>1. ChangesAreSeen /\ DaysAreDivided
    BY DEF ChangesAreSeen, DaysAreDivided
  <2>2. \A j, d : MarkOf(j, d)' = MarkOf(j, d)
    BY DEF MarkOf
  <2> QED
    BY <2>1, <2>2 DEF MarksAreKept
<1>9. TellsTruly
  BY DEF TellsTruly, WasChanged, Told
<1> QED
  BY <1>4, <1>6, <1>7, <1>8, <1>9 DEF KeepsSeries, SeriesHold

\* The row of a series is saved one version later.
LEMMA SaveKeepsSeries ==
  ASSUME SeriesHold, NEW k \in Clients, NEW i \in DOMAIN series, Current(k, i), Leave(k),
         NEW row \in SeriesRow, row.version = series[i].version,
         row.status \in {series[i].status, "completed", "cancelled"},
         NEW mark \in Marks, marks' = [marks EXCEPT ![i] = mark],
         \A t \in Times, d \in Days : mark[t][d] = marks[i][t][d] \/ mark[t][d] # "none",
         NEW event \in {"published", "changed", "cancelled", "none"},
         SaveSeries(i, row, event),
         row.scope = "group" /\ event = "none" => IsCompletion(i)
  PROVE  KeepsSeries
<1> DEFINE saved == [row EXCEPT !.version = @ + 1]
<1>1. series[i].version \in 1 .. MaxEdition - 1
  BY CurrentIsSeen
<1>2. row.version + 1 \in 1 .. MaxEdition + 2
  BY <1>1
<1>3. /\ saved \in SeriesRow /\ saved.version = series[i].version + 1
      /\ saved.status = row.status /\ saved.scope = row.scope
  BY <1>2 DEF SeriesRow
<1> DEFINE told == IF event = "none" THEN {} ELSE Announcement(i, saved, event)
<1>4. series' = [series EXCEPT ![i] = saved] /\ announced' = announced \cup told
  BY DEF SaveSeries
<1>5. \/ told = {}
      \/ \E e \in {"published", "changed", "cancelled"} :
           told = {[series |-> i, event |-> e, version |-> saved.version]}
  BY DEF Announcement
<1>6. saved.scope = "group" /\ told = {} => IsCompletion(i)
  BY <1>3 DEF Announcement
<1> HIDE DEF saved, told
<1> QED
  BY <1>3, <1>4, <1>5, <1>6, SavingKeepsSeries

\* The marks of a series stay, or a key gets one.
LEMMA MarksOfASeries ==
  ASSUME SeriesHold, NEW i \in DOMAIN series
  PROVE  /\ marks[i] \in Marks /\ marks = [marks EXCEPT ![i] = marks[i]]
<1>1. SeriesTypeOK
  BY DEF SeriesHold
<1>2. /\ marks \in Seq(Marks) /\ DOMAIN marks = DOMAIN series /\ marks[i] \in Marks
  BY <1>1, SeriesRows
<1>3. marks = [j \in DOMAIN marks |-> marks[j]]
  BY <1>2, SeqDef
<1> QED
  BY <1>2, <1>3

\* A page opens, or its version is not that of the series any more.
LEMMA OpenAndRefuseKeepSeries ==
  ASSUME SeriesHold, NEW k \in Clients
  PROVE  /\ \A i \in DOMAIN series : OpenSeries(k, i) => KeepsSeries
         /\ RefuseStale(k) => KeepsSeries
<1>1. SeriesTypeOK
  BY DEF SeriesHold
<1> DEFINE told == {}
<1>2. /\ announced = announced \cup told /\ Away \in {Away} \cup SeriesPage
      /\ \A a \in told : /\ a \in Key /\ a.version = series[a.series].version
                         /\ ~series[a.series].recurs /\ a.event = "changed"
  OBVIOUS
<1> HIDE DEF told
<1>3. ASSUME NEW i \in DOMAIN series, OpenSeries(k, i) PROVE KeepsSeries
  <2> DEFINE page == [step |-> "page", id |-> i, row |-> series[i], marks |-> marks[i]]
  <2>1. page \in SeriesPage /\ page.id = i /\ page.row = series[i] /\ page.marks = marks[i]
    BY <1>1, SeriesRows DEF SeriesPage
  <2>2. /\ series' = series /\ marks' = marks /\ announced' = announced \cup told
        /\ clients' = [clients EXCEPT ![k] = page]
    BY <1>2, <1>3 DEF OpenSeries
  <2> HIDE DEF page
  <2> QED
    BY <1>2, <2>1, <2>2, PagesKeepSeries
<1>4. ASSUME RefuseStale(k) PROVE KeepsSeries
  <2>1. /\ series' = series /\ marks' = marks /\ announced' = announced \cup told
        /\ clients' = [clients EXCEPT ![k] = Away]
    BY <1>2, <1>4 DEF RefuseStale, Leave
  <2> QED
    BY <1>2, <2>1, PagesKeepSeries
<1> QED
  BY <1>3, <1>4

\* create_schedule
LEMMA CreateKeepsSeries ==
  ASSUME SeriesHold, CollectionRequest
  PROVE  KeepsSeries
<1>1. PICK scope \in {"personal", "group"}, time \in Times, title \in Wordings,
           from \in Days, until \in {0} \cup Days : CreateSeries(scope, time, from, until, title)
  BY DEF CollectionRequest, Days
<1> DEFINE row == [scope |-> scope, time |-> time, from |-> from, until |-> until,
                   recurs |-> until # 0, title |-> title, status |-> "active",
                   version |-> 1, live |-> TRUE, origin |-> 0, cut |-> 0]
           n == Len(series) + 1
           told == Announcement(n, row, "published")
<1>2. SeriesTypeOK /\ PagesAreTrue /\ KeysAreOld
  BY DEF SeriesHold
<1>3. /\ series' = Append(series, row) /\ marks' = Append(marks, NoMarks)
      /\ announced' = announced \cup told /\ clients' = clients
      /\ Len(series) < MaxSeries
  BY <1>1 DEF CreateSeries
<1>4. /\ row \in SeriesRow /\ row.origin = 0 /\ row.version = 1
  BY DEF SeriesRow, Days
<1>5. \A a \in told : /\ a.series = n /\ a.version = 1
                      /\ a.event = "published"
                      /\ a = [series |-> n, event |-> "published", version |-> 1]
  BY DEF Announcement
<1> HIDE DEF row, told
<1>6. /\ series \in Seq(SeriesRow) /\ Len(series) \in Nat /\ DOMAIN series = 1 .. Len(series)
      /\ marks \in Seq(Marks) /\ Len(marks) = Len(series) /\ DOMAIN marks = DOMAIN series
  BY <1>2, SeriesRows
<1>7. /\ series' \in Seq(SeriesRow) /\ Len(series') = n /\ series'[n] = row
      /\ \A j \in 1 .. Len(series) : series'[j] = series[j]
  BY <1>3, <1>4, <1>6, AppendProperties
<1>8. /\ marks' \in Seq(Marks) /\ Len(marks') = n
      /\ \A j \in 1 .. Len(series) : marks'[j] = marks[j]
  <2>1. NoMarks \in Marks
    BY DEF NoMarks, Marks
  <2> QED
    BY <1>3, <1>6, <2>1, AppendProperties
<1>9. /\ DOMAIN series' = 1 .. n /\ DOMAIN series \subseteq DOMAIN series'
      /\ DOMAIN series' \ DOMAIN series = {n} /\ n \notin DOMAIN series
  <2>1. DOMAIN series' = 1 .. n
    BY <1>7, LenProperties
  <2> QED
    BY <1>6, <2>1
<1>10. SeriesTypeOK'
  <2>1. announced' \subseteq [series : DOMAIN series',
                              event : {"published", "changed", "cancelled"},
                              version : 1 .. MaxEdition + 2]
    <3>1. ASSUME NEW a \in announced'
          PROVE  a \in [series : DOMAIN series', event : {"published", "changed", "cancelled"},
                        version : 1 .. MaxEdition + 2]
      <4>1. CASE a \in announced
        BY <1>2, <1>9, <4>1, SeriesRows DEF Key
      <4>2. CASE a \in told
        BY <1>5, <1>9, <4>2
      <4> QED
        BY <1>3, <4>1, <4>2
    <3> QED
      BY <3>1
  <2>2. clients' \in [Clients -> {Away} \cup [step : {"page"}, id : DOMAIN series',
                                              row : SeriesRow, marks : Marks]]
    <3>1. clients \in [Clients -> {Away} \cup SeriesPage]
      BY <1>2 DEF SeriesTypeOK, SeriesPage
    <3>2. SeriesPage \subseteq
            [step : {"page"}, id : DOMAIN series', row : SeriesRow, marks : Marks]
      BY <1>9 DEF SeriesPage
    <3> QED
      BY <1>3, <3>1, <3>2
  <2>3. n <= MaxSeries
    BY <1>3, <1>6
  <2> QED
    BY <1>7, <1>8, <2>1, <2>2, <2>3 DEF SeriesTypeOK
<1>11. KeysAreOld'
  <2>1. ASSUME NEW a \in announced' PROVE a.version <= series'[a.series].version
    <3>1. CASE a \in told
      BY <1>4, <1>5, <1>7, <3>1
    <3>2. CASE a \in announced
      <4>1. a \in Key /\ a.version <= series[a.series].version
        BY <1>2, <3>2, SeriesRows DEF KeysAreOld
      <4>2. a.series \in 1 .. Len(series)
        BY <1>6, <4>1 DEF Key
      <4> QED
        BY <1>7, <4>1, <4>2
    <3> QED
      BY <1>3, <2>1, <3>1, <3>2
  <2> QED
    BY <2>1 DEF KeysAreOld
<1>12. PagesAreTrue'
  <2>1. \A k \in Clients : clients'[k] = clients[k]
    BY <1>3
  <2>2. \A j \in DOMAIN series : series'[j] = series[j] /\ marks'[j] = marks[j]
    BY <1>6, <1>7, <1>8
  <2> QED
    BY <1>9, <2>1, <2>2, PagesStayTrue
<1>13. ChangesAreSeen
  BY <1>3 DEF ChangesAreSeen, Away
<1>14. MarksAreKept
  <2>1. ASSUME NEW i \in DOMAIN series, NEW j \in DOMAIN series', j \notin DOMAIN series
        PROVE  series'[j].origin # i
    BY <1>4, <1>6, <1>7, <1>9, <2>1
  <2>2. \A j \in DOMAIN series : series'[j] = series[j] /\ marks'[j] = marks[j]
    BY <1>6, <1>7, <1>8
  <2> QED
    BY <2>1, <2>2 DEF MarksAreKept, MarkOf
<1>15. DaysAreDivided
  BY <1>4, <1>7, <1>9 DEF DaysAreDivided
<1>16. TellsTruly
  <2>1. \A j \in DOMAIN series : ~WasChanged(j)
    BY <1>6, <1>7, <1>8 DEF WasChanged
  <2>2. \A a \in Told : a.series \notin DOMAIN series
    BY <1>3, <1>5, <1>9 DEF Told
  <2> QED
    BY <2>1, <2>2 DEF TellsTruly
<1> QED
  BY <1>10, <1>11, <1>12, <1>13, <1>14, <1>15, <1>16 DEF KeepsSeries, SeriesHold

\* Publication, and changes of one occurrence.
LEMMA OneOccurrenceKeepsSeries ==
  ASSUME SeriesHold, NEW k \in Clients, NEW i \in DOMAIN series
  PROVE  /\ Publish(k, i) => KeepsSeries
         /\ \A t \in Times, d \in Days :
              (EditOccurrence(k, i, t, d) \/ CompleteOccurrence(k, i, t, d)
                 \/ CancelOccurrence(k, i, t, d) \/ DeleteOccurrence(k, i, t, d))
              => KeepsSeries
<1>1. /\ series[i] \in SeriesRow /\ marks[i] \in Marks
      /\ marks = [marks EXCEPT ![i] = marks[i]]
  BY SeriesRows, MarksOfASeries DEF SeriesHold
<1>2. ASSUME Publish(k, i) PROVE KeepsSeries
  <2> DEFINE row == [series[i] EXCEPT !.scope = "group"]
  <2>1. /\ row \in SeriesRow /\ row.version = series[i].version
        /\ row.status = series[i].status
    BY <1>1 DEF SeriesRow
  <2>2. /\ Current(k, i) /\ Leave(k) /\ SaveSeries(i, row, "published")
        /\ marks' = [marks EXCEPT ![i] = marks[i]]
    BY <1>1, <1>2 DEF Publish
  <2> HIDE DEF row
  <2> QED
    BY <1>1, <2>1, <2>2, SaveKeepsSeries
<1>3. ASSUME NEW t \in Times, NEW d \in Days, NEW event \in {"changed", "cancelled", "none"},
             NEW status \in {"rescheduled", "completed", "cancelled"},
             Mark(k, i, t, d, status), SaveSeries(i, series[i], event),
             series[i].scope = "group" /\ event = "none" => status = "completed"
      PROVE  KeepsSeries
  <2> DEFINE mark == [marks[i] EXCEPT ![t][d] = status]
  <2>1. /\ mark \in Marks
        /\ \A u \in Times, e \in Days : mark[u][e] = marks[i][u][e] \/ mark[u][e] # "none"
    BY <1>1 DEF Marks
  <2>2. Current(k, i) /\ Leave(k) /\ marks' = [marks EXCEPT ![i] = mark]
    BY <1>3 DEF Mark
  <2>3. PICK row \in SeriesRow : row = series[i]
    BY <1>1
  <2>4. /\ SaveSeries(i, row, event) /\ row.version = series[i].version
        /\ row.status = series[i].status
    BY <1>3, <2>3
  <2>5. row.scope = "group" /\ event = "none" => IsCompletion(i)
    <3>1. SUFFICES ASSUME row.scope = "group", event = "none" PROVE IsCompletion(i)
      OBVIOUS
    <3>2. DOMAIN marks = DOMAIN series
      BY SeriesRows DEF SeriesHold
    <3>3. status = "completed"
      BY <1>3, <2>3, <3>1
    <3>4. /\ marks'[i] = [marks[i] EXCEPT ![t][d] = "completed"]
          /\ series'[i] = [series[i] EXCEPT !.version = @ + 1]
      BY <1>3, <2>2, <3>2, <3>3 DEF SaveSeries
    <3> QED
      BY <3>4 DEF IsCompletion
  <2>6. event \in {"published", "changed", "cancelled", "none"}
    OBVIOUS
  <2>7. row.status \in {series[i].status, "completed", "cancelled"}
    BY <2>4
  <2> HIDE DEF mark
  <2> QED
    BY ONLY SeriesHold, k \in Clients, i \in DOMAIN series, row \in SeriesRow,
            <2>1, <2>2, <2>4, <2>5, <2>6, <2>7, SeriesAssumption, SaveKeepsSeries
<1>4. ASSUME NEW t \in Times, NEW d \in Days,
             \/ EditOccurrence(k, i, t, d) \/ CompleteOccurrence(k, i, t, d)
             \/ CancelOccurrence(k, i, t, d) \/ DeleteOccurrence(k, i, t, d)
      PROVE  KeepsSeries
  <2>1. CASE EditOccurrence(k, i, t, d)
    BY <1>3, <2>1 DEF EditOccurrence
  <2>2. CASE CompleteOccurrence(k, i, t, d)
    BY <1>3, <2>2 DEF CompleteOccurrence
  <2>3. CASE CancelOccurrence(k, i, t, d)
    BY <1>3, <2>3 DEF CancelOccurrence
  <2>4. CASE DeleteOccurrence(k, i, t, d)
    BY <1>3, <2>4 DEF DeleteOccurrence
  <2> QED
    BY <1>4, <2>1, <2>2, <2>3, <2>4
<1> QED
  BY <1>2, <1>4

\* What an edit leaves of a row.
LEMMA EditedRows ==
  ASSUME NEW row \in SeriesRow, NEW edited \in Edits(row)
  PROVE  /\ edited \in SeriesRow /\ edited.version = row.version
         /\ edited.status = row.status /\ edited.scope = row.scope
         /\ edited.live = row.live /\ edited.origin = row.origin /\ edited.cut = row.cut
         /\ row.recurs => edited.recurs \/ edited.until = 0
<1>1. CASE \E title \in Wordings : edited = [row EXCEPT !.title = title]
  BY <1>1 DEF SeriesRow
<1>2. CASE \E key \in Days \X Times : edited = [row EXCEPT !.from = key[1], !.time = key[2]]
  <2>1. PICK key \in Days \X Times : edited = [row EXCEPT !.from = key[1], !.time = key[2]]
    BY <1>2
  <2>2. key[1] \in Days /\ key[2] \in Times
    OBVIOUS
  <2> QED
    BY <2>1, <2>2 DEF SeriesRow
<1>3. CASE \E until \in {0} \cup Days :
             edited = [row EXCEPT !.until = until, !.recurs = until # 0]
  <2>1. PICK until \in {0} \cup Days :
               edited = [row EXCEPT !.until = until, !.recurs = until # 0]
    BY <1>3
  <2>2. until \in 0 .. LastDay
    BY DEF Days
  <2> QED
    BY <2>1, <2>2 DEF SeriesRow
<1> QED
  BY <1>1, <1>2, <1>3 DEF Edits

\* Changes of the whole series.
LEMMA WholeSeriesKeepsSeries ==
  ASSUME SeriesHold, NEW k \in Clients, NEW i \in DOMAIN series
  PROVE  /\ \A edited \in Edits(series[i]) : EditSeries(k, i, edited) => KeepsSeries
         /\ CompleteSeries(k, i) => KeepsSeries
         /\ CancelSeries(k, i) => KeepsSeries
         /\ DeleteSeries(k, i) => KeepsSeries
<1>1. /\ series[i] \in SeriesRow /\ marks[i] \in Marks
      /\ marks = [marks EXCEPT ![i] = marks[i]]
  BY SeriesRows, MarksOfASeries DEF SeriesHold
<1>2. ASSUME NEW edited \in Edits(series[i]), EditSeries(k, i, edited) PROVE KeepsSeries
  <2>1. /\ Current(k, i) /\ Leave(k) /\ SaveSeries(i, edited, "changed")
        /\ marks' = [marks EXCEPT ![i] = marks[i]]
    BY <1>1, <1>2 DEF EditSeries
  <2> QED
    BY <1>1, <2>1, EditedRows, SaveKeepsSeries
<1>3. ASSUME CompleteSeries(k, i) PROVE KeepsSeries
  <2> DEFINE row == [series[i] EXCEPT !.status = "completed"]
  <2>1. row \in SeriesRow /\ row.version = series[i].version /\ row.status = "completed"
    BY <1>1 DEF SeriesRow
  <2>2. /\ Current(k, i) /\ Leave(k) /\ SaveSeries(i, row, "none")
        /\ marks' = [marks EXCEPT ![i] = marks[i]]
    BY <1>1, <1>3 DEF CompleteSeries
  <2>3. IsCompletion(i)
    BY <1>1, <1>3 DEF CompleteSeries, SaveSeries, IsCompletion
  <2> HIDE DEF row
  <2> QED
    BY <1>1, <2>1, <2>2, <2>3, SaveKeepsSeries
<1>4. ASSUME CancelSeries(k, i) PROVE KeepsSeries
  <2> DEFINE row == [series[i] EXCEPT !.status = "cancelled"]
  <2>1. row \in SeriesRow /\ row.version = series[i].version /\ row.status = "cancelled"
    BY <1>1 DEF SeriesRow
  <2>2. /\ Current(k, i) /\ Leave(k) /\ SaveSeries(i, row, "cancelled")
        /\ marks' = [marks EXCEPT ![i] = marks[i]]
    BY <1>1, <1>4 DEF CancelSeries
  <2> HIDE DEF row
  <2> QED
    BY <1>1, <2>1, <2>2, SaveKeepsSeries
<1>5. ASSUME DeleteSeries(k, i) PROVE KeepsSeries
  <2> DEFINE row == [series[i] EXCEPT !.live = FALSE]
             told == {}
  <2>1. /\ row \in SeriesRow /\ row.version = series[i].version
        /\ row.status = series[i].status /\ ~row.live /\ row.scope = "personal"
    BY <1>1, <1>5 DEF SeriesRow, DeleteSeries
  <2>2. /\ Current(k, i) /\ Leave(k) /\ series' = [series EXCEPT ![i] = row]
        /\ marks' = [marks EXCEPT ![i] = marks[i]]
        /\ announced' = announced \cup told /\ told = {}
    BY <1>1, <1>5 DEF DeleteSeries
  <2> HIDE DEF row, told
  <2> QED
    BY <1>1, <2>1, <2>2, SavingKeepsSeries
<1> QED
  BY <1>2, <1>3, <1>4, <1>5

\* The rows that a split leaves: the days before, and a copy.
LEMMA SplitRows ==
  ASSUME SeriesHold, NEW k \in Clients, NEW i \in DOMAIN series, Current(k, i),
         NEW d \in Days
  PROVE  /\ IsRest(Shortened(i, d), i, d)
         /\ Shortened(i, d).version = series[i].version + 1
         /\ \A t \in Times :
              /\ IsFuture(CopyFrom(i, t, d), i, d) \/ ~series[i].recurs
              /\ CopyFrom(i, t, d) \in SeriesRow
              /\ CopyFrom(i, t, d).recurs = series[i].recurs
              /\ CopyFrom(i, t, d).scope = series[i].scope
              /\ CopyFrom(i, t, d).status = series[i].status
<1>1. /\ series[i] \in SeriesRow /\ series[i].version \in 1 .. MaxEdition - 1
      /\ series[i].live
  BY CurrentIsSeen
<1>2. /\ series[i].version + 1 \in 1 .. MaxEdition + 2
      /\ series[i].version + 1 > series[i].version
      /\ d - 1 \in 0 .. LastDay /\ d \in 0 .. LastDay /\ i \in 0 .. MaxSeries
      /\ 1 \in 1 .. MaxEdition + 2
  <2>1. i \in 1 .. MaxSeries
    BY CurrentIsSeen
  <2> QED
    BY <1>1, <2>1 DEF Days
<1>3. IsRest(Shortened(i, d), i, d) /\ Shortened(i, d).version = series[i].version + 1
  BY <1>1, <1>2 DEF Shortened, SeriesRow, IsRest
<1>4. ASSUME NEW t \in Times
      PROVE  /\ CopyFrom(i, t, d) \in SeriesRow /\ CopyFrom(i, t, d).live
             /\ CopyFrom(i, t, d).origin = i /\ CopyFrom(i, t, d).cut = d
             /\ CopyFrom(i, t, d).recurs = series[i].recurs
             /\ CopyFrom(i, t, d).scope = series[i].scope
             /\ CopyFrom(i, t, d).status = series[i].status
  BY <1>1, <1>2 DEF CopyFrom, SeriesRow
<1> QED
  BY <1>3, <1>4 DEF IsFuture

\* update_schedule, complete_schedule and cancel_schedule of the future ones
LEMMA LaterOccurrencesKeepSeries ==
  ASSUME SeriesHold, NEW k \in Clients, NEW i \in DOMAIN series, NEW d \in Days
  PROVE  /\ \A t \in Times :
              /\ \A edited \in Edits(CopyFrom(i, t, d)) :
                   EditFuture(k, i, t, d, edited) => KeepsSeries
              /\ CompleteFuture(k, i, t, d) => KeepsSeries
              /\ CancelFuture(k, i, t, d) => KeepsSeries
         /\ DeleteFuture(k, i, d) => KeepsSeries
<1> DEFINE short == Shortened(i, d)
<1>1. /\ series[i] \in SeriesRow /\ marks[i] \in Marks
      /\ marks = [marks EXCEPT ![i] = marks[i]]
  BY SeriesRows, MarksOfASeries DEF SeriesHold
<1>2. ASSUME Current(k, i) PROVE series[i].version \in 1 .. MaxEdition - 1
  BY <1>2, CurrentIsSeen
<1>3. ASSUME NEW t \in Times, NEW new \in Edits(CopyFrom(i, t, d)),
             EditFuture(k, i, t, d, new)
      PROVE  KeepsSeries
  <2> DEFINE copy == CopyFrom(i, t, d)
             told == Announcement(Len(series) + 1, new, "changed")
  <2>1. /\ Split(k, i, t, short, new) /\ announced' = announced \cup told
        /\ Current(k, i) /\ series[i].recurs
    BY <1>3 DEF EditFuture, Split
  <2>2. /\ IsRest(short, i, d) /\ IsFuture(copy, i, d) /\ copy \in SeriesRow
        /\ copy.recurs /\ copy.scope = series[i].scope /\ new \in Edits(copy)
    BY <2>1, SplitRows
  <2> HIDE DEF copy, short
  <2>3. IsFuture(new, i, d) /\ new.scope = series[i].scope
    BY <2>2, EditedRows DEF IsFuture
  <2>4. /\ \/ told = {}
           \/ \E event \in {"published", "changed", "cancelled"} :
                told = {[series |-> Len(series) + 1, event |-> event,
                         version |-> new.version]}
        /\ series[i].scope = "group" => told # {}
    BY <2>3 DEF Announcement
  <2> HIDE DEF told
  <2> QED
    BY <2>1, <2>2, <2>3, <2>4, SplitKeepsSeries
<1>4. ASSUME NEW t \in Times, CompleteFuture(k, i, t, d) PROVE KeepsSeries
  <2> DEFINE old == [short EXCEPT !.version = @ + 1]
             copy == CopyFrom(i, t, d)
             new == [copy EXCEPT !.status = "completed"]
             told == {}
  <2>1. /\ Split(k, i, t, old, new) /\ announced' = announced \cup told
        /\ Current(k, i) /\ series[i].recurs /\ told = {}
    BY <1>4 DEF CompleteFuture, Split
  <2>2. /\ IsRest(short, i, d) /\ short.version = series[i].version + 1
        /\ IsFuture(copy, i, d)
    BY <2>1, SplitRows
  <2>3. old = [series[i] EXCEPT !.until = d - 1, !.version = @ + 2]
    <3>1. series[i].version \in Nat
      BY <1>2, <2>1
    <3>2. series[i].version + 1 + 1 = series[i].version + 2
      BY <3>1
    <3> QED
      BY <1>1, <3>2 DEF Shortened, SeriesRow
  <2> HIDE DEF short, copy
  <2>4. IsFuture(new, i, d) /\ new.status = "completed"
    BY <2>2 DEF SeriesRow, IsFuture
  <2>5. short.version + 1 \in 1 .. MaxEdition + 2 /\ short.version + 1 > series[i].version
    BY <1>2, <2>1, <2>2
  <2>6. IsRest(old, i, d)
    BY <2>2, <2>5 DEF SeriesRow, IsRest
  <2> HIDE DEF old, new, told
  <2> QED
    BY <2>1, <2>3, <2>4, <2>6, SplitKeepsSeries
<1>5. ASSUME NEW t \in Times, CancelFuture(k, i, t, d) PROVE KeepsSeries
  <2> DEFINE copy == CopyFrom(i, t, d)
             new == [copy EXCEPT !.status = "cancelled", !.version = 2]
             told == Announcement(Len(series) + 1, new, "cancelled")
  <2>1. /\ Split(k, i, t, short, new) /\ announced' = announced \cup told
        /\ Current(k, i) /\ series[i].recurs /\ series[i].scope = "group"
    BY <1>5 DEF CancelFuture, Split
  <2>2. /\ IsRest(short, i, d) /\ IsFuture(copy, i, d) /\ copy.scope = "group"
    BY <2>1, SplitRows
  <2> HIDE DEF short, copy
  <2>3. IsFuture(new, i, d) /\ new.scope = "group" /\ new.version = 2
    <3>1. 2 \in 1 .. MaxEdition + 2
      OBVIOUS
    <3> QED
      BY <2>2, <3>1 DEF SeriesRow, IsFuture
  <2>4. told = {[series |-> Len(series) + 1, event |-> "cancelled", version |-> new.version]}
    BY <2>3 DEF Announcement
  <2>5. told # {} /\ \E event \in {"published", "changed", "cancelled"} :
          told = {[series |-> Len(series) + 1, event |-> event, version |-> new.version]}
    BY <2>4
  <2> HIDE DEF new, told
  <2> QED
    BY <2>1, <2>2, <2>3, <2>5, SplitKeepsSeries
<1>6. ASSUME DeleteFuture(k, i, d) PROVE KeepsSeries
  <2> DEFINE told == {}
  <2>1. /\ Current(k, i) /\ Leave(k) /\ series' = [series EXCEPT ![i] = short]
        /\ marks' = [marks EXCEPT ![i] = marks[i]]
        /\ announced' = announced \cup told /\ told = {}
        /\ series[i].scope = "personal"
    BY <1>1, <1>6 DEF DeleteFuture
  <2> HIDE DEF told, short
  <2>2. /\ short \in SeriesRow /\ short.version = series[i].version + 1
        /\ short.status \in {series[i].status, "completed", "cancelled"}
        /\ short.scope = "personal"
    BY <2>1, SplitRows DEF IsRest, short
  <2> QED
    BY <1>1, <2>1, <2>2, SavingKeepsSeries
<1> QED
  BY <1>3, <1>4, <1>5, <1>6

\* An event that takes place once: its future is announced, or is the whole.
LEMMA FutureOfOneKeepsSeries ==
  ASSUME SeriesHold, NEW k \in Clients, NEW i \in DOMAIN series
  PROVE  /\ EditFutureOfOne(k, i) => KeepsSeries
         /\ CancelFutureOfOne(k, i) => KeepsSeries
         /\ CompleteFutureOfOne(k, i) => KeepsSeries
<1>1. ASSUME EditFutureOfOne(k, i) PROVE KeepsSeries
  <2> DEFINE told == Announcement(i, series[i], "changed")
  <2>1. /\ series' = series /\ marks' = marks /\ announced' = announced \cup told
        /\ clients' = [clients EXCEPT ![k] = Away]
        /\ ~series[i].recurs
    BY <1>1 DEF EditFutureOfOne, Leave
  <2>2. series[i].version \in 1 .. MaxEdition + 2
    BY SeriesRows DEF SeriesHold, SeriesRow
  <2>3. \A a \in told : /\ a \in Key /\ a.version = series[a.series].version
                        /\ ~series[a.series].recurs /\ a.event = "changed"
    BY <2>1, <2>2 DEF Announcement, Key
  <2> HIDE DEF told
  <2>4. Away \in {Away} \cup SeriesPage
    OBVIOUS
  <2> QED
    BY <2>1, <2>3, <2>4, PagesKeepSeries
<1> QED
  BY <1>1, WholeSeriesKeepsSeries DEF CancelFutureOfOne, CompleteFutureOfOne

\* Every step keeps the invariant, and is as the properties say.
LEMMA SeriesStep ==
  ASSUME SeriesHold, [SeriesNext]_seriesVars
  PROVE  SeriesHold' /\ (UNCHANGED seriesVars \/ KeepsSeries)
<1>1. CASE CollectionRequest
  BY <1>1, CreateKeepsSeries DEF KeepsSeries
<1>2. ASSUME NEW k \in Clients, RefuseStale(k) PROVE KeepsSeries
  BY <1>2, OpenAndRefuseKeepSeries
<1>3. ASSUME NEW k \in Clients, NEW i \in DOMAIN series, SeriesRequest(k, i)
      PROVE  KeepsSeries
  <2>1. CASE OpenSeries(k, i)
    BY <2>1, OpenAndRefuseKeepSeries
  <2>2. CASE Publish(k, i)
    BY <2>2, OneOccurrenceKeepsSeries
  <2>3. CASE UpdateRequest(k, i)
    <3>1. CASE EditFutureOfOne(k, i)
      BY <3>1, FutureOfOneKeepsSeries
    <3>2. CASE \E t \in Times, d \in Days : EditOccurrence(k, i, t, d)
      BY <3>2, OneOccurrenceKeepsSeries
    <3>3. CASE \E edited \in Edits(series[i]) : EditSeries(k, i, edited)
      BY <3>3, WholeSeriesKeepsSeries
    <3>4. CASE \E t \in Times, d \in Days :
                 \E edited \in Edits(CopyFrom(i, t, d)) : EditFuture(k, i, t, d, edited)
      BY <3>4, LaterOccurrencesKeepSeries
    <3> QED
      BY <2>3, <3>1, <3>2, <3>3, <3>4 DEF UpdateRequest
  <2>4. CASE DeleteRequest(k, i)
    <3>1. CASE DeleteSeries(k, i)
      BY <3>1, WholeSeriesKeepsSeries
    <3>2. CASE \E t \in Times, d \in Days : DeleteOccurrence(k, i, t, d)
      BY <3>2, OneOccurrenceKeepsSeries
    <3>3. CASE \E d \in Days : DeleteFuture(k, i, d)
      BY <3>3, LaterOccurrencesKeepSeries
    <3> QED
      BY <2>4, <3>1, <3>2, <3>3 DEF DeleteRequest
  <2>5. CASE CompleteRequest(k, i)
    <3>1. CASE CompleteSeries(k, i)
      BY <3>1, WholeSeriesKeepsSeries
    <3>2. CASE CompleteFutureOfOne(k, i)
      BY <3>2, FutureOfOneKeepsSeries
    <3>3. CASE \E t \in Times, d \in Days : CompleteOccurrence(k, i, t, d)
      BY <3>3, OneOccurrenceKeepsSeries
    <3>4. CASE \E t \in Times, d \in Days : CompleteFuture(k, i, t, d)
      BY <3>4, LaterOccurrencesKeepSeries
    <3> QED
      BY <2>5, <3>1, <3>2, <3>3, <3>4 DEF CompleteRequest
  <2>6. CASE CancelRequest(k, i)
    <3>1. CASE CancelSeries(k, i)
      BY <3>1, WholeSeriesKeepsSeries
    <3>2. CASE CancelFutureOfOne(k, i)
      BY <3>2, FutureOfOneKeepsSeries
    <3>3. CASE \E t \in Times, d \in Days : CancelOccurrence(k, i, t, d)
      BY <3>3, OneOccurrenceKeepsSeries
    <3>4. CASE \E t \in Times, d \in Days : CancelFuture(k, i, t, d)
      BY <3>4, LaterOccurrencesKeepSeries
    <3> QED
      BY <2>6, <3>1, <3>2, <3>3, <3>4 DEF CancelRequest
  <2> QED
    BY <1>3, <2>1, <2>2, <2>3, <2>4, <2>5, <2>6 DEF SeriesRequest
<1>4. CASE UNCHANGED seriesVars
  <2>1. SeriesHold'
    BY <1>4 DEF SeriesHold, SeriesTypeOK, PagesAreTrue, KeysAreOld, seriesVars
  <2> QED
    BY <1>4, <2>1
<1> QED
  BY <1>1, <1>2, <1>3, <1>4, CreateKeepsSeries DEF SeriesNext, KeepsSeries

\* There are no series at first.
LEMMA SeriesStart == SeriesInit => SeriesHold
<1> SUFFICES ASSUME SeriesInit PROVE SeriesHold
  OBVIOUS
<1>1. series = << >> /\ marks = << >> /\ announced = {} /\ clients = [k \in Clients |-> Away]
  BY DEF SeriesInit
<1>2. /\ series \in Seq(SeriesRow) /\ marks \in Seq(Marks)
      /\ Len(series) = 0 /\ Len(marks) = 0
  BY <1>1, EmptySeq
<1>3. SeriesTypeOK
  BY <1>1, <1>2 DEF SeriesTypeOK
<1>4. PagesAreTrue /\ KeysAreOld
  BY <1>1 DEF PagesAreTrue, KeysAreOld, Away
<1> QED
  BY <1>3, <1>4 DEF SeriesHold

\* The pages of clients, and the keys of announcements, stay true of their
\* series: whatever changes a series gives it a new version.
THEOREM SeriesStayTrue == SeriesSpec => []SeriesHold
<1>1. SeriesHold /\ [SeriesNext]_seriesVars => SeriesHold'
  BY SeriesStep
<1> QED
  BY <1>1, SeriesStart, PTL DEF SeriesSpec

\* Nobody changes a series that is not as his page shows it.
THEOREM SeriesChangesAreSeen == SeriesSpec => NothingChangesUnseen
<1>1. ASSUME SeriesHold, [SeriesNext]_seriesVars PROVE [ChangesAreSeen]_seriesVars
  BY <1>1, SeriesStep DEF KeepsSeries
<1> QED
  BY <1>1, SeriesStayTrue, PTL DEF SeriesSpec, NothingChangesUnseen, ChangesAreSeen

\* What is done or cancelled stays so, until it is edited itself, its series
\* moves to another time, or a split leaves its mark behind.
THEOREM MarksOutlastChanges == SeriesSpec => OnlySplitsForgetMarks
<1>1. ASSUME SeriesHold, [SeriesNext]_seriesVars PROVE [MarksAreKept]_seriesVars
  BY <1>1, SeriesStep DEF KeepsSeries
<1> QED
  BY <1>1, SeriesStayTrue, PTL DEF SeriesSpec, OnlySplitsForgetMarks, MarksAreKept

\* A split at a day leaves every earlier day to the old series, and the others
\* to the new one; it adds days only if it is not a day of the series.
THEOREM SplitsLoseNoDay == SeriesSpec => SplitsDivideDays
<1>1. ASSUME SeriesHold, [SeriesNext]_seriesVars PROVE [DaysAreDivided]_seriesVars
  BY <1>1, SeriesStep DEF KeepsSeries
<1> QED
  BY <1>1, SeriesStayTrue, PTL DEF SeriesSpec, SplitsDivideDays, DaysAreDivided

\* Changes of group series are announced, each under a key of its own.
THEOREM ChangesAreTold == SeriesSpec => AnnouncementsAreTrue
<1>1. ASSUME SeriesHold, [SeriesNext]_seriesVars PROVE [TellsTruly]_seriesVars
  BY <1>1, SeriesStep DEF KeepsSeries
<1> QED
  BY <1>1, SeriesStayTrue, PTL
  DEF SeriesSpec, AnnouncementsAreTrue, TellsTruly, WasChanged, Told

HIDE SeriesAssumption

-----------------------------------------------------------------------------
(***************************************************************************)
(* The parts together.                                                     *)
(***************************************************************************)

\* Every part behaves in MCProjects as it does alone.
LEMMA ProjectPartsBehave ==
  MCSpec => GovernanceSpec /\ DecisionSpec /\ TaskSpec /\ SeriesSpec
<1>1. MCInit => GovernanceInit /\ DecisionInit /\ TaskInit /\ SeriesInit
  BY DEF MCInit
<1>2. [MCNext]_MCVars =>
        /\ [GovernanceNext]_governanceVars /\ [DecisionNext]_decisionVars
        /\ [TaskNext]_taskVars /\ [SeriesNext]_seriesVars
  BY DEF MCNext, MCVars
<1> QED
  BY <1>1, <1>2, PTL DEF MCSpec, GovernanceSpec, DecisionSpec, TaskSpec, SeriesSpec

\* The rows of a project and of the series keep their types, and the decisions
\* form lines (publish_decision).
THEOREM ProjectRecordsKeepAgreeing == MCSpec => []ProjectRecordsAgree
<1>1. Governed /\ Lines /\ TasksHold /\ SeriesHold /\ SuccessionIsLinear =>
        ProjectRecordsAgree
  BY DEF Governed, Lines, TasksHold, SeriesHold, ProjectRecordsAgree
<1> QED
  BY <1>1, ProjectPartsBehave, AlwaysGoverned, DecisionsFormLines, SuccessionHolds,
     TaskRowsHold, SeriesStayTrue, PTL

\* Series change under the eyes of those who change them, whatever else happens
\* (_assert_version, _split_future, dispatch_group_event).
THEOREM SchedulesAreSeen == MCSpec => ScheduleChangesAreSeen
  BY ProjectPartsBehave, SeriesChangesAreSeen, MarksOutlastChanges, SplitsLoseNoDay,
     ChangesAreTold, PTL DEF ScheduleChangesAreSeen
=============================================================================

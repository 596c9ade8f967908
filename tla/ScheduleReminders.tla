-------------------------- MODULE ScheduleReminders --------------------------
(***************************************************************************)
(* One group event of the calendar, its audience and one of its reminders: *)
(* apps/schedules/audience_services.py, signals.py, reminder_services.py   *)
(* and the parts of services.py that end the event.                        *)
(*                                                                         *)
(* The audience is a project: its active members hold recipient grants.    *)
(* reresolve_audience brings the grants up to date, called by the signal   *)
(* that follows every membership save and by each run of the reminder      *)
(* scan.  It reads the members, then locks and reads the open grants, then *)
(* writes: three steps here, because only the grant rows are locked and    *)
(* READ COMMITTED lets the members change in between.  Locking a row that  *)
(* another transaction is closing waits and then leaves that row out,      *)
(* while a grant opened meanwhile stays unseen until the insert hits the   *)
(* unique constraint; both are in WriteGrants.                             *)
(*                                                                         *)
(* The scan runs in no transaction.  It reads event and grants in advance, *)
(* claims one recipient after the other (each claim commits on its own),   *)
(* and then turns all its claims into notifications in one transaction.    *)
(*                                                                         *)
(* The reminder stays due throughout: the model is about one window.  The  *)
(* announcements of a publication, change, cancellation or removal have    *)
(* dispatches of their own, which nothing here reads; they are left out.   *)
(***************************************************************************)
EXTENDS Integers, FiniteSets

CONSTANTS
  Recipients,   \* accounts that are or may become project members
  Scanners,     \* worker processes running create_due_schedule_reminders
  Requests,     \* web requests changing a membership
  MaxChanges,   \* bound: membership changes
  MaxDeaths     \* bound: runs of the scan killed

ASSUME ReminderAssumption ==
  /\ IsFiniteSet(Recipients)
  /\ Scanners \cap Requests = {}
  /\ MaxChanges \in Nat
  /\ MaxDeaths \in Nat

VARIABLES
  members,    \* accounts with an active membership of the project
  granted,    \* recipients holding an open grant
  given,      \* given[r]: the grants r was given so far, open and closed
  event,      \* ScheduleItem.status: active, or cancelled or completed
  claims,     \* claims[r]: the reminder dispatch of r (in_app channel)
  reminders,  \* reminders[r]: reminder Notification rows for r
  procs,      \* what each process is doing
  changes,    \* membership changes so far
  deaths      \* scans that were killed or died of an exception

vars == <<members, granted, given, event, claims, reminders, procs,
          changes, deaths>>

-----------------------------------------------------------------------------
Processes == Scanners \cup Requests

Claim == {"none", "claimed", "created"}

Step == {"idle", "resolve", "lock", "write", "look", "claim"}

Idle == [step |-> "idle", change |-> {}, evidence |-> {},
         seen |-> [r \in Recipients |-> 0], todo |-> {}, held |-> {}]

Process ==
  [step : Step,
   change : SUBSET Recipients,      \* membership saved but not yet committed
   evidence : SUBSET Recipients,    \* the members reresolve_audience read
   seen : [Recipients -> Nat],      \* the open grants it read
   todo : SUBSET Recipients,        \* recipients the scan still has to claim
   held : SUBSET Recipients]        \* recipients the scan has claimed

TypeOK ==
  /\ members \subseteq Recipients
  /\ granted \subseteq Recipients
  /\ given \in [Recipients -> Nat]
  /\ event \in {"active", "ended"}
  /\ claims \in [Recipients -> Claim]
  /\ reminders \in [Recipients -> 0 .. 1]
  /\ procs \in [Processes -> Process]
  /\ changes \in 0 .. MaxChanges
  /\ deaths \in Nat

\* create_schedule has given every member a grant.
Init ==
  /\ members \in SUBSET Recipients
  /\ granted = members
  /\ given = [r \in Recipients |-> IF r \in members THEN 1 ELSE 0]
  /\ event = "active"
  /\ claims = [r \in Recipients |-> "none"]
  /\ reminders = [r \in Recipients |-> 0]
  /\ procs = [p \in Processes |-> Idle]
  /\ changes = 0
  /\ deaths = 0

At(p, step) == procs[p].step = step

Goto(p, step) == procs' = [procs EXCEPT ![p].step = step]

Finish(p) == procs' = [procs EXCEPT ![p] = Idle]

-----------------------------------------------------------------------------
(***************************************************************************)
(* The event ends.                                                         *)
(***************************************************************************)

\* cancel_schedule or complete_schedule of the series
EndSchedule ==
  /\ event = "active"
  /\ event' = "ended"
  /\ UNCHANGED <<members, granted, given, claims, reminders, procs, changes,
                 deaths>>

-----------------------------------------------------------------------------
(***************************************************************************)
(* Membership changes, each followed by the signal.                        *)
(***************************************************************************)

Toggled(set, change) == (set \ change) \cup (change \ set)

RowIsFree(r) == \A p \in Processes : r \notin procs[p].change

\* ProjectService.add_member and remove_member run in no transaction: the
\* membership is committed before the signal looks at it.
SaveMember(q, r) ==
  /\ At(q, "idle")
  /\ RowIsFree(r)
  /\ changes < MaxChanges
  /\ changes' = changes + 1
  /\ members' = Toggled(members, {r})
  /\ Goto(q, "resolve")
  /\ UNCHANGED <<granted, given, event, claims, reminders, deaths>>

\* assign_collaborator, remove_collaborator and add_student_member commit the
\* membership together with the grants.
SaveMemberInTransaction(q, r) ==
  /\ At(q, "idle")
  /\ RowIsFree(r)
  /\ changes < MaxChanges
  /\ changes' = changes + 1
  /\ procs' = [procs EXCEPT ![q].step = "resolve", ![q].change = {r}]
  /\ UNCHANGED <<members, granted, given, event, claims, reminders, deaths>>

-----------------------------------------------------------------------------
(***************************************************************************)
(* reresolve_audience, by a request or a scan.                             *)
(***************************************************************************)

ReadMembers(p) ==
  /\ At(p, "resolve")
  /\ procs' = [procs EXCEPT ![p].step = "lock",
                            ![p].evidence = Toggled(members, procs[p].change)]
  /\ UNCHANGED <<members, granted, given, event, claims, reminders, changes,
                 deaths>>

ReadGrants(p) ==
  /\ At(p, "lock")
  /\ procs' = [procs EXCEPT
                 ![p].step = "write",
                 ![p].seen = [r \in Recipients |->
                                IF r \in granted THEN given[r] ELSE 0]]
  /\ UNCHANGED <<members, granted, given, event, claims, reminders, changes,
                 deaths>>

\* The grants process p has read and that are still open once it holds the lock.
Locked(p) == {r \in granted : procs[p].seen[r] = given[r]}

\* Mutant of Additions: new members are given no grant.
NoAdditions(p) == {}

\* Recipients p takes for new: the members it read without a grant it locked.
Additions(p) == procs[p].evidence \ Locked(p)

\* Mutant of Removals: grants of departed members are left open.
NoRemovals(p) == {}

\* Open grants whose recipients have left.
Removals(p) == Locked(p) \ procs[p].evidence

\* Where the process goes from reresolve_audience: a request commits and is
\* done, a scan goes on to its recipients.
Resolved(p) ==
  procs' = [procs EXCEPT ![p] = IF p \in Scanners
                                THEN [Idle EXCEPT !.step = "look",
                                                  !.todo = procs[p].todo]
                                ELSE Idle]

WriteGrants(p) ==
  /\ At(p, "write")
  /\ Additions(p) \cap granted = {}
  /\ granted' = (granted \ Removals(p)) \cup Additions(p)
  /\ given' = [r \in Recipients |-> IF r \in Additions(p) THEN given[r] + 1
                                                         ELSE given[r]]
  /\ members' = Toggled(members, procs[p].change)
  /\ Resolved(p)
  /\ UNCHANGED <<event, claims, reminders, changes, deaths>>

\* The unique constraint on open grants refuses an addition: the transaction
\* is rolled back and the exception ends the request or the whole scan.
WriteConflicts(p) ==
  /\ At(p, "write")
  /\ Additions(p) \cap granted # {}
  /\ Finish(p)
  /\ deaths' = IF p \in Scanners THEN deaths + 1 ELSE deaths
  /\ UNCHANGED <<members, granted, given, event, claims, reminders, changes>>

-----------------------------------------------------------------------------
(***************************************************************************)
(* create_due_schedule_reminders.                                          *)
(***************************************************************************)

\* The batch: active events with a reminder, their grants read in advance.
StartScan(s) ==
  /\ At(s, "idle")
  /\ event = "active"
  /\ procs' = [procs EXCEPT ![s].step = "resolve", ![s].todo = granted]
  /\ UNCHANGED <<members, granted, given, event, claims, reminders, changes,
                 deaths>>

\* get_or_create, its get: a dispatch that exists is left to whoever made it.
SkipClaimed(s, r) ==
  /\ At(s, "look")
  /\ r \in procs[s].todo
  /\ claims[r] # "none"
  /\ procs' = [procs EXCEPT ![s].todo = @ \ {r}]
  /\ UNCHANGED <<members, granted, given, event, claims, reminders, changes,
                 deaths>>

\* ... and none found: r is the one to create.
LookUp(s, r) ==
  /\ At(s, "look")
  /\ r \in procs[s].todo
  /\ claims[r] = "none"
  /\ procs' = [procs EXCEPT ![s].step = "claim", ![s].evidence = {r}]
  /\ UNCHANGED <<members, granted, given, event, claims, reminders, changes,
                 deaths>>

\* Mutant of CreateClaim: the unique constraint does not cover the offset.
CreateAnyClaim(s, r) ==
  /\ At(s, "claim")
  /\ r \in procs[s].evidence
  /\ claims' = [claims EXCEPT ![r] = "claimed"]
  /\ procs' = [procs EXCEPT ![s].step = "look", ![s].evidence = {},
                            ![s].todo = @ \ {r}, ![s].held = @ \cup {r}]
  /\ UNCHANGED <<members, granted, given, event, reminders, changes, deaths>>

\* get_or_create, its create.
CreateClaim(s, r) ==
  /\ At(s, "claim")
  /\ r \in procs[s].evidence
  /\ claims[r] = "none"
  /\ claims' = [claims EXCEPT ![r] = "claimed"]
  /\ procs' = [procs EXCEPT ![s].step = "look", ![s].evidence = {},
                            ![s].todo = @ \ {r}, ![s].held = @ \cup {r}]
  /\ UNCHANGED <<members, granted, given, event, reminders, changes, deaths>>

\* Another run came first.  The insert may be refused, and get_or_create takes
\* the row that is there; or full_clean sees that row before the insert, and
\* its ValidationError, which get_or_create does not catch, ends the scan.
ClaimConflicts(s, r) ==
  /\ At(s, "claim")
  /\ r \in procs[s].evidence
  /\ claims[r] # "none"
  /\ \/ /\ procs' = [procs EXCEPT ![s].step = "look", ![s].evidence = {},
                                  ![s].todo = @ \ {r}]
        /\ UNCHANGED deaths
     \/ /\ Finish(s)
        /\ deaths' = deaths + 1
  /\ UNCHANGED <<members, granted, given, event, claims, reminders, changes>>

\* Mutant of CreateReminders: no claim is marked as created.
CreateUnmarked(s) ==
  /\ At(s, "look")
  /\ procs[s].todo = {}
  /\ reminders' = [r \in Recipients |-> IF r \in procs[s].held
                                        THEN reminders[r] + 1 ELSE reminders[r]]
  /\ Finish(s)
  /\ UNCHANGED <<members, granted, given, event, claims, changes, deaths>>

\* _create_reminder_notifications
CreateReminders(s) ==
  /\ At(s, "look")
  /\ procs[s].todo = {}
  /\ reminders' = [r \in Recipients |-> IF r \in procs[s].held
                                        THEN reminders[r] + 1 ELSE reminders[r]]
  /\ claims' = [r \in Recipients |-> IF r \in procs[s].held
                                     THEN "created" ELSE claims[r]]
  /\ Finish(s)
  /\ UNCHANGED <<members, granted, given, event, changes, deaths>>

\* The worker is killed.
Crash(s) ==
  /\ ~At(s, "idle")
  /\ deaths < MaxDeaths
  /\ Finish(s)
  /\ deaths' = deaths + 1
  /\ UNCHANGED <<members, granted, given, event, claims, reminders, changes>>

-----------------------------------------------------------------------------
Resolve(p) ==
  ReadMembers(p) \/ ReadGrants(p) \/ WriteGrants(p) \/ WriteConflicts(p)

Scan(s) ==
  \/ StartScan(s)
  \/ Resolve(s)
  \/ \E r \in Recipients :
       \/ SkipClaimed(s, r) \/ LookUp(s, r)
       \/ CreateClaim(s, r) \/ ClaimConflicts(s, r)
  \/ CreateReminders(s)

Next ==
  \/ EndSchedule
  \/ \E q \in Requests :
       \/ \E r \in Recipients :
            SaveMember(q, r) \/ SaveMemberInTransaction(q, r)
       \/ Resolve(q)
  \/ \E s \in Scanners : Scan(s) \/ Crash(s)

Spec == Init /\ [][Next]_vars

\* Requests that were begun go on, and beat starts the scan again and again.
FairSpec ==
  /\ Spec
  /\ \A q \in Requests : WF_vars(Resolve(q))
  /\ \A s \in Scanners : WF_vars(Scan(s))

-----------------------------------------------------------------------------
(***************************************************************************)
(* Properties.                                                             *)
(***************************************************************************)

\* However many runs of the scan overlap or die, nobody is reminded twice, and
\* a dispatch is marked as created exactly when its notification exists
\* (create_due_schedule_reminders, _create_reminder_notifications).
RemindedOnce ==
  \A r \in Recipients : reminders[r] = IF claims[r] = "created" THEN 1 ELSE 0

\* A claim belongs to one running scan; only a scan that died leaves a claim
\* that nobody is going to turn into a notification.
OneHolderPerClaim ==
  \A r \in Recipients :
    /\ \A s, t \in Scanners : r \in procs[s].held \cap procs[t].held => s = t
    /\ claims[r] = "claimed" /\ deaths = 0 =>
         \E s \in Scanners : r \in procs[s].held

Stranded(r) ==
  claims[r] = "claimed" /\ \A s \in Scanners : r \notin procs[s].held

\* Someone who stays a member of the audience while the reminder is due is
\* reminded, unless a scan died with the claim (create_due_schedule_reminders).
MembersAreReminded ==
  \A r \in Recipients :
    <>[](r \in members /\ event = "active") =>
      <>(claims[r] = "created" \/ Stranded(r))

\* While the event is on, the scans close the grant of someone who has left the
\* project, even one that a race had opened again (reresolve_audience).
DepartedLoseGrant ==
  \A r \in Recipients :
    r \notin members ~> (r \notin granted \/ r \in members \/ event # "active")
=============================================================================

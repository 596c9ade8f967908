# GradSync in TLA+

GradSync is a platform for research groups: a Django backend (`src/backend`) with
PostgreSQL, Celery workers started by beat, and a web client. This directory holds TLA+
models of the parts of the backend that keep state, the TLC runs that check them on small
instances, and proofs, checked by TLAPS, of what the runs check apart from liveness, for
instances of any size.

Paths below are relative to `src/backend/apps` unless they begin with `src/`, `specs/` or
`docs/` (the last two are under `src/`).

## Inventory

The whole backend shares one database at READ COMMITTED. Requests do not run in a
transaction of their own (`ATOMIC_REQUESTS` is off); a service method is one transaction
where it carries `@transaction.atomic`, and otherwise every statement commits by itself.
Celery beat starts the periodic tasks (`gradsync/settings/base.py`) and several worker
processes serve the queues, so two runs of one task may overlap.

| Component | State | Operations | Meets |
|---|---|---|---|
| Equipment (`resources/services.py` 150-420, 536-684) | `ResourceItem` row with status, quantity, policy, calibration date, version; maintenance records; overdue alerts | create, update, retire; create, start, complete, cancel maintenance; operational scan | bookings, managers' pages, beat and list views that both run the scan |
| Bookings (`resources/services.py` 763-1104) | `Booking` rows with status, window, quantity, version | create, update, cancel, return, decide, completion of what has ended | the resource row lock, maintenance |
| Stock and use (`resources/services.py` 223-533, 686-760) | stock, transactions, reorder level, reports of use | create, edit, retire, delete, record a transaction, report, decide | edits that change the class, unlocked rows |
| Notification delivery (`notifications/services.py`, `tasks.py` 129-226) | `Notification` rows with status and retry count, attempts | enqueue, select a batch, queue, send, record | SMTP server, killed workers, changing eligibility |
| Follow-ups and settings (`notifications/outcome_services.py`, `policy_services.py`, `tasks.py` 246-315) | outcome, reminders, escalation; policy and preferences | ask, complete, remind, escalate; replace settings | overlapping runs, several pages |
| Schedule audience and reminders (`schedules/audience_services.py`, `reminder_services.py`, `signals.py`) | grants, dispatches (claims), reminders | resolve the audience, scan for due reminders | membership changes, overlapping scans |
| Schedule series (`schedules/services.py`, `recurrence.py`, `projection_services.py`) | `ScheduleItem` rows, exceptions, announcements | create, publish, change / complete / cancel / delete one, future or all, calendar | several clients, outdated pages |
| Milestones and deliverables (`projects/execution_services.py`) | milestones with a derived status, deliverables, revisions, recommendations, decisions | plan, submit, recommend, decide, archive | advisors, assignees and reviewers, work deferred until after the commit |
| Project governance (`projects/services.py`, `collaboration_services.py`, `closeout_services.py`, `access_services.py`) | project status, hold, owner, version; memberships | edit, archive, reopen, members, collaborators, ownership transfer, hold, closeout | everything that must stop in an archived or held project |
| Decisions and risks (`projects/decision_risk_services.py`, `notifications/tasks.py` 346-) | decisions and their succession; risks, revisions, reminders | publish, supersede; open, triage, mitigate, close, reopen, remind | overlapping publications, the reminder task |
| Tasks (`tasks/`) | rows with parent, due date, status | create, update, delete | updates that load a row, validate it and save all of it later |
| Reports (`submissions/report_*.py`, `services.py`) | templates, periods, report revisions, policy | draft, publish, open, close, submit, review, configure | the periodic task, requests without a lock |
| Writing and reviews (`submissions/writing_*.py`, `feedback_services.py`, `review_assignment_services.py`) | pieces, versions, anchor projects, assignments | upload, archive, download, feedback, assign, remove | requests that act on what they have read |
| Accounts (`accounts/`) | users, activations, profiles, codes; passwords, sessions, recoveries | register, verify, decide, administer; sign in, rotate, change, recover, revoke | two administrators, codes sent again, sign-ins under way |
| Papers and documents (`library/services/`, `projects/material_services.py`) | papers, import jobs, batches, categories, documents, materials | import, review, rename, delete, stage, commit, upload, classify | imports and uploads that check first and insert later |
| Code (`repositories/services.py`) | artifacts, versions | upload, import, archive, delete | as documents |
| Audit (`audit/`) | events, exports, files | record, request an export, generate, expire, download | transactions that commit late, failing and killed workers |
| Search, operations dashboard, common, web client | none of their own | read-only queries, configuration, user interface | all of the above |

What is hard in this code is almost always the same thing: a row is read without a lock by
a view or a task and used after other transactions have changed it. Some services lock and
read again, some compare a version, and some do neither. Beyond that there are unlocked
check-then-create sequences guarded by unique constraints (or not guarded), batches worked
off in autocommit by workers that may be killed at any point, and obligations that depend on
time passing (outages, calibrations, deadlines, reminders). `PROJECT.json` lists each such
place under `hazards` with the properties that cover it.

What makes the components correct:

* Equipment: it is never returned to service while retired or held by another record, an
  outage or overdue calibration takes it out of service in the end, managers are told once.
* Bookings: never more units than the resource has, use only while usable, terminal states
  are terminal, started use is not moved.
* Stock: the transactions account for it, and low stock does not go unseen.
* Delivery: one message per attempt, a settled notification stays settled, the attempts
  explain the status, everything is settled in the end; late actions are escalated.
* Reminders: nobody is reminded twice, members are reminded, those who left lose the grant.
* Series: a change is made by somebody who saw what it changes, splits divide the days, what
  is announced has happened, the calendar shows what is asked for.
* Deliverables: a milestone is complete exactly when its required work is accepted, an
  acceptance stands, a decision is about what was reviewed, somebody is asked to review.
* Governance: one primary advisor, the one the project names; no transfer, hold or archival
  is undone; no work is left or begun in an archived project, where only bookings of its
  own address ask nothing.
* Decisions form lines, the revisions of a risk tell its history, tasks form a forest.
* Reports and writing: periods open and close, ask what they asked, reports follow what was
  read, feedback is not hidden again, access ends with the assignment.
* Accounts: an active administrator remains, nobody is locked out by accident, old sessions
  end with the old password.
* Library and code: one paper once, active documents in active categories, counts that
  agree, a label and an archive once.
* Audit: an export holds what was counted, and failures leave things as they were.

## Modules

| Module | Models | Runs |
|---|---|---|
| `ResourceOperations` | one piece of equipment: inventory, maintenance, operational scan | `operations` |
| `ResourceBooking` | extends it with the bookings of that resource and the requests in service | `booking_*` |
| `CapacityLedger` | abstract: what booking promises, units per slot within the quantity | refined in `booking_capacity` |
| `ConsumableStock` | one resource with stock, edits of its class, reports of use | `records` |
| `NotificationDelivery` | e-mail delivery by overlapping, mortal workers | `notifications` |
| `NotificationFollowUps` | actions, their reminders and escalation, settings | `notifications` |
| `ProjectRisks` | risks, revisions, the reminder task | `notifications`, `risk_reminders` |
| `ScheduleReminders` | one group event: membership, grants, reminder scans | `reminders` |
| `ScheduleSeries` | series, occurrences, splits, announcements, calendar | `projects`, `calendar` |
| `DeliverableReview` | one milestone: planning, work, review, and what runs after the commit | `review` |
| `ProjectGovernance`, `ProjectDecisions`, `ProjectTasks` | one project: members, ownership, hold, archival; decisions; tasks | `projects` |
| `ReportPeriods`, `ReportReviews`, `ReportPolicy` | templates and periods with the periodic task; reports; the policy | `submissions` |
| `WritingReview`, `WritingAnchors`, `ReviewAssignments` | writing with feedback; anchor projects; assignments of a reviewer | `submissions` |
| `AccountLifecycle`, `AccountSecurity` | accounts and administrators; password, sessions, recoveries | `records` |
| `PaperImports`, `PaperBatches`, `DocumentLibrary`, `CodeLibrary` | shared papers; papers of a project; documents, categories and materials; code | `records` |
| `AuditExports` | events, one export, its file | `records` |
| `MCResourceOperations`, `MCResourceBooking`, `MCDeliverableReview`, `MCScheduleReminders` | instances for TLC | |
| `MCNotifications`, `MCProjects`, `MCSubmissions`, `MCRecords` | compositions of the modules that share no state | |
| `ResourceBookingProofs` | theorems about `ResourceOperations` and `ResourceBooking` | |
| `ScheduleRemindersProofs`, `DeliverableReviewProofs` | theorems about these modules | |
| `NotificationProofs`, `ProjectsProofs`, `SubmissionProofs` | theorems about the parts of these compositions | |
| `LibraryProofs`, `RecordsProofs` | the same for `MCRecords`: papers, batches, documents and code; accounts, sessions, stock, exports and the whole | |

### Conventions

* **Steps.** A service that first locks the rows it decides on (`select_for_update`) is one
  step: other transactions that touch those rows wait, and READ COMMITTED reads them afresh
  after the wait. Where a value is read without a lock and used later, the read and the use
  are two steps and a variable holds the value in between: `forms`, `scans`, `requests`,
  `workers`, `procs`, `desks`, `pages`, `clients`, `imports`, and so on, indexed by the request
  or process. One whose next step is never taken is a request that was refused or died.
* **Errors.** A validation error or conflict leaves the database as it was; it is the
  absence of the step, or an explicit step (`RejectRequest`, `CloseForm`, `RefuseStale`,
  `ReportFails`, ...) where a process gives up something it holds.
* **Naming the exception.** Where the code lets one kind of step break a rule, the property
  names that step and forbids every other (`OnlyStaleSavesReopen`, `OnlyEarlyChecksUnshelve`,
  `OnlyOvertakenRowsTangle`): it fails as soon as a second way appears, and holds unchanged
  when the code is repaired.
* **Composition.** `MCNotifications`, `MCProjects`, `MCSubmissions` and `MCRecords` put modules
  that share no variable into one run. A behaviour belongs to the part named by the variable
  `focus`, and the others rest: interleaving parts that share nothing would multiply the
  states and show nothing new. `ResourceBooking` and `ResourceOperations` do share the
  resource row and are interleaved.
* **Data.** Titles, texts, payloads and people without a role in a guard are left out. Time
  is counted in days or slots, or replaced by a flag that time sets (`due`, `late`,
  `lapsed`).
* **External parts.** PostgreSQL, Celery and the SMTP server appear only through the order
  of steps, the uniqueness of rows, killed processes, and answers that are lost.
* **Mutants.** Definitions commented "Mutant of ..." are plausible mistakes in the code.
  They are used by nothing: each documents a change under which a property of a run fails.

### How the models correspond to the code

`ResourceOperations`. `resource` is the row, `records` the maintenance records, `alerts`
counts the notifications that `reconcile_resource_operation_alerts` wrote for a due date.
`OpenForm` is a page loading the row with its version; `UpdateResource` is the locked update
that compares versions; `RetireView` and `RetireResource` are the unlocked comparison in the
view and the locked service that does not repeat it. `CreateMaintenance`,
`StartMaintenance`, `CompleteMaintenance` and `CancelMaintenance` are the branches of
`create_maintenance` and `transition_maintenance`. The scan runs in autocommit, so it is five
steps: the bulk update of outages, the select of overdue rows, the save of the row as read,
the look for an earlier alert, the alert.

`ResourceBooking` adds `bookings` and `requests` and replaces the set of quantities that are
safe by the one `_safe_minimum_quantity` computes. `ViewCreate`/`CreateBooking` and
`ViewUpdate`/`UpdateBooking` are split because the view's row is used by the service;
`CancelBooking`, `ReturnBooking` and `DecideBooking` lock and read again.
`AssertCapacity` is `_assert_capacity`: usable in the window, and the units of all confirmed
bookings that overlap it anywhere leave room. The code adds up units; the model counts pairs
of a booking and a unit number, which is the same sum in a form that can be reasoned about
with cardinalities. The legacy status `reserved` is treated as `confirmed` by every guard and
created by none, so it is left out.

`ConsumableStock`. `item` is the row, `ledger` the transactions with their balances, `uses`
the reports of use, `lowTold` whether managers were told since the stock was last high.
Stock entered while the resource is equipment becomes a consumable's stock without an
opening transaction, a retired resource may still have transactions, and deletion writes its
refusal to the audit log in the transaction it rolls back: all as in the code.

`NotificationDelivery`. `rows` and `history` are the notification and its attempts,
`workers` what each run of `deliver_due_notifications` has read and where it is.
`enqueue_notification` is one step where its caller has opened a transaction (`Enqueue`) and
otherwise its statements: the row (`InsertRow`), the first attempt (`InsertAttempt`), and the
status or time that the recipient's preferences ask for (`FinishQueueing`), after which the
request ends, or before (`QueueingEnds`). `Send` has four outcomes, one of them a message
accepted whose answer is lost. `CrashBetweenSaves` kills a worker that has saved a row and not
its attempt, or the reverse. `ChangeReach` stands for everything `notification_is_deliverable`
looks at. `tangled` records which notifications two processes have held at once, two runs or a
run and the request that queues it, and which one has left half saved: for these nothing is
claimed, since nothing is locked.

`NotificationFollowUps`. `followUps` are the rows that ask for an action, `taskRuns` the runs of
`process_actionable_notification_followups`: the batch as read, then for each row the outcome
asked for anew (`Check`) and the two saves of what was computed from the old row (`SaveReminder`,
`SaveEscalation`). Acknowledgements and expiry dates are used by no caller; the action of a
follow-up task names an event, "scheduled.reconcile", that no resolver knows, so it is not among
them. The project's policy and a person's preferences are edited by desks that keep the row they
were shown; a client that never asked for its preferences meets no row to compare with, and
`blind` counts its saves, since each starts the versions again at two.

`ProjectRisks`. The services lock risk and project and compare versions; `Remind` is one
iteration of `create_risk_review_reminders`, whose batch is `ReadBatch`. `closedAt` survives
triage and a new mitigation, as in the code.

`ScheduleReminders`. `granted` and `given` are the open grants and how many each recipient
has had (which distinguishes a grant from one that was closed and opened again); `claims` are
the in-app reminder dispatches. Membership changes come in the two forms the code has: saved
first with the signal afterwards (`ProjectService`), or both in one transaction
(`collaboration_services`). A request's own uncommitted change is visible to it alone, which
`change` keeps.

`ScheduleSeries`. `series` are the rows and `marks` the exceptions: `marks[i][t][d]` belongs to
the key of series `i` for day `d` and time `t` (`"day"` for all-day ones); `announced` are the
keys of the announcements to a group. Every request locks the series and compares the version its
page showed, but nothing compares the key that it names with the occurrences of the series:
`Mark`, `Split` and `DeleteFuture` take any key, and `KeyFits` says only how one is read. `Edits`
are what an edit makes of a row: another title, another start (day and time) or another
recurrence. `Split` is `_split_future`, which ends the old row the day before the key
(`Shortened`) and makes a new one that starts at the key (`CopyFrom`), without the exceptions of
the days it takes over: cancelled occurrences reappear there. `cut` and `origin` of a row
remember the split, for the properties. `EditFutureOfOne` is the same path for an event that does
not recur: nothing is changed and the change is announced. `Calendar` is the loop of
`authored_schedule_occurrences`, a function of the order in which the series are listed.

`DeliverableReview`. `milestone` and `deliverables` are the rows, `revisions[d]` the sequence of
revisions of a deliverable with their decisions and open recommendations, `actions` the
follow-up notifications of a revision, one for each reviewer and one for the advisor (their
dedupe keys). The services lock the deliverable or revision together with its project and
milestone and read them again, so each is one step and ends in `Reconcile`, which is
`reconcile_milestone`; `create_deliverable` reads the milestone without a lock (`BeginCreate`),
inserts later (`CreateDeliverable`) and does not reconcile. What `transaction.on_commit` defers
is left in `workers` as the follow-ups of the process: `SelectActions` and `CompleteAction` are
`reconcile_notifications_for_event`, `Ask` is `create_follow_up_notification`, in the order in
which they were deferred. `made` counts the rows of one dedupe key, so that a process that
selected an action does not complete a later one. Versions are not modelled: a client can
always read the row again, and the services compare them under the lock. Whether the target
date has passed when a milestone is derived is left open.

`ProjectGovernance`. `members` are the memberships, from which `Primary`, `Manager` and the
capabilities derive as in `access_services.py`; `pages` are requests that loaded the project or
a membership before they act (`UpdateProject` saves every column of the row as loaded).
Ownership transfer, hold, collaborators and closeout lock the project. `openWork` stands for
the sorts of work closeout asks about, some of which it can dispose of; `AddWork` is any request
that creates or opens work with a project it loaded earlier, and `AttachBooking` the bookings of
`/projects/<id>/bookings/`, which are given to the project without a look at it and begin in
`BookingBegins`.

`ProjectDecisions` and `ProjectTasks` split the two operations that check first and write
later: a publication (`BeginPublish`, then `FinishPublish` under the lock of the decision it
supersedes), and a task update: `LoadTask` in the view, `CheckUpdate` with the changes of the
service and `clean`, then `Save` of the whole row, which inserts the row again if it was deleted
meanwhile. `at` counts the writes before the request read the task.

`ReportPeriods`. A run of `maintain_reporting_periods_task` goes through the projects that were
active when it began: `look`, `ensure` and `open` are the query for the period, the template
made from the advisor's hand, and the insertion; one exception ends the run. `ReportReviews`:
a structured report holds the lock of its period between `Checked` and `Inserted`, a weekly
report holds nothing, and both take the next number they saw. `ReportPolicy` numbers the rows
of the policy, which the code does not: a version that starts again at one is how a new row
is mistaken for an old one.

`WritingReview` keeps what an upload, an archival, a download or a feedback request has read of
a piece. A piece stays bound to its advisor when the ownership of the project moves on. A
piece's status ends at feedback; nothing sets `closed`, and a feedback's own status is never
changed. `WritingAnchors` is the lookup of the storage project and its creation, two steps.
`ReviewAssignments` keeps the assignment rows of one reviewer apart from the membership:
removal and the change of the role are independent, and an assignment that was not removed is
in force again when the role comes back.

`AccountLifecycle`. `users`, `codes`, `activations` and `teachers` (profiles) are the rows.
`guests` are requests about verification: sending a code again finds the account unverified,
clears the codes there are and makes a new one by three statements, and `verify_email` locks the
code and then the account. `desks` are the requests of administrators: `AdmitAdministrator` is
`IsAdministrator`, asked once, and a decision about a role, or the loading of the account, its
`_guard_last_admin` and its save without a lock, come later. `reverified` is history.
`AccountSecurity` numbers passwords as they replace each other and gives a session the number
its holder has proved to know. Requests are let in by a session (`Authenticate`) and act later.
A sign-in, a change of address and a change of password are two steps each, since the session
is written, or the others are ended, in a second transaction.

`PaperImports`: `imports` are uploads that have looked for duplicates (`known` are the files
that had a paper then), `maintainers` are reviews and edits of a job or paper as loaded.
`PaperBatches`: a commit replaces each item by a stub of id and title; committing the batch
again adds papers known by title alone. `DocumentLibrary` covers categories, documents and
the materials that stand for documents; `CodeLibrary` artifacts, versions and code
materials. A material is put into the default category whether that is active or not, and a
version may be imported into an artifact that was archived meanwhile.

`AuditExports`. `log` holds the events by id with the state of their transaction; ids are given
at insertion and become visible at commit. `ReadHighWater` and `CreateExport` are the two
statements of the request. The task that expires exports finds, deletes the file and saves the
status by three statements and may die in between. `Generate` is one transaction that also writes
a file, which no rollback removes. The task catches an exception, saves "failed" and raises it
again inside `@transaction.atomic`: nothing of it, "processing" included, is ever committed,
which is why `GenerateFails` leaves the row alone.

## Runs

| Run | Asks | Result |
|---|---|---|
| `operations` | equipment under a manager, two maintenance records and a scan, every order, three days; two overlapping scans and a manager | holds |
| `booking_capacity` | two single-unit bookings, two requests, a manager changing quantity | holds; implements `CapacityLedger` |
| `booking_usable` | requests of one or two units against maintenance, calibration, retirement, scan | holds |
| `booking_overbooked` | is `NeverOverbooked` true with quantities above one? | violated |
| `notifications` | delivery by one worker with batches, beside the request that queues, or by two that share a notification; risks and their reminders, actions and one or two runs of their follow-ups, settings | holds |
| `risk_reminders` | does closing a risk end its reminders? | violated |
| `reminders` | two scans, a membership change, a killed worker | holds |
| `review` | one milestone, two processes with overlapping follow-ups, one of them may be killed | holds |
| `projects` | governance, decisions and tasks of one project, schedule series | holds |
| `calendar` | does the calendar show the requested period of every series? | violated |
| `submissions` | periods, reports, policy, writing, anchors, review assignments | holds |
| `records` | accounts, sessions, papers, batches, documents, code, stock, audit exports | holds |

### What the passing runs show

`operations` checks that maintenance returns equipment to service only when it may
(`ReturnToServiceIsSafe`), that retirement is undone by nothing but a manager's form or a scan
that saves an outdated row (`RetiredStaysRetired`), that a due date which has been alerted is
alerted again only by scans that had looked before (`RepeatsComeFromOverlaps`: beat and the list
view overlap, and both may write), and three liveness properties under one name (`ScansCatchUp`):
an outage and an overdue calibration end the availability, and the managers are alerted, under
the name and due date of the resource, as long as it stays overdue.

`booking_capacity` checks the refinement of `CapacityLedger`, that a step never takes a slot
beyond the quantity (`GrantsFitCapacity`), and that only `update_booking`, saving a row that is
out of date, reopens a booking that is over or touches one in use. `booking_usable` adds
maintenance, calibration and the scan for `NewUseOnlyWhenUsable`.

`notifications` checks at most one message per attempt and a record of attempts that explains
the status (`RecordsAreTrue`, with the unbroken history of risks) and the finality of settled
rows, each unless two processes held the row or one left it half saved; that a pending
notification is settled unless the worker that had queued it was killed (`EventuallySettles`);
that due risks are reminded of and late actions escalated, whatever two runs write over each
other, unless a full batch of others comes first; and that whoever changes settings was shown
exactly the row the change replaces (`OnlyBlindClientsUndoSettings`), but for a client that never
asked, and for one that was shown a row such a client has replaced.

`reminders` checks that nobody is reminded twice however scans overlap and die, who holds a
claim, that lasting members are reminded unless a scan died with their claim (`Stranded`), and
that the grant of someone who left is closed in the end.

`review` checks that the stored status of the milestone is never behind its deliverables
(`CompletedMeansAccepted`), that an accepted deliverable names a revision whose decision
accepted it even when an older revision is decided late (`AcceptanceIsDecided`), that decisions
are not replaced, and that overlapping follow-ups always leave somebody asked to act on a
revision that is not decided (`SomebodyIsAsked`, as long as no process is killed between its
commit and its follow-ups).

`projects` checks that only the save of an outdated page undoes a transfer, hold or archival, and
only it, or a member added or removed by hand, splits the project's owner from its primary
advisor (`GovernanceHolds`); that a closeout leaves nothing open, and nothing but bookings is
opened in an archived project except by a request that loaded it while it was active
(`ArchivedGetsBookingsOnly`); that decisions form lines however publications overlap (in
`ProjectRecordsAgree`); that tasks stay a forest, deleted ones deleted, and children due before
their parents, unless a row is saved that was loaded, or checked for a creation, before another
write (`OnlyOvertakenRowsTangle`); and, of series, that whoever changes one saw all of it, that a
split divides its days at the key and adds some only if the key is no occurrence, that only
splits and a move of the series to another time forget what happened to an occurrence, and that
each change but a completion is announced and what is announced has happened, with the one
exception named (`ScheduleChangesAreSeen`).

`submissions` checks that a period asks what it asked when it opened, and that periods open and
close as long as no project is in the way for good (`PeriodsMove`); that a report follows the
one its request had read and only a weekly report can take a structured one's number; that a
version of the policy is mistaken only for that of a new row; that only a download of an
outdated version hides feedback; and that access ends with the assignment (`ReviewsAreKept`).

`records` checks that only an outdated page, a request of somebody who is no administrator any
more, or an administrator's own verification or second registration removes the last
administrator, and that nobody is locked out but by a decision or a verification of a suspended
account (`AccountsStayUsable`); that a session of an old password is one whose sign-in or change
of address was under way, or that a change not yet over has still to end (`OldSessionsEnd`); that
role requests agree with profiles, but for accounts that were verified twice, materials with
their records, stock with its transactions, and stubs come from batches committed twice
(`RecordsAgree`); that a paper, title, label or archive is repeated, a job miscounted or a
document left without a category only by a request that checked too early or whose route does not
compare (`OnlyOverlapsSpoilPapers`, `OnlyEarlyChecksSpoilShelves`); that low stock goes unseen by
edits only and a decision on use is replaced only by one made on a report loaded before
(`OnlyEditsAndLateRequestsUpsetStock`); and that an audit export holds what was counted and,
beyond it, only events that were open then, and that its file is there until its time is over
(`ExportsAreTrue`).

### What the violations show

* `booking_overbooked`: `_safe_minimum_quantity` counts bookings, not units, so the quantity
  may be lowered below what is confirmed.
* `risk_reminders`: `transition_risk` reports no event to the notifications, so the reminder of
  a closed risk stays pending, is escalated, and keeps its deduplication key.
* `calendar`: the loop over the series binds `starts_at` and `ends_at` again, so a series after
  the first listed is expanded in the time of the last listed occurrence; after an all-day
  occurrence those are `None` and the expansion fails.

`PROJECT.json` quotes, for each finding, the line of the documentation that promises otherwise.

### Other consequences of the code

The models show, or had to follow, more than the findings say; most are the exceptions that
the properties name.

* Overlapping scans alert one due date twice, once each.
* `update_booking` writes back a booking that was cancelled, rejected or completed after the
  view read it. Overlapping delivery runs send an attempt twice. A notification may be delivered
  before the request that queues it has saved that the recipient wants no e-mail of the
  category; the row is then marked as in-app only. A grant may be opened for someone who has
  left, until the next resolution.
* `(Max("order") or -1) + 1` is 0 whenever the largest order is 0, so the second deliverable of
  a milestone meets the unique constraint; `ReviewTypeCorrect` proves that there is never one.
  `update_deliverable` plans accepted work again. Actions asked for after a decision's
  completion has run stay pending, and a process killed after its commit asks nobody.
* An edit of the future of an event that takes place once is lost and announced; the private
  deletion of its future is refused by `clean`; cancelled occurrences reappear after a split.
* A key need not be an occurrence. A change of the future at a day after the end of a series
  makes the old one longer, up to the day before; at a day before its start it ends the old one
  before it begins and the new one takes place earlier. A mark under such a key shows nowhere, but
  raises the version and is announced. When the start of a series moves to another time, what
  was completed or cancelled is active again, since its marks keep the old time.
* Completions are announced to nobody, those of a group's series neither.
* A project whose advisor may not make a default template (the anchor project of standalone
  writing has no member at all) ends the periodic task for all projects after it, and periods
  are then never closed. `open_reporting_period` and `DraftService` are called by tests only.
* A verification code that is sent again while another one is used puts an account that was
  approved meanwhile back to waiting for a role, with a second request beside the approved one
  and the teacher's profile in place. An administrator who was suspended after his request came
  in may still revoke the role of the last other administrator. `verify_email` asks nothing of
  the status: a suspended student's open code makes the account active, though without access.
* A change of address ends every session and opens a new one for whoever was let in, by an old
  password's session too.
* The number of a weekly report may be taken by two requests at once; the unique constraint
  refuses one. A removed and reconfigured policy starts at version one again.
* `BookingViewSet.create` gives a booking to any project, of which the one who books need be no
  member and which may be archived: such a project has open work again, and once the booking
  has begun it blocks the next closeout.
* A task that is deleted while an update holds it is inserted again by the save, and one that is
  completed meanwhile is opened again: `clean` looks at parents, not at the task's own row. A
  batch can be committed twice.
* Raising the reorder level, or turning equipment with little stock into a consumable, alerts
  nobody.
* An audit export may hold more events than were counted, and more than the limit, when
  transactions with lower ids commit between the request and the task (specs/016
  tasks.md:189 says that the identifiers equal the scope and never exceed the limit).
  "failed" is never stored, although docs/ops/monitoring-alerts.md:28 alerts on it, and
  files of failed tries stay. No schedule calls `expire_audit_exports`; the page that finds
  an export out of date marks it expired and leaves the file, which the task would then
  skip, and the task, killed between its two statements, leaves an export ready without one.

### Bounds

Bounds are constants named `Max...` or `Last...` in the modules, or the sizes of the sets in the
`.cfg`.

* Scans of equipment: one beside maintenance, two without (`OneScan`); two names.
* Time: three days (0 to 2) for equipment. An outage that starts tomorrow, a calibration due
  tomorrow and one renewed for later, windows of one and two slots that overlap in part: all of
  them fit. Series have two days and two times (three days in `calendar`, where two series need a
  period to differ in, and one of the times is all day), due dates of tasks two.
* Versions (`MaxVersion`, `MaxEdits`, `MaxEdition`, `MaxGovernance`): two or three writes,
  enough for a write between a read and its use and a second one that brings the version
  back.
* Two bookings are enough for every pairwise overlap, and with one or two units in total for
  the boundary of the capacity; `booking_usable` lets one booking hold two units.
* Two maintenance records: one that ends and another that still holds the equipment.
* Two notifications with a batch of two for one worker, one notification for one worker and the
  request that queues it, and for two workers. Two follow-ups for one run, one for two runs.
  `RetryLimit = 1` instead of 4: a failure that is retried and one that is final. Batches of one
  risk and of one follow-up beside a second one: a full batch that keeps another out.
* Two scans, two recipients, one change of membership, one killed worker: a claim lost to the
  other scan, a claim held by a scan that dies, a grant that is opened or closed in between.
* One deliverable in `review` (a second one cannot be inserted), two revisions, three revisions
  and recommendations together (`MaxWritten`), two processes and one killed: an older and a
  newer revision with a recommendation, or one revision with two recommendations whose
  follow-ups overlap. One designated reviewer, who may recommend twice; the advisor is the
  second person who is asked.
* Elsewhere two requests (desks, clients, importers, coders): every race here is one of two. In
  governance one page is enough, since the services that lock are steps of their own. Two
  projects in order, the first of which can be in the way of the second. Three files of which
  two are one paper and one says nothing, two works, two batches, three decisions. Two
  accounts, one of them the founding administrator. Five events, an export of at most two, two
  tries.

Four runs leave out combinations that meet nowhere, by a CONSTRAINT of their MC module: two
administrators work at once on accounts without role requests, and together with a request about
verification on accounts without expired codes; two requests about papers, and no more, are in
progress; two clients of one account act while no recovery is asked for, two archivists on
documents of one project that the group sees, two coders on one project (`OneThingAtATime`); one
person is suspended or there is open work of one sort, or neither, and series have one marked
key, two versions beyond the first between them, counting a split, and pages of the last version
but one at the oldest (`OneStandsOut`); one scan dies, and one is still at work when the event
has ended (`FewScans`); and a project is read-only, a milestone archived or a process killed
while no follow-ups are left to run (`QuietWhenClosed`). `MCResourceOperations` and
`MCNotifications` restrict their steps in the same way: one scan or no maintenance (`OneScan`),
one worker or one notification (`OneWorker`, `OneNotification`), one run of the follow-ups or one
follow-up (`OneRun`, `OneFollowUp`), and one risk at most at its last revision
(`OneRiskGoesFar`). The theorems of the parts assume none of this.

Interchangeable requests, keys and names are symmetry sets, only in runs without liveness.
`CHECK_DEADLOCK FALSE` is set because every model may come to rest: time ends at its bound, the
last version is used up, the event has ended.

### Fairness

Fairness is assumed of background work only, never of people. Beat starts the scan, the
delivery task, the reminder tasks, the follow-ups and the maintenance of periods every few
minutes and a worker carries a run on unless it is killed, so there is weak fairness of each
worker's next step (`Scan(s)`, `Deliver(w)`, `ReadBatch` and `Remind(r, owner)`,
`FollowUpRun(w)`, `RunStep(o)`). `BecomeDue` is time passing. A request that was begun on a
membership goes on to commit or to fail, hence `WF(Resolve(q))`. Killing a worker is never fair
and is bounded. The compositions conjoin `focus` to each fair action, which says the same of the
behaviours of that part and nothing of the others.

## Proofs

TLAPS proves for all values of the constants what the runs show for small ones: every invariant
and every action property of every passing run, that is, all they check apart from liveness.
The assumptions are the named ones on constants and inputs, which TLC evaluates in every run.
The type invariants of `ResourceOperations`, `ResourceBooking`, `ScheduleReminders` and
`DeliverableReview`, and `VersionsGrow` and `OnlyStaleSavesReuseVersions` (a version never names
two states of a row, but for an outdated save), are proved and not checked again by runs.

Each proof has the same outline. An inductive invariant adds to the types what the code knows
between a check and the use of it. One lemma per operation shows that the operation keeps the
invariant and, where there is an action property, that the step obeys it; a last lemma collects
the operations. Where a property speaks of several parts that share nothing, its theorem has
their specifications as hypotheses, or that of the composition, of which `PartsBehave` and
`ProjectPartsBehave` show that a step is, for each part, a step of it or none.
Sums and numbers of requests are handled with the library's theorems on
finite sets, histories with those on sequences.

### Resources

`ResourceBookingProofs`, first part: type correctness from the named assumptions on inputs;
then the action properties, each from `TypeOK` and one lemma per group of actions.
`AlertsRepeatInOverlapsOnly` assumes nothing of the number of scans. That a due date is alerted
once, which the code's deduplication is there for, holds of a single scan and is false of two.

Second part: `BookingSpec` implies `Spec`, so that what was proved of
the resource alone holds with bookings. The heart is that every step either only releases
units (`OnlyReleases`) or grants units to one booking after `AssertCapacity` (`Grants`): every
action is shown to be one or the other (`ReleaseOrGrant`), a release lowers the load of every
slot (`ReleaseLowersLoad`), and a grant leaves every slot it enters within the quantity
(`GrantFits`), since the bookings counted by `AssertCapacity` include all that hold the slot.
`GrantsFit` follows for any number of bookings and units. `SinglesNeverOverbook` and
`SinglesImplementLedger` need `MaxQuantity = 1`, because only then does the code's safe minimum
quantity cover the load. The life-cycle theorems rest on `BookingInv`: a row held by an update
request either is the present row or has been changed since.

### Reminders and reviews

`ScheduleRemindersProofs`: the inductive invariant `HolderInv` adds to `RemindedOnce` and
`OneHolderPerClaim` that a scan holds claims only between its first claim and its
notifications, and that what it holds is still marked as claimed. Steps are sorted into those
that leave claims alone (`Harmless`), deaths, claims, and the creation of notifications.

`DeliverableReviewProofs`: types are proved together with `FirstOnly`, which says that the
order of every deliverable is 0, and with `Single`: at most one exists, and only it has
revisions. `CompletionIsAcceptance` needs it: every operation but one ends in `Reconcile`,
after which the status is what the definition says (`Reconciled`), and the one that does
not, `create_deliverable`, only ever adds the first deliverable, to a milestone that cannot
be completed. `AcceptanceHolds` first shows that no step changes a decision that was made,
and from it that what a deliverable names as accepted stays decided; only `Decide` sets that
name. `SomebodyStaysAsked` rests on `Attended`: the follow-ups of a revision that is not decided
still have somebody to ask (`JobsAsk`), because the list of people to ask is only worked off
after what they were asked before is completed.

### Notifications

`NotificationProofs`. Delivery locks nothing, so `DeliveryInv` speaks of the notifications that
are not tangled: the run that holds one has read its row as it is, or has made it what it is
(`HeldAsRead`), and a request that still queues one is alone with it (`QueuedAlone`). Then the
attempts up to the counter have failed, the next one is what the status says and those behind it
are empty (`AttemptsFit`), and each has sent one message at most (`MailFits`), from which
`RecordsAreTrue` and `SettledStaysSettled` follow. That a due risk has an owner needs
`UnownedAreLow`: a risk without one is of low severity and has no review date, so that it cannot
become due before triage. Follow-ups only add that a run's rows were there when it read them
(`RowsWereRead`). Settings: a screen shows an earlier row, and the present one when the versions
agree (`DesksKnowSettings`); for preferences this holds from one blind save to the next.

### Projects

`ProjectsProofs`. Governance: one lemma per group of requests shows the whole `Effect` of its
steps, what becomes of the row (`RowStep`), of the agreement of owners and of open work. The
inductive invariant `Governed` adds to the types that a hold is never placed again
(`HoldsOnlyEnd`): whoever loaded the project without a hold knows that it has none, which is why
`reopen_project` may judge the page it loaded. An added advisor splits owners only while there
is none, since `add_member` meets the unique index (`MembersHaveEffect`).

Decisions: `Lines` names the one successor where
`SuccessionIsLinear` counts, and says that a request holds the id of a row that exists.
`FinishAppends` says what a publication writes; `FinishKeepsLines` that the row it locked, having
been current, had no successor and now has the new one.

Tasks: `TasksHold` says that a row names a parent that was created (`ParentsWereCreated`) and
that what a request has checked is right for as long as nobody else writes (`RequestsAreFresh`).
That a forest stays one is shown on sets: what is above a task is the least set that holds it and
the parents of its members (`AboveIsLeast`), and when a task moves below one that it is not above,
what is above the others gains at most what is above that one (`MovingOne`).

Series: a page of the current version shows the series as it is (`PagesAreTrue`), and no
announced key is ahead of its series (`KeysAreOld`). From the first, changes are seen; from the
second, keys are new. A split is described by the row it leaves (`IsRest`) and the row it makes
(`IsFuture`), whatever the key and the edit; `SplitKeepsSeries` then has the days, the marks and
the announcements, and `SavingKeepsSeries` those of every other change.

### Submissions

`SubmissionProofs`. A period asks what was published because a version that is out is never
edited: `TemplateFits` says that a template has one draft at most and a version in force that
may be asked, `VersionsKept` relates a template to what a step makes of it, and `RunFits` that a
run opens with a version that may be asked, of the project it has reached. Reports: there is one
structured report under way, and for each request `WasRead` says that nothing beyond its number
had arrived when it looked, that a structured one has only seen weekly reports arrive since, and
that the report it follows is the latest until something arrives; since an insertion needs its
number to be free, nothing has. The policy: what a desk shows of the present row is an earlier
version of it (`ShownIsEarlier`). Writing: a version that a request works on is there
(`VersionsStay`). Anchors: there are no more of an advisor than there were lookups, counting
those still to be followed. Assignments: one is active at most (`OneIsActive`), which makes a
removal the end of access.

### Library and code

`LibraryProofs`. Everything rests on what a request's checks say once they are over, whatever
others do meanwhile. `PapersHold`: the jobs and papers that maintainers loaded exist, and what
awaits review has a title. `BatchInv`: the page a request loaded is the batch, or the batch
before it was stubbed (`LoadedOf`); whoever has checked a batch found works that differ, and adds
what was not on the shelf when looked at; stubs come from committed batches. `DocumentsAgree`:
what is active in a category about to be deleted came after the check, and no document that was
compared rivals the title to be given (`ChecksHold`). `Compiled` says the same of archives and
labels (`ComparisonsHold`). Rows are only added and edited, so these facts stay, and a step
that spoils something is traced to a row that came after the check.

### Accounts, stock and exports

`RecordsProofs`. Accounts: `AccountInv` says that only the newest request for a role is pending,
and only it counts at all unless the account was verified again; that a teacher's profile rests
on an approved one; that a request exists only of an account that was verified, so that a first
verification finds none; and that a request that passed `_guard_last_admin` had found another
administrator (`GuardsHold`), so that the last one goes when that other has gone since. Sessions:
`OldSessionsEnd` alone is not inductive, for the change of password that comes to its end could
be the only one under way and leave its own session. `OthersWillEnd` says that the one an old
session waits for was asked for by another session. Stock: `Stocked` keeps the sum of the
transactions and says that reports of use name a resource that exists. Exports: `Sound` fixes the
scope when the row is created: counted events are kept, below the mark and within the limit, and
whatever else below the mark may still be kept was open at the count (`ScopeIsFixed`). It relates
the row to its task and the files to the tries (`TaskMakesFile`, `FilesAreOwned`), because files
of failed tries stay, and says that only an export whose time is over is being expired
(`ExpiryIsDue`).

### Only model-checked

* Liveness, for which the prover has no reasoning about fairness: `ScansCatchUp`,
  `EventuallySettles`, `DueRisksAreReminded`, `LateActionsAreEscalated`, `MembersAreReminded`,
  `DepartedLoseGrant`, and of `PeriodsMove` the parts `PeriodsOpen` and `PeriodsClose`.
* `Calendar` in `ScheduleSeries` recurs over a list of series; nothing is proved of it.
* That `NeverOverbooked`, `ClosingEndsReminders` and `CalendarShowsPeriod` fail is shown by
  counterexamples.

## Not modelled

* Row locks held across steps, and so deadlocks that PostgreSQL resolves by aborting one
  transaction.
* Search, the operations dashboard, seeds, configuration and pagination: they read, or run once.
* The site of `django.contrib.admin` (`gradsync/urls.py:21`, `accounts/admin.py:7-19`): it edits
  the status and the role of any account without `_guard_last_admin`, so nothing that is said
  here of the last administrator holds of it.
* The web client: one more caller, and the models let any caller send any legal request with
  any row it has read before.
* What is data here: parsing of files and catalogues, full texts, filters, redaction, reading
  lists, statistics, wording of notifications, profile texts.
* Within modelled components: the copying of a delivery result into a schedule dispatch or a
  follow-up outcome; weekly and monthly recurrence and time zones; reordering of milestones,
  task links, assignees and evidence of deliverables; windows and batch limits of the reminder
  scan of schedules; the creation of resource types; materials that stand for other records
  than documents and code.

## Plan

1. `DeliverableReview` with the review assignments that a submission opens, instead of
   `ReviewAssignments` beside it.
2. Abstract specifications for the journals (audit exports, stock) that the modules refine, as
   bookings refine `CapacityLedger`.
3. The materials of a project that stand for other records than documents and code.

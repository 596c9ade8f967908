---------------------------- MODULE AuditExports ----------------------------
(***************************************************************************)
(* One export of the audit log: apps/audit/export_services.py, tasks.py    *)
(* and views.py, with record_event of services.py.                         *)
(*                                                                         *)
(* Events get their ids when they are inserted and are seen by others when *)
(* their transaction commits.  A request reads the highest id and then     *)
(* counts, by two statements at READ COMMITTED; a Celery task writes the   *)
(* file in one transaction, with a file storage that knows no rollback.    *)
(* The task is sent once and is tried again after an exception; a worker   *)
(* that is killed takes it along.  Another task expires exports: it reads  *)
(* them, deletes the file and saves the status after, by statements of     *)
(* their own.  Every event passes the filter.                              *)
(***************************************************************************)
EXTENDS Integers, Sequences, FiniteSets

CONSTANTS
  MaxEvents,    \* bound: events
  ExportLimit,  \* AUDIT_EXPORT_MAX_ROWS
  MaxTries      \* the first try and max_retries more

ASSUME ExportAssumption ==
  {MaxEvents, ExportLimit} \subseteq Nat /\ MaxTries \in Nat \ {0}

VARIABLES
  log,        \* AuditEvent rows by id, with the state of their transaction
  export,     \* the AuditExport row
  requested,  \* the request: the highest id it has read
  tries,      \* tries of the task that have ended
  task,       \* whether the task is waiting, done or gone
  stored,     \* files in the storage, by the try that wrote them
  expiry,     \* what the task that expires exports has done with this one
  lapsed,     \* expires_at has passed
  openThen    \* history: events whose transaction was open at the count

exportVars ==
  <<log, export, requested, tries, task, stored, expiry, lapsed, openThen>>

-----------------------------------------------------------------------------
Event == 1 .. MaxEvents

ExportRow ==
  [status : {"absent", "queued", "processing", "ready", "failed", "expired"},
   high : 0 .. MaxEvents, counted : SUBSET Event,
   rows : SUBSET Event, file : 0 .. MaxTries]

ExportTypeOK ==
  /\ log \in Seq({"open", "kept", "gone"}) /\ Len(log) <= MaxEvents
  /\ export \in ExportRow
  /\ requested \in -1 .. MaxEvents
  /\ tries \in 0 .. MaxTries
  /\ task \in {"none", "waiting", "done", "gone"}
  /\ stored \subseteq 1 .. MaxTries
  /\ expiry \in {"none", "read", "deleted"}
  /\ lapsed \in BOOLEAN
  /\ openThen \subseteq Event

ExportInit ==
  /\ log = << >>
  /\ export = [status |-> "absent", high |-> 0, counted |-> {},
               rows |-> {}, file |-> 0]
  /\ requested = -1
  /\ tries = 0 /\ task = "none" /\ stored = {} /\ expiry = "none"
  /\ lapsed = FALSE /\ openThen = {}

Having(state) == {n \in DOMAIN log : log[n] = state}

\* audit_queryset below a high-water mark
Selected(high) == {n \in Having("kept") : n <= high}

-----------------------------------------------------------------------------
\* record_event, in a transaction that goes on.
WriteEvent ==
  /\ Len(log) < MaxEvents
  /\ log' = Append(log, "open")
  /\ UNCHANGED <<export, requested, tries, task, stored, expiry, lapsed, openThen>>

EndTransaction(n, end) ==
  /\ n \in Having("open")
  /\ log' = [log EXCEPT ![n] = end]
  /\ UNCHANGED <<export, requested, tries, task, stored, expiry, lapsed, openThen>>

\* create_audit_export, up to its first query
ReadHighWater ==
  /\ export.status = "absent" /\ requested = -1
  /\ requested' \in
       {n \in Having("kept") \cup {0} : \A m \in Having("kept") : m <= n}
  /\ UNCHANGED <<log, export, tries, task, stored, expiry, lapsed, openThen>>

\* The rest of it, with the event of the request; then the task is sent.
CreateExport ==
  /\ requested # -1 /\ export.status = "absent"
  /\ Cardinality(Selected(requested)) \in 1 .. ExportLimit
  /\ Len(log) < MaxEvents
  /\ export' = [export EXCEPT !.status = "queued", !.high = requested,
                              !.counted = Selected(requested)]
  /\ log' = Append(log, "kept")
  /\ openThen' = Having("open")
  /\ task' = "waiting"
  /\ UNCHANGED <<requested, tries, stored, expiry, lapsed>>

RefuseExport ==
  /\ requested # -1 /\ export.status = "absent"
  /\ Cardinality(Selected(requested)) \notin 1 .. ExportLimit
  /\ requested' = -1
  /\ UNCHANGED <<log, export, tries, task, stored, expiry, lapsed, openThen>>

-----------------------------------------------------------------------------
\* Mutant of Generate: what is there now is exported.
GenerateNow ==
  /\ task = "waiting" /\ Len(log) < MaxEvents
  /\ export' = [export EXCEPT !.status = "ready", !.file = tries + 1,
                              !.rows = Having("kept")]
  /\ stored' = stored \cup {tries + 1}
  /\ log' = Append(log, "kept")
  /\ task' = "done"
  /\ UNCHANGED <<requested, tries, expiry, lapsed, openThen>>

\* generate_audit_export
Generate ==
  /\ task = "waiting" /\ Len(log) < MaxEvents
  /\ export' = [export EXCEPT !.status = "ready", !.file = tries + 1,
                              !.rows = Selected(export.high)]
  /\ stored' = stored \cup {tries + 1}
  /\ log' = Append(log, "kept")
  /\ task' = "done"
  /\ UNCHANGED <<requested, tries, expiry, lapsed, openThen>>

\* An exception: "failed" is saved and, since it is raised on, rolled back with
\* everything else, "processing" too.  A file that was written stays.
GenerateFails(written) ==
  /\ task = "waiting"
  /\ stored' = IF written THEN stored \cup {tries + 1} ELSE stored
  /\ tries' = tries + 1
  /\ task' = IF tries + 1 = MaxTries THEN "gone" ELSE "waiting"
  /\ UNCHANGED <<log, export, requested, expiry, lapsed, openThen>>

\* The worker, or the request before it sends the task, is killed.
WorkerDies(written) ==
  /\ task = "waiting"
  /\ stored' = IF written THEN stored \cup {tries + 1} ELSE stored
  /\ task' = "gone"
  /\ UNCHANGED <<log, export, requested, tries, expiry, lapsed, openThen>>

-----------------------------------------------------------------------------
TimeRunsOut ==
  /\ export.status # "absent" /\ ~lapsed
  /\ lapsed' = TRUE
  /\ UNCHANGED <<log, export, requested, tries, task, stored, expiry, openThen>>

\* expire_audit_exports reads what is ready and has lapsed (nothing in the
\* schedule of the workers calls it).  A second run would do the same again.
FindLapsed ==
  /\ expiry = "none"
  /\ export.status = "ready" /\ lapsed
  /\ expiry' = "read"
  /\ UNCHANGED <<log, export, requested, tries, task, stored, lapsed, openThen>>

DeleteFile ==
  /\ expiry = "read"
  /\ stored' = stored \ {export.file}
  /\ expiry' = "deleted"
  /\ UNCHANGED <<log, export, requested, tries, task, lapsed, openThen>>

\* The status is saved whatever it is by now.
ExpireExport ==
  /\ expiry = "deleted"
  /\ export' = [export EXCEPT !.status = "expired"]
  /\ expiry' = "none"
  /\ UNCHANGED <<log, requested, tries, task, stored, lapsed, openThen>>

ExpiryDies ==
  /\ expiry # "none"
  /\ expiry' = "none"
  /\ UNCHANGED <<log, export, requested, tries, task, stored, lapsed, openThen>>

\* AuditExportDetailView
ShowExport ==
  /\ export.status = "ready" /\ lapsed
  /\ export' = [export EXCEPT !.status = "expired"]
  /\ UNCHANGED <<log, requested, tries, task, stored, expiry, lapsed, openThen>>

\* AuditExportDownloadView
DownloadExport ==
  /\ export.status = "ready" /\ ~lapsed /\ Len(log) < MaxEvents
  /\ log' = Append(log, "kept")
  /\ UNCHANGED <<export, requested, tries, task, stored, expiry, lapsed, openThen>>

ExportNext ==
  \/ WriteEvent
  \/ \E n \in DOMAIN log, end \in {"kept", "gone"} : EndTransaction(n, end)
  \/ ReadHighWater \/ CreateExport \/ RefuseExport
  \/ Generate
  \/ \E written \in BOOLEAN : GenerateFails(written) \/ WorkerDies(written)
  \/ TimeRunsOut \/ ShowExport \/ DownloadExport
  \/ FindLapsed \/ DeleteFile \/ ExpireExport \/ ExpiryDies

ExportSpec == ExportInit /\ [][ExportNext]_exportVars

-----------------------------------------------------------------------------
(***************************************************************************)
(* Properties.                                                             *)
(***************************************************************************)

\* The file holds the events that were counted and, beside them, only events
\* whose transaction was open at the count: only those can take an export beyond
\* its limit (generate_audit_export).
ExportsKeepScope ==
  export.status \in {"ready", "expired"} =>
    /\ export.counted \subseteq export.rows
    /\ export.rows \ export.counted \subseteq openThen
    /\ Cardinality(export.rows) > ExportLimit => openThen # {}

\* An export that is given up stays queued: "failed", and the reason, are never
\* seen (generate_audit_export raises inside its transaction).
FailuresLeaveNoTrace ==
  /\ export.status \notin {"processing", "failed"}
  /\ task = "gone" => export.status = "queued"

\* A ready export has its file, unless its time is over and the task that
\* expires it has not come to, or died before, the second of its two steps; the
\* files of failed tries that nobody deletes are all older ones
\* (generate_audit_export, expire_audit_exports).
FilesAreOwned ==
  export.status = "ready" =>
    /\ export.file \in stored \/ lapsed
    /\ \A f \in stored : f <= export.file

\* What is said of exports at any time (create_audit_export and the task).
ExportsAreTrue == ExportsKeepScope /\ FailuresLeaveNoTrace /\ FilesAreOwned
=============================================================================

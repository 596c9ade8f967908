------------------------- MODULE ResourceOperations -------------------------
(***************************************************************************)
(* One laboratory resource of class "equipment", as the services of        *)
(* apps/resources/services.py change its row: inventory edits and          *)
(* retirement by managers, maintenance records that take it out of service *)
(* and put it back, and the operational scan that Celery beat and the      *)
(* resource list view both run.                                            *)
(*                                                                         *)
(* The database is PostgreSQL at READ COMMITTED.  A service method that    *)
(* begins with SELECT ... FOR UPDATE on the row is one step here.  What    *)
(* is read without a lock and used later is kept in a variable of its own: *)
(* the row a manager's page has loaded (forms) and the row the scan has    *)
(* read (scans).  A step that is never taken again is a crashed process.   *)
(*                                                                         *)
(* Time counts days: scheduled_at, due_at and next_calibration_at are      *)
(* compared with the current day.                                          *)
(***************************************************************************)
EXTENDS Integers, FiniteSets

CONSTANTS
  Records,              \* identifiers of maintenance records
  Managers,             \* advisors and administrators with an edit page open
  Scanners,             \* processes running reconcile_resource_operation_alerts
  Plans,                \* maintenance records that may be created
  Edits,                \* attribute changes a manager may submit
  Names,                \* names the resource may be given
  InitialRows,          \* rows the resource may have when first observed
  CalibrationInterval,  \* calibration_interval_days, 0 when not set
  MaxTime,              \* bound: days modelled
  MaxVersion            \* bound: version above which managers stop writing

NoDate == MaxTime + CalibrationInterval + 1   \* a date column that is null

ItemStatus  == {"available", "unavailable", "retired"}
Policy      == {"immediate", "approval_required"}
RecordKind  == {"preventive", "calibration", "repair", "fault"}
Date        == 0 .. NoDate

\* The columns of ResourceItem that the services and their guards read.
Row == [name : Names, status : ItemStatus, total : Nat \ {0}, policy : Policy,
        calibration : Date, version : Nat]

\* What the subject line of an overdue notification is made of, by which the
\* scan recognises the alerts it has written.
Subject(row) == <<row.name, row.calibration>>
Subjects == Names \X Date

\* What a new maintenance record is created from.
Plan == [kind : RecordKind, offline : BOOLEAN, at : Date, due : Date]

RecordRow == [status : {"absent", "scheduled", "in_progress", "completed",
                        "cancelled"},
              plan : Plan]

\* The attributes update_resource accepts; a submitted form names some of them.
EditField == {"name", "status", "total", "policy", "calibration"}

ASSUME BoundAssumption ==
  /\ MaxTime \in Nat
  /\ MaxVersion \in Nat
  /\ CalibrationInterval \in Nat

ASSUME InputAssumption ==
  /\ InitialRows \subseteq Row
  /\ Plans \subseteq {p \in Plan : p.due >= p.at}
  /\ \A e \in Edits :
       /\ DOMAIN e \subseteq EditField
       /\ "name" \in DOMAIN e => e.name \in Names
       /\ "status" \in DOMAIN e => e.status \in ItemStatus
       /\ "total" \in DOMAIN e => e.total \in Nat \ {0}
       /\ "policy" \in DOMAIN e => e.policy \in Policy
       /\ "calibration" \in DOMAIN e => e.calibration \in Date

VARIABLES
  now,       \* the current day
  resource,  \* the ResourceItem row
  records,   \* the maintenance rows of the resource
  forms,     \* what each manager's page has read, and how far a request got
  scans,     \* where each running scan is, and the row it has read
  alerts     \* alerts[k]: overdue notifications written with subject k

vars == <<now, resource, records, forms, scans, alerts>>

-----------------------------------------------------------------------------
AnyPlan == [kind |-> "repair", offline |-> FALSE, at |-> 0, due |-> 0]

NoForm == [step |-> "closed"]
NoScan == [step |-> "idle"]

TypeOK ==
  /\ now \in 0 .. MaxTime
  /\ resource \in Row
  /\ records \in [Records -> RecordRow]
  /\ forms \in [Managers -> {NoForm} \cup
                            [step : {"loaded", "retiring"}, row : Row]]
  /\ scans \in [Scanners -> {NoScan, [step |-> "outages_done"]} \cup
                            [step : {"selected", "offlined", "alerting"},
                             row : Row]]
  /\ alerts \in [Subjects -> Nat]

Init ==
  /\ now = 0
  /\ resource \in InitialRows
  /\ records = [r \in Records |-> [status |-> "absent", plan |-> AnyPlan]]
  /\ forms = [m \in Managers |-> NoForm]
  /\ scans = [s \in Scanners |-> NoScan]
  /\ alerts = [k \in Subjects |-> 0]

Tick ==
  /\ now < MaxTime
  /\ now' = now + 1
  /\ UNCHANGED <<resource, records, forms, scans, alerts>>

Open(r) == records[r].status \in {"scheduled", "in_progress"}

\* A record that keeps the equipment out of service today.
Outage(r) ==
  /\ records[r].plan.offline
  /\ Open(r)
  /\ \/ records[r].status = "in_progress"
     \/ records[r].plan.kind = "fault"
     \/ records[r].plan.at <= now

-----------------------------------------------------------------------------
(***************************************************************************)
(* Inventory: ResourceInventoryService.                                    *)
(***************************************************************************)

\* A manager's page loads the resource, with its version.
OpenForm(m) ==
  /\ forms[m] = NoForm
  /\ forms' = [forms EXCEPT ![m] = [step |-> "loaded", row |-> resource]]
  /\ UNCHANGED <<now, resource, records, scans, alerts>>

\* The page is closed, or its request was answered with an error.
CloseForm(m) ==
  /\ forms[m] # NoForm
  /\ forms' = [forms EXCEPT ![m] = NoForm]
  /\ UNCHANGED <<now, resource, records, scans, alerts>>

\* The submitted form replaces the attributes it names.
Edited(row, edit) ==
  [f \in DOMAIN row |-> IF f \in DOMAIN edit THEN edit[f] ELSE row[f]]

\* update_resource compares the form's version with the locked row.  The
\* bookings of the resource say which quantities are safe (ResourceBooking).
UpdateResource(m, edit, safeTotals) ==
  /\ forms[m].step = "loaded"
  /\ resource.version < MaxVersion
  /\ forms[m].row.version = resource.version
  /\ "total" \in DOMAIN edit => edit.total \in safeTotals
  /\ resource' = [Edited(resource, edit) EXCEPT !.version = resource.version + 1]
  /\ forms' = [forms EXCEPT ![m] = NoForm]
  /\ UNCHANGED <<now, records, scans, alerts>>

\* The retire view compares versions on a row it read without a lock.
RetireView(m) ==
  /\ forms[m].step = "loaded"
  /\ forms[m].row.version = resource.version
  /\ forms' = [forms EXCEPT ![m].step = "retiring"]
  /\ UNCHANGED <<now, resource, records, scans, alerts>>

\* retire_resource locks the row and does not look at its version again.
RetireResource(m) ==
  /\ forms[m].step = "retiring"
  /\ resource.version < MaxVersion
  /\ resource' = [resource EXCEPT !.status = "retired", !.version = @ + 1]
  /\ forms' = [forms EXCEPT ![m] = NoForm]
  /\ UNCHANGED <<now, records, scans, alerts>>

InventoryStep(safeTotals) ==
  \E m \in Managers :
    \/ OpenForm(m)
    \/ CloseForm(m)
    \/ \E edit \in Edits : UpdateResource(m, edit, safeTotals)
    \/ RetireView(m)
    \/ RetireResource(m)

-----------------------------------------------------------------------------
(***************************************************************************)
(* Maintenance: ResourceOperationsService.  Every method locks the record  *)
(* (if there is one) and the resource before it writes either.             *)
(***************************************************************************)

\* Mutant of Withdrawn: retired equipment is not excluded.
WithdrawnEvenRetired ==
  [resource EXCEPT !.status = "unavailable", !.version = @ + 1]

\* The row once it is taken out of service; a retired one is left alone.
Withdrawn ==
  IF resource.status = "retired"
  THEN resource
  ELSE [resource EXCEPT !.status = "unavailable", !.version = @ + 1]

CreateMaintenance(r, plan) ==
  /\ records[r].status = "absent"
  /\ resource.version < MaxVersion
  /\ records' = [records EXCEPT ![r] = [status |-> "scheduled", plan |-> plan]]
  /\ resource' = IF plan.offline /\ (plan.kind = "fault" \/ plan.at <= now)
                 THEN Withdrawn
                 ELSE resource
  /\ UNCHANGED <<now, forms, scans, alerts>>

\* Mutant of Releasable: other outages are not looked for.
ReleasableAlone(r) == resource.status # "retired"

\* May the resource return to service once r no longer holds it out of it?
Releasable(r) ==
  /\ resource.status # "retired"
  /\ \A other \in Records \ {r} : ~Outage(other)

StartMaintenance(r) ==
  /\ Open(r)
  /\ resource.version < MaxVersion
  /\ records' = [records EXCEPT ![r].status = "in_progress"]
  /\ resource' = IF records[r].plan.offline THEN Withdrawn ELSE resource
  /\ UNCHANGED <<now, forms, scans, alerts>>

\* Completion always saves the resource, whether or not r held it offline.
CompleteMaintenance(r) ==
  /\ Open(r)
  /\ resource.version < MaxVersion
  /\ records' = [records EXCEPT ![r].status = "completed"]
  /\ resource' =
       [resource EXCEPT
          !.status = IF Releasable(r) THEN "available" ELSE @,
          !.calibration = IF /\ records[r].plan.kind = "calibration"
                             /\ CalibrationInterval > 0
                          THEN now + CalibrationInterval
                          ELSE @,
          !.version = @ + 1]
  /\ UNCHANGED <<now, forms, scans, alerts>>

CancelMaintenance(r) ==
  /\ Open(r)
  /\ resource.version < MaxVersion
  /\ records' = [records EXCEPT ![r].status = "cancelled"]
  /\ resource' =
       IF records[r].plan.offline /\ Releasable(r)
       THEN [resource EXCEPT !.status = "available", !.version = @ + 1]
       ELSE resource
  /\ UNCHANGED <<now, forms, scans, alerts>>

MaintenanceStep ==
  \E r \in Records :
    \/ \E plan \in Plans : CreateMaintenance(r, plan)
    \/ StartMaintenance(r)
    \/ CompleteMaintenance(r)
    \/ CancelMaintenance(r)

-----------------------------------------------------------------------------
(***************************************************************************)
(* The operational scan: reconcile_resource_operation_alerts.  It runs in  *)
(* no transaction, so every statement is a step of its own.                *)
(***************************************************************************)

\* One UPDATE takes equipment with an outage out of service.
ScanOutages(s) ==
  /\ scans[s] = NoScan
  /\ resource' = IF resource.status = "available" /\ \E r \in Records : Outage(r)
                 THEN Withdrawn
                 ELSE resource
  /\ scans' = [scans EXCEPT ![s] = [step |-> "outages_done"]]
  /\ UNCHANGED <<now, records, forms, alerts>>

CalibrationOverdue == resource.calibration <= now

\* The rows with an overdue calibration are read, without a lock.
ScanSelect(s) ==
  /\ scans[s].step = "outages_done"
  /\ scans' = [scans EXCEPT
                 ![s] = IF CalibrationOverdue /\ resource.status # "retired"
                        THEN [step |-> "selected", row |-> resource]
                        ELSE NoScan]
  /\ UNCHANGED <<now, resource, records, forms, alerts>>

\* save(update_fields=["status", "version"]) of the row as it was read.
ScanTakeOffline(s) ==
  /\ scans[s].step = "selected"
  /\ resource' = IF scans[s].row.status = "available"
                 THEN [resource EXCEPT !.status = "unavailable",
                                       !.version = scans[s].row.version + 1]
                 ELSE resource
  /\ scans' = [scans EXCEPT ![s].step = "offlined"]
  /\ UNCHANGED <<now, records, forms, alerts>>

\* Mutants of ScanCheckAlert: earlier alerts are not looked for, or the subject
\* is not part of what is looked for.
ScanCheckNothing(s) ==
  /\ scans[s].step = "offlined"
  /\ scans' = [scans EXCEPT ![s].step = "alerting"]
  /\ UNCHANGED <<now, resource, records, forms, alerts>>

ScanCheckAnyDate(s) ==
  /\ scans[s].step = "offlined"
  /\ scans' = [scans EXCEPT
                 ![s] = IF \E k \in Subjects : alerts[k] > 0
                        THEN NoScan
                        ELSE [scans[s] EXCEPT !.step = "alerting"]]
  /\ UNCHANGED <<now, resource, records, forms, alerts>>

\* Has this due date been alerted already, under the name the scan has read?
ScanCheckAlert(s) ==
  /\ scans[s].step = "offlined"
  /\ scans' = [scans EXCEPT
                 ![s] = IF alerts[Subject(scans[s].row)] > 0
                        THEN NoScan
                        ELSE [scans[s] EXCEPT !.step = "alerting"]]
  /\ UNCHANGED <<now, resource, records, forms, alerts>>

ScanEnqueueAlert(s) ==
  /\ scans[s].step = "alerting"
  /\ alerts' = [alerts EXCEPT ![Subject(scans[s].row)] = @ + 1]
  /\ scans' = [scans EXCEPT ![s] = NoScan]
  /\ UNCHANGED <<now, resource, records, forms>>

Scan(s) ==
  \/ ScanOutages(s)
  \/ ScanSelect(s)
  \/ ScanTakeOffline(s)
  \/ ScanCheckAlert(s)
  \/ ScanEnqueueAlert(s)

ScanStep == \E s \in Scanners : Scan(s)

-----------------------------------------------------------------------------
\* With no booking the safe minimum of total_quantity is 1.
AnyTotal == Nat \ {0}

Next ==
  \/ Tick
  \/ InventoryStep(AnyTotal)
  \/ MaintenanceStep
  \/ ScanStep

Spec == Init /\ [][Next]_vars

\* Celery beat starts the scan every five minutes and a worker carries it on.
FairSpec == Spec /\ \A s \in Scanners : WF_vars(Scan(s))

-----------------------------------------------------------------------------
(***************************************************************************)
(* Properties.                                                             *)
(***************************************************************************)

\* A step of a maintenance record (transition_maintenance) returns the
\* resource to service only if no other record keeps it out and it was not
\* retired, whatever other managers opened or started in the meantime.
ReturnToServiceIsSafe ==
  [][records' # records /\ resource.status # "available"
                        /\ resource'.status = "available"
       => /\ resource.status # "retired"
          /\ \A r \in Records : ~Outage(r)']_vars

\* Scans that have looked for alerts with subject k, found none, and not yet
\* written theirs.
Alerting(k) ==
  {s \in Scanners : scans[s].step = "alerting" /\ Subject(scans[s].row) = k}

\* The look for earlier alerts and the insert are two statements, so the scan
\* of beat and the scan of the list view may both alert one due date.  But no
\* scan sets out to alert a subject that has been alerted, and each repeat
\* uses up a scan that had looked before the first alert was written: however
\* often the scan runs later, a due date is not alerted again
\* (reconcile_resource_operation_alerts).
RepeatsComeFromOverlaps ==
  [][\A k \in Subjects :
       alerts[k] > 0
         => /\ Alerting(k)' \subseteq Alerting(k)
            /\ alerts'[k] # alerts[k] => Alerting(k)' # Alerting(k)]_vars

\* The scan saves the status and version of a row that was changed after the
\* scan had read it.
StaleScan ==
  \E s \in Scanners :
    /\ scans[s].step = "selected" /\ scans'[s].step = "offlined"
    /\ scans[s].row # resource

\* A retired resource leaves that status only through a manager's edit, for
\* which a form is used up: maintenance and the scan exclude retired rows.
\* Only a scan that read the row before it was retired gets around that.
RetiredStaysRetired ==
  [][resource.status = "retired" /\ forms' = forms
       => resource'.status = "retired" \/ StaleScan]_vars

\* No two states of the row share a version, so the version check of
\* update_resource rejects every edit of a row that has changed since the
\* manager read it.  Only the save of an outdated row by the scan can bring a
\* version back.
VersionsGrow ==
  [][resource' # resource
       => resource'.version > resource.version \/ StaleScan]_vars

\* Equipment with an outage does not stay bookable: a scan withdraws it.
OutageIsWithdrawn ==
  (\E r \in Records : Outage(r))
    ~> (resource.status # "available" \/ \A r \in Records : ~Outage(r))

\* Equipment with an overdue calibration does not stay bookable either.
OverdueIsWithdrawn ==
  CalibrationOverdue ~> (resource.status # "available" \/ ~CalibrationOverdue)

\* And its managers are told, under the name and due date it then has.
OverdueIsAlerted ==
  CalibrationOverdue /\ resource.status # "retired"
    ~> \/ alerts[Subject(resource)] > 0
       \/ ~CalibrationOverdue
       \/ resource.status = "retired"
=============================================================================

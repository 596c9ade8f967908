------------------------ MODULE ResourceBookingProofs ------------------------
(***************************************************************************)
(* Theorems about ResourceOperations and ResourceBooking, for any number   *)
(* of bookings, requests, managers, maintenance records and scans, and for *)
(* any windows, quantities, plans and edits.                               *)
(***************************************************************************)
EXTENDS ResourceBooking, FiniteSetTheorems, TLAPS

USE DEF NoForm, NoScan

-----------------------------------------------------------------------------
(***************************************************************************)
(* The row stays a row, whatever operation writes it.                      *)
(***************************************************************************)

\* A submitted form leaves a well-formed row (update_resource).
LEMMA EditedIsRow ==
  ASSUME NEW row \in Row, NEW edit \in Edits
  PROVE  [Edited(row, edit) EXCEPT !.version = row.version + 1] \in Row
<1>1. DOMAIN row = {"name", "status", "total", "policy", "calibration", "version"}
  BY DEF Row
<1> DEFINE e == Edited(row, edit)
<1>2. /\ e.name \in Names /\ e.status \in ItemStatus /\ e.total \in Nat \ {0}
      /\ e.policy \in Policy /\ e.calibration \in Date /\ e.version \in Nat
  BY <1>1, InputAssumption DEF Edited, Row, EditField
<1>3. e = [name |-> e.name, status |-> e.status, total |-> e.total, policy |-> e.policy,
           calibration |-> e.calibration, version |-> e.version]
  BY <1>1 DEF Edited
<1> QED
  BY <1>2, <1>3 DEF Row

\* So does a save of the columns "status" and "version", with or without the
\* date of the next calibration.
LEMMA SavedIsRow ==
  ASSUME NEW row \in Row, NEW status \in ItemStatus, NEW date \in Date,
         NEW version \in Nat
  PROVE  /\ [row EXCEPT !.status = status, !.version = version] \in Row
         /\ [row EXCEPT !.status = status, !.calibration = date,
                        !.version = version] \in Row
<1> DEFINE a == [row EXCEPT !.status = status]
           b == [a EXCEPT !.calibration = date]
<1>1. \A r \in Row : /\ [r EXCEPT !.status = status] \in Row
                     /\ [r EXCEPT !.calibration = date] \in Row
                     /\ [r EXCEPT !.version = version] \in Row
  BY DEF Row
<1>2. a \in Row /\ b \in Row
  BY <1>1
<1>3. [a EXCEPT !.version = version] \in Row /\ [b EXCEPT !.version = version] \in Row
  <2> HIDE DEF a, b
  <2> QED
    BY <1>1, <1>2
<1> QED
  BY <1>3

\* Taking the resource out of service leaves a well-formed row
\* (create_maintenance, start).
LEMMA WithdrawnIsRow ==
  ASSUME resource \in Row
  PROVE  Withdrawn \in Row
<1>1. resource.version + 1 \in Nat /\ resource.calibration \in Date
  BY DEF Row
<1> QED
  BY <1>1, SavedIsRow DEF Withdrawn, ItemStatus

\* A manager's form, change or retirement keeps the types (update_resource,
\* retire_resource).
LEMMA InventoryTypes ==
  ASSUME TypeOK, NEW totals, InventoryStep(totals)
  PROVE  TypeOK'
<1>1. PICK m \in Managers :
        \/ OpenForm(m) \/ CloseForm(m)
        \/ \E edit \in Edits : UpdateResource(m, edit, totals)
        \/ RetireView(m) \/ RetireResource(m)
  BY DEF InventoryStep
<1>2. UNCHANGED <<now, records, scans, alerts>>
  BY <1>1 DEF OpenForm, CloseForm, UpdateResource, RetireView, RetireResource
<1>3. resource' \in Row
  <2>1. CASE \E edit \in Edits : UpdateResource(m, edit, totals)
    BY <2>1, EditedIsRow DEF UpdateResource, TypeOK
  <2>2. CASE RetireResource(m)
    <3>1. resource \in Row /\ resource.version + 1 \in Nat
          /\ resource.calibration \in Date
      BY DEF TypeOK, Row
    <3> QED
      BY <2>2, <3>1, SavedIsRow DEF RetireResource, ItemStatus
  <2> QED
    BY <1>1, <2>1, <2>2 DEF TypeOK, OpenForm, CloseForm, RetireView
<1>4. forms' \in [Managers -> {NoForm} \cup
                              [step : {"loaded", "retiring"}, row : Row]]
  BY <1>1 DEF TypeOK, OpenForm, CloseForm, UpdateResource, RetireView,
              RetireResource
<1> QED
  BY <1>2, <1>3, <1>4 DEF TypeOK

\* So does every operation on a maintenance record (create_maintenance,
\* transition_maintenance).
LEMMA MaintenanceTypes ==
  ASSUME TypeOK, MaintenanceStep
  PROVE  TypeOK'
<1>1. PICK r \in Records :
        \/ \E plan \in Plans : CreateMaintenance(r, plan)
        \/ StartMaintenance(r) \/ CompleteMaintenance(r) \/ CancelMaintenance(r)
  BY DEF MaintenanceStep
<1>2. UNCHANGED <<now, forms, scans, alerts>>
  BY <1>1 DEF CreateMaintenance, StartMaintenance, CompleteMaintenance,
              CancelMaintenance
<1>3. /\ resource \in Row /\ resource.status \in ItemStatus
      /\ resource.calibration \in Date /\ resource.version + 1 \in Nat
      /\ Withdrawn \in Row
  BY WithdrawnIsRow DEF TypeOK, Row
<1>4. resource' \in Row
  <2>1. CASE CompleteMaintenance(r)
    <3>1. now + CalibrationInterval \in Date
      BY BoundAssumption DEF TypeOK, Date, NoDate
    <3> QED
      BY <1>3, <2>1, <3>1, SavedIsRow DEF CompleteMaintenance, ItemStatus
  <2>2. CASE CancelMaintenance(r)
    BY <1>3, <2>2, SavedIsRow DEF CancelMaintenance, ItemStatus
  <2> QED
    BY <1>1, <1>3, <2>1, <2>2 DEF CreateMaintenance, StartMaintenance, TypeOK
<1>5. records' \in [Records -> RecordRow]
  BY <1>1, InputAssumption
  DEF CreateMaintenance, StartMaintenance, CompleteMaintenance,
      CancelMaintenance, TypeOK, RecordRow
<1> QED
  BY <1>2, <1>4, <1>5 DEF TypeOK

\* So does every step of a scan (reconcile_resource_operation_alerts).
LEMMA ScanTypes ==
  ASSUME TypeOK, ScanStep
  PROVE  TypeOK'
<1>1. PICK s \in Scanners : Scan(s)
  BY DEF ScanStep
<1>2. UNCHANGED <<now, records, forms>>
  BY <1>1 DEF Scan, ScanOutages, ScanSelect, ScanTakeOffline, ScanCheckAlert,
              ScanEnqueueAlert
<1>3. resource' \in Row
  <2>1. CASE ScanOutages(s)
    BY <2>1, WithdrawnIsRow DEF ScanOutages, TypeOK
  <2>2. CASE ScanTakeOffline(s)
    <3>1. scans[s].row \in Row
      BY <2>2 DEF ScanTakeOffline, TypeOK
    <3>2. /\ resource \in Row /\ resource.calibration \in Date
          /\ scans[s].row.version + 1 \in Nat
      BY <3>1 DEF TypeOK, Row
    <3> QED
      BY <2>2, <3>2, SavedIsRow DEF ScanTakeOffline, ItemStatus
  <2> QED
    BY <1>1, <2>1, <2>2 DEF Scan, ScanSelect, ScanCheckAlert,
                            ScanEnqueueAlert, TypeOK
<1>4. scans' \in [Scanners -> {NoScan, [step |-> "outages_done"]} \cup
                              [step : {"selected", "offlined", "alerting"},
                               row : Row]]
  BY <1>1 DEF Scan, ScanOutages, ScanSelect, ScanTakeOffline, ScanCheckAlert,
              ScanEnqueueAlert, TypeOK
<1>5. alerts' \in [Subjects -> Nat]
  <2>1. CASE ScanEnqueueAlert(s)
    <3>1. Subject(scans[s].row) \in Subjects
      BY <2>1 DEF ScanEnqueueAlert, TypeOK, Row, Subject, Subjects
    <3> QED
      BY <2>1, <3>1 DEF ScanEnqueueAlert, TypeOK
  <2> QED
    BY <1>1, <2>1 DEF Scan, ScanOutages, ScanSelect, ScanTakeOffline,
                      ScanCheckAlert, TypeOK
<1> QED
  BY <1>2, <1>3, <1>4, <1>5 DEF TypeOK

\* A new resource is well formed (create_resource).
LEMMA InitTypes == Init => TypeOK
BY BoundAssumption, InputAssumption
DEF Init, TypeOK, RecordRow, Plan, AnyPlan, RecordKind, Date, NoDate

\* Every state the services can reach is well formed: dates stay dates after a
\* completed calibration, and a form or a scan holds a complete row.
THEOREM TypeCorrect == Spec => []TypeOK
<1>1. TypeOK /\ [Next]_vars => TypeOK'
  <2> SUFFICES ASSUME TypeOK, [Next]_vars PROVE TypeOK'
    OBVIOUS
  <2>1. CASE UNCHANGED vars
    BY <2>1 DEF vars, TypeOK
  <2>2. CASE Tick
    BY <2>2, BoundAssumption DEF TypeOK, Tick
  <2> QED
    BY <2>1, <2>2, InventoryTypes, MaintenanceTypes, ScanTypes DEF Next
<1> QED
  BY <1>1, InitTypes, PTL DEF Spec

-----------------------------------------------------------------------------
(***************************************************************************)
(* What a single step may do to the row.                                   *)
(***************************************************************************)

\* Only a scan that saves a row it read before the resource was retired takes
\* the status "retired" back without a manager's form.
LEMMA RetirementStep ==
  ASSUME TypeOK, [Next]_vars, resource.status = "retired", forms' = forms
  PROVE  resource'.status = "retired" \/ StaleScan
<1>1. CASE InventoryStep(AnyTotal)
  <2>1. PICK m \in Managers :
          \/ OpenForm(m) \/ CloseForm(m)
          \/ \E edit \in Edits : UpdateResource(m, edit, AnyTotal)
          \/ RetireView(m) \/ RetireResource(m)
    BY <1>1 DEF InventoryStep
  <2>2. forms'[m] # forms[m] \/ resource' = resource
    BY <2>1 DEF OpenForm, CloseForm, UpdateResource, RetireView,
                RetireResource, TypeOK
  <2> QED
    BY <2>2
<1>2. CASE MaintenanceStep
  BY <1>2 DEF MaintenanceStep, CreateMaintenance, StartMaintenance,
              CompleteMaintenance, CancelMaintenance, Withdrawn, Releasable,
              TypeOK, Row
<1>3. CASE ScanStep
  <2>1. PICK s \in Scanners : Scan(s)
    BY <1>3 DEF ScanStep
  <2>2. CASE ScanTakeOffline(s)
    <3>1. scans'[s].step = "offlined"
      BY <2>2 DEF ScanTakeOffline, TypeOK
    <3>2. resource' = resource \/ scans[s].row # resource
      BY <2>2 DEF ScanTakeOffline
    <3> QED
      BY <2>2, <3>1, <3>2 DEF ScanTakeOffline, StaleScan
  <2> QED
    BY <2>1, <2>2 DEF Scan, ScanOutages, ScanSelect, ScanCheckAlert,
                      ScanEnqueueAlert
<1> QED
  BY <1>1, <1>2, <1>3 DEF Next, Tick, vars

\* Every other step that changes the row gives it a greater version.
LEMMA VersionStep ==
  ASSUME TypeOK, [Next]_vars, resource' # resource
  PROVE  resource'.version > resource.version \/ StaleScan
<1>1. resource \in Row /\ resource.version \in Nat
  BY DEF TypeOK, Row
<1>2. CASE InventoryStep(AnyTotal)
  <2>1. \/ resource'.version = resource.version + 1
        \/ \E m \in Managers, edit \in Edits :
             UpdateResource(m, edit, AnyTotal)
    BY <1>1, <1>2 DEF InventoryStep, OpenForm, CloseForm, RetireView,
                      RetireResource, Row
  <2>2. ASSUME NEW m \in Managers, NEW edit \in Edits,
               UpdateResource(m, edit, AnyTotal)
        PROVE  resource'.version = resource.version + 1
    <3>1. "version" \in DOMAIN Edited(resource, edit)
      BY <1>1 DEF Edited, Row
    <3> QED
      BY <2>2, <3>1 DEF UpdateResource
  <2> QED
    BY <1>1, <2>1, <2>2
<1> DEFINE next == resource.version + 1
<1>3. \A row \in Row : /\ [row EXCEPT !.status = "unavailable"] \in Row
                      /\ [row EXCEPT !.version = next].version = next
  BY DEF Row, ItemStatus
<1>4. Withdrawn = resource \/ Withdrawn.version = next
  BY <1>1, <1>3 DEF Withdrawn
<1>5. CASE MaintenanceStep
  <2>1. PICK r \in Records :
          \/ \E plan \in Plans : CreateMaintenance(r, plan)
          \/ StartMaintenance(r) \/ CompleteMaintenance(r)
          \/ CancelMaintenance(r)
    BY <1>5 DEF MaintenanceStep
  <2>2. CASE CompleteMaintenance(r)
    BY <1>1, <2>2 DEF CompleteMaintenance, Row
  <2>3. CASE CancelMaintenance(r)
    BY <1>1, <2>3 DEF CancelMaintenance, Row
  <2> QED
    BY <1>1, <1>4, <2>1, <2>2, <2>3 DEF CreateMaintenance, StartMaintenance
<1>6. CASE ScanStep
  <2>1. PICK s \in Scanners : Scan(s)
    BY <1>6 DEF ScanStep
  <2>2. CASE ScanTakeOffline(s)
    <3>1. scans'[s].step = "offlined"
      BY <2>2 DEF ScanTakeOffline, TypeOK
    <3>2. scans[s].row = resource => resource'.version = resource.version + 1
      BY <1>1, <2>2 DEF ScanTakeOffline, Row
    <3> QED
      BY <1>1, <2>2, <3>1, <3>2 DEF ScanTakeOffline, StaleScan
  <2> QED
    BY <1>1, <1>4, <2>1, <2>2
    DEF Scan, ScanOutages, ScanSelect, ScanCheckAlert, ScanEnqueueAlert
<1> QED
  BY <1>2, <1>5, <1>6 DEF Next, Tick, vars

\* Completion and cancellation are the steps that return the resource to
\* service; both ask Releasable, and the record they close is no outage.
LEMMA ReturnStep ==
  ASSUME TypeOK, [Next]_vars, records' # records,
         resource.status # "available", resource'.status = "available"
  PROVE  resource.status # "retired" /\ \A r \in Records : ~Outage(r)'
<1>1. MaintenanceStep
  <2>1. CASE Tick \/ UNCHANGED vars
    BY <2>1 DEF Tick, vars
  <2>2. CASE InventoryStep(AnyTotal)
    BY <2>2 DEF InventoryStep, OpenForm, CloseForm, UpdateResource, RetireView,
                RetireResource
  <2>3. ASSUME NEW s \in Scanners, Scan(s)
        PROVE  FALSE
    BY <2>3 DEF Scan, ScanOutages, ScanSelect, ScanTakeOffline, ScanCheckAlert,
                ScanEnqueueAlert
  <2> QED
    BY <2>1, <2>2, <2>3 DEF Next, ScanStep
<1>2. PICK r \in Records : CompleteMaintenance(r) \/ CancelMaintenance(r)
  <2>1. ASSUME NEW r \in Records, NEW plan \in Plans, CreateMaintenance(r, plan)
        PROVE  FALSE
    BY <2>1 DEF CreateMaintenance, Withdrawn, TypeOK, Row
  <2>2. ASSUME NEW r \in Records, StartMaintenance(r)
        PROVE  FALSE
    BY <2>2 DEF StartMaintenance, Withdrawn, TypeOK, Row
  <2> QED
    BY <1>1, <2>1, <2>2 DEF MaintenanceStep
<1>3. Releasable(r)
  BY <1>2 DEF CompleteMaintenance, CancelMaintenance, TypeOK, Row
<1>4. /\ now' = now
      /\ records'[r].status \in {"completed", "cancelled"}
      /\ \A other \in Records \ {r} : records'[other] = records[other]
  BY <1>2 DEF CompleteMaintenance, CancelMaintenance, TypeOK, RecordRow
<1>5. \A other \in Records \ {r} : ~Outage(other)'
  BY <1>3, <1>4 DEF Releasable, Outage, Open
<1>6. ~Outage(r)'
  BY <1>4 DEF Outage, Open
<1> QED
  BY <1>3, <1>5, <1>6 DEF Releasable

\* Maintenance, inventory edits and any number of scans never un-retire a
\* resource, a scan with an outdated row excepted.
THEOREM RetirementHolds == Spec => RetiredStaysRetired
<1>1. TypeOK /\ [Next]_vars
        => [resource.status = "retired" /\ forms' = forms
              => resource'.status = "retired" \/ StaleScan]_vars
  BY RetirementStep
<1> QED
  BY <1>1, TypeCorrect, PTL DEF Spec, RetiredStaysRetired

\* The version check of update_resource is sound but for those same scans.
THEOREM VersionsIdentifyRows == Spec => VersionsGrow
<1>1. TypeOK /\ [Next]_vars
        => [resource' # resource
              => resource'.version > resource.version \/ StaleScan]_vars
  BY VersionStep
<1> QED
  BY <1>1, TypeCorrect, PTL DEF Spec, VersionsGrow

\* However many maintenance records overlap, closing one of them returns the
\* resource to service only when no other keeps it out.
THEOREM MaintenanceReturnsSafely == Spec => ReturnToServiceIsSafe
<1>1. TypeOK /\ [Next]_vars
        => [records' # records /\ resource.status # "available"
                              /\ resource'.status = "available"
              => /\ resource.status # "retired"
                 /\ \A r \in Records : ~Outage(r)']_vars
  BY ReturnStep
<1> QED
  BY <1>1, TypeCorrect, PTL DEF Spec, ReturnToServiceIsSafe

-----------------------------------------------------------------------------
(***************************************************************************)
(* Alerts, however many scans overlap.                                     *)
(***************************************************************************)

\* A scan writes an alert only if it has looked for earlier ones, and it sets
\* out to write one only where it has found none.
LEMMA AlertStep ==
  ASSUME TypeOK, ScanStep, NEW k \in Subjects, alerts[k] > 0
  PROVE  /\ Alerting(k)' \subseteq Alerting(k)
         /\ alerts'[k] # alerts[k] => Alerting(k)' # Alerting(k)
<1>1. PICK s \in Scanners : Scan(s)
  BY DEF ScanStep
<1>2. \A t \in Scanners \ {s} : scans'[t] = scans[t]
  BY <1>1 DEF TypeOK, Scan, ScanOutages, ScanSelect, ScanTakeOffline,
              ScanCheckAlert, ScanEnqueueAlert
<1>3. CASE ScanOutages(s) \/ ScanSelect(s) \/ ScanTakeOffline(s)
  <2>1. scans'[s].step # "alerting" /\ alerts' = alerts
    BY <1>3 DEF TypeOK, ScanOutages, ScanSelect, ScanTakeOffline
  <2> QED
    BY <1>2, <2>1 DEF Alerting
<1>4. CASE ScanCheckAlert(s)
  <2>1. alerts' = alerts
    BY <1>4 DEF ScanCheckAlert
  <2>2. scans'[s].step = "alerting"
          => scans'[s].row = scans[s].row /\ ~(alerts[Subject(scans[s].row)] > 0)
    BY <1>4 DEF TypeOK, ScanCheckAlert
  <2>3. s \notin Alerting(k)'
    BY <2>2 DEF Alerting
  <2> QED
    BY <1>2, <2>1, <2>3 DEF Alerting
<1>5. CASE ScanEnqueueAlert(s)
  <2>1. scans'[s] = NoScan /\ scans[s].step = "alerting"
    BY <1>5 DEF TypeOK, ScanEnqueueAlert
  <2>2. s \notin Alerting(k)'
    BY <2>1 DEF Alerting
  <2>3. alerts'[k] # alerts[k] => s \in Alerting(k)
    BY <1>5, <2>1 DEF TypeOK, ScanEnqueueAlert, Alerting
  <2> QED
    BY <1>2, <2>2, <2>3 DEF Alerting
<1> QED
  BY <1>1, <1>3, <1>4, <1>5 DEF Scan

\* However many scans overlap, and whatever managers and maintenance do in
\* between, only scans that had looked before the first alert repeat it.
THEOREM AlertsRepeatInOverlapsOnly == Spec => RepeatsComeFromOverlaps
<1>1. TypeOK /\ [Next]_vars
        => [\A k \in Subjects :
              alerts[k] > 0
                => /\ Alerting(k)' \subseteq Alerting(k)
                   /\ alerts'[k] # alerts[k] => Alerting(k)' # Alerting(k)]_vars
  <2>1. ASSUME TypeOK, Next, NEW k \in Subjects, alerts[k] > 0
        PROVE  /\ Alerting(k)' \subseteq Alerting(k)
               /\ alerts'[k] # alerts[k] => Alerting(k)' # Alerting(k)
    <3>1. ScanStep \/ UNCHANGED <<scans, alerts>>
      BY <2>1 DEF Next, Tick, InventoryStep, OpenForm, CloseForm,
             UpdateResource, RetireView, RetireResource, MaintenanceStep,
             CreateMaintenance, StartMaintenance, CompleteMaintenance,
             CancelMaintenance
    <3>2. CASE UNCHANGED <<scans, alerts>>
      BY <3>2 DEF Alerting
    <3> QED
      BY <2>1, <3>1, <3>2, AlertStep
  <2> QED
    BY <2>1
<1> QED
  BY <1>1, TypeCorrect, PTL DEF Spec, RepeatsComeFromOverlaps

HIDE DEF NoForm, NoScan

-----------------------------------------------------------------------------
(***************************************************************************)
(* The resource, with bookings, still behaves as ResourceOperations says,  *)
(* so everything proved there holds here.                                  *)
(***************************************************************************)

\* No booking operation writes the resource or its maintenance records.
LEMMA BookingKeepsResource == BookingStep => UNCHANGED vars
<1>1. SUFFICES ASSUME BookingStep
               PROVE  UNCHANGED vars
  OBVIOUS
<1>2. ASSUME NEW q \in Requests,
             \/ ViewCreate(q)
             \/ \E b \in Bookings : ViewUpdate(q, b)
             \/ RejectRequest(q)
      PROVE  UNCHANGED vars
  BY <1>2 DEF ViewCreate, ViewUpdate, RejectRequest
<1>3. ASSUME NEW q \in Requests, NEW b \in Bookings, NEW window \in Windows,
             NEW quantity \in Quantities, NEW role \in {"student", "manager"},
             CreateBooking(q, b, window, quantity, role)
      PROVE  UNCHANGED vars
  BY <1>3 DEF CreateBooking
<1>4. ASSUME NEW q \in Requests, NEW window \in Windows, NEW quantity \in Quantities,
             UpdateBooking(q, window, quantity)
      PROVE  UNCHANGED vars
  BY <1>4 DEF UpdateBooking
<1>5. ASSUME NEW b \in Bookings,
             \/ CancelBooking(b)
             \/ ReturnBooking(b)
             \/ \E approve \in BOOLEAN : DecideBooking(b, approve)
      PROVE  UNCHANGED vars
  BY <1>5 DEF CancelBooking, ReturnBooking, DecideBooking
<1>6. CASE ReconcileCompletedBookings
  BY <1>6 DEF ReconcileCompletedBookings
<1> QED
  BY <1>1, <1>2, <1>3, <1>4, <1>5, <1>6 DEF BookingStep

\* Bookings never write the resource, and what _safe_minimum_quantity allows
\* is a quantity that update_resource could accept without bookings.
THEOREM BookingsRefineOperations == BookingSpec => Spec
<1>1. BookingInit => Init
  BY DEF BookingInit
<1>2. [BookingNext]_bookingVars => [Next]_vars
  <2>1. BookingStep => UNCHANGED vars
    BY BookingKeepsResource
  <2>2. InventoryStep(SafeTotals) => InventoryStep(AnyTotal)
    <3>1. SafeTotals \subseteq AnyTotal
      BY DEF SafeTotals, AnyTotal
    <3> QED
      BY <3>1 DEF InventoryStep, UpdateResource
  <2> QED
    BY <2>1, <2>2 DEF BookingNext, ResourceStep, Next, bookingVars
<1> QED
  BY <1>1, <1>2, PTL DEF BookingSpec, Spec

-----------------------------------------------------------------------------
(***************************************************************************)
(* Types.                                                                  *)
(***************************************************************************)

\* A resource without bookings is well formed.
LEMMA BookingInitTypes == BookingInit => BookingTypeOK
<1>1. NewBooking \in BookingRow
  BY BoundAssumption, BookingAssumption
  DEF NewBooking, BookingRow, BookingStatus, Window, Slots, Quantities
<1> QED
  BY <1>1, InitTypes DEF BookingInit, BookingTypeOK

\* Steps of the composed system keep the types of the resource.
LEMMA ResourceTypes ==
  ASSUME TypeOK, [BookingNext]_bookingVars
  PROVE  TypeOK'
<1>1. CASE ResourceStep
  <2>1. CASE Tick
    BY <2>1, BoundAssumption DEF TypeOK, Tick
  <2> QED
    BY <1>1, <2>1, InventoryTypes, MaintenanceTypes, ScanTypes DEF ResourceStep
<1>2. CASE UNCHANGED vars
  BY <1>2 DEF vars, TypeOK
<1> QED
  BY <1>1, <1>2, BookingKeepsResource DEF BookingNext, bookingVars

\* Every save of a booking keeps the row well formed; a return is the only
\* operation that computes a window.
LEMMA SavedBookingIsRow ==
  ASSUME NEW row \in BookingRow, NEW status \in BookingStatus,
         NEW window \in Window, NEW quantity \in Quantities
  PROVE  /\ [row EXCEPT !.status = status] \in BookingRow
         /\ [row EXCEPT !.status = status, !.version = @ + 1] \in BookingRow
         /\ [row EXCEPT !.window = window, !.quantity = quantity,
                        !.version = @ + 1] \in BookingRow
<1> DEFINE a == [row EXCEPT !.status = status]
           b == [row EXCEPT !.window = window]
           c == [b EXCEPT !.quantity = quantity]
<1>1. \A r \in BookingRow :
        /\ [r EXCEPT !.status = status] \in BookingRow
        /\ [r EXCEPT !.window = window] \in BookingRow
        /\ [r EXCEPT !.quantity = quantity] \in BookingRow
        /\ [r EXCEPT !.version = row.version + 1] \in BookingRow
  BY DEF BookingRow
<1>2. a \in BookingRow /\ b \in BookingRow
  BY <1>1
<1>3. c \in BookingRow
  <2> HIDE DEF b
  <2> QED
    BY <1>1, <1>2
<1>4. /\ [a EXCEPT !.version = row.version + 1] \in BookingRow
      /\ [c EXCEPT !.version = row.version + 1] \in BookingRow
  <2> HIDE DEF a, c
  <2> QED
    BY <1>1, <1>2, <1>3
<1> QED
  BY <1>2, <1>4

\* Creation and update, the operations that use what the view has read, keep
\* the types of bookings and requests (create_booking, update_booking).
LEMMA BookingRequestTypes ==
  ASSUME BookingTypeOK, NEW q \in Requests,
         \/ ViewCreate(q)
         \/ \E b \in Bookings, window \in Windows, quantity \in Quantities,
               role \in {"student", "manager"} :
              CreateBooking(q, b, window, quantity, role)
         \/ \E b \in Bookings : ViewUpdate(q, b)
         \/ \E window \in Windows, quantity \in Quantities :
              UpdateBooking(q, window, quantity)
         \/ RejectRequest(q)
  PROVE  /\ bookings' \in [Bookings -> BookingRow]
         /\ requests' \in [Requests -> {NoRequest}
                              \cup [step : {"creating"}, row : Row]
                              \cup [step : {"updating"}, booking : Bookings,
                                    row : BookingRow]]
<1>1. CASE ViewCreate(q)
  BY <1>1 DEF ViewCreate, BookingTypeOK, TypeOK
<1>2. ASSUME NEW b \in Bookings, NEW window \in Windows,
             NEW quantity \in Quantities, NEW role,
             CreateBooking(q, b, window, quantity, role)
      PROVE  /\ bookings' \in [Bookings -> BookingRow]
             /\ requests' = [requests EXCEPT ![q] = NoRequest]
  <2>1. window \in Window
    BY BookingAssumption
  <2>2. PICK status \in BookingStatus :
          bookings' = [bookings EXCEPT
                         ![b] = [status |-> status, window |-> window,
                                 quantity |-> quantity, version |-> 1]]
    BY <1>2 DEF CreateBooking, BookingStatus
  <2>3. [status |-> status, window |-> window, quantity |-> quantity,
         version |-> 1] \in BookingRow
    BY <2>1 DEF BookingRow
  <2> QED
    BY <1>2, <2>2, <2>3 DEF CreateBooking, BookingTypeOK
<1>3. CASE \E b \in Bookings : ViewUpdate(q, b)
  BY <1>3 DEF ViewUpdate, BookingTypeOK
<1>4. ASSUME NEW window \in Windows, NEW quantity \in Quantities,
             UpdateBooking(q, window, quantity)
      PROVE  /\ bookings' \in [Bookings -> BookingRow]
             /\ requests' = [requests EXCEPT ![q] = NoRequest]
  <2>1. window \in Window /\ requests[q].row \in BookingRow
    <3>1. requests[q].step = "updating"
      BY <1>4 DEF UpdateBooking
    <3>2. requests[q] \in [step : {"updating"}, booking : Bookings,
                           row : BookingRow]
      BY <3>1 DEF BookingTypeOK, NoRequest
    <3> QED
      BY <3>2, BookingAssumption
  <2>2. requests[q].row.status \in BookingStatus
    BY <2>1 DEF BookingRow
  <2>3. [requests[q].row EXCEPT !.window = window, !.quantity = quantity,
                                !.version = @ + 1] \in BookingRow
    BY <2>1, <2>2, SavedBookingIsRow
  <2> QED
    BY <1>4, <2>3 DEF UpdateBooking, BookingTypeOK
<1>5. CASE RejectRequest(q)
  BY <1>5 DEF RejectRequest, BookingTypeOK
<1> QED
  BY <1>1, <1>2, <1>3, <1>4, <1>5 DEF BookingTypeOK

\* So do the operations that lock the booking and read it again
\* (cancel_booking, return_booking, decide_booking).
LEMMA LockedBookingTypes ==
  ASSUME BookingTypeOK, NEW b \in Bookings,
         \/ CancelBooking(b)
         \/ ReturnBooking(b)
         \/ \E approve \in BOOLEAN : DecideBooking(b, approve)
  PROVE  bookings' \in [Bookings -> BookingRow]
<1>1. bookings[b] \in BookingRow
  BY DEF BookingTypeOK
<1>2. CASE CancelBooking(b)
  BY <1>1, <1>2 DEF CancelBooking, BookingTypeOK, BookingRow, BookingStatus
<1>3. CASE ReturnBooking(b)
  <2>1. [bookings[b].window EXCEPT !.end = now] \in Window
    BY <1>1, <1>3, BoundAssumption
    DEF ReturnBooking, BookingTypeOK, TypeOK, BookingRow, Window, Slots
  <2> QED
    BY <1>1, <1>3, <2>1
    DEF ReturnBooking, BookingTypeOK, BookingRow, BookingStatus
<1>4. CASE \E approve \in BOOLEAN : DecideBooking(b, approve)
  <2>1. PICK status \in BookingStatus :
          bookings' = [bookings EXCEPT ![b].status = status,
                                       ![b].version = @ + 1]
    BY <1>4 DEF DecideBooking, BookingStatus
  <2> QED
    BY <1>1, <2>1 DEF BookingTypeOK, BookingRow
<1> QED
  BY <1>2, <1>3, <1>4

\* So does every step, the bulk completion of reconcile_completed_bookings and
\* the steps of the resource included.
LEMMA BookingStepTypes ==
  ASSUME BookingTypeOK, [BookingNext]_bookingVars
  PROVE  BookingTypeOK'
<1>1. TypeOK'
  BY ResourceTypes DEF BookingTypeOK
<1>2. ASSUME NEW q \in Requests,
             \/ ViewCreate(q)
             \/ \E b \in Bookings, window \in Windows,
                   quantity \in Quantities, role \in {"student", "manager"} :
                  CreateBooking(q, b, window, quantity, role)
             \/ \E b \in Bookings : ViewUpdate(q, b)
             \/ \E window \in Windows, quantity \in Quantities :
                  UpdateBooking(q, window, quantity)
             \/ RejectRequest(q)
      PROVE  BookingTypeOK'
  BY <1>1, <1>2, BookingRequestTypes DEF BookingTypeOK
<1>3. ASSUME NEW b \in Bookings,
             \/ CancelBooking(b)
             \/ ReturnBooking(b)
             \/ \E approve \in BOOLEAN : DecideBooking(b, approve)
      PROVE  BookingTypeOK'
  <2>1. requests' = requests
    BY <1>3 DEF CancelBooking, ReturnBooking, DecideBooking
  <2> QED
    BY <1>1, <1>3, <2>1, LockedBookingTypes DEF BookingTypeOK
<1>4. CASE ReconcileCompletedBookings
  <2>1. \A b \in Bookings :
          [bookings[b] EXCEPT !.status = "completed"] \in BookingRow
    BY DEF BookingTypeOK, BookingRow, BookingStatus
  <2> QED
    BY <1>1, <1>4, <2>1 DEF ReconcileCompletedBookings, BookingTypeOK
<1>5. CASE UNCHANGED requestVars
  BY <1>1, <1>5 DEF requestVars, BookingTypeOK
<1> QED
  BY <1>2, <1>3, <1>4, <1>5
  DEF BookingNext, BookingStep, ResourceStep, bookingVars

\* Bookings stay well formed; in particular no operation, the early return
\* included, leaves an empty window (the constraint booking_end_after_start).
THEOREM BookingTypeCorrect == BookingSpec => []BookingTypeOK
<1>1. BookingTypeOK /\ [BookingNext]_bookingVars => BookingTypeOK'
  BY BookingStepTypes
<1> QED
  BY BookingInitTypes, <1>1, PTL DEF BookingSpec

-----------------------------------------------------------------------------
(***************************************************************************)
(* Capacity.  Every step either only gives up load, or grants one booking  *)
(* its window after _assert_capacity.                                      *)
(***************************************************************************)

OnlyReleases ==
  \A b \in Bookings, slot \in Slots :
    HoldsAt(b, slot)' => /\ HoldsAt(b, slot)
                         /\ bookings'[b].quantity = bookings[b].quantity

Grants(b) ==
  /\ AssertCapacity(bookings'[b].window, bookings'[b].quantity, {b})
  /\ \A other \in Bookings \ {b} : bookings'[other] = bookings[other]
  /\ resource' = resource

\* Every operation either keeps or gives up what bookings hold, or grants one
\* booking its window after _assert_capacity has passed for it.
LEMMA ReleaseOrGrant ==
  ASSUME BookingTypeOK, [BookingNext]_bookingVars
  PROVE  OnlyReleases \/ \E b \in Bookings : Grants(b)
<1>0. ASSUME NEW b \in Bookings, ~Confirmed(b), NEW window, NEW quantity,
             AssertCapacity(window, quantity, {})
      PROVE  AssertCapacity(window, quantity, {b})
  \* A booking that is not confirmed is not counted, so leaving it out of the
  \* count changes nothing.
  <2>1. {o \in Bookings \ {b} :
           Confirmed(o) /\ Overlaps(bookings[o].window, window)}
        = {o \in Bookings \ {} :
             Confirmed(o) /\ Overlaps(bookings[o].window, window)}
    BY <1>0
  <2> QED
    BY <1>0, <2>1 DEF AssertCapacity
<1>1. ASSUME NEW q \in Requests, NEW b \in Bookings, NEW window \in Windows,
             NEW quantity \in Quantities, NEW role,
             CreateBooking(q, b, window, quantity, role)
      PROVE  Grants(b)
  <2>1. ~Confirmed(b) /\ AssertCapacity(window, quantity, {})
    BY <1>1 DEF CreateBooking, Confirmed
  <2>2. AssertCapacity(window, quantity, {b})
    BY <2>1, <1>0
  <2>3. /\ bookings'[b].window = window /\ bookings'[b].quantity = quantity
        /\ \A other \in Bookings \ {b} : bookings'[other] = bookings[other]
        /\ resource' = resource
    BY <1>1 DEF CreateBooking, BookingTypeOK, vars
  <2> QED
    BY <2>2, <2>3 DEF Grants
<1>2. ASSUME NEW q \in Requests, NEW window \in Windows,
             NEW quantity \in Quantities, UpdateBooking(q, window, quantity)
      PROVE  OnlyReleases \/ \E b \in Bookings : Grants(b)
  <2> DEFINE b == requests[q].booking
             seen == requests[q].row
  <2>1. b \in Bookings /\ seen \in BookingRow
    <3>1. requests[q].step = "updating"
      BY <1>2 DEF UpdateBooking
    <3>2. requests[q] \in [step : {"updating"}, booking : Bookings,
                           row : BookingRow]
      BY <3>1 DEF BookingTypeOK, NoRequest
    <3> QED
      BY <3>2
  <2>2. /\ bookings'[b].window = window /\ bookings'[b].quantity = quantity
        /\ bookings'[b].status = seen.status
        /\ \A other \in Bookings \ {b} : bookings'[other] = bookings[other]
        /\ resource' = resource
        /\ seen.status = "confirmed" => AssertCapacity(window, quantity, {b})
    BY <1>2, <2>1 DEF UpdateBooking, BookingTypeOK, BookingRow, vars
  <2> HIDE DEF b, seen
  <2>3. CASE seen.status = "confirmed"
    BY <2>1, <2>2, <2>3 DEF Grants
  <2>4. CASE seen.status # "confirmed"
    BY <2>1, <2>2, <2>4 DEF OnlyReleases, HoldsAt, Confirmed
  <2> QED
    BY <2>3, <2>4
<1>3. ASSUME NEW b \in Bookings, NEW approve \in BOOLEAN,
             DecideBooking(b, approve)
      PROVE  OnlyReleases \/ Grants(b)
  <2>1. /\ bookings'[b].window = bookings[b].window
        /\ bookings'[b].quantity = bookings[b].quantity
        /\ bookings'[b].status = (IF approve THEN "confirmed" ELSE "rejected")
        /\ \A other \in Bookings \ {b} : bookings'[other] = bookings[other]
        /\ resource' = resource
    BY <1>3 DEF DecideBooking, BookingTypeOK, BookingRow, vars
  <2>2. CASE approve
    <3>1. AssertCapacity(bookings[b].window, bookings[b].quantity, {b})
      BY <1>0, <1>3, <2>2 DEF DecideBooking, Confirmed
    <3> QED
      BY <2>1, <3>1 DEF Grants
  <2>3. CASE ~approve
    BY <2>1, <2>3 DEF OnlyReleases, HoldsAt, Confirmed
  <2> QED
    BY <2>2, <2>3
<1>4. ASSUME NEW b \in Bookings, CancelBooking(b) \/ ReturnBooking(b)
      PROVE  OnlyReleases
  <2>1. /\ bookings'[b].status # "confirmed"
        /\ \A other \in Bookings \ {b} : bookings'[other] = bookings[other]
    BY <1>4 DEF CancelBooking, ReturnBooking, BookingTypeOK, BookingRow
  <2> QED
    BY <2>1 DEF OnlyReleases, HoldsAt, Confirmed
<1>5. CASE ReconcileCompletedBookings
  <2>1. \A b \in Bookings : \/ bookings'[b] = bookings[b]
                            \/ bookings'[b].status = "completed"
    BY <1>5 DEF ReconcileCompletedBookings, BookingTypeOK, BookingRow
  <2> QED
    BY <2>1 DEF OnlyReleases, HoldsAt, Confirmed
<1>6. CASE bookings' = bookings
  BY <1>6 DEF OnlyReleases, HoldsAt, Confirmed
<1> QED
  BY <1>1, <1>2, <1>3, <1>4, <1>5, <1>6
  DEF BookingNext, BookingStep, ResourceStep, ViewCreate, ViewUpdate,
      RejectRequest, bookingVars, requestVars

Holding(slot) == {b \in Bookings : HoldsAt(b, slot)}

\* The bookings that AssertCapacity counts next to b.
Others(b, window) ==
  {o \in Bookings \ {b} : Confirmed(o) /\ Overlaps(bookings[o].window, window)}

\* Only finitely many units are ever counted, so sums over bookings are numbers.
LEMMA UnitsAreFinite ==
  ASSUME NEW set \in SUBSET Bookings
  PROVE  IsFiniteSet(UnitsOf(set)) /\ Cardinality(UnitsOf(set)) \in Nat
<1>1. IsFiniteSet(Quantities)
  BY BookingAssumption, FS_Interval DEF Quantities
<1>2. IsFiniteSet(set)
  BY BookingAssumption, FS_Subset
<1>3. IsFiniteSet(set \X Quantities)
  BY <1>1, <1>2, FS_Product
<1>4. UnitsOf(set) \in SUBSET (set \X Quantities)
  BY DEF UnitsOf
<1> QED
  BY <1>3, <1>4, FS_Subset, FS_CardinalityType

\* A booking of n units holds n of them.
LEMMA OwnUnits ==
  ASSUME NEW b, NEW n \in Nat
  PROVE  IsFiniteSet({b} \X (1 .. n)) /\ Cardinality({b} \X (1 .. n)) = n
<1>1. IsFiniteSet(1 .. n) /\ Cardinality(1 .. n) = n
  BY FS_Interval
<1>2. IsFiniteSet({b}) /\ Cardinality({b}) = 1
  BY FS_Singleton
<1>3. /\ IsFiniteSet({b} \X (1 .. n))
      /\ Cardinality({b} \X (1 .. n)) = Cardinality({b}) * Cardinality(1 .. n)
  BY <1>1, <1>2, FS_Product
<1> QED
  BY <1>1, <1>2, <1>3

\* What _assert_capacity sums up is a number, before and after a step.
LEMMA LoadIsNat == \A slot \in Slots : Load(slot) \in Nat /\ Load(slot)' \in Nat
<1>1. \A slot \in Slots : Load(slot) \in Nat
  BY UnitsAreFinite DEF Load
<1>2. (\A slot \in Slots : Load(slot) \in Nat)'
  BY <1>1, PTL
<1> QED
  BY <1>1, <1>2

\* Cancelling, returning, completing or keeping bookings adds no load.
LEMMA ReleaseLowersLoad ==
  ASSUME OnlyReleases, NEW slot \in Slots
  PROVE  Load(slot)' <= Load(slot) /\ Load(slot)' \in Nat
<1>1. UnitsOf(Holding(slot))' \in SUBSET UnitsOf(Holding(slot))
  BY DEF OnlyReleases, UnitsOf, Holding
<1>2. /\ Load(slot) = Cardinality(UnitsOf(Holding(slot)))
      /\ Load(slot)' = Cardinality(UnitsOf(Holding(slot))')
  BY DEF Load, Holding
<1>3. IsFiniteSet(UnitsOf(Holding(slot)))
  BY UnitsAreFinite DEF Holding
<1> QED
  BY <1>1, <1>2, <1>3, FS_Subset, FS_CardinalityType

\* In a slot of its new window, b holds units next to bookings that
\* AssertCapacity has counted, whole windows and all; elsewhere it holds none.
LEMMA GrantFits ==
  ASSUME BookingTypeOK, BookingTypeOK', NEW b \in Bookings, Grants(b),
         NEW slot \in Slots
  PROVE  Load(slot)' <= Load(slot) \/ Load(slot)' <= resource'.total
<1> DEFINE window == bookings'[b].window
           quantity == bookings'[b].quantity
           counted == UnitsOf(Others(b, window))
           own == {b} \X (1 .. quantity)
           new == UnitsOf(Holding(slot))'
<1>1. /\ quantity \in Quantities /\ quantity \in Nat
      /\ resource' = resource /\ resource.total \in Nat
  BY DEF BookingTypeOK, BookingRow, Quantities, Grants, TypeOK, Row
<1>2. Load(slot)' = Cardinality(new)
  BY DEF Load, Holding
<1>3. CASE HoldsAt(b, slot)'
  <2>1. Cardinality(counted) + quantity <= resource.total
    BY DEF Grants, AssertCapacity, Others
  <2>2. IsFiniteSet(counted) /\ Cardinality(counted) \in Nat
    BY UnitsAreFinite DEF Others
  <2>3. IsFiniteSet(own) /\ Cardinality(own) = quantity
    BY <1>1, OwnUnits
  <2>4. new \in SUBSET (counted \cup own)
    <3>1. ASSUME NEW u \in new PROVE u \in counted \cup own
      <4>1. /\ u = <<u[1], u[2]>> /\ u[1] \in Bookings /\ HoldsAt(u[1], slot)'
            /\ u[2] \in Quantities /\ u[2] <= bookings'[u[1]].quantity
        BY DEF UnitsOf, Holding
      <4>2. CASE u[1] = b
        BY <4>1, <4>2, <1>1 DEF Quantities
      <4>3. CASE u[1] # b
        <5>1. bookings'[u[1]] = bookings[u[1]]
          BY <4>1, <4>3 DEF Grants
        <5>2. HoldsAt(u[1], slot) /\ Confirmed(u[1])
          BY <4>1, <5>1 DEF HoldsAt, Confirmed
        <5>3. /\ bookings[u[1]].window \in Window /\ window \in Window
              /\ window.start <= slot /\ slot < window.end
          BY <4>1, <1>3 DEF BookingTypeOK, BookingRow, HoldsAt
        <5>4. Overlaps(bookings[u[1]].window, window)
          BY <5>2, <5>3, BoundAssumption DEF Overlaps, HoldsAt, Window, Slots
        <5> QED
          BY <4>1, <4>3, <5>1, <5>2, <5>4 DEF UnitsOf, Others
      <4> QED
        BY <4>2, <4>3
    <3> QED
      BY <3>1
  <2> HIDE DEF counted, own, new, quantity
  <2>5. IsFiniteSet(counted \cup own)
        /\ Cardinality(counted \cup own) <= Cardinality(counted) + quantity
    <3>1. /\ IsFiniteSet(counted \cup own)
          /\ Cardinality(counted \cup own)
               = Cardinality(counted) + Cardinality(own)
                   - Cardinality(counted \cap own)
      BY <2>2, <2>3, FS_Union
    <3>2. Cardinality(counted \cap own) \in Nat
      BY <2>2, FS_Intersection, FS_CardinalityType
    <3> QED
      BY <1>1, <2>2, <2>3, <3>1, <3>2
  <2>6. /\ Cardinality(new) <= Cardinality(counted \cup own)
        /\ Cardinality(new) \in Nat /\ Cardinality(counted \cup own) \in Nat
    BY <2>4, <2>5, FS_Subset, FS_CardinalityType
  <2> QED
    BY <1>1, <1>2, <2>1, <2>2, <2>5, <2>6
<1>4. CASE ~HoldsAt(b, slot)'
  <2>1. new \in SUBSET UnitsOf(Holding(slot))
    BY <1>4 DEF Grants, UnitsOf, Holding, HoldsAt, Confirmed
  <2>2. IsFiniteSet(UnitsOf(Holding(slot)))
    BY UnitsAreFinite DEF Holding
  <2>3. Load(slot) = Cardinality(UnitsOf(Holding(slot)))
    BY DEF Load, Holding
  <2> QED
    BY <1>2, <2>1, <2>2, <2>3, FS_Subset
<1> QED
  BY <1>3, <1>4

\* A step that adds load to a slot leaves it within the quantity.
LEMMA StepFitsCapacity ==
  ASSUME BookingTypeOK, [BookingNext]_bookingVars, NEW slot \in Slots,
         Load(slot)' > Load(slot)
  PROVE  Load(slot)' <= resource'.total
<1>1. BookingTypeOK'
  BY BookingStepTypes
<1>2. CASE OnlyReleases
  BY <1>2, ReleaseLowersLoad, LoadIsNat
<1>3. ASSUME NEW b \in Bookings, Grants(b)
      PROVE  Load(slot)' <= Load(slot) \/ Load(slot)' <= resource'.total
  BY <1>1, <1>3, GrantFits
<1>4. Load(slot) \in Nat /\ Load(slot)' \in Nat
  BY LoadIsNat
<1> QED
  BY <1>2, <1>3, <1>4, ReleaseOrGrant

\* Whatever requests read before and whoever books, changes or approves at
\* the same time, no grant exceeds the quantity of the resource.
THEOREM GrantsFit == BookingSpec => GrantsFitCapacity
<1>1. BookingTypeOK /\ [BookingNext]_bookingVars
        => [\A slot \in Slots :
              Load(slot)' > Load(slot)
                => Load(slot)' <= resource'.total]_bookingVars
  BY StepFitsCapacity
<1> QED
  BY <1>1, BookingTypeCorrect, PTL DEF BookingSpec, GrantsFitCapacity

-----------------------------------------------------------------------------
(***************************************************************************)
(* Overbooking.  A grant fits, and the load of single units is what        *)
(* _safe_minimum_quantity counts; for larger bookings the count is too low *)
(* (the run booking_overbooked).                                           *)
(***************************************************************************)

\* Only update_resource changes the quantity of a resource.
LEMMA TotalIsKeptOrSafe ==
  ASSUME TypeOK, ResourceStep
  PROVE  resource'.total = resource.total \/ resource'.total \in SafeTotals
<1>1. resource \in Row
  BY DEF TypeOK
<1>2. CASE InventoryStep(SafeTotals)
  <2>1. ASSUME NEW m \in Managers, NEW edit \in Edits,
               UpdateResource(m, edit, SafeTotals)
        PROVE  resource'.total = resource.total \/ resource'.total \in SafeTotals
    <3>1. DOMAIN resource
            = {"name", "status", "total", "policy", "calibration", "version"}
      BY <1>1 DEF Row
    <3>2. Edited(resource, edit).total
            = IF "total" \in DOMAIN edit THEN edit.total ELSE resource.total
      BY <3>1 DEF Edited
    <3>3. resource'.total = Edited(resource, edit).total
      BY <2>1, <3>1 DEF UpdateResource, Edited
    <3> QED
      BY <2>1, <3>2, <3>3 DEF UpdateResource
  <2>2. ASSUME NEW m \in Managers, RetireResource(m)
        PROVE  resource'.total = resource.total
    BY <1>1, <2>2 DEF RetireResource, Row
  <2> QED
    BY <1>2, <2>1, <2>2 DEF InventoryStep, OpenForm, CloseForm, RetireView
<1>3. Withdrawn.total = resource.total
  BY <1>1 DEF Withdrawn, Row
<1>4. CASE MaintenanceStep
  <2>1. PICK r \in Records :
          \/ \E plan \in Plans : CreateMaintenance(r, plan)
          \/ StartMaintenance(r) \/ CompleteMaintenance(r)
          \/ CancelMaintenance(r)
    BY <1>4 DEF MaintenanceStep
  <2>2. CASE CompleteMaintenance(r)
    BY <1>1, <2>2 DEF CompleteMaintenance, Row
  <2>3. CASE CancelMaintenance(r)
    BY <1>1, <2>3 DEF CancelMaintenance, Row
  <2> QED
    BY <1>3, <2>1, <2>2, <2>3 DEF CreateMaintenance, StartMaintenance
<1>5. CASE ScanStep
  <2>1. PICK s \in Scanners : Scan(s)
    BY <1>5 DEF ScanStep
  <2>2. CASE ScanTakeOffline(s)
    BY <1>1, <2>2 DEF ScanTakeOffline, Row
  <2> QED
    BY <1>3, <2>1, <2>2
    DEF Scan, ScanOutages, ScanSelect, ScanCheckAlert, ScanEnqueueAlert
<1> QED
  BY <1>2, <1>4, <1>5 DEF ResourceStep, Tick

\* With bookings of one unit, the load is the number of bookings, which is what
\* _safe_minimum_quantity counts.
LEMMA SingleUnitLoad ==
  ASSUME MaxQuantity = 1, BookingTypeOK, NEW slot \in Slots
  PROVE  Load(slot) = Cardinality(Holding(slot))
<1>1. UnitsOf(Holding(slot)) = Holding(slot) \X {1}
  BY DEF UnitsOf, Holding, Quantities, BookingTypeOK, BookingRow
<1>2. IsFiniteSet(Holding(slot)) /\ Cardinality(Holding(slot)) \in Nat
  BY BookingAssumption, FS_Subset, FS_CardinalityType DEF Holding
<1>3. IsFiniteSet({1}) /\ Cardinality({1}) = 1
  BY FS_Singleton
<1>4. Cardinality(Holding(slot) \X {1}) = Cardinality(Holding(slot)) * 1
  BY <1>2, <1>3, FS_Product
<1>5. Load(slot) = Cardinality(UnitsOf(Holding(slot)))
  BY DEF Load, Holding
<1> QED
  BY <1>1, <1>2, <1>4, <1>5

\* When every booking asks for one unit, the confirmed bookings never hold
\* more units than the resource has, whatever managers do to its quantity.
THEOREM SinglesNeverOverbook ==
  ASSUME MaxQuantity = 1
  PROVE  BookingSpec => []NeverOverbooked
<1>1. BookingInit => NeverOverbooked
  <2> SUFFICES ASSUME BookingInit, NEW slot \in Slots
               PROVE  Load(slot) <= resource.total
    BY DEF NeverOverbooked
  <2>1. BookingTypeOK
    BY BookingInitTypes
  <2>2. Holding(slot) = {}
    BY DEF BookingInit, NewBooking, Holding, HoldsAt, Confirmed
  <2>3. Load(slot) = 0
    BY <2>1, <2>2, SingleUnitLoad, FS_EmptySet
  <2>4. resource.total \in Nat
    BY <2>1 DEF BookingTypeOK, TypeOK, Row
  <2> QED
    BY <2>3, <2>4
<1>2. BookingTypeOK /\ NeverOverbooked /\ [BookingNext]_bookingVars
        => NeverOverbooked'
  <2> SUFFICES ASSUME BookingTypeOK, NeverOverbooked,
                      [BookingNext]_bookingVars, NEW slot \in Slots
               PROVE  Load(slot)' <= resource'.total
    BY DEF NeverOverbooked
  <2>1. /\ Load(slot) \in Nat /\ Load(slot)' \in Nat
        /\ Load(slot) <= resource.total /\ resource.total \in Nat
    BY LoadIsNat DEF NeverOverbooked, BookingTypeOK, TypeOK, Row
  <2>2. CASE resource'.total = resource.total
    BY <2>1, <2>2, StepFitsCapacity
  <2>3. CASE ResourceStep /\ resource'.total \in SafeTotals
    <3>1. Load(slot)' = Load(slot)
      BY <2>3 DEF ResourceStep, requestVars, Load, UnitsOf, HoldsAt, Confirmed
    <3>2. Cardinality(Holding(slot)) <= resource'.total
      BY <2>3 DEF SafeTotals, Holding
    <3> QED
      BY <3>1, <3>2, SingleUnitLoad
  <2> QED
    BY <2>2, <2>3, TotalIsKeptOrSafe, BookingKeepsResource
    DEF BookingNext, BookingTypeOK, bookingVars, vars
<1> QED
  BY <1>1, <1>2, BookingTypeCorrect, PTL DEF BookingSpec

-----------------------------------------------------------------------------
(***************************************************************************)
(* What a request may do with what it has read.                            *)
(***************************************************************************)

\* A view that has read "available" grants nothing by itself: the resource is
\* looked at again under the lock, so new use is granted only while it is in
\* service, calibrated and free of maintenance in the window.
THEOREM NewUseIsUsable == BookingSpec => NewUseOnlyWhenUsable
<1>1. ASSUME BookingTypeOK, [BookingNext]_bookingVars, NEW b \in Bookings,
             NEW slot \in Slots, HoldsAt(b, slot)' /\ ~HoldsAt(b, slot)
      PROVE  Usable(bookings'[b].window)
  <2>1. PICK c \in Bookings : Grants(c)
    BY <1>1, ReleaseOrGrant DEF OnlyReleases
  <2>2. c = b
    BY <1>1, <2>1 DEF Grants, HoldsAt, Confirmed
  <2> QED
    BY <2>1, <2>2 DEF Grants, AssertCapacity
<1>2. BookingTypeOK /\ [BookingNext]_bookingVars
        => [\A b \in Bookings, slot \in Slots :
              HoldsAt(b, slot)' /\ ~HoldsAt(b, slot)
                => Usable(bookings'[b].window)]_bookingVars
  BY <1>1
<1> QED
  BY <1>2, BookingTypeCorrect, PTL DEF BookingSpec, NewUseOnlyWhenUsable

\* Version 0 is the version of a row that does not exist yet, and a view reads
\* rows that do.
BookingInv ==
  /\ BookingTypeOK
  /\ \A b \in Bookings : bookings[b].status = "absent" => bookings[b].version = 0
  /\ \A q \in Requests :
       requests[q].step = "updating" => requests[q].row.status # "absent"

\* What update_booking writes: the row the view has read, with the new window
\* and quantity and the next version.
LEMMA UpdatedBooking ==
  ASSUME BookingTypeOK, NEW q \in Requests, NEW window, NEW quantity,
         UpdateBooking(q, window, quantity)
  PROVE  LET c == requests[q].booking
             seen == requests[q].row
         IN  /\ requests[q].step = "updating"
             /\ c \in Bookings /\ seen \in BookingRow
             /\ seen.window.start > now
             /\ bookings'[c] \in [status : {seen.status}, window : {window},
                                  quantity : {quantity},
                                  version : {seen.version + 1}]
             /\ \A b \in Bookings \ {c} : bookings'[b] = bookings[b]
             /\ requests' = [requests EXCEPT ![q] = NoRequest]
<1>1. requests[q].step = "updating"
  BY DEF UpdateBooking
<1>2. requests[q] \in [step : {"updating"}, booking : Bookings, row : BookingRow]
  BY <1>1 DEF BookingTypeOK, NoRequest
<1> QED
  BY <1>1, <1>2 DEF UpdateBooking, BookingTypeOK, BookingRow

\* Rows that do not exist have version 0 and no request has read one
\* (StandaloneBookingViewSet.get_object).
LEMMA BookingInvHolds == BookingSpec => []BookingInv
<1>1. BookingInit => BookingInv
  BY BookingInitTypes DEF BookingInit, BookingInv, NewBooking, NoRequest
<1>2. BookingInv /\ [BookingNext]_bookingVars => BookingInv'
  <2> SUFFICES ASSUME BookingInv, [BookingNext]_bookingVars PROVE BookingInv'
    OBVIOUS
  <2>1. BookingTypeOK /\ BookingTypeOK'
    BY BookingStepTypes DEF BookingInv
  <2>2. ASSUME NEW b \in Bookings, bookings'[b].status = "absent"
        PROVE  bookings'[b] = bookings[b]
    <3>1. ASSUME NEW q \in Requests, NEW window \in Windows,
                 NEW quantity \in Quantities, UpdateBooking(q, window, quantity)
          PROVE  bookings'[b] = bookings[b]
      BY <2>1, <2>2, <3>1, UpdatedBooking DEF BookingInv
    <3>2. ASSUME NEW q \in Requests, NEW c \in Bookings, NEW window,
                 NEW quantity, NEW role,
                 CreateBooking(q, c, window, quantity, role)
          PROVE  bookings'[b] = bookings[b]
      BY <2>1, <2>2, <3>2 DEF CreateBooking, BookingTypeOK
    <3>3. ASSUME NEW c \in Bookings,
                 \/ CancelBooking(c) \/ ReturnBooking(c)
                 \/ \E approve \in BOOLEAN : DecideBooking(c, approve)
          PROVE  bookings'[b] = bookings[b]
      <4>1. bookings[c] \in BookingRow
        BY <2>1 DEF BookingTypeOK
      <4>2. /\ bookings'[c].status # "absent"
            /\ \A o \in Bookings \ {c} : bookings'[o] = bookings[o]
        <5>1. CASE CancelBooking(c)
          BY <2>1, <4>1, <5>1 DEF CancelBooking, BookingTypeOK, BookingRow
        <5>2. CASE ReturnBooking(c)
          BY <2>1, <4>1, <5>2 DEF ReturnBooking, BookingTypeOK, BookingRow
        <5>3. CASE \E approve \in BOOLEAN : DecideBooking(c, approve)
          BY <2>1, <4>1, <5>3 DEF DecideBooking, BookingTypeOK, BookingRow
        <5> QED
          BY <3>3, <5>1, <5>2, <5>3
      <4> QED
        BY <2>2, <4>2
    <3>4. CASE ReconcileCompletedBookings
      BY <2>1, <2>2, <3>4
      DEF ReconcileCompletedBookings, BookingTypeOK, BookingRow
    <3> QED
      BY <3>1, <3>2, <3>3, <3>4
      DEF BookingNext, BookingStep, ResourceStep, ViewCreate, ViewUpdate,
          RejectRequest, bookingVars, requestVars
  <2>3. ASSUME NEW q \in Requests, requests'[q].step = "updating"
        PROVE  requests'[q].row.status # "absent"
    <3>1. requests'[q] = requests[q] \/ \E b \in Bookings : ViewUpdate(q, b)
      <4>1. ASSUME NEW p \in Requests,
                   \/ requests' = [requests EXCEPT ![p] = NoRequest]
                   \/ ViewCreate(p)
                   \/ \E b \in Bookings : ViewUpdate(p, b)
            PROVE  requests'[q] = requests[q] \/ \E b \in Bookings : ViewUpdate(q, b)
        BY <2>1, <2>3, <4>1 DEF ViewCreate, ViewUpdate, BookingTypeOK, NoRequest
      <4> QED
        BY <4>1
        DEF BookingNext, BookingStep, ResourceStep, CreateBooking,
            UpdateBooking, RejectRequest, CancelBooking, ReturnBooking,
            DecideBooking, ReconcileCompletedBookings, bookingVars, requestVars
    <3> QED
      BY <2>3, <3>1, <2>1 DEF BookingInv, ViewUpdate, BookingTypeOK
  <2> QED
    BY <2>1, <2>2, <2>3 DEF BookingInv
<1> QED
  BY <1>1, <1>2, PTL DEF BookingSpec

\* What one step does to one booking, unless it saves an outdated row.
FreshChange(b) ==
  \/ bookings'[b] = bookings[b]
  \/ bookings[b].status = "absent" /\ bookings'[b].version = 1
  \/ /\ bookings[b].window.start > now
     /\ bookings'[b].status = bookings[b].status
     /\ bookings'[b].version = bookings[b].version + 1
  \/ /\ bookings[b].status \in {"pending", "confirmed"}
     /\ bookings[b].status = "confirmed" => bookings[b].window.start > now
     /\ bookings'[b].version = bookings[b].version + 1
  \/ /\ Confirmed(b) /\ InUseIsLeftAlone(b)
     /\ \/ bookings'[b].version = bookings[b].version + 1
        \/ bookings'[b] = [bookings[b] EXCEPT !.status = "completed"]

\* Unless a stale row is saved, a booking changes only as its status and window
\* allow, and gets a version of its own (the guards of BookingService).
LEMMA FreshStep ==
  ASSUME BookingTypeOK, [BookingNext]_bookingVars, NEW b \in Bookings,
         ~StaleSave(b)
  PROVE  FreshChange(b)
<1>1. /\ bookings \in [Bookings -> BookingRow] /\ bookings[b] \in BookingRow
      /\ bookings[b].window \in Window /\ bookings[b].window.end \in Int
      /\ now \in Int
  BY BoundAssumption DEF BookingTypeOK, BookingRow, Window, Slots, TypeOK
<1>2. ASSUME NEW q \in Requests, NEW window \in Windows,
             NEW quantity \in Quantities, UpdateBooking(q, window, quantity)
      PROVE  FreshChange(b)
  <2>1. CASE requests[q].booking = b
    <3>1. requests'[q] = NoRequest
      BY <1>2, UpdatedBooking DEF BookingTypeOK
    <3>2. requests[q].row = bookings[b]
      BY <1>2, <2>1, <3>1, UpdatedBooking DEF StaleSave
    <3> QED
      BY <1>2, <2>1, <3>2, UpdatedBooking DEF FreshChange
  <2>2. CASE requests[q].booking # b
    BY <1>2, <2>2, UpdatedBooking DEF FreshChange
  <2> QED
    BY <2>1, <2>2
<1>3. ASSUME NEW q \in Requests, NEW c \in Bookings, NEW window,
             NEW quantity, NEW role, CreateBooking(q, c, window, quantity, role)
      PROVE  FreshChange(b)
  BY <1>1, <1>3 DEF CreateBooking, FreshChange
<1>4. ASSUME NEW c \in Bookings, CancelBooking(c)
      PROVE  FreshChange(b)
  BY <1>1, <1>4 DEF CancelBooking, FreshChange, BookingRow
<1>5. ASSUME NEW c \in Bookings, ReturnBooking(c)
      PROVE  FreshChange(b)
  <2>1. CASE c = b
    <3>1. /\ bookings'[b].status = "completed"
          /\ bookings'[b].window = [bookings[b].window EXCEPT !.end = now]
          /\ bookings'[b].version = bookings[b].version + 1
      BY <1>1, <1>5, <2>1 DEF ReturnBooking, BookingRow
    <3>2. /\ bookings'[b].window.start = bookings[b].window.start
          /\ bookings'[b].window.end = now /\ now < bookings[b].window.end
      BY <1>1, <1>5, <2>1, <3>1 DEF ReturnBooking, Window
    <3> QED
      BY <1>1, <1>5, <2>1, <3>1, <3>2
      DEF ReturnBooking, FreshChange, InUseIsLeftAlone
  <2>2. CASE c # b
    BY <1>1, <1>5, <2>2 DEF ReturnBooking, FreshChange
  <2> QED
    BY <2>1, <2>2
<1>6. ASSUME NEW c \in Bookings, NEW approve \in BOOLEAN,
             DecideBooking(c, approve)
      PROVE  FreshChange(b)
  BY <1>1, <1>6 DEF DecideBooking, FreshChange, BookingRow
<1>7. CASE ReconcileCompletedBookings
  <2>1. \/ bookings'[b] = bookings[b]
        \/ /\ Confirmed(b)
           /\ bookings'[b] = [bookings[b] EXCEPT !.status = "completed"]
    BY <1>1, <1>7 DEF ReconcileCompletedBookings
  <2>2. ASSUME bookings'[b] = [bookings[b] EXCEPT !.status = "completed"]
        PROVE  InUseIsLeftAlone(b)
    <3>1. /\ bookings'[b].status = "completed"
          /\ bookings'[b].window = bookings[b].window
      BY <1>1, <2>2 DEF BookingRow
    <3> QED
      BY <1>1, <3>1 DEF InUseIsLeftAlone
  <2> QED
    BY <2>1, <2>2 DEF FreshChange
<1>8. CASE bookings' = bookings
  BY <1>8 DEF FreshChange
<1> QED
  BY <1>2, <1>3, <1>4, <1>5, <1>6, <1>7, <1>8
  DEF BookingNext, BookingStep, ResourceStep, ViewCreate, ViewUpdate,
      RejectRequest, bookingVars, requestVars

\* Rejected, cancelled and completed bookings are only reopened by the save of
\* a row that update_booking read before it was decided.
THEOREM TerminalsStay == BookingSpec => OnlyStaleSavesReopen
<1>1. BookingTypeOK /\ [BookingNext]_bookingVars
        => [\A b \in Bookings :
              bookings[b].status \in Terminal
                => StatusStays(b) \/ StaleSave(b)]_bookingVars
  BY FreshStep DEF FreshChange, StatusStays, Terminal, Confirmed
<1> QED
  BY <1>1, BookingTypeCorrect, PTL DEF BookingSpec, OnlyStaleSavesReopen

\* And so are bookings in use cancelled or moved.
THEOREM StartedStay == BookingSpec => OnlyStaleSavesTouchStarted
<1>1. ASSUME BookingTypeOK, [BookingNext]_bookingVars, NEW b \in Bookings,
             Confirmed(b), bookings[b].window.start <= now, ~StaleSave(b)
      PROVE  InUseIsLeftAlone(b)
  <2>1. bookings[b].window \in Window /\ now \in Int
    BY <1>1, BoundAssumption DEF BookingTypeOK, BookingRow, TypeOK
  <2>2. bookings[b].window.start \in Int /\ bookings[b].window.end \in Int
    BY <2>1, BoundAssumption DEF Window, Slots
  <2>3. ~(bookings[b].window.start > now)
    BY <1>1, <2>1, <2>2
  <2>4. FreshChange(b)
    BY <1>1, FreshStep
  <2> QED
    BY <1>1, <2>2, <2>3, <2>4 DEF FreshChange, InUseIsLeftAlone, Confirmed
<1>2. BookingTypeOK /\ [BookingNext]_bookingVars
        => [\A b \in Bookings :
              Confirmed(b) /\ bookings[b].window.start <= now
                => InUseIsLeftAlone(b) \/ StaleSave(b)]_bookingVars
  BY <1>1
<1> QED
  BY <1>2, BookingTypeCorrect, PTL DEF BookingSpec, OnlyStaleSavesTouchStarted

\* And so do two states of a booking share a version.
THEOREM VersionsIdentifyBookings == BookingSpec => OnlyStaleSavesReuseVersions
<1>1. BookingInv /\ [BookingNext]_bookingVars
        => [\A b \in Bookings :
              ChangeIsVersioned(b) \/ StaleSave(b)]_bookingVars
  BY FreshStep DEF BookingInv, FreshChange, ChangeIsVersioned
<1> QED
  BY <1>1, BookingInvHolds, PTL DEF BookingSpec, OnlyStaleSavesReuseVersions

-----------------------------------------------------------------------------
(***************************************************************************)
(* The bookings implement CapacityLedger.                                  *)
(***************************************************************************)

\* The ledger and the bookings count the same load, before and after a step.
LEMMA SameLoad ==
  \A slot \in Slots :
    Ledger!Load(slot) = Load(slot) /\ Ledger!Load(slot)' = Load(slot)'
<1>1. ASSUME NEW slot \in Slots
      PROVE  {p \in Bookings \X Quantities : <<slot, p[2]>> \in HeldBy(p[1])}
               = UnitsOf(Holding(slot))
  BY DEF HeldBy, UnitsOf, Holding
<1>2. ASSUME NEW slot \in Slots
      PROVE  Ledger!Load(slot) = Cardinality(
               {p \in Bookings \X Quantities : <<slot, p[2]>> \in HeldBy(p[1])})
  <2>1. {p \in Bookings \X Quantities :
           <<slot, p[2]>> \in [b \in Bookings |-> HeldBy(b)][p[1]]}
          = {p \in Bookings \X Quantities : <<slot, p[2]>> \in HeldBy(p[1])}
    OBVIOUS
  <2> QED
    BY <2>1, Zenon DEF Ledger!Load, Ledger!Cardinality, Cardinality
<1>3. \A slot \in Slots : Ledger!Load(slot) = Load(slot)
  BY <1>1, <1>2 DEF Load, Holding
<1>4. (\A slot \in Slots : Ledger!Load(slot) = Load(slot))'
  BY <1>3, PTL
<1> QED
  BY <1>3, <1>4

\* Every step of the bookings is a step of the ledger or leaves it alone: a
\* grant, a release, or a change of the quantity that covers what is held.
LEMMA LedgerStep ==
  ASSUME MaxQuantity = 1, BookingTypeOK, BookingTypeOK', NeverOverbooked',
         [BookingNext]_bookingVars
  PROVE  [Ledger!Next]_(Ledger!vars)
<1>1. CASE OnlyReleases /\ resource'.total = resource.total
  <2>1. Ledger!Release
    <3>1. \A b \in Bookings : HeldBy(b)' \subseteq HeldBy(b)
      BY <1>1 DEF OnlyReleases, HeldBy
    <3>2. \A b \in Bookings : HeldBy(b)' \subseteq Slots \X Quantities
      BY DEF HeldBy
    <3> QED
      BY <1>1, <3>1, <3>2 DEF Ledger!Release
  <2> QED
    BY <2>1 DEF Ledger!Next
<1>2. ASSUME NEW b \in Bookings, Grants(b)
      PROVE  Ledger!Next
  <2>1. \A slot \in Slots : Load(slot)' <= Load(slot) \/ Load(slot)' <= resource.total
    BY <1>2, GrantFits DEF Grants
  <2>2. \A other \in Bookings \ {b} : HeldBy(other)' = HeldBy(other)
    BY <1>2 DEF Grants, HeldBy, HoldsAt, Confirmed
  <2>3. HeldBy(b)' \in SUBSET (Slots \X Quantities)
    BY DEF HeldBy
  <2>4. Ledger!Claim(b, HeldBy(b)')
    <3>1. [o \in Bookings |-> HeldBy(o)']
            = [[o \in Bookings |-> HeldBy(o)] EXCEPT ![b] = HeldBy(b)']
      BY <2>2
    <3> QED
      BY <1>2, <2>1, <3>1, SameLoad DEF Ledger!Claim, Grants
  <2> QED
    BY <2>3, <2>4 DEF Ledger!Next
<1>3. CASE UNCHANGED requestVars
  <2>1. [b \in Bookings |-> HeldBy(b)'] = [b \in Bookings |-> HeldBy(b)]
    BY <1>3 DEF requestVars, HeldBy, HoldsAt, Confirmed
  <2>2. \A slot \in Slots : Load(slot)' = Load(slot)
    BY <1>3 DEF requestVars, Load, UnitsOf, HoldsAt, Confirmed
  <2>3. Ledger!Resize
    <3>1. resource'.total \in Nat \ {0}
      BY DEF BookingTypeOK, TypeOK, Row
    <3>2. \A slot \in Slots : Ledger!Load(slot) <= resource'.total
      BY <2>2, SameLoad DEF NeverOverbooked
    <3> QED
      BY <2>1, <3>1, <3>2 DEF Ledger!Resize
  <2> QED
    BY <2>3 DEF Ledger!Next
<1>4. UNCHANGED requestVars \/ resource' = resource
  BY BookingKeepsResource
  DEF BookingNext, ResourceStep, bookingVars, vars
<1> QED
  BY <1>1, <1>2, <1>3, <1>4, ReleaseOrGrant

\* Creation, change, approval, cancellation, return and completion of single
\* units, and every change of the quantity, are steps of CapacityLedger.
THEOREM SinglesImplementLedger ==
  ASSUME MaxQuantity = 1
  PROVE  BookingSpec => ImplementsLedger
<1>1. BookingInit => Ledger!Init
  <2> SUFFICES ASSUME BookingInit PROVE Ledger!Init
    OBVIOUS
  <2>1. resource.total \in Nat \ {0}
    BY BookingInitTypes DEF BookingTypeOK, TypeOK, Row
  <2>2. \A b \in Bookings : HeldBy(b) = {}
    BY DEF BookingInit, NewBooking, HeldBy, HoldsAt, Confirmed
  <2> QED
    BY <2>1, <2>2 DEF Ledger!Init
<1>2. BookingTypeOK /\ BookingTypeOK' /\ NeverOverbooked'
        /\ [BookingNext]_bookingVars
        => [Ledger!Next]_(Ledger!vars)
  BY LedgerStep
<1> QED
  BY <1>1, <1>2, BookingTypeCorrect, SinglesNeverOverbook, PTL
  DEF BookingSpec, ImplementsLedger, Ledger!Spec
=============================================================================

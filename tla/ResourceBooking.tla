--------------------------- MODULE ResourceBooking ---------------------------
(***************************************************************************)
(* The bookings of one resource: BookingService of apps/resources together *)
(* with the views that call it, composed with everything that may happen   *)
(* to the resource itself (ResourceOperations).                            *)
(*                                                                         *)
(* A booking request is two steps when its service uses what the view has  *)
(* read without a lock: create_booking keeps the resource row, and         *)
(* update_booking keeps the booking row and later saves all of it.         *)
(* Requests whose service first locks the booking row and reads it again   *)
(* (cancel, return, decide) are one step.  A check of capacity and the     *)
(* write it allows are one step too: _assert_capacity holds the resource   *)
(* row locked until the transaction ends, and what other transactions can  *)
(* write meanwhile only lowers the load it has added up.                   *)
(*                                                                         *)
(* "reserved" is the legacy name of "confirmed"; no code creates it and    *)
(* every guard treats the two alike, so it is left out.                    *)
(***************************************************************************)
EXTENDS ResourceOperations

CONSTANTS
  Bookings,              \* identifiers of bookings
  Requests,              \* booking requests served at the same time
  Windows,               \* time windows that may be asked for
  MaxQuantity,           \* bound: units that one booking may ask for
  MaxEdits               \* bound: version at which bookings are left alone

VARIABLES
  bookings,   \* the Booking rows of the resource
  requests    \* what each request in service has read

requestVars == <<bookings, requests>>
bookingVars == <<vars, requestVars>>

Slots      == 0 .. MaxTime
Quantities == 1 .. MaxQuantity

\* A window holds the slots from its start up to, and not including, its end.
Window == {w \in [start : Slots, end : 1 .. MaxTime + 1] : w.start < w.end}

ASSUME BookingAssumption ==
  /\ MaxQuantity \in Nat \ {0}
  /\ MaxEdits \in Nat
  /\ IsFiniteSet(Bookings)
  /\ Windows \subseteq Window

BookingStatus == {"absent", "pending", "confirmed", "rejected", "cancelled",
                  "completed"}
Terminal      == {"rejected", "cancelled", "completed"}

BookingRow == [status : BookingStatus, window : Window, quantity : Quantities,
               version : Nat]

NoRequest == [step |-> "idle"]

BookingTypeOK ==
  /\ TypeOK
  /\ bookings \in [Bookings -> BookingRow]
  /\ requests \in [Requests -> {NoRequest}
                     \cup [step : {"creating"}, row : Row]
                     \cup [step : {"updating"}, booking : Bookings,
                           row : BookingRow]]

NewBooking == [status |-> "absent", window |-> [start |-> 0, end |-> 1],
               quantity |-> 1, version |-> 0]

BookingInit ==
  /\ Init
  /\ bookings = [b \in Bookings |-> NewBooking]
  /\ requests = [q \in Requests |-> NoRequest]

-----------------------------------------------------------------------------
(***************************************************************************)
(* Capacity.                                                               *)
(***************************************************************************)

Confirmed(b) == bookings[b].status = "confirmed"

\* Mutant of Overlaps: bookings that begin inside the window are missed.
OverlapsStart(v, w) == v.start <= w.start /\ w.start < v.end

Overlaps(v, w) == v.start < w.end /\ w.start < v.end

HoldsAt(b, slot) ==
  /\ Confirmed(b)
  /\ bookings[b].window.start <= slot
  /\ slot < bookings[b].window.end

\* The units taken by a set of bookings; their number is the SUM of quantity.
UnitsOf(set) == {u \in set \X Quantities : u[2] <= bookings[u[1]].quantity}

Load(slot) == Cardinality(UnitsOf({b \in Bookings : HoldsAt(b, slot)}))

\* Maintenance that will keep the equipment out of service in the window.
MaintenanceConflict(window) ==
  \E r \in Records :
    /\ records[r].plan.offline
    /\ Open(r)
    /\ records[r].plan.at < window.end
    /\ records[r].plan.due > window.start

Usable(window) ==
  /\ resource.status = "available"
  /\ resource.calibration > window.start
  /\ ~MaintenanceConflict(window)

\* Mutant of AssertCapacity: the state of the resource is not read again under
\* the lock.
AssertUnits(window, quantity, excluded) ==
  LET others == {b \in Bookings \ excluded :
                   Confirmed(b) /\ Overlaps(bookings[b].window, window)}
  IN  Cardinality(UnitsOf(others)) + quantity <= resource.total

\* _assert_capacity, for a window and a quantity next to all other bookings
\* that are confirmed and overlap it.
AssertCapacity(window, quantity, excluded) ==
  /\ Usable(window)
  /\ LET others == {b \in Bookings \ excluded :
                      Confirmed(b) /\ Overlaps(bookings[b].window, window)}
     IN  Cardinality(UnitsOf(others)) + quantity <= resource.total

\* _safe_minimum_quantity counts the confirmed bookings that hold a slot, not
\* the units they hold.
SafeTotals ==
  {n \in Nat \ {0} :
     \A slot \in Slots : Cardinality({b \in Bookings : HoldsAt(b, slot)}) <= n}

-----------------------------------------------------------------------------
(***************************************************************************)
(* Requests that use what the view has read.                               *)
(***************************************************************************)

\* The view of a new booking reads the resource.
ViewCreate(q) ==
  /\ requests[q] = NoRequest
  /\ requests' = [requests EXCEPT ![q] = [step |-> "creating", row |-> resource]]
  /\ UNCHANGED <<vars, bookings>>

\* A student asks for a future window and may need approval; a manager's use
\* is confirmed at once and may already have begun.
CreateBooking(q, b, window, quantity, role) ==
  LET seen == requests[q].row
      pending == role = "student" /\ seen.policy = "approval_required"
  IN  /\ requests[q].step = "creating"
      /\ bookings[b].status = "absent"
      /\ IF role = "student" THEN window.start > now ELSE window.end > now
      /\ seen.status = "available"
      /\ AssertCapacity(window, quantity, {})
      /\ bookings' = [bookings EXCEPT
                        ![b] = [status |-> IF pending THEN "pending"
                                                      ELSE "confirmed",
                                window |-> window, quantity |-> quantity,
                                version |-> 1]]
      /\ requests' = [requests EXCEPT ![q] = NoRequest]
      /\ UNCHANGED vars

\* The view of a change reads the booking.
ViewUpdate(q, b) ==
  /\ requests[q] = NoRequest
  /\ bookings[b].status # "absent"
  /\ requests' = [requests EXCEPT ![q] = [step |-> "updating", booking |-> b,
                                          row |-> bookings[b]]]
  /\ UNCHANGED <<vars, bookings>>

\* update_booking decides on the row the view has read, against which the
\* version sent by the client was compared, and saves every column of it.
UpdateBooking(q, window, quantity) ==
  LET b == requests[q].booking
      seen == requests[q].row
  IN  /\ requests[q].step = "updating"
      /\ seen.version < MaxEdits
      /\ seen.window.start > now
      /\ window.start > now
      /\ seen.status = "confirmed" => AssertCapacity(window, quantity, {b})
      /\ bookings' = [bookings EXCEPT
                        ![b] = [seen EXCEPT !.window = window,
                                            !.quantity = quantity,
                                            !.version = @ + 1]]
      /\ requests' = [requests EXCEPT ![q] = NoRequest]
      /\ UNCHANGED vars

\* The request is answered with a conflict or a validation error.
RejectRequest(q) ==
  /\ requests[q] # NoRequest
  /\ requests' = [requests EXCEPT ![q] = NoRequest]
  /\ UNCHANGED <<vars, bookings>>

-----------------------------------------------------------------------------
(***************************************************************************)
(* Requests that lock the booking and read it again.                       *)
(***************************************************************************)

\* Mutant of CancelBooking: bookings in use can be cancelled.
CancelInUse(b) ==
  /\ bookings[b].status \in {"pending", "confirmed"}
  /\ bookings[b].version < MaxEdits
  /\ bookings' = [bookings EXCEPT ![b].status = "cancelled", ![b].version = @ + 1]
  /\ UNCHANGED <<vars, requests>>

CancelBooking(b) ==
  /\ bookings[b].status \in {"pending", "confirmed"}
  /\ bookings[b].window.start > now
  /\ bookings[b].version < MaxEdits
  /\ bookings' = [bookings EXCEPT ![b].status = "cancelled", ![b].version = @ + 1]
  /\ UNCHANGED <<vars, requests>>

\* A return at the very start of the window would leave an empty window, which
\* the constraint booking_end_after_start refuses.
ReturnBooking(b) ==
  /\ Confirmed(b)
  /\ bookings[b].window.start < now
  /\ now < bookings[b].window.end
  /\ bookings[b].version < MaxEdits
  /\ bookings' = [bookings EXCEPT ![b].status = "completed",
                                  ![b].window.end = now,
                                  ![b].version = @ + 1]
  /\ UNCHANGED <<vars, requests>>

\* Mutant of DecideBooking: approval trusts the check made at creation.
DecideUnchecked(b, approve) ==
  /\ bookings[b].status = "pending"
  /\ bookings[b].version < MaxEdits
  /\ bookings' = [bookings EXCEPT
                    ![b].status = IF approve THEN "confirmed" ELSE "rejected",
                    ![b].version = @ + 1]
  /\ UNCHANGED <<vars, requests>>

\* A pending booking is decided whether or not its window has begun.
DecideBooking(b, approve) ==
  /\ bookings[b].status = "pending"
  /\ bookings[b].version < MaxEdits
  /\ approve => AssertCapacity(bookings[b].window, bookings[b].quantity, {})
  /\ bookings' = [bookings EXCEPT
                    ![b].status = IF approve THEN "confirmed" ELSE "rejected",
                    ![b].version = @ + 1]
  /\ UNCHANGED <<vars, requests>>

\* Mutant of ReconcileCompletedBookings: bookings that were cancelled or
\* rejected are completed too.
ReconcileEveryEnded ==
  LET ended == {b \in Bookings : bookings[b].status # "absent"
                                 /\ bookings[b].window.end <= now}
  IN  /\ ended # {}
      /\ bookings' = [b \in Bookings |->
                        IF b \in ended
                        THEN [bookings[b] EXCEPT !.status = "completed"]
                        ELSE bookings[b]]
      /\ UNCHANGED <<vars, requests>>

\* One UPDATE completes what has ended; the list views run it.
ReconcileCompletedBookings ==
  LET ended == {b \in Bookings : Confirmed(b) /\ bookings[b].window.end <= now}
  IN  /\ ended # {}
      /\ bookings' = [b \in Bookings |->
                        IF b \in ended
                        THEN [bookings[b] EXCEPT !.status = "completed"]
                        ELSE bookings[b]]
      /\ UNCHANGED <<vars, requests>>

BookingStep ==
  \/ \E q \in Requests :
       \/ ViewCreate(q)
       \/ \E b \in Bookings, window \in Windows, quantity \in Quantities,
             role \in {"student", "manager"} :
            CreateBooking(q, b, window, quantity, role)
       \/ \E b \in Bookings : ViewUpdate(q, b)
       \/ \E window \in Windows, quantity \in Quantities :
            UpdateBooking(q, window, quantity)
       \/ RejectRequest(q)
  \/ \E b \in Bookings :
       \/ CancelBooking(b)
       \/ ReturnBooking(b)
       \/ \E approve \in BOOLEAN : DecideBooking(b, approve)
  \/ ReconcileCompletedBookings

ResourceStep ==
  /\ \/ Tick
     \/ InventoryStep(SafeTotals)
     \/ MaintenanceStep
     \/ ScanStep
  /\ UNCHANGED requestVars

BookingNext == BookingStep \/ ResourceStep

BookingSpec == BookingInit /\ [][BookingNext]_bookingVars

-----------------------------------------------------------------------------
(***************************************************************************)
(* Properties.                                                             *)
(***************************************************************************)

\* The <<slot, unit>> pairs a booking holds.
HeldBy(b) == {p \in Slots \X Quantities :
                HoldsAt(b, p[1]) /\ p[2] <= bookings[b].quantity}

Ledger == INSTANCE CapacityLedger WITH
            Holders <- Bookings, Units <- Quantities, total <- resource.total,
            held <- [b \in Bookings |-> HeldBy(b)]

\* The bookings of a resource are a ledger of its capacity: creation, change,
\* approval, cancellation, return, completion and every change of quantity is
\* a step of CapacityLedger.
ImplementsLedger == Ledger!Spec

\* The confirmed bookings never hold more units than the resource has
\* (_assert_capacity together with _safe_minimum_quantity).
NeverOverbooked == \A slot \in Slots : Load(slot) <= resource.total

\* Whatever a request has read before, and whoever books, approves or resizes
\* at the same time, a step that adds load to a slot leaves it within the
\* quantity of the resource (_assert_capacity).
GrantsFitCapacity ==
  [][\A slot \in Slots :
       Load(slot)' > Load(slot) => Load(slot)' <= resource'.total]_bookingVars

\* A booking gets a slot only while the resource is in service, calibrated for
\* the window and free of maintenance in it, even if the resource changed
\* after the request had looked at it.
NewUseOnlyWhenUsable ==
  [][\A b \in Bookings, slot \in Slots :
       HoldsAt(b, slot)' /\ ~HoldsAt(b, slot) => Usable(bookings'[b].window)]_bookingVars

\* A request saves a booking row that was changed after its view had read it.
StaleSave(b) ==
  \E q \in Requests :
    /\ requests[q].step = "updating" /\ requests'[q] = NoRequest
    /\ requests[q].booking = b
    /\ requests[q].row # bookings[b]

StatusStays(b)  == bookings'[b].status = bookings[b].status

InUseIsLeftAlone(b) ==
  /\ bookings'[b].status \in {"confirmed", "completed"}
  /\ bookings'[b].window.start = bookings[b].window.start
  /\ bookings'[b].window.end <= bookings[b].window.end

\* Every change of a booking is visible in its version, except its completion
\* by reconcile_completed_bookings.
ChangeIsVersioned(b) ==
  \/ bookings'[b].version = bookings[b].version + 1
  \/ bookings'[b] = [bookings[b] EXCEPT !.status = "completed"]
  \/ bookings'[b] = bookings[b]

\* No operation but update_booking saving a row that is out of date takes a
\* booking out of a terminal status.
OnlyStaleSavesReopen ==
  [][\A b \in Bookings :
       bookings[b].status \in Terminal => StatusStays(b) \/ StaleSave(b)]_bookingVars

\* A confirmed booking whose window has begun is neither cancelled nor moved,
\* but by such a save (cancel_booking and update_booking refuse it).
OnlyStaleSavesTouchStarted ==
  [][\A b \in Bookings :
       Confirmed(b) /\ bookings[b].window.start <= now
         => InUseIsLeftAlone(b) \/ StaleSave(b)]_bookingVars

\* Only such a save gives two states of a booking the same version.
OnlyStaleSavesReuseVersions ==
  [][\A b \in Bookings : ChangeIsVersioned(b) \/ StaleSave(b)]_bookingVars
=============================================================================

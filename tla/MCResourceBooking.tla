------------------------- MODULE MCResourceBooking -------------------------
(***************************************************************************)
(* Instances of ResourceBooking for TLC.                                   *)
(***************************************************************************)
EXTENDS ResourceBooking, TLC

\* Bookings are interchangeable, and so are requests.
Symmetry == Permutations(Bookings) \cup Permutations(Requests)

\* Windows in the future of day 0: two single days and both together.
MCWindows ==
  {[start |-> 1, end |-> 2], [start |-> 1, end |-> 3], [start |-> 2, end |-> 3]}

MCEditsTotal == {[total |-> 1], [total |-> 2]}

MCEditsPolicy == {[policy |-> "immediate"], [status |-> "unavailable"]}

MCNoPlans == {}

MCNames == {"item"}

\* A planned outage on day 2.
MCPlans ==
  {[kind |-> "preventive", offline |-> TRUE, at |-> 2, due |-> 3]}

\* A manager's use is confirmed at once under either policy.
MCRows ==
  {[name |-> "item", status |-> "available", total |-> n,
    policy |-> "approval_required", calibration |-> NoDate, version |-> 1] : n \in 1 .. 2}

\* One row whose calibration is due on day 2.
MCCalibrationRow ==
  {[name |-> "item", status |-> "available", total |-> 2,
    policy |-> "approval_required", calibration |-> 2, version |-> 1]}

MCTwoUnits ==
  {[name |-> "item", status |-> "available", total |-> 2,
    policy |-> "approval_required", calibration |-> NoDate, version |-> 1]}
=============================================================================

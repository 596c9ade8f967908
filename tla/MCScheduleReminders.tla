-------------------------- MODULE MCScheduleReminders --------------------------
(***************************************************************************)
(* An instance of ScheduleReminders for TLC.                               *)
(***************************************************************************)
EXTENDS ScheduleReminders

\* Bounds.  At most one run of the scan dies, and once the event has ended at
\* most one is still running.
FewScans ==
  /\ deaths <= 1
  /\ event = "active" \/ \E s \in Scanners : At(s, "idle")
=============================================================================

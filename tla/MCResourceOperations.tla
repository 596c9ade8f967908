------------------------ MODULE MCResourceOperations ------------------------
(***************************************************************************)
(* An instance of ResourceOperations for TLC.  A behaviour is one of the    *)
(* part named by focus: maintenance against one scan process, or the       *)
(* scan of beat and the scan of a page overlapping, without maintenance.   *)
(***************************************************************************)
EXTENDS ResourceOperations

VARIABLE focus

\* Maintenance that holds the equipment from tomorrow, a fault that holds it
\* at once, and a calibration that does not take it out of service.
MCPlans ==
  {[kind |-> "preventive", offline |-> TRUE, at |-> 1, due |-> 2],
   [kind |-> "fault", offline |-> TRUE, at |-> 1, due |-> NoDate],
   [kind |-> "calibration", offline |-> FALSE, at |-> 0, due |-> NoDate]}

MCNames == {"first", "second"}

\* A manager puts the resource back in service, or changes its name or its
\* next calibration.
MCEdits ==
  {[status |-> "available"], [name |-> "second"], [calibration |-> 2]}

\* Equipment in service, with no calibration due or with one due tomorrow.
MCRows ==
  {[name |-> "first", status |-> "available", total |-> 1,
    policy |-> "immediate", calibration |-> d, version |-> 1] : d \in {1, NoDate}}

MCInit ==
  /\ Init
  /\ focus \in {"maintenance", "overlap"}

\* While maintenance is looked at one process scans, and no name changes.
FirstScanner == CHOOSE s \in Scanners : TRUE

OneScan ==
  /\ \A t \in Scanners \ {FirstScanner} : scans'[t] = NoScan
  /\ resource'.name = resource.name

MCNext ==
  /\ Next
  /\ UNCHANGED focus
  /\ focus = "maintenance" => OneScan
  /\ focus = "overlap" => UNCHANGED records

\* As in FairSpec, of the processes that scan.
MCSpec ==
  /\ MCInit
  /\ [][MCNext]_<<focus, vars>>
  /\ \A s \in Scanners :
       WF_vars((focus = "overlap" \/ s = FirstScanner) /\ Scan(s))

\* A scan that keeps running withdraws what is out of order or overdue, and
\* alerts its managers (reconcile_resource_operation_alerts).
ScansCatchUp == OutageIsWithdrawn /\ OverdueIsWithdrawn /\ OverdueIsAlerted
=============================================================================

------------------------- MODULE MCDeliverableReview -------------------------
(***************************************************************************)
(* An instance of DeliverableReview for TLC: deliverables, reviewers and   *)
(* processes are interchangeable.                                          *)
(***************************************************************************)
EXTENDS DeliverableReview, TLC

Symmetry == Permutations(Deliverables) \cup Permutations(Reviewers)
              \cup Permutations(Workers)

\* Bounds.  The project is read-only, the milestone archived or a process killed
\* only while no follow-ups are left to run.
QuietWhenClosed ==
  \/ writable /\ ~milestone.archived /\ crashes = 0
  \/ \A w \in Workers : workers[w] = Idle

\* Work that designated reviewers look at, and work that goes to the advisor at once.
MCPlans ==
  {[required |-> TRUE, reviewed |-> TRUE, designated |-> Reviewers],
   [required |-> TRUE, reviewed |-> FALSE, designated |-> {}]}
=============================================================================

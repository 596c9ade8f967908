--------------------------- MODULE CapacityLedger ---------------------------
(***************************************************************************)
(* What booking a resource promises, whatever requests, scans and managers *)
(* run at the same time: in every slot of time the units held by all       *)
(* holders fit the resource's total quantity.                              *)
(***************************************************************************)
EXTENDS Integers, FiniteSets

CONSTANTS
  Holders,  \* who may hold units: the bookings
  Slots,    \* the slots of time
  Units     \* the units a single holder may ask for, numbered

VARIABLES
  total,    \* how many units the resource has
  held      \* held[h]: the <<slot, unit>> pairs that h holds

vars == <<total, held>>

Init ==
  /\ total \in Nat \ {0}
  /\ held = [h \in Holders |-> {}]

Load(slot) ==
  Cardinality({p \in Holders \X Units : <<slot, p[2]>> \in held[p[1]]})

\* A holder's claim is replaced by one that fits next to all the others in
\* every slot where the load grows.
Claim(h, claim) ==
  /\ held' = [held EXCEPT ![h] = claim]
  /\ \A slot \in Slots : Load(slot)' <= Load(slot) \/ Load(slot)' <= total
  /\ UNCHANGED total

\* Any number of holders give up some of what they hold.
Release ==
  /\ held' \in [Holders -> SUBSET (Slots \X Units)]
  /\ \A h \in Holders : held'[h] \subseteq held[h]
  /\ UNCHANGED total

\* The quantity may change to any that covers what is already held.
Resize ==
  /\ total' \in Nat \ {0}
  /\ \A slot \in Slots : Load(slot) <= total'
  /\ UNCHANGED held

Next ==
  \/ \E h \in Holders, claim \in SUBSET (Slots \X Units) : Claim(h, claim)
  \/ Release
  \/ Resize

Spec == Init /\ [][Next]_vars
=============================================================================

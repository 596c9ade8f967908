--------------------------- MODULE WritingAnchors ---------------------------
(***************************************************************************)
(* Where standalone writing is kept: create_standalone_writing_project and *)
(* _standalone_writing_anchor_project_for of apps/submissions.             *)
(*                                                                         *)
(* A standalone piece is kept in a project of the student or, without one, *)
(* in an anchor project of the first active administrator or advisor.  It  *)
(* is looked up by its title and made when it is missing.                  *)
(***************************************************************************)
EXTENDS Integers, FiniteSets

CONSTANTS
  Keepers,    \* accounts that may come first
  Creators,   \* students without a project who start standalone pieces
  MaxAnchors  \* bound: anchor projects that are archived

ASSUME AnchorAssumption ==
  "rest" \notin Keepers /\ IsFiniteSet(Creators) /\ MaxAnchors \in Nat

VARIABLES
  keeper,   \* the first active administrator or advisor
  anchors,  \* active anchor projects of each
  retired,  \* anchor projects archived so far
  creators  \* what each creator has found: an advisor without an anchor

anchorVars == <<keeper, anchors, retired, creators>>

AnchorTypeOK ==
  /\ keeper \in Keepers /\ anchors \in [Keepers -> Nat]
  /\ retired \in 0 .. MaxAnchors
  /\ creators \in [Creators -> {"rest"} \cup Keepers]

AnchorInit ==
  /\ keeper \in Keepers
  /\ anchors = [t \in Keepers |-> 0] /\ retired = 0
  /\ creators = [c \in Creators |-> "rest"]

-----------------------------------------------------------------------------
\* Accounts are deactivated and approved.
KeeperMoves ==
  /\ keeper' \in Keepers
  /\ UNCHANGED <<anchors, retired, creators>>

ArchiveAnchor(t) ==
  /\ anchors[t] > 0 /\ retired < MaxAnchors
  /\ anchors' = [anchors EXCEPT ![t] = @ - 1]
  /\ retired' = retired + 1
  /\ UNCHANGED <<keeper, creators>>

\* A creator that finds one uses it, which changes nothing here.
LookForAnchor(c) ==
  /\ creators[c] = "rest" /\ anchors[keeper] = 0
  /\ creators' = [creators EXCEPT ![c] = keeper]
  /\ UNCHANGED <<keeper, anchors, retired>>

CreateAnchor(c) ==
  /\ creators[c] # "rest"
  /\ anchors' = [anchors EXCEPT ![creators[c]] = @ + 1]
  /\ creators' = [creators EXCEPT ![c] = "rest"]
  /\ UNCHANGED <<keeper, retired>>

Standalone == \E c \in Creators : LookForAnchor(c) \/ CreateAnchor(c)

AnchorNext ==
  \/ Standalone
  \/ \E t \in Keepers : ArchiveAnchor(t)
  \/ KeeperMoves

AnchorSpec == AnchorInit /\ [][AnchorNext]_anchorVars

-----------------------------------------------------------------------------
\* There are no more anchor projects of a teacher than there were creators who
\* looked before the first was there; those still to make one count in
\* (_standalone_writing_anchor_project_for).
AnchorsFollowLookups ==
  \A t \in Keepers :
    anchors[t] + Cardinality({c \in Creators : creators[c] = t})
      <= Cardinality(Creators)
=============================================================================

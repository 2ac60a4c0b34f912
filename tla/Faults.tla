------------------------------- MODULE Faults -------------------------------
(***************************************************************************)
(* The budget of things that go wrong, shared by the components that are   *)
(* checked in one run: failing calls, crashes and interference from        *)
(* outside.  A component's action takes one from it (Mishap) or leaves it  *)
(* alone (Smooth).                                                         *)
(***************************************************************************)
EXTENDS Naturals

CONSTANT MaxMishaps

ASSUME FaultsAssumption == MaxMishaps \in Nat

VARIABLE mishaps

Mishap == mishaps < MaxMishaps /\ mishaps' = mishaps + 1
Smooth == UNCHANGED mishaps

(* What goes wrong takes from the budget only where nothing else explains  *)
(* it: `counts` says that the step could have gone well.                   *)
MishapIf(counts) == IF counts THEN Mishap ELSE Smooth
=============================================================================

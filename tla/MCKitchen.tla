------------------------------ MODULE MCKitchen ------------------------------
(***************************************************************************)
(* Instances of Kitchen for TLC.                                           *)
(***************************************************************************)
EXTENDS Kitchen, TLC

Symmetry == Permutations(Households) \cup Permutations(Requests)
              \cup Permutations(Bodies) \cup Permutations(Links)
=============================================================================

---------------------------- MODULE MCHouseholds ----------------------------
(***************************************************************************)
(* Instances of Households for TLC.                                        *)
(***************************************************************************)
EXTENDS Households, TLC

Symmetry == Permutations(Users) \cup Permutations(Households)
              \cup Permutations(Invitations) \cup Permutations(Requests)
=============================================================================

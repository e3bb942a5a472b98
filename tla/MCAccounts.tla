----------------------------- MODULE MCAccounts -----------------------------
(***************************************************************************)
(* Instances of Accounts for TLC.                                          *)
(***************************************************************************)
EXTENDS Accounts, TLC

Symmetry == Permutations(Spellings) \cup Permutations(Requests)
              \cup Permutations(Instances) \cup Permutations(Codes)
=============================================================================

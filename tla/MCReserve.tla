----------------------------- MODULE MCReserve -----------------------------
(***************************************************************************)
(* Small instances of a reserve with its clock and rates.                  *)
(***************************************************************************)
EXTENDS Reserve, TLC

CONSTANTS alice, bob

UserSymmetry == Permutations(Users)
=============================================================================

---------------------------- MODULE MCStableDebt ----------------------------
(***************************************************************************)
(* Small instances of the stable debt token.                               *)
(***************************************************************************)
EXTENDS StableDebtToken, TLC

CONSTANTS alice, bob

UserSymmetry == Permutations(Users)
=============================================================================

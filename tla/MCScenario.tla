----------------------------- MODULE MCScenario -----------------------------
(***************************************************************************)
(* Small instances of the scenario tests on a market.                      *)
(***************************************************************************)
EXTENDS Scenario, TLC

CONSTANTS alice, bob, carol

UserSymmetry == Permutations(Users)
=============================================================================

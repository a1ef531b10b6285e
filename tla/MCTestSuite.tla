----------------------------- MODULE MCTestSuite -----------------------------
(***************************************************************************)
(* A small run of the tests: two suites with snapshots of their own, three *)
(* tests each, so that a snapshot may be asked for twice after its use.    *)
(***************************************************************************)
EXTENDS TestSuite

TwoKinds == <<"each", "once">>

A(name, expected, complete, told) ==
    [name |-> name, expected |-> expected, complete |-> complete, told |-> told]

Succeeds == A("deposit", "success", TRUE, FALSE)
Reverts == A("borrow", "revert", TRUE, FALSE)

(* Each way an action is dealt with, alone or before others.               *)
ShortStories == {
    <<Succeeds>>, <<Reverts>>,
    <<A("mint", "revert", TRUE, FALSE), Reverts>>,
    <<A("delegateBorrowAllowance", "revert", TRUE, TRUE), Succeeds>>,
    <<A("delegateBorrowAllowance", "revert", TRUE, FALSE), Reverts>>,
    <<A("borrow", "other", TRUE, FALSE), A("deposit", "other", TRUE, FALSE), Reverts>>,
    <<A("deposit", "success", FALSE, FALSE), Succeeds>>}
=============================================================================

----------------------------- MODULE MCFakePayee -----------------------------
(***************************************************************************)
(* A small instance of FakePayee for TLC, without symmetry.                *)
(***************************************************************************)
EXTENDS FakePayee, TLC

CONSTANT m1

MCPrice == m1 :> 2
=============================================================================

------------------------------ MODULE MCHarness ------------------------------
(***************************************************************************)
(* Small instances of Harness; callers are interchangeable.                *)
(***************************************************************************)
EXTENDS Harness

HarnessSymmetry == Permutations(Callers)
=============================================================================

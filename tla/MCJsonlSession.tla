--------------------------- MODULE MCJsonlSession ---------------------------
(***************************************************************************)
(* Small instances of JsonlSession.  Writers are interchangeable.          *)
(***************************************************************************)
EXTENDS JsonlSession, TLC

WriterSymmetry == Permutations(Writers)
=============================================================================

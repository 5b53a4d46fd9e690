--------------------------- MODULE MCContextWindow ---------------------------
(***************************************************************************)
(* Small instances of ContextWindow.                                       *)
(***************************************************************************)
EXTENDS ContextWindow
=============================================================================

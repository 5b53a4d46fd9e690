---------------------------- MODULE MCAgentLoop ----------------------------
(***************************************************************************)
(* Small instances of AgentLoop.  User messages are model values; they are *)
(* interchangeable, so the safety runs use their symmetry.                 *)
(***************************************************************************)
EXTENDS AgentLoop, TLC

\* Of each batch the first result is too long.
FirstResults == {<<t, 1>> : t \in 1..MaxTurns}

Symmetry == Permutations(UserMessages)
=============================================================================

------------------------------ MODULE MCAgent ------------------------------
(***************************************************************************)
(* Small instances of Agent.  Callers, messages and settings are model     *)
(* values; callers and messages are interchangeable.                       *)
(***************************************************************************)
EXTENDS Agent, TLC

AgentSymmetry == Permutations(UserMessages) \cup Permutations(Callers)
=============================================================================

------------------------------- MODULE Queue -------------------------------
(***************************************************************************)
(* The unbounded channels between the tasks of the terminal.               *)
(***************************************************************************)
EXTENDS Naturals, Sequences

\* A queue, whatever it holds.
IsQueue(q) == q \in Seq({q[i] : i \in DOMAIN q})
=============================================================================

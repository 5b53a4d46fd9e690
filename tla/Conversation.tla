---------------------------- MODULE Conversation ----------------------------
(***************************************************************************)
(* What a run of the agent loop promises about the transcript it leaves,   *)
(* whatever order its tools finish in: the transcript only grows, a reply  *)
(* with tool calls is followed by their results in the order of the calls, *)
(* and calls are left without a result only when the run was cancelled or  *)
(* the reply itself failed.                                                *)
(***************************************************************************)
EXTENDS Naturals, Sequences

CONSTANTS
  Users,          \* user messages
  MaxCalls,       \* tool calls of one reply
  Turns           \* identifiers of replies

VARIABLES
  log,            \* the transcript
  owed,           \* results still owed to the last reply, in order
  excused         \* they may be abandoned

vars == <<log, owed, excused>>

\* A result enters the transcript whole, whatever the model is shown later.
Result(t, c, e) ==
  [role |-> "toolResult", turn |-> t, call |-> c, error |-> e, whole |-> TRUE]

Init ==
  /\ log \in {<<>>} \cup {<<u>> : u \in Users}
  /\ owed = <<>>
  /\ excused = FALSE

\* A user message is said only when nothing is owed.
Say ==
  /\ owed = <<>>
  /\ \E u \in Users : log' = Append(log, u)
  /\ UNCHANGED owed

Reply ==
  /\ owed = <<>>
  /\ \E t \in Turns, s \in {"stop", "length", "error"}, n \in 0..MaxCalls :
       /\ log' = Append(log, [role |-> "assistant", turn |-> t, stop |-> s, calls |-> n])
       /\ owed' = [k \in 1..n |-> <<t, k>>]
       /\ s = "error" => excused'

Answer ==
  /\ owed # <<>>
  /\ \E e \in BOOLEAN : log' = Append(log, Result(Head(owed)[1], Head(owed)[2], e))
  /\ owed' = Tail(owed)

Abandon ==
  /\ excused /\ owed # <<>>
  /\ owed' = <<>>
  /\ UNCHANGED log

\* An excuse is never taken back.
Next ==
  /\ excused => excused'
  /\ Say \/ Reply \/ Answer \/ Abandon \/ UNCHANGED <<log, owed>>

Spec == Init /\ [][Next]_vars
=============================================================================

-------------------------- MODULE StreamProtocol --------------------------
(***************************************************************************)
(* What an AssistantStream promises the loop that consumes it              *)
(* (grain-agent-core/src/stream.rs, and the contract restated at           *)
(* InboundState): one Start, then blocks that are opened in order, extended*)
(* while open and closed, then exactly one terminal event.  Done leaves no *)
(* block open.  A lenient stream may fail without a Start and with blocks  *)
(* still open; a strict one always starts and closes what it opened.       *)
(***************************************************************************)
EXTENDS Naturals

VARIABLES phase, opened, open, event, lenient
vars == <<phase, opened, open, event, lenient>>

Ev(kind, at) == [kind |-> kind, at |-> at]

Init ==
  /\ phase = "quiet" /\ opened = 0 /\ open = {}
  /\ event = Ev("none", 0)
  /\ lenient \in BOOLEAN

Start ==
  /\ phase = "quiet"
  /\ phase' = "streaming" /\ event' = Ev("start", 0)
  /\ UNCHANGED <<opened, open, lenient>>

OpenBlock ==
  /\ phase = "streaming"
  /\ opened' = opened + 1
  /\ open' = open \cup {opened + 1}
  /\ event' = Ev("open", opened + 1)
  /\ UNCHANGED <<phase, lenient>>

Extend(i) ==
  /\ phase = "streaming" /\ i \in open
  /\ event' = Ev("delta", i)
  /\ UNCHANGED <<phase, opened, open, lenient>>

CloseBlock(i) ==
  /\ phase = "streaming" /\ i \in open
  /\ open' = open \ {i}
  /\ event' = Ev("close", i)
  /\ UNCHANGED <<phase, opened, lenient>>

Done ==
  /\ phase = "streaming" /\ open = {}
  /\ phase' = "ended" /\ event' = Ev("done", 0)
  /\ UNCHANGED <<opened, open, lenient>>

Fail ==
  /\ \/ phase = "streaming" /\ open = {}
     \/ phase # "ended" /\ lenient
  /\ phase' = "ended" /\ event' = Ev("error", 0)
  /\ UNCHANGED <<opened, open, lenient>>

Next == Start \/ OpenBlock \/ Done \/ Fail \/ \E i \in open : Extend(i) \/ CloseBlock(i)

Spec == Init /\ [][Next]_vars
=============================================================================

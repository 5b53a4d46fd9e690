--------------------------- MODULE StreamEvents ---------------------------
(***************************************************************************)
(* What the two assemblers of grain-llm-genai share: the message under     *)
(* construction, the events it still has to yield, and the events the      *)
(* consumer was told.  Both are records with at least the fields           *)
(*   blocks   the content of the message, a sequence of blocks             *)
(*   started  whether Start was emitted                                    *)
(*   out      events of the last input that were not yielded yet           *)
(*   final    "none", or how the message ended once it has                 *)
(* A block is [kind, parts, sig]: its pieces of text, reasoning or raw     *)
(* arguments and of its signature, each piece named by the input that      *)
(* brought it.                                                             *)
(***************************************************************************)
EXTENDS Naturals, FiniteSets, SequencesExt

VARIABLES
  asm,    \* the assembler: AnthropicState or InboundState
  told    \* the events yielded so far

Ev(kind, at) == [kind |-> kind, at |-> at]

Block(kind) == [kind |-> kind, parts |-> <<>>, sig |-> <<>>]

(* f, and y at x. *)
With(f, x, y) == [z \in DOMAIN f \cup {x} |-> IF z = x THEN y ELSE f[z]]

Emit(m, e) == [m EXCEPT !.out = Append(@, e)]

EnsureStarted(m) ==
  IF m.started THEN m ELSE Emit([m EXCEPT !.started = TRUE], Ev("start", 0))

(* A new block at the end of the message, announced. *)
PushBlock(m, block) ==
  Emit([m EXCEPT !.blocks = Append(@, block)], Ev("open", Len(m.blocks) + 1))

AddPart(m, i, piece) ==
  Emit([m EXCEPT !.blocks[i].parts = Append(@, piece)], Ev("delta", i))

CallsTools(m) == \E i \in 1..Len(m.blocks) : m.blocks[i].kind = "tool"

(* The assembler waits for input: everything was yielded, nothing is over. *)
Ready == asm.out = <<>> /\ asm.final = "none"

(* The consumer takes the next event; cancellation is looked at only when  *)
(* all events of one input were yielded.                                   *)
YieldEvent ==
  /\ asm.out # <<>>
  /\ told' = Append(told, Head(asm.out))
  /\ asm' = [asm EXCEPT !.out = Tail(@)]
=============================================================================

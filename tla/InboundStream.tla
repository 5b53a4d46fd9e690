--------------------------- MODULE InboundStream ---------------------------
(***************************************************************************)
(* The default route: genai's ChatStreamEvents become loop events in       *)
(* InboundState (mapping/inbound.rs) under the loop of GenaiStream::stream *)
(* (stream.rs).  One block is open at a time; a tool call's chunks carry   *)
(* its arguments cumulatively; thought signatures arrive before, in or     *)
(* after the reasoning they sign, or without any.                          *)
(***************************************************************************)
EXTENDS StreamEvents

CONSTANTS
  MaxChunks,     \* bound: events of genai in one response
  CallIds,       \* ids of tool calls
  MaxGrowth      \* bound: snapshots of one call's arguments

ASSUME InboundAssumption == MaxGrowth \in Nat

VARIABLE chunks  \* the events genai delivered so far

(* What genai delivers: text, reasoning, a signature, or a call whose      *)
(* arguments have grown to piece n (0: none yet) or are repeated.          *)
Carried(id) == {k \in DOMAIN chunks : chunks[k].kind = "tool" /\ chunks[k].id = id}
Latest(id) == Max({0} \cup {chunks[k].n : k \in Carried(id)})
Chunks ==
  [kind : {"text", "thinking", "signature"}, id : {""}, n : {0}]
    \cup [kind : {"tool"}, id : CallIds, n : 0..MaxGrowth]
Delivers(c) == c.kind = "tool" => c.n \in {Latest(c.id), Latest(c.id) + 1}

------------------------------------------------------------------------------
(* open: index of the open block, 0 for none; calls: block of each call    *)
(* seen; pending: signatures that have nowhere to go yet                   *)
NewInbound ==
  [blocks |-> <<>>, open |-> 0, calls |-> <<>>, pending |-> <<>>,
   started |-> FALSE, out |-> <<>>, final |-> "none"]

CloseOpen(m) ==
  IF m.open = 0 THEN m ELSE Emit([m EXCEPT !.open = 0], Ev("close", m.open))

OpenIs(m, kind) == m.open # 0 /\ m.blocks[m.open].kind = kind

(* on_text_chunk and on_reasoning_chunk: go on with the open block of the  *)
(* kind, or open one; a new thinking block takes the newest pending        *)
(* signature.                                                              *)
OpenFresh(m, kind) ==
  LET c == CloseOpen(m)
      signed == kind = "thinking" /\ c.pending # <<>>
      p == PushBlock(c, [Block(kind) EXCEPT !.sig = IF signed THEN <<Last(c.pending)>> ELSE <<>>])
  IN  [p EXCEPT !.open = Len(p.blocks), !.pending = IF signed THEN Front(@) ELSE @]

OnProse(m, kind, k) ==
  LET s == EnsureStarted(m)
      o == IF OpenIs(s, kind) THEN s ELSE OpenFresh(s, kind)
  IN  AddPart(o, o.open, k)

(* attach_thought_signature: to the open thinking block, else to the last  *)
(* thinking block if that is unsigned, else pending.                       *)
AttachSignature(m, k) ==
  LET last == Max({0} \cup {i \in DOMAIN m.blocks : m.blocks[i].kind = "thinking"})
  IN  IF OpenIs(m, "thinking") THEN [m EXCEPT !.blocks[m.open].sig = Append(@, k)]
      ELSE IF last # 0 /\ m.blocks[last].sig = <<>>
      THEN [m EXCEPT !.blocks[last].sig = <<k>>]
      ELSE [m EXCEPT !.pending = Append(@, k)]

(* A faulty variant: a call whose block was closed is not looked at again. *)
OnToolCallOpenOnly(m, c) ==
  LET s == EnsureStarted(m)
      snapshot == [j \in 1..c.n |-> j]
  IN  IF c.id \in DOMAIN s.calls
      THEN IF s.open # s.calls[c.id] THEN s ELSE AddPart(s, s.open, c.n)
      ELSE LET p == PushBlock(CloseOpen(s), [Block("tool") EXCEPT !.parts = snapshot])
           IN  [p EXCEPT !.open = Len(p.blocks), !.calls = With(@, c.id, Len(p.blocks))]

(* on_tool_call: parts are the snapshot the call's arguments stand at      *)
OnToolCall(m, c) ==
  LET s == EnsureStarted(m)
      snapshot == [j \in 1..c.n |-> j]
  IN  IF c.id \in DOMAIN s.calls
      THEN LET i == s.calls[c.id]
               r == [s EXCEPT !.blocks[i].parts = snapshot]
           IN  IF s.blocks[i].parts = snapshot \/ s.open # i THEN r
               ELSE Emit(r, Ev("delta", i))
      ELSE LET p == PushBlock(CloseOpen(s), [Block("tool") EXCEPT !.parts = snapshot])
               i == Len(p.blocks)
               o == [p EXCEPT !.open = i, !.calls = With(@, c.id, i)]
           IN  IF c.n = 0 THEN o ELSE Emit(o, Ev("delta", i))

OnChunk(m, c, k) ==
  CASE c.kind \in {"text", "thinking"} -> OnProse(m, c.kind, k)
    [] c.kind = "signature"            -> AttachSignature(m, k)
    [] c.kind = "tool"                 -> OnToolCall(m, c)

(* A faulty variant: one block for all of them, signed by the last. *)
FlushPendingLast(m) ==
  [m EXCEPT !.pending = <<>>,
            !.blocks = @ \o IF m.pending = <<>> THEN <<>>
                            ELSE <<[Block("thinking") EXCEPT !.sig = <<Last(m.pending)>>]>>]

(* flush_pending_signatures: a block of its own each, without events *)
FlushPending(m) ==
  [m EXCEPT !.pending = <<>>,
            !.blocks = @ \o [j \in 1..Len(m.pending) |-> [Block("thinking") EXCEPT !.sig = <<m.pending[j]>>]]]

(* resolve_stop_reason; google says STOP whether or not there are calls *)
ResolveStopReason(m, reason, google) ==
  CASE reason = "none"      -> IF CallsTools(m) THEN "tool_use" ELSE "stop"
    [] reason = "completed" -> IF google /\ CallsTools(m) THEN "tool_use" ELSE "stop"
    [] reason = "tool_call" -> "tool_use"
    [] reason = "length"    -> "length"
    [] reason = "filtered"  -> "error"

(* into_aborted and into_error_msg: neither starts the message nor closes *)
(* its open block                                                         *)
Broken(m, how) == Emit([FlushPending(m) EXCEPT !.final = how], Ev("error", 0))

------------------------------------------------------------------------------
(* The loop of GenaiStream::stream *)

GenaiRefuses ==
  /\ Ready /\ told = <<>> /\ chunks = <<>>
  /\ asm' = Broken(asm, "error")
  /\ UNCHANGED <<told, chunks>>

OnStart ==
  /\ Ready /\ chunks = <<>>
  /\ asm' = EnsureStarted(asm)
  /\ UNCHANGED <<told, chunks>>

OnEvent ==
  /\ Ready /\ Len(chunks) < MaxChunks
  /\ \E c \in Chunks :
       /\ Delivers(c)
       /\ chunks' = Append(chunks, c)
       /\ asm' = OnChunk(asm, c, Len(chunks) + 1)
  /\ UNCHANGED told

OnEnd ==
  /\ Ready
  /\ \E reason \in {"none", "completed", "tool_call", "length", "filtered"}, google \in BOOLEAN :
       LET m == FlushPending(CloseOpen(EnsureStarted(asm)))
           how == ResolveStopReason(m, reason, google)
       IN  asm' = Emit([m EXCEPT !.final = how], Ev(IF how = "error" THEN "error" ELSE "done", 0))
  /\ UNCHANGED <<told, chunks>>

(* genai fails, or its stream is over without an End. *)
GenaiFails ==
  /\ Ready
  /\ asm' = Broken(asm, "error")
  /\ UNCHANGED <<told, chunks>>

CancelInbound ==
  /\ Ready
  /\ asm' = Broken(asm, "aborted")
  /\ UNCHANGED <<told, chunks>>

------------------------------------------------------------------------------
InboundInit == asm = NewInbound /\ chunks = <<>>

InboundNext ==
  \/ GenaiRefuses \/ OnStart \/ OnEvent \/ OnEnd \/ GenaiFails \/ CancelInbound
=============================================================================

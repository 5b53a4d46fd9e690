-------------------------- MODULE ProviderStream --------------------------
(***************************************************************************)
(* GenaiStream::stream serves a request by one of two routes: the native   *)
(* Anthropic transport, if it is selected for the model, or genai.  The    *)
(* consumer, the agent loop, sees the same events from both.               *)
(***************************************************************************)
EXTENDS AnthropicTransport, InboundStream

VARIABLE route   \* "native" or "genai"

streamVars == <<route, asm, told, net, dec, chunks>>

StreamInit ==
  /\ told = <<>>
  /\ \/ route = "native" /\ NativeInit /\ chunks = <<>>
     \/ route = "genai" /\ InboundInit /\ dec = NoBytes
          /\ net = [sent |-> <<>>, bytes |-> 0, came |-> 0, closed |-> FALSE, newline |-> "lf"]

Yield == YieldEvent /\ UNCHANGED <<route, net, dec, chunks>>

Native == route = "native" /\ NativeNext /\ UNCHANGED <<route, chunks>>
Genai  == route = "genai" /\ InboundNext /\ UNCHANGED <<route, net, dec>>

StreamNext == Native \/ Genai \/ Yield

StreamSpec == StreamInit /\ [][StreamNext]_streamVars

------------------------------------------------------------------------------
(* What the consumer was told *)

Told(kind) == {i \in DOMAIN told : told[i].kind = kind}
At(kind) == {told[i].at : i \in Told(kind)}

Protocol == INSTANCE StreamProtocol WITH
  phase   <- IF told = <<>> THEN "quiet"
             ELSE IF Last(told).kind \in {"done", "error"} THEN "ended" ELSE "streaming",
  opened  <- Cardinality(Told("open")),
  open    <- At("open") \ At("close"),
  event   <- IF told = <<>> THEN Ev("none", 0) ELSE Last(told),
  lenient <- route = "genai"

(* Both routes keep the contract of stream.rs: one Start, blocks opened in *)
(* order, extended and closed while open, one terminal event with nothing  *)
(* after it.  The native route starts and closes its blocks even when it   *)
(* fails; the genai route may fail without Start and leave a block open.   *)
ImplementsProtocol == Protocol!Spec

(* SseDecoder and AnthropicState, however the body was cut into chunks:    *)
(* the message is what the frames received so far say, each piece once, in *)
(* its own block and in order, less at most a frame whose end has not been *)
(* seen; and it is never Done unless the server said message_stop.         *)
DeliversTheWire ==
  route = "native" =>
    /\ \/ Spells(asm.blocks, Received)
       \/ Received # {} /\ Spells(asm.blocks, Received \ {Max(Received)})
    /\ asm.final \in {"stop", "length", "tool_use"} =>
         /\ \E k \in Received : net.sent[k].kind = "message_stop"
         /\ Spells(asm.blocks, Received)

(* InboundState: for each call there is one block, and once the message is *)
(* over it holds the last arguments genai delivered for it, also those     *)
(* that came when another block was open already.                          *)
ArgumentsComplete ==
  route = "genai" =>
    /\ \A id \in CallIds : id \in DOMAIN asm.calls <=> Carried(id) # {}
    /\ \A id \in DOMAIN asm.calls : Len(asm.blocks[asm.calls[id]].parts) = Latest(id)
    /\ \A i \in DOMAIN asm.blocks :
         asm.blocks[i].kind = "tool" <=> \E id \in DOMAIN asm.calls : asm.calls[id] = i
    /\ \A id, other \in DOMAIN asm.calls : asm.calls[id] = asm.calls[other] => id = other

(* Where a thought signature may be: pending, or in a block. *)
Places ==
  {<<0, j>> : j \in DOMAIN asm.pending}
    \cup UNION {{<<i, j>> : j \in DOMAIN asm.blocks[i].sig} : i \in DOMAIN asm.blocks}
Held(p) == IF p[1] = 0 THEN asm.pending[p[2]] ELSE asm.blocks[p[1]].sig[p[2]]

(* InboundState: every thought signature is kept exactly once, in a block  *)
(* or pending, and when the message is over none is pending: also those    *)
(* that came before, after or without reasoning.                           *)
SignaturesKept ==
  route = "genai" =>
    /\ {Held(p) : p \in Places} = {k \in DOMAIN chunks : chunks[k].kind = "signature"}
    /\ \A p, q \in Places : Held(p) = Held(q) => p = q
    /\ asm.final # "none" => asm.pending = <<>>
=============================================================================

------------------------ MODULE AnthropicTransport ------------------------
(***************************************************************************)
(* The native Anthropic transport: bytes of the response body arrive in    *)
(* chunks cut anywhere, SseDecoder (wire.rs) makes frames of them,         *)
(* AnthropicState (state.rs) makes events of the frames, and the loop of   *)
(* stream.rs decides how the message ends.                                 *)
(*                                                                         *)
(* A frame is sent as an event line, a data line and an empty line.  Its   *)
(* bytes are "event" (the event line's text), "head" and "tail" (the two   *)
(* bytes of one multi-byte character of the data line) and newlines, which *)
(* a server writes as LF, CR or CRLF.                                      *)
(***************************************************************************)
EXTENDS StreamEvents

CONSTANTS
  MaxFrames,     \* bound: frames a response has
  MaxBlocks,     \* bound: blocks a response has
  InFlight,      \* bound: bytes still on their way when the server sends more
  Kinds,         \* the kinds of blocks the model answers with
  Newlines       \* the newline styles servers use

ASSUME WireAssumption ==
  /\ MaxBlocks \in Nat
  /\ Kinds \subseteq {"text", "thinking", "tool"}
  /\ Newlines \subseteq {"lf", "cr", "crlf"}

VARIABLES
  net,   \* the response: frames sent, bytes they have (of a closed body: bytes
         \* that arrive), bytes that came, body closed, newline style
  dec    \* the decoder: bytes of a cut character, buffer, a CR at the end

------------------------------------------------------------------------------
(* The server: what the Messages API sends, as the code expects it         *)

Fr(kind, ix, what) == [kind |-> kind, ix |-> ix, what |-> what]

Count(frames, kind) == Cardinality({k \in DOMAIN frames : frames[k].kind = kind})
OpenOnWire(frames) ==
  {ix \in 0..(Count(frames, "block_start") - 1) : Fr("block_stop", ix, "none") \notin ToSet(frames)}

(* Deltas that fit the kind of the block they belong to. *)
DeltasFor(kind) == IF kind = "thinking" THEN {"thinking", "signature"} ELSE {kind}
KindOnWire(frames, ix) ==
  (CHOOSE f \in ToSet(frames) : f.kind = "block_start" /\ f.ix = ix).what

Possible(frames) ==
  IF frames = <<>> THEN {Fr("message_start", 0, "none")}
  ELSE IF Count(frames, "message_delta") = 0
  THEN  {Fr("block_start", Count(frames, "block_start"), k) :
           k \in IF Count(frames, "block_start") < MaxBlocks THEN Kinds ELSE {}}
   \cup (UNION {{Fr("delta", ix, d) : d \in DeltasFor(KindOnWire(frames, ix))} : ix \in OpenOnWire(frames)})
   \cup {Fr("block_stop", ix, "none") : ix \in OpenOnWire(frames)}
   \cup {Fr("message_delta", 0, r) : r \in {"end_turn", "tool_use", "max_tokens", "refusal"}}
   \cup {Fr("error", 0, "none")}
  ELSE {Fr("message_stop", 0, "none")}

(* The bytes of a frame, and of its empty line. *)
Layout(nl) ==
  CASE nl = "lf"   -> <<"event", "lf", "head", "tail", "lf", "lf">>
    [] nl = "cr"   -> <<"event", "cr", "head", "tail", "cr", "cr">>
    [] nl = "crlf" -> <<"event", "cr", "lf", "head", "tail", "cr", "lf", "cr", "lf">>
EmptyLine(nl) == IF nl = "crlf" THEN 2 ELSE 1

(* Byte number p of a body, and the bytes of one; the last frame lacks its *)
(* empty line.                                                             *)
Byte(nl, p) ==
  LET width == Len(Layout(nl))
  IN  [b |-> Layout(nl)[((p - 1) % width) + 1], of |-> ((p - 1) \div width) + 1]
Bytes(nl, frames) ==
  Len(frames) * Len(Layout(nl)) - IF Last(frames).kind = "message_stop" THEN EmptyLine(nl) ELSE 0

(* The server is looked at only while the client waits for it: what it     *)
(* sends in between arrives later all the same.  At most InFlight bytes of *)
(* earlier frames are on their way when it sends another.                  *)
ServerSends ==
  /\ Ready /\ ~net.closed /\ Len(net.sent) < MaxFrames /\ net.bytes - net.came <= InFlight
  /\ Count(net.sent, "message_stop") + Count(net.sent, "error") = 0
  /\ \E f \in Possible(net.sent) :
       net' = [net EXCEPT !.sent = Append(@, f),
                          !.bytes = Bytes(net.newline, Append(net.sent, f))]
  /\ UNCHANGED <<asm, told, dec>>

(* The body ends: where the server meant it to, or cut in the middle of a  *)
(* frame when the connection is closed; what was not sent yet is lost.     *)
ServerCloses ==
  /\ Ready /\ ~net.closed
  /\ \E n \in net.came..net.bytes : net' = [net EXCEPT !.closed = TRUE, !.bytes = n]
  /\ UNCHANGED <<asm, told, dec>>

------------------------------------------------------------------------------
(* SseDecoder                                                              *)

NoBytes == [pending |-> <<>>, buf |-> <<>>, cr |-> FALSE]

(* decode_available: whole characters; the head of a cut one is kept. *)
DecodeAvailable(bytes) ==
  IF Last(bytes).b = "head" THEN [keep |-> <<Last(bytes)>>, chars |-> Front(bytes)]
  ELSE [keep |-> <<>>, chars |-> bytes]

(* absorb, for one character: every newline style becomes one "lf", and the *)
(* LF of a CRLF is dropped; a character of two bytes is there with its tail. *)
Normalized(d, c) ==
  IF c.b = "head" THEN d
  ELSE IF d.cr /\ c.b = "lf" THEN [d EXCEPT !.cr = FALSE]
  ELSE [d EXCEPT !.cr = (c.b = "cr"),
                 !.buf = Append(@, IF c.b = "cr" THEN [c EXCEPT !.b = "lf"] ELSE c)]

(* A faulty variant: newlines are normalised in each chunk by itself.        *)
AbsorbPerChunk(d, chars) ==
  LET after[n \in 0..Len(chars)] ==
        IF n = 0 THEN [d EXCEPT !.cr = FALSE] ELSE Normalized(after[n - 1], chars[n])
  IN  after[Len(chars)]

(* absorb: a CR at the end of a chunk is remembered for the next one. *)
Absorb(d, chars) ==
  LET after[n \in 0..Len(chars)] ==
        IF n = 0 THEN d ELSE Normalized(after[n - 1], chars[n])
  IN  after[Len(chars)]

(* parse_block: a block is the frame whose event and data it holds; half a *)
(* frame, or data that is not what was sent, is no frame anyone handles.   *)
ParseBlock(block) ==
  LET text == {c \in ToSet(block) : c.b # "lf"}
      whole == {c \in text : text = {[b |-> "event", of |-> c.of], [b |-> "tail", of |-> c.of]}}
  IN  IF whole = {} THEN <<>> ELSE <<(CHOOSE c \in whole : TRUE).of>>

(* take_frames: cut the buffer at every empty line. *)
Cut(p, c) ==
  IF c.b = "lf" /\ p.rest # <<>> /\ Last(p.rest).b = "lf"
  THEN [rest |-> <<>>, frames |-> p.frames \o ParseBlock(Front(p.rest))]
  ELSE [p EXCEPT !.rest = Append(@, c)]

TakeFrames(d) ==
  LET after[n \in 0..Len(d.buf)] ==
        IF n = 0 THEN [rest |-> <<>>, frames |-> <<>>] ELSE Cut(after[n - 1], d.buf[n])
      cut == after[Len(d.buf)]
  IN  [dec |-> [d EXCEPT !.buf = cut.rest], frames |-> cut.frames]

PushBytes(d, chunk) ==
  LET got == DecodeAvailable(d.pending \o chunk)
  IN  TakeFrames([Absorb(d, got.chars) EXCEPT !.pending = got.keep])

(* finish: what is left when the body ends; half a character spoils its frame. *)
Flush(d) ==
  ParseBlock(d.buf \o IF d.pending = <<>> THEN <<>> ELSE <<[b |-> "bad", of |-> 0]>>)

------------------------------------------------------------------------------
(* AnthropicState                                                          *)

NewState ==
  [blocks |-> <<>>, open |-> <<>>, started |-> FALSE, reason |-> "none", out |-> <<>>, final |-> "none"]

OnBlockStart(m, f) ==
  LET p == PushBlock(EnsureStarted(m), Block(f.what))
  IN  [p EXCEPT !.open = With(@, f.ix, Len(p.blocks))]

(* A signature's pieces are added silently; deltas of another kind are skipped. *)
OnBlockDelta(m, f, k) ==
  IF f.ix \notin DOMAIN m.open THEN m
  ELSE LET i == m.open[f.ix]
       IN  CASE f.what = m.blocks[i].kind -> AddPart(m, i, k)
             [] f.what = "signature" /\ m.blocks[i].kind = "thinking" ->
                  [m EXCEPT !.blocks[i].sig = Append(@, k)]
             [] OTHER -> m

Closed(m, ix) ==
  Emit([m EXCEPT !.open = [x \in DOMAIN @ \ {ix} |-> @[x]]], Ev("close", m.open[ix]))

OnBlockStop(m, f) == IF f.ix \in DOMAIN m.open THEN Closed(m, f.ix) ELSE m

(* A faulty variant: only the block opened last is closed. *)
CloseDanglingLast(m) ==
  IF DOMAIN m.open = {} THEN m
  ELSE Closed(m, CHOOSE ix \in DOMAIN m.open : \A x \in DOMAIN m.open : x <= ix)

(* close_dangling: in the order of the provider's own indexes. *)
CloseDangling(m) ==
  LET after[n \in 0..MaxBlocks] ==
        IF n = 0 THEN m
        ELSE IF n - 1 \in DOMAIN m.open THEN Closed(after[n - 1], n - 1) ELSE after[n - 1]
  IN  after[MaxBlocks]

Ended(m, how) ==
  LET e == CloseDangling(EnsureStarted(m))
  IN  Emit([e EXCEPT !.final = how],
           Ev(IF how \in {"error", "aborted"} THEN "error" ELSE "done", 0))

(* resolve_stop *)
ResolveStop(m) ==
  CASE m.reason = "none"       -> IF CallsTools(m) THEN "tool_use" ELSE "stop"
    [] m.reason = "end_turn"   -> "stop"
    [] m.reason = "tool_use"   -> "tool_use"
    [] m.reason = "max_tokens" -> "length"
    [] OTHER                   -> "error"

(* on_frame, for frame number k *)
OnFrame(m, k) ==
  LET f == net.sent[k]
  IN  CASE m.final # "none"           -> m
        [] f.kind = "message_start"   -> EnsureStarted(m)
        [] f.kind = "block_start"     -> OnBlockStart(m, f)
        [] f.kind = "delta"           -> OnBlockDelta(m, f, k)
        [] f.kind = "block_stop"      -> OnBlockStop(m, f)
        [] f.kind = "message_delta"   -> [m EXCEPT !.reason = f.what]
        [] f.kind = "message_stop"    -> Ended(m, ResolveStop(m))
        [] f.kind = "error"           -> Ended(m, "error")

OnFrames(m, frames) ==
  LET after[n \in 0..Len(frames)] ==
        IF n = 0 THEN m ELSE OnFrame(after[n - 1], frames[n])
  IN  after[Len(frames)]

------------------------------------------------------------------------------
(* The loop of AnthropicStream::stream                                     *)

(* The request was refused or unanswered: a stream of one error. *)
OneShotError ==
  /\ Ready /\ net.sent = <<>> /\ told = <<>>
  /\ asm' = Ended(asm, "error")
  /\ UNCHANGED <<told, net, dec>>

Receive ==
  /\ Ready
  /\ \E n \in 1..(net.bytes - net.came) :
       LET got == PushBytes(dec, [i \in 1..n |-> Byte(net.newline, net.came + i)])
       IN  /\ dec' = got.dec
           /\ asm' = OnFrames(asm, got.frames)
           /\ net' = [net EXCEPT !.came = @ + n]
  /\ UNCHANGED told

ReceiveFails ==
  /\ Ready /\ net.sent # <<>>
  /\ asm' = Ended(asm, "error")
  /\ UNCHANGED <<told, net, dec>>

(* The body is over: the last frame is flushed; without message_stop the   *)
(* message is an error that keeps what was received.                       *)
BodyEnds ==
  /\ Ready /\ net.closed /\ net.came = net.bytes
  /\ LET m == OnFrames(asm, Flush(dec))
     IN  asm' = IF m.final = "none" THEN Ended(m, "error") ELSE m
  /\ UNCHANGED <<told, net, dec>>

CancelNative ==
  /\ Ready
  /\ asm' = Ended(asm, "aborted")
  /\ UNCHANGED <<told, net, dec>>

------------------------------------------------------------------------------
NativeInit ==
  /\ asm = NewState
  /\ net \in {[sent |-> <<>>, bytes |-> 0, came |-> 0, closed |-> FALSE, newline |-> nl] : nl \in Newlines}
  /\ dec = NoBytes

NativeNext ==
  \/ ServerSends \/ ServerCloses
  \/ OneShotError \/ Receive \/ ReceiveFails \/ BodyEnds \/ CancelNative

------------------------------------------------------------------------------
(* The frames whose text has been received to its last byte. *)
Received ==
  LET shape == Layout(net.newline)
  IN  {k \in DOMAIN net.sent :
         \E j \in DOMAIN shape : shape[j] = "tail" /\ (k - 1) * Len(shape) + j <= net.came}

(* The numbers in a set, each once and in order. *)
InOrder(s, S) == ToSet(s) = S /\ \A i, j \in DOMAIN s : i < j => s[i] < s[j]

(* The blocks are those a reader of the frames would write down. *)
Spells(blocks, frames) ==
  LET starts == {k \in frames : net.sent[k].kind = "block_start"}
      pieces(ix, sig) == {k \in frames : /\ net.sent[k].kind = "delta" /\ net.sent[k].ix = ix
                                         /\ (net.sent[k].what = "signature") = sig}
  IN  /\ Len(blocks) = Cardinality(starts)
      /\ \A k \in starts :
           LET f == net.sent[k]
               b == blocks[Cardinality({j \in starts : j <= k})]
           IN  b.kind = f.what /\ InOrder(b.parts, pieces(f.ix, FALSE)) /\ InOrder(b.sig, pieces(f.ix, TRUE))
=============================================================================

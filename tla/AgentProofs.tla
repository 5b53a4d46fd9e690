---------------------------- MODULE AgentProofs ----------------------------
(***************************************************************************)
(* Theorems about AgentLoop, for every number of turns, calls, updates and *)
(* user messages, and about Agent, for every number of callers, runs,      *)
(* messages and settings.                                                  *)
(*                                                                         *)
(* The loop: the inductive invariant Inv of AgentLoop places each call of  *)
(* a batch relative to the call the batch has reached; the properties of   *)
(* the updates and of the ends of turns follow from it.  The properties of *)
(* the conversation need more, and each its own strengthening, proved on   *)
(* top of Inv: where a user message is (PendingInv), that the last message *)
(* of the context is the reply whose batch runs (ReplyInv), how the        *)
(* transcript, the context and new_messages differ in the middle of a turn *)
(* (AccountsInv), and that what lies before an unanswered reply is paired  *)
(* (PairInv).                                                              *)
(*                                                                         *)
(* The agent: however the callers race for the lock, there is one run at a *)
(* time, wait_for_idle returns only after the run it is bound to, and each *)
(* user message is in one place at most until a reset takes it away.  The  *)
(* last takes the invariants of the loop, which hold across the runs of an *)
(* agent too, and a count of each message over all the places it can be    *)
(* in; what callers hold in their hands is the part that the loop does not *)
(* see.                                                                    *)
(***************************************************************************)
EXTENDS Agent, SequenceTheorems, FiniteSetTheorems, TLAPS

-----------------------------------------------------------------------------
(***************************************************************************)
(* Messages and queues                                                     *)
(***************************************************************************)

\* Messages of users, replies and results are messages.
LEMMA MessageTypes ==
  /\ UserMessage \subseteq Message /\ Reply \subseteq Message
  /\ \A m \in UserMessages : User(m) \in UserMessage
  /\ \A t \in 0..MaxTurns, c \in Calls, e \in BOOLEAN : ToolResult(t, c, e) \in Message
BY DEF Message, UserMessage, Reply, ToolResultMessage, User, Assistant, ToolResult

\* A reply built from a turn, a stop reason and a count is a message.
LEMMA AssistantType ==
  ASSUME NEW t \in 0..MaxTurns, NEW s \in StopReasons \cup {"partial"},
         NEW n \in 0..MaxCalls
  PROVE  /\ Assistant(t, s, n) \in Reply
         /\ Assistant(t, s, n) \in Message
         /\ Assistant(t, s, n).stop = s
BY DEF Message, Reply, Assistant

\* The fields of a reply have the types of their sets.
LEMMA ReplyFields ==
  ASSUME NEW r \in Reply
  PROVE  r.calls \in 0..MaxCalls /\ r.stop \in StopReasons \cup {"partial"}
BY DEF Reply

\* A poll takes no more than the queue holds.
LEMMA TakenRange ==
  ASSUME NEW S, NEW q \in Seq(S), NEW m
  PROVE  Taken(q, m) \in 0..Len(q)
<1>1. Len(q) \in Nat
  BY LenProperties
<1>2. CASE m = "all" \/ q = <<>>
  BY <1>1, <1>2 DEF Taken
<1>3. CASE ~(m = "all" \/ q = <<>>)
  <2>1. Len(q) >= 1
    BY <1>1, <1>3, EmptySeq, LenProperties
  <2>. QED  BY <1>1, <1>3, <2>1 DEF Taken
<1>. QED  BY <1>2, <1>3

\* What a poll takes from a queue and what it leaves are queues.
LEMMA DrainTypes ==
  ASSUME NEW S, NEW q \in Seq(S), NEW m
  PROVE  Drained(q, m) \in Seq(S) /\ Left(q, m) \in Seq(S)
<1>1. Len(q) \in Nat /\ \A i \in 1..Len(q) : q[i] \in S
  BY LenProperties, ElementOfSeq
<1>2. Taken(q, m) \in 0..Len(q)
  BY TakenRange
<1>3. SubSeq(q, 1, Taken(q, m)) \in Seq(S)
  <2>1. \A i \in 1..Taken(q, m) : q[i] \in S
    BY <1>1, <1>2
  <2>. QED  BY <1>1, <1>2, <2>1, SubSeqProperties
<1>4. SubSeq(q, Taken(q, m) + 1, Len(q)) \in Seq(S)
  <2>1. \A i \in (Taken(q, m) + 1)..Len(q) : q[i] \in S
    BY <1>1, <1>2
  <2>. QED  BY <1>1, <1>2, <2>1, SubSeqProperties
<1>. QED  BY <1>3, <1>4 DEF Drained, Left

\* Putting a reply in the place of the partial one keeps the context a
\* non-empty sequence of messages.
LEMMA WithReplyType ==
  ASSUME Inv, NEW r \in Message
  PROVE  WithReply(r) \in Seq(Message) /\ WithReply(r) # <<>>
<1>0. context \in Seq(Message)
  BY DEF Inv, TypeOK, LogTypeOK
<1>1. CASE partial
  <2>1. context # <<>>
    BY <1>1 DEF Inv, TurnInv
  <2>2. Len(context) \in 1..Len(context)
    BY <1>0, <2>1, EmptySeq, LenProperties
  <2>. QED  BY <1>0, <1>1, <2>2, ExceptSeq, LenProperties, EmptySeq DEF WithReply
<1>2. CASE ~partial
  BY <1>0, <1>2, AppendProperties DEF WithReply
<1>. QED  BY <1>1, <1>2

-----------------------------------------------------------------------------
(***************************************************************************)
(* What hooks make of a context                                            *)
(***************************************************************************)

\* What hooks add are messages that nobody said.
LEMMA HookMessages ==
  /\ Summary \in Message /\ Summary.role = "summary"
  /\ Remark \in Message /\ Remark.role = "remark"
BY DEF Message, Summary, Remark

\* A message in the role of a tool result is one.
LEMMA ResultsByRole ==
  ASSUME NEW x \in Message, x.role = "toolResult"
  PROVE  x \in ToolResultMessage
BY DEF Message, UserMessage, Reply, Summary, Remark

\* Two forms of one message, one of them perhaps shortened.
Alike(a, b) ==
  /\ a.role = b.role
  /\ b.role # "toolResult" => a = b
  /\ b.role = "toolResult" => a.turn = b.turn /\ a.call = b.call
  /\ Whole(a) = Whole(b)

\* Shortening a result leaves a result of the same call.
LEMMA ResultShortened ==
  ASSUME NEW x \in ToolResultMessage
  PROVE  [x EXCEPT !.whole = FALSE] \in Message /\ Alike([x EXCEPT !.whole = FALSE], x)
<1>. DEFINE y == [x EXCEPT !.whole = FALSE]
<1>1. y \in ToolResultMessage
  BY DEF ToolResultMessage
<1>2. /\ x.role = "toolResult" /\ y.role = "toolResult"
      /\ y.turn = x.turn /\ y.call = x.call /\ y.error = x.error
  BY DEF ToolResultMessage
<1>3. [y EXCEPT !.whole = TRUE] = [x EXCEPT !.whole = TRUE]
  BY DEF ToolResultMessage
<1>4. y \in Message
  BY <1>1 DEF Message
<1>5. Whole(y) = Whole(x)
  BY <1>2, <1>3 DEF Whole
<1>. HIDE DEF y
<1>6. y \in Message /\ Alike(y, x)
  BY <1>2, <1>4, <1>5 DEF Alike
<1>. QED  BY <1>6 DEF y

\* Shortening keeps each message in its place.
LEMMA Shortening ==
  ASSUME NEW ctx \in Seq(Message)
  PROVE  /\ Shortened(ctx) \in Seq(Message) /\ Len(Shortened(ctx)) = Len(ctx)
         /\ \A i \in 1..Len(ctx) : Alike(Shortened(ctx)[i], ctx[i])
<1>. DEFINE n == Len(ctx)
            F(i) == IF ctx[i].role = "toolResult" /\ <<ctx[i].turn, ctx[i].call>> \in Long
                    THEN [ctx[i] EXCEPT !.whole = FALSE] ELSE ctx[i]
            s == [i \in 1..n |-> F(i)]
<1>1. n \in Nat /\ DOMAIN ctx = 1..n /\ \A i \in 1..n : ctx[i] \in Message
  BY LenProperties, ElementOfSeq
<1>2. Shortened(ctx) = s
  BY <1>1 DEF Shortened
<1>3. ASSUME NEW i \in 1..n PROVE F(i) \in Message /\ Alike(F(i), ctx[i])
  <2>1. CASE F(i) = ctx[i]
    BY <1>1, <2>1 DEF Alike
  <2>2. CASE ctx[i].role = "toolResult" /\ F(i) = [ctx[i] EXCEPT !.whole = FALSE]
    <3>1. ctx[i] \in ToolResultMessage
      BY <1>1, <2>2, ResultsByRole
    <3>. QED  BY <2>2, <3>1, ResultShortened
  <2>. QED  BY <2>1, <2>2
<1>. HIDE DEF F
<1>4. s \in Seq(Message) /\ DOMAIN s = 1..n /\ \A i \in 1..n : s[i] = F(i)
  BY <1>1, <1>3, IsASeq
<1>. HIDE DEF s
<1>5. Len(s) = n
  BY <1>1, <1>4, LenProperties
<1>. QED  BY <1>2, <1>3, <1>4, <1>5

\* Folding puts a summary in front of what it leaves.
Folded(ctx, k) == <<Summary>> \o SubSeq(ctx, k + 1, Len(ctx))

LEMMA Folding ==
  ASSUME NEW ctx \in Seq(Message), NEW k \in 2..Len(ctx)
  PROVE  /\ Folded(ctx, k) \in Seq(Message) /\ Len(Folded(ctx, k)) = Len(ctx) - k + 1
         /\ Folded(ctx, k)[1] = Summary
         /\ \A i \in 2..(Len(ctx) - k + 1) : Folded(ctx, k)[i] = ctx[i + k - 1]
         /\ SubSeq(ctx, k + 1, Len(ctx)) \in Seq(Message)
<1>. DEFINE n == Len(ctx)  t == SubSeq(ctx, k + 1, n)  h == <<Summary>>
<1>1. n \in Nat /\ \A i \in 1..n : ctx[i] \in Message
  BY LenProperties, ElementOfSeq
<1>2. /\ t \in Seq(Message) /\ Len(t) = n - k
      /\ \A i \in 1..(n - k) : t[i] = ctx[k + i]
  <2>1. \A i \in (k + 1)..n : ctx[i] \in Message
    BY <1>1
  <2>2. /\ t \in Seq(Message)
        /\ Len(t) = IF k + 1 <= n THEN n - (k + 1) + 1 ELSE 0
        /\ \A i \in 1..(n - (k + 1) + 1) : t[i] = ctx[(k + 1) + i - 1]
    BY <1>1, <2>1, SubSeqProperties
  <2>. HIDE DEF t, n
  <2>3. n \in Nat /\ k \in 2..n
    BY <1>1 DEF n
  <2>4. Len(t) = n - k
    BY <2>2, <2>3
  <2>5. ASSUME NEW i \in 1..(n - k) PROVE t[i] = ctx[k + i]
    <3>1. i \in 1..(n - (k + 1) + 1) /\ (k + 1) + i - 1 = k + i
      BY <2>3
    <3>. QED  BY <2>2, <3>1
  <2>. QED  BY <2>2, <2>4, <2>5
<1>. HIDE DEF t
<1>3. h \in Seq(Message) /\ Len(h) = 1 /\ h[1] = Summary
  BY HookMessages
<1>. HIDE DEF h
<1>4. /\ h \o t \in Seq(Message) /\ Len(h \o t) = Len(h) + Len(t)
      /\ \A i \in 1..(Len(h) + Len(t)) : (h \o t)[i] = IF i <= Len(h) THEN h[i] ELSE t[i - Len(h)]
  BY ONLY <1>2, <1>3, ConcatProperties
<1>5. n \in Nat /\ k \in 2..n
  BY <1>1
<1>. HIDE DEF n
<1>6. Len(h \o t) = n - k + 1
  BY <1>2, <1>3, <1>4, <1>5
<1>7. (h \o t)[1] = Summary
  <2>1. 1 \in 1..(Len(h) + Len(t)) /\ 1 <= Len(h)
    BY <1>2, <1>3, <1>5
  <2>. QED  BY <1>3, <1>4, <2>1
<1>8. ASSUME NEW i \in 2..(n - k + 1) PROVE (h \o t)[i] = ctx[i + k - 1]
  <2>1. /\ i \in 1..(Len(h) + Len(t)) /\ ~(i <= Len(h)) /\ i - Len(h) = i - 1
        /\ i - 1 \in 1..(n - k) /\ k + (i - 1) = i + k - 1
    BY <1>2, <1>3, <1>5
  <2>2. (h \o t)[i] = t[i - 1]
    BY <1>4, <2>1
  <2>3. t[i - 1] = ctx[k + (i - 1)]
    BY <1>2, <2>1
  <2>. QED  BY <2>1, <2>2, <2>3
<1>. QED  BY <1>2, <1>4, <1>6, <1>7, <1>8 DEF Folded, n, h, t

\* What the chain of hooks makes of a context: shortened, perhaps folded, and
\* perhaps with a message behind it.
LEMMA Rewriting ==
  ASSUME NEW ctx \in Seq(Message), NEW new \in Rewrites(ctx)
  PROVE  \E folded \in Seq(Message) :
           /\ \/ folded = Shortened(ctx)
              \/ \E k \in Cuts(Shortened(ctx)) : folded = Folded(Shortened(ctx), k)
           /\ new = folded \/ new = Append(folded, Remark)
           /\ new \in Seq(Message)
<1>. DEFINE s == Shortened(ctx)
<1>1. s \in Seq(Message)
  BY Shortening
<1>. HIDE DEF s
<1>2. PICK folded \in {s} \cup Foldings(s) : new \in Additions(folded)
  BY DEF Rewrites, Foldings, s
<1>3. folded = s \/ \E k \in Cuts(s) : folded = Folded(s, k)
  BY <1>2 DEF Foldings, Folded
<1>4. folded \in Seq(Message)
  <2>1. ASSUME NEW k \in Cuts(s), folded = Folded(s, k) PROVE folded \in Seq(Message)
    <3>1. k \in 2..Len(s)
      BY DEF Cuts
    <3>. QED  BY <1>1, <2>1, <3>1, Folding
  <2>. QED  BY <1>1, <1>3, <2>1
<1>5. new = folded \/ new = Append(folded, Remark)
  BY <1>2 DEF Additions
<1>6. Append(folded, Remark) \in Seq(Message)
  BY <1>4, HookMessages, AppendProperties
<1>. QED  BY <1>3, <1>4, <1>5, <1>6 DEF s

-----------------------------------------------------------------------------
(***************************************************************************)
(* The inductive invariant                                                 *)
(***************************************************************************)

\* The initial states satisfy the inductive invariant.
LEMMA InitInv == Init => Inv
<1>. SUFFICES ASSUME Init PROVE Inv
  OBVIOUS
<1>. USE AgentLoopAssumption DEF Init, Calls, InBatch
<1>1. LogTypeOK
  <2>1. CASE transcript = <<>> /\ unsent = UserMessages
    BY <2>1, EmptySeq DEF LogTypeOK
  <2>2. CASE \E m \in UserMessages :
               transcript = <<User(m)>> /\ unsent = UserMessages \ {m}
    <3>1. PICK m \in UserMessages :
                 transcript = <<User(m)>> /\ unsent = UserMessages \ {m}
      BY <2>2
    <3>2. <<User(m)>> \in Seq(Message)
      BY MessageTypes
    <3>. QED  BY <3>1, <3>2, EmptySeq DEF LogTypeOK
  <2>. QED  BY <2>1, <2>2
<1>2. TurnTypeOK
  <2>1. 0 \in 0..MaxTurns /\ 0 \in 0..MaxCalls /\ 0 \in 0..MaxRewrites
    OBVIOUS
  <2>2. NoReply \in Reply
    BY <2>1, AssistantType DEF NoReply, StopReasons
  <2>. QED  BY <2>1, <2>2 DEF TurnTypeOK, PCs
<1>3. BatchTypeOK
  BY DEF BatchTypeOK, Slots, Outcome, Failure
<1>4. BatchInv /\ SlotInv /\ EmitInv /\ CallsInv /\ TurnInv
  BY DEF BatchInv, SlotInv, EmitInv, CallsInv, TurnInv, NoReply, Assistant
<1>. QED  BY <1>1, <1>2, <1>3, <1>4 DEF Inv, TypeOK

\* PollSteering keeps the inductive invariant.
LEMMA PollSteeringInv ==
  ASSUME Inv, PollSteering
  PROVE  Inv'
<1>0. reply.calls \in 0..MaxCalls
  BY ReplyFields DEF Inv, TypeOK, TurnTypeOK
<1>. USE <1>0, AgentLoopAssumption DEF PollSteering, PollQueue, TurnOrFollowUp, Inv, TypeOK, Calls, InBatch,
      logVars, turnVars, replyVars, batchVars, updateVars, queueVars, sinkVars
<1>1. LogTypeOK'
  <2>1. steering \in Seq(UserMessage)
    BY DEF LogTypeOK
  <2>2. /\ Drained(steering, SteeringMode) \in Seq(UserMessage)
        /\ Left(steering, SteeringMode) \in Seq(UserMessage)
    BY ONLY <2>1, DrainTypes
  <2>3. <<>> \in Seq(UserMessage)
    BY ONLY EmptySeq
  <2>4. pending' \in Seq(UserMessage) /\ steering' \in Seq(UserMessage)
    <3>. HIDE DEF Inv, TypeOK
    <3>. QED  BY ONLY <2>1, <2>2, <2>3, PollSteering DEF PollSteering, PollQueue
  <2>. QED  BY <2>4 DEF LogTypeOK
<1>2. TurnTypeOK'
  BY DEF TurnTypeOK, PCs
<1>3. BatchTypeOK'
  BY SMTT(30), ZenonT(30) DEF BatchTypeOK, BatchInv, SlotInv, EmitInv, Slots, Outcome
<1>4. BatchInv'
  BY DEF BatchInv, SlotInv, BatchTypeOK, TurnTypeOK
<1>5. SlotInv'
  BY DEF BatchInv, SlotInv, EmitInv, BatchTypeOK
<1>6. EmitInv'
  BY DEF BatchInv, SlotInv, EmitInv, BatchTypeOK
<1>7. CallsInv'
  BY DEF BatchInv, SlotInv, CallsInv, BatchTypeOK
<1>8. TurnInv'
  BY DEF TurnInv, BatchInv, TurnTypeOK
<1>. QED  BY <1>1, <1>2, <1>3, <1>4, <1>5, <1>6, <1>7, <1>8

\* Inject keeps the inductive invariant.
LEMMA InjectInv ==
  ASSUME Inv, Inject
  PROVE  Inv'
<1>0. reply.calls \in 0..MaxCalls
  BY ReplyFields DEF Inv, TypeOK, TurnTypeOK
<1>. USE <1>0, AgentLoopAssumption DEF Inject, Inv, TypeOK, Calls, InBatch,
      logVars, turnVars, replyVars, batchVars, updateVars, queueVars, sinkVars
<1>1. LogTypeOK'
  <2>1. pending \in Seq(UserMessage) /\ pending # <<>>
    BY DEF LogTypeOK, TurnInv
  <2>2. Head(pending) \in Message /\ Tail(pending) \in Seq(UserMessage)
    BY <2>1, HeadTailProperties, MessageTypes
  <2>. QED  BY <2>2, AppendProperties DEF LogTypeOK
<1>2. TurnTypeOK'
  BY DEF TurnTypeOK, PCs
<1>3. BatchTypeOK'
  BY SMTT(30), ZenonT(30) DEF BatchTypeOK, BatchInv, SlotInv, EmitInv, Slots, Outcome
<1>4. BatchInv'
  BY DEF BatchInv, SlotInv, BatchTypeOK, TurnTypeOK
<1>5. SlotInv'
  BY DEF BatchInv, SlotInv, EmitInv, BatchTypeOK
<1>6. EmitInv'
  BY DEF BatchInv, SlotInv, EmitInv, BatchTypeOK
<1>7. CallsInv'
  BY DEF BatchInv, SlotInv, CallsInv, BatchTypeOK
<1>8. TurnInv'
  <2>1. pending \in Seq(UserMessage) /\ pending # <<>>
    BY DEF LogTypeOK, TurnInv
  <2>2. Len(pending) \in Nat /\ Len(pending) # 0 /\ Len(Tail(pending)) = Len(pending) - 1
    BY <2>1, HeadTailProperties, LenProperties, EmptySeq
  <2>3. Len(pending) # 1 => Tail(pending) # <<>>
    BY <2>2, EmptySeq, SMTT(30), ZenonT(30)
  <2>. QED  BY <2>3 DEF TurnInv, TurnTypeOK
<1>. QED  BY <1>1, <1>2, <1>3, <1>4, <1>5, <1>6, <1>7, <1>8

\* Request keeps the inductive invariant.
LEMMA RequestInv ==
  ASSUME Inv, Request
  PROVE  Inv'
<1>0. reply.calls \in 0..MaxCalls
  BY ReplyFields DEF Inv, TypeOK, TurnTypeOK
<1>. USE <1>0, AgentLoopAssumption DEF Request, Replied, Inv, TypeOK, Calls, InBatch,
      logVars, turnVars, replyVars, batchVars, updateVars, queueVars, sinkVars
<1>1. LogTypeOK'
  <2>1. CASE UNCHANGED <<logVars, transcript>>
    BY <2>1 DEF LogTypeOK
  <2>2. CASE Replied(Assistant(turns + 1, "error", 0))
    <3>1. turns + 1 \in 0..MaxTurns /\ 0 \in 0..MaxCalls
      BY DEF TurnTypeOK, TurnInv
    <3>2. Assistant(turns + 1, "error", 0) \in Message
      BY <3>1, AssistantType DEF StopReasons
    <3>. QED  BY <2>2, <3>2, WithReplyType, AppendProperties DEF LogTypeOK, Replied
  <2>. QED  BY <2>1, <2>2
<1>2. TurnTypeOK'
  <2>1. turns + 1 \in 0..MaxTurns /\ 0 \in 0..MaxCalls
    BY DEF TurnTypeOK, TurnInv
  <2>2. Assistant(turns + 1, "error", 0) \in Reply
    BY <2>1, AssistantType DEF StopReasons
  <2>. QED  BY <2>1, <2>2 DEF TurnTypeOK, PCs
<1>3. BatchTypeOK'
  BY SMTT(30), ZenonT(30) DEF BatchTypeOK, BatchInv, SlotInv, EmitInv, Slots, Outcome
<1>4. BatchInv'
  BY DEF BatchInv, SlotInv, BatchTypeOK, TurnTypeOK
<1>5. SlotInv'
  BY DEF BatchInv, SlotInv, EmitInv, BatchTypeOK
<1>6. EmitInv'
  BY DEF BatchInv, SlotInv, EmitInv, BatchTypeOK
<1>7. CallsInv'
  BY DEF BatchInv, SlotInv, CallsInv, BatchTypeOK
<1>8. TurnInv'
  <2>1. turns + 1 \in 0..MaxTurns /\ 0 \in 0..MaxCalls
    BY DEF TurnTypeOK, TurnInv
  <2>2. Assistant(turns + 1, "error", 0).stop = "error"
    BY <2>1, AssistantType DEF StopReasons
  <2>. QED  BY <2>1, <2>2 DEF TurnInv, TurnTypeOK
<1>. QED  BY <1>1, <1>2, <1>3, <1>4, <1>5, <1>6, <1>7, <1>8

\* StreamStart keeps the inductive invariant.
LEMMA StreamStartInv ==
  ASSUME Inv, StreamStart
  PROVE  Inv'
<1>0. reply.calls \in 0..MaxCalls
  BY ReplyFields DEF Inv, TypeOK, TurnTypeOK
<1>. USE <1>0, AgentLoopAssumption DEF StreamStart, Inv, TypeOK, Calls, InBatch,
      logVars, turnVars, replyVars, batchVars, updateVars, queueVars, sinkVars
<1>1. LogTypeOK'
  <2>1. Assistant(turns, "partial", 0) \in Message
    <3>1. turns \in 0..MaxTurns /\ 0 \in 0..MaxCalls
      BY DEF TurnTypeOK
    <3>. QED  BY <3>1, AssistantType
  <2>. QED  BY <2>1, AppendProperties DEF LogTypeOK
<1>2. TurnTypeOK'
  BY DEF TurnTypeOK, PCs
<1>3. BatchTypeOK'
  BY SMTT(30), ZenonT(30) DEF BatchTypeOK, BatchInv, SlotInv, EmitInv, Slots, Outcome
<1>4. BatchInv'
  BY DEF BatchInv, SlotInv, BatchTypeOK, TurnTypeOK
<1>5. SlotInv'
  BY DEF BatchInv, SlotInv, EmitInv, BatchTypeOK
<1>6. EmitInv'
  BY DEF BatchInv, SlotInv, EmitInv, BatchTypeOK
<1>7. CallsInv'
  BY DEF BatchInv, SlotInv, CallsInv, BatchTypeOK
<1>8. TurnInv'
  <2>1. turns \in 0..MaxTurns /\ 0 \in 0..MaxCalls
    BY DEF TurnTypeOK
  <2>2. Assistant(turns, "partial", 0) \in Message
    BY <2>1, AssistantType
  <2>3. Append(context, Assistant(turns, "partial", 0)) # <<>>
    BY <2>2, AppendProperties, SMTT(30) DEF LogTypeOK
  <2>. QED  BY <2>3 DEF TurnInv
<1>. QED  BY <1>1, <1>2, <1>3, <1>4, <1>5, <1>6, <1>7, <1>8

\* StreamDone keeps the inductive invariant.
LEMMA StreamDoneInv ==
  ASSUME Inv, StreamDone
  PROVE  Inv'
<1>0. reply.calls \in 0..MaxCalls
  BY ReplyFields DEF Inv, TypeOK, TurnTypeOK
<1>. USE <1>0, AgentLoopAssumption DEF StreamDone, Replied, Replies, Inv, TypeOK, Calls, InBatch,
      logVars, turnVars, replyVars, batchVars, updateVars, queueVars, sinkVars
<1>1. LogTypeOK'
  <2>1. PICK r \in Replies : Replied(r)
    OBVIOUS
  <2>2. r \in Message
    BY <2>1, AssistantType DEF TurnTypeOK, Replies
  <2>. QED  BY <2>1, <2>2, WithReplyType, AppendProperties DEF LogTypeOK
<1>2. TurnTypeOK'
  <2>1. PICK r \in Replies : Replied(r)
    OBVIOUS
  <2>2. r \in Reply
    BY <2>1, AssistantType DEF TurnTypeOK, Replies
  <2>3. /\ pc' = "replied" /\ reply' = r /\ partial' = FALSE /\ streaming' = FALSE
        /\ UNCHANGED <<cancelled, more, skipPoll, rewrites, turns>>
    BY <2>1
  <2>4. TurnTypeOK
    OBVIOUS
  <2>. HIDE DEF StreamDone, Replied, Replies, Inv
  <2>. QED  BY <2>2, <2>3, <2>4 DEF TurnTypeOK, PCs
<1>3. BatchTypeOK'
  BY SMTT(30), ZenonT(30) DEF BatchTypeOK, BatchInv, SlotInv, EmitInv, Slots, Outcome
<1>4. BatchInv'
  BY DEF BatchInv, SlotInv, BatchTypeOK, TurnTypeOK
<1>5. SlotInv'
  BY DEF BatchInv, SlotInv, EmitInv, BatchTypeOK
<1>6. EmitInv'
  BY DEF BatchInv, SlotInv, EmitInv, BatchTypeOK
<1>7. CallsInv'
  BY DEF BatchInv, SlotInv, CallsInv, BatchTypeOK
<1>8. TurnInv'
  <2>1. PICK r \in Replies : Replied(r) /\ (turns = MaxTurns => r.stop = "error")
    OBVIOUS
  <2>2. turns \in 0..MaxTurns
    BY DEF TurnTypeOK
  <2>. QED  BY <2>1, <2>2 DEF TurnInv, TurnTypeOK
<1>. QED  BY <1>1, <1>2, <1>3, <1>4, <1>5, <1>6, <1>7, <1>8

\* ErrorEnd keeps the inductive invariant.
LEMMA ErrorEndInv ==
  ASSUME Inv, ErrorEnd
  PROVE  Inv'
<1>0. reply.calls \in 0..MaxCalls
  BY ReplyFields DEF Inv, TypeOK, TurnTypeOK
<1>. USE <1>0, AgentLoopAssumption DEF ErrorEnd, Inv, TypeOK, Calls, InBatch,
      logVars, turnVars, replyVars, batchVars, updateVars, queueVars, sinkVars
<1>1. LogTypeOK'
  BY DEF LogTypeOK
<1>2. TurnTypeOK'
  BY DEF TurnTypeOK, PCs
<1>3. BatchTypeOK'
  BY SMTT(30), ZenonT(30) DEF BatchTypeOK, BatchInv, SlotInv, EmitInv, Slots, Outcome
<1>4. BatchInv'
  BY DEF BatchInv, SlotInv, BatchTypeOK, TurnTypeOK
<1>5. SlotInv'
  BY DEF BatchInv, SlotInv, EmitInv, BatchTypeOK
<1>6. EmitInv'
  BY DEF BatchInv, SlotInv, EmitInv, BatchTypeOK
<1>7. CallsInv'
  BY DEF BatchInv, SlotInv, CallsInv, BatchTypeOK
<1>8. TurnInv'
  BY DEF TurnInv, BatchInv, TurnTypeOK
<1>. QED  BY <1>1, <1>2, <1>3, <1>4, <1>5, <1>6, <1>7, <1>8

\* NoCalls keeps the inductive invariant.
LEMMA NoCallsInv ==
  ASSUME Inv, NoCalls
  PROVE  Inv'
<1>0. reply.calls \in 0..MaxCalls
  BY ReplyFields DEF Inv, TypeOK, TurnTypeOK
<1>. USE <1>0, AgentLoopAssumption DEF NoCalls, Inv, TypeOK, Calls, InBatch,
      logVars, turnVars, replyVars, batchVars, updateVars, queueVars, sinkVars
<1>1. LogTypeOK'
  BY DEF LogTypeOK
<1>2. TurnTypeOK'
  BY DEF TurnTypeOK, PCs
<1>3. BatchTypeOK'
  BY SMTT(30), ZenonT(30) DEF BatchTypeOK, BatchInv, SlotInv, EmitInv, Slots, Outcome
<1>4. BatchInv'
  BY DEF BatchInv, SlotInv, BatchTypeOK, TurnTypeOK
<1>5. SlotInv'
  BY DEF BatchInv, SlotInv, EmitInv, BatchTypeOK
<1>6. EmitInv'
  BY DEF BatchInv, SlotInv, EmitInv, BatchTypeOK
<1>7. CallsInv'
  BY DEF BatchInv, SlotInv, CallsInv, BatchTypeOK
<1>8. TurnInv'
  BY DEF TurnInv, BatchInv, TurnTypeOK
<1>. QED  BY <1>1, <1>2, <1>3, <1>4, <1>5, <1>6, <1>7, <1>8

\* PrepareNextTurn keeps the inductive invariant.
LEMMA PrepareNextTurnInv ==
  ASSUME Inv, PrepareNextTurn
  PROVE  Inv'
<1>0. reply.calls \in 0..MaxCalls
  BY ReplyFields DEF Inv, TypeOK, TurnTypeOK
<1>. USE <1>0, AgentLoopAssumption DEF PrepareNextTurn, Inv, TypeOK, Calls, InBatch,
      logVars, turnVars, replyVars, batchVars, updateVars, queueVars, sinkVars
<1>1. LogTypeOK'
  <2>1. CASE UNCHANGED context
    BY <2>1 DEF LogTypeOK
  <2>2. CASE context' \in Rewrites(context)
    <3>1. context \in Seq(Message)
      BY DEF LogTypeOK
    <3>2. context' \in Seq(Message)
      BY <2>2, <3>1, Rewriting
    <3>. QED  BY <3>2 DEF LogTypeOK
  <2>. QED  BY <2>1, <2>2
<1>2. TurnTypeOK'
  BY DEF TurnTypeOK, PCs
<1>3. BatchTypeOK'
  BY SMTT(30), ZenonT(30) DEF BatchTypeOK, BatchInv, SlotInv, EmitInv, Slots, Outcome
<1>4. BatchInv'
  BY DEF BatchInv, SlotInv, BatchTypeOK, TurnTypeOK
<1>5. SlotInv'
  BY DEF BatchInv, SlotInv, EmitInv, BatchTypeOK
<1>6. EmitInv'
  BY DEF BatchInv, SlotInv, EmitInv, BatchTypeOK
<1>7. CallsInv'
  BY DEF BatchInv, SlotInv, CallsInv, BatchTypeOK
<1>8. TurnInv'
  BY DEF TurnInv, BatchInv, TurnTypeOK
<1>. QED  BY <1>1, <1>2, <1>3, <1>4, <1>5, <1>6, <1>7, <1>8

\* ShouldStop keeps the inductive invariant.
LEMMA ShouldStopInv ==
  ASSUME Inv, ShouldStop
  PROVE  Inv'
<1>0. reply.calls \in 0..MaxCalls
  BY ReplyFields DEF Inv, TypeOK, TurnTypeOK
<1>. USE <1>0, AgentLoopAssumption DEF ShouldStop, Inv, TypeOK, Calls, InBatch,
      logVars, turnVars, replyVars, batchVars, updateVars, queueVars, sinkVars
<1>1. LogTypeOK'
  BY DEF LogTypeOK
<1>2. TurnTypeOK'
  BY DEF TurnTypeOK, PCs
<1>3. BatchTypeOK'
  BY SMTT(30), ZenonT(30) DEF BatchTypeOK, BatchInv, SlotInv, EmitInv, Slots, Outcome
<1>4. BatchInv'
  BY DEF BatchInv, SlotInv, BatchTypeOK, TurnTypeOK
<1>5. SlotInv'
  BY DEF BatchInv, SlotInv, EmitInv, BatchTypeOK
<1>6. EmitInv'
  BY DEF BatchInv, SlotInv, EmitInv, BatchTypeOK
<1>7. CallsInv'
  BY DEF BatchInv, SlotInv, CallsInv, BatchTypeOK
<1>8. TurnInv'
  BY DEF TurnInv, BatchInv, TurnTypeOK
<1>. QED  BY <1>1, <1>2, <1>3, <1>4, <1>5, <1>6, <1>7, <1>8

\* PollFollowUp keeps the inductive invariant.
LEMMA PollFollowUpInv ==
  ASSUME Inv, PollFollowUp
  PROVE  Inv'
<1>0. reply.calls \in 0..MaxCalls
  BY ReplyFields DEF Inv, TypeOK, TurnTypeOK
<1>. USE <1>0, AgentLoopAssumption DEF PollFollowUp, Inv, TypeOK, Calls, InBatch,
      logVars, turnVars, replyVars, batchVars, updateVars, queueVars, sinkVars
<1>1. LogTypeOK'
  BY DrainTypes DEF LogTypeOK
<1>2. TurnTypeOK'
  BY DEF TurnTypeOK, PCs
<1>3. BatchTypeOK'
  BY SMTT(30), ZenonT(30) DEF BatchTypeOK, BatchInv, SlotInv, EmitInv, Slots, Outcome
<1>4. BatchInv'
  BY DEF BatchInv, SlotInv, BatchTypeOK, TurnTypeOK
<1>5. SlotInv'
  BY DEF BatchInv, SlotInv, EmitInv, BatchTypeOK
<1>6. EmitInv'
  BY DEF BatchInv, SlotInv, EmitInv, BatchTypeOK
<1>7. CallsInv'
  BY DEF BatchInv, SlotInv, CallsInv, BatchTypeOK
<1>8. TurnInv'
  BY DEF TurnInv, BatchInv, TurnTypeOK
<1>. QED  BY <1>1, <1>2, <1>3, <1>4, <1>5, <1>6, <1>7, <1>8

\* StartBatch keeps the inductive invariant.
LEMMA StartBatchInv ==
  ASSUME Inv, StartBatch
  PROVE  Inv'
<1>0. reply.calls \in 0..MaxCalls
  BY ReplyFields DEF Inv, TypeOK, TurnTypeOK
<1>. USE <1>0, AgentLoopAssumption DEF StartBatch, Inv, TypeOK, Calls, InBatch,
      logVars, turnVars, replyVars, batchVars, updateVars, queueVars, sinkVars
<1>1. LogTypeOK'
  BY DEF LogTypeOK
<1>2. TurnTypeOK'
  BY DEF TurnTypeOK, PCs
<1>3. BatchTypeOK'
  BY SMTT(30), ZenonT(30) DEF BatchTypeOK, BatchInv, SlotInv, EmitInv, Slots, Outcome
<1>4. BatchInv'
  BY DEF BatchInv, SlotInv, BatchTypeOK, TurnTypeOK
<1>5. SlotInv'
  BY DEF BatchInv, SlotInv, EmitInv, BatchTypeOK
<1>6. EmitInv'
  BY DEF BatchInv, SlotInv, EmitInv, BatchTypeOK
<1>7. CallsInv'
  BY DEF BatchInv, SlotInv, CallsInv, BatchTypeOK
<1>8. TurnInv'
  BY DEF TurnInv, BatchInv, TurnTypeOK
<1>. QED  BY <1>1, <1>2, <1>3, <1>4, <1>5, <1>6, <1>7, <1>8

\* StartCall keeps the inductive invariant.
LEMMA StartCallInv ==
  ASSUME Inv, StartCall
  PROVE  Inv'
<1>0. reply.calls \in 0..MaxCalls
  BY ReplyFields DEF Inv, TypeOK, TurnTypeOK
<1>. USE <1>0, AgentLoopAssumption DEF StartCall, Inv, TypeOK, Calls, InBatch,
      logVars, turnVars, replyVars, batchVars, updateVars, queueVars, sinkVars
<1>1. LogTypeOK'
  BY DEF LogTypeOK
<1>2. TurnTypeOK'
  BY DEF TurnTypeOK, PCs
<1>3. BatchTypeOK'
  BY SMTT(30), ZenonT(30) DEF BatchTypeOK, BatchInv, SlotInv, EmitInv, Slots, Outcome
<1>4. BatchInv'
  BY DEF BatchInv, SlotInv, BatchTypeOK, TurnTypeOK
<1>5. SlotInv'
  BY DEF BatchInv, SlotInv, EmitInv, BatchTypeOK
<1>6. EmitInv'
  BY DEF BatchInv, SlotInv, EmitInv, BatchTypeOK
<1>7. CallsInv'
  BY DEF BatchInv, SlotInv, CallsInv, BatchTypeOK
<1>8. TurnInv'
  BY DEF TurnInv, BatchInv, TurnTypeOK
<1>. QED  BY <1>1, <1>2, <1>3, <1>4, <1>5, <1>6, <1>7, <1>8

\* FailCall keeps the inductive invariant.
LEMMA FailCallInv ==
  ASSUME Inv, FailCall
  PROVE  Inv'
<1>0. reply.calls \in 0..MaxCalls
  BY ReplyFields DEF Inv, TypeOK, TurnTypeOK
<1>. USE <1>0, AgentLoopAssumption DEF FailCall, Finish, EmitResult, Failure, Inv, TypeOK, Calls, InBatch,
      logVars, turnVars, replyVars, batchVars, updateVars, queueVars, sinkVars
<1>1. LogTypeOK'
  <2>1. turns \in 0..MaxTurns /\ next \in 1..MaxCalls
    BY DEF TurnTypeOK, BatchInv
  <2>2. ToolResult(turns, next, TRUE) \in Message
    BY <2>1, MessageTypes
  <2>3. Append(transcript, ToolResult(turns, next, TRUE)) \in Seq(Message)
    BY <2>2, AppendProperties DEF LogTypeOK
  <2>. QED  BY <2>3 DEF LogTypeOK
<1>2. TurnTypeOK'
  BY DEF TurnTypeOK, PCs
<1>3. BatchTypeOK'
  <2>1. mode # "parallel" => emitted + 1 \in 0..MaxCalls
    BY DEF BatchTypeOK, BatchInv, EmitInv
  <2>2. emitted' \in 0..MaxCalls
    BY <2>1 DEF BatchTypeOK
  <2>. QED  BY <2>2 DEF BatchTypeOK, Slots, Outcome
<1>4. BatchInv'
  BY DEF BatchInv, SlotInv, BatchTypeOK, TurnTypeOK
<1>5. SlotInv'
  BY DEF BatchInv, SlotInv, EmitInv, BatchTypeOK
<1>6. EmitInv'
  <2>1. emitted' = IF mode = "parallel" THEN emitted ELSE emitted + 1
    OBVIOUS
  <2>2. mode' = mode /\ next' = next /\ pc' = "checkCancel"
    OBVIOUS
  <2>. QED  BY <2>1, <2>2 DEF EmitInv, BatchInv, BatchTypeOK
<1>7. CallsInv'
  BY DEF BatchInv, SlotInv, CallsInv, BatchTypeOK
<1>8. TurnInv'
  BY DEF TurnInv, BatchInv, TurnTypeOK
<1>. QED  BY <1>1, <1>2, <1>3, <1>4, <1>5, <1>6, <1>7, <1>8

\* Prepare keeps the inductive invariant.
LEMMA PrepareInv ==
  ASSUME Inv, Prepare
  PROVE  Inv'
<1>0. reply.calls \in 0..MaxCalls
  BY ReplyFields DEF Inv, TypeOK, TurnTypeOK
<1>. USE <1>0, AgentLoopAssumption DEF Prepare, BeginExecution, Inv, TypeOK, Calls, InBatch,
      logVars, turnVars, replyVars, batchVars, updateVars, queueVars, sinkVars
<1>1. LogTypeOK'
  BY DEF LogTypeOK
<1>2. TurnTypeOK'
  BY DEF TurnTypeOK, PCs
<1>3. BatchTypeOK'
  BY SMTT(30), ZenonT(30) DEF BatchTypeOK, BatchInv, SlotInv, EmitInv, Slots, Outcome
<1>4. BatchInv'
  BY DEF BatchInv, SlotInv, BatchTypeOK, TurnTypeOK
<1>5. SlotInv'
  BY DEF BatchInv, SlotInv, EmitInv, BatchTypeOK
<1>6. EmitInv'
  BY DEF BatchInv, SlotInv, EmitInv, BatchTypeOK
<1>7. CallsInv'
  BY DEF BatchInv, SlotInv, CallsInv, BatchTypeOK
<1>8. TurnInv'
  BY DEF TurnInv, BatchInv, TurnTypeOK
<1>. QED  BY <1>1, <1>2, <1>3, <1>4, <1>5, <1>6, <1>7, <1>8

\* CheckCancel keeps the inductive invariant.
LEMMA CheckCancelInv ==
  ASSUME Inv, CheckCancel
  PROVE  Inv'
<1>0. reply.calls \in 0..MaxCalls
  BY ReplyFields DEF Inv, TypeOK, TurnTypeOK
<1>. USE <1>0, AgentLoopAssumption DEF CheckCancel, AfterBatch, Inv, TypeOK, Calls, InBatch,
      logVars, turnVars, replyVars, batchVars, updateVars, queueVars, sinkVars
<1>1. LogTypeOK'
  BY DEF LogTypeOK
<1>2. TurnTypeOK'
  BY DEF TurnTypeOK, PCs
<1>3. BatchTypeOK'
  BY SMTT(30), ZenonT(30) DEF BatchTypeOK, BatchInv, SlotInv, EmitInv, Slots, Outcome
<1>4. BatchInv'
  BY DEF BatchInv, SlotInv, BatchTypeOK, TurnTypeOK
<1>5. SlotInv'
  BY DEF BatchInv, SlotInv, EmitInv, BatchTypeOK
<1>6. EmitInv'
  BY DEF BatchInv, SlotInv, EmitInv, BatchTypeOK
<1>7. CallsInv'
  BY DEF BatchInv, SlotInv, CallsInv, BatchTypeOK
<1>8. TurnInv'
  BY DEF TurnInv, BatchInv, TurnTypeOK
<1>. QED  BY <1>1, <1>2, <1>3, <1>4, <1>5, <1>6, <1>7, <1>8

\* CollectBatch keeps the inductive invariant.
LEMMA CollectBatchInv ==
  ASSUME Inv, CollectBatch
  PROVE  Inv'
<1>0. reply.calls \in 0..MaxCalls
  BY ReplyFields DEF Inv, TypeOK, TurnTypeOK
<1>. USE <1>0, AgentLoopAssumption DEF CollectBatch, Inv, TypeOK, Calls, InBatch,
      logVars, turnVars, replyVars, batchVars, updateVars, queueVars, sinkVars
<1>1. LogTypeOK'
  BY DEF LogTypeOK
<1>2. TurnTypeOK'
  BY DEF TurnTypeOK, PCs
<1>3. BatchTypeOK'
  BY SMTT(30), ZenonT(30) DEF BatchTypeOK, BatchInv, SlotInv, EmitInv, Slots, Outcome
<1>4. BatchInv'
  BY DEF BatchInv, SlotInv, BatchTypeOK, TurnTypeOK
<1>5. SlotInv'
  BY DEF BatchInv, SlotInv, EmitInv, BatchTypeOK
<1>6. EmitInv'
  BY DEF BatchInv, SlotInv, EmitInv, BatchTypeOK
<1>7. CallsInv'
  BY DEF BatchInv, SlotInv, CallsInv, BatchTypeOK
<1>8. TurnInv'
  BY DEF TurnInv, BatchInv, TurnTypeOK
<1>. QED  BY <1>1, <1>2, <1>3, <1>4, <1>5, <1>6, <1>7, <1>8

\* EmitNext keeps the inductive invariant.
LEMMA EmitNextInv ==
  ASSUME Inv, EmitNext
  PROVE  Inv'
<1>0. reply.calls \in 0..MaxCalls
  BY ReplyFields DEF Inv, TypeOK, TurnTypeOK
<1>. USE <1>0, AgentLoopAssumption DEF EmitNext, EmitResult, Finished, Inv, TypeOK, Calls, InBatch,
      logVars, turnVars, replyVars, batchVars, updateVars, queueVars, sinkVars
<1>1. LogTypeOK'
  <2>1. ToolResult(turns, emitted + 1, outcome[emitted + 1].error) \in Message
    BY MessageTypes DEF TurnTypeOK, BatchTypeOK, Outcome
  <2>. QED  BY <2>1, AppendProperties DEF LogTypeOK
<1>2. TurnTypeOK'
  BY DEF TurnTypeOK, PCs
<1>3. BatchTypeOK'
  BY SMTT(30), ZenonT(30) DEF BatchTypeOK, BatchInv, SlotInv, EmitInv, Slots, Outcome
<1>4. BatchInv'
  BY DEF BatchInv, SlotInv, BatchTypeOK, TurnTypeOK
<1>5. SlotInv'
  BY DEF BatchInv, SlotInv, EmitInv, BatchTypeOK
<1>6. EmitInv'
  <2>1. emitted' = emitted + 1 /\ emitted + 1 <= next
    BY DEF SlotInv, BatchTypeOK
  <2>. QED  BY <2>1 DEF EmitInv, BatchInv
<1>7. CallsInv'
  BY DEF BatchInv, SlotInv, CallsInv, BatchTypeOK
<1>8. TurnInv'
  BY DEF TurnInv, BatchInv, TurnTypeOK
<1>. QED  BY <1>1, <1>2, <1>3, <1>4, <1>5, <1>6, <1>7, <1>8

\* EmitEnd keeps the inductive invariant.
LEMMA EmitEndInv ==
  ASSUME Inv, EmitEnd
  PROVE  Inv'
<1>0. reply.calls \in 0..MaxCalls
  BY ReplyFields DEF Inv, TypeOK, TurnTypeOK
<1>. USE <1>0, AgentLoopAssumption DEF EmitEnd, Finished, Inv, TypeOK, Calls, InBatch,
      logVars, turnVars, replyVars, batchVars, updateVars, queueVars, sinkVars
<1>1. LogTypeOK'
  BY DEF LogTypeOK
<1>2. TurnTypeOK'
  BY DEF TurnTypeOK, PCs
<1>3. BatchTypeOK'
  BY SMTT(30), ZenonT(30) DEF BatchTypeOK, BatchInv, SlotInv, EmitInv, Slots, Outcome
<1>4. BatchInv'
  BY DEF BatchInv, SlotInv, BatchTypeOK, TurnTypeOK
<1>5. SlotInv'
  BY DEF BatchInv, SlotInv, EmitInv, BatchTypeOK
<1>6. EmitInv'
  BY DEF BatchInv, SlotInv, EmitInv, BatchTypeOK
<1>7. CallsInv'
  BY DEF BatchInv, SlotInv, CallsInv, BatchTypeOK
<1>8. TurnInv'
  BY DEF TurnInv, BatchInv, TurnTypeOK
<1>. QED  BY <1>1, <1>2, <1>3, <1>4, <1>5, <1>6, <1>7, <1>8

\* CommitBatch keeps the inductive invariant.
LEMMA CommitBatchInv ==
  ASSUME Inv, CommitBatch
  PROVE  Inv'
<1>0. reply.calls \in 0..MaxCalls
  BY ReplyFields DEF Inv, TypeOK, TurnTypeOK
<1>. USE <1>0, AgentLoopAssumption DEF CommitBatch, Failure, Inv, TypeOK, Calls, InBatch,
      logVars, turnVars, replyVars, batchVars, updateVars, queueVars, sinkVars
<1>1. LogTypeOK'
  <2>1. Results \in Seq(Message)
    <3>1. \A c \in 1..emitted : ToolResult(turns, c, outcome[c].error) \in Message
      BY MessageTypes DEF TurnTypeOK, BatchTypeOK, Outcome
    <3>2. emitted \in Nat
      BY DEF BatchTypeOK
    <3>. QED  BY <3>1, <3>2, IsASeq DEF Results
  <2>. QED  BY <2>1, ConcatProperties DEF LogTypeOK
<1>2. TurnTypeOK'
  BY DEF TurnTypeOK, PCs
<1>3. BatchTypeOK'
  BY SMTT(30), ZenonT(30) DEF BatchTypeOK, BatchInv, SlotInv, EmitInv, Slots, Outcome
<1>4. BatchInv'
  BY DEF BatchInv, SlotInv, BatchTypeOK, TurnTypeOK
<1>5. SlotInv'
  BY DEF BatchInv, SlotInv, EmitInv, BatchTypeOK
<1>6. EmitInv'
  BY DEF BatchInv, SlotInv, EmitInv, BatchTypeOK
<1>7. CallsInv'
  BY DEF BatchInv, SlotInv, CallsInv, BatchTypeOK
<1>8. TurnInv'
  BY DEF TurnInv, BatchInv, TurnTypeOK
<1>. QED  BY <1>1, <1>2, <1>3, <1>4, <1>5, <1>6, <1>7, <1>8

\* Execute keeps the inductive invariant.
LEMMA ExecuteInv ==
  ASSUME Inv, NEW c \in Calls, Execute(c)
  PROVE  Inv'
<1>0. reply.calls \in 0..MaxCalls
  BY ReplyFields DEF Inv, TypeOK, TurnTypeOK
<1>. USE <1>0, AgentLoopAssumption DEF Execute, BeginExecution, Inv, TypeOK, Calls, InBatch,
      logVars, turnVars, replyVars, batchVars, updateVars, queueVars, sinkVars
<1>1. LogTypeOK'
  BY DEF LogTypeOK
<1>2. TurnTypeOK'
  BY DEF TurnTypeOK, PCs
<1>3. BatchTypeOK'
  BY SMTT(30), ZenonT(30) DEF BatchTypeOK, BatchInv, SlotInv, EmitInv, Slots, Outcome
<1>4. BatchInv'
  BY DEF BatchInv, SlotInv, BatchTypeOK, TurnTypeOK
<1>5. SlotInv'
  BY DEF BatchInv, SlotInv, EmitInv, BatchTypeOK
<1>6. EmitInv'
  BY DEF BatchInv, SlotInv, EmitInv, BatchTypeOK
<1>7. CallsInv'
  BY DEF BatchInv, SlotInv, CallsInv, BatchTypeOK
<1>8. TurnInv'
  BY DEF TurnInv, BatchInv, TurnTypeOK
<1>. QED  BY <1>1, <1>2, <1>3, <1>4, <1>5, <1>6, <1>7, <1>8

\* OnUpdate keeps the inductive invariant.
LEMMA OnUpdateInv ==
  ASSUME Inv, NEW c \in Calls, OnUpdate(c)
  PROVE  Inv'
<1>0. reply.calls \in 0..MaxCalls
  BY ReplyFields DEF Inv, TypeOK, TurnTypeOK
<1>. USE <1>0, AgentLoopAssumption DEF OnUpdate, Inv, TypeOK, Calls, InBatch,
      logVars, turnVars, replyVars, batchVars, updateVars, queueVars, sinkVars
<1>1. LogTypeOK'
  BY DEF LogTypeOK
<1>2. TurnTypeOK'
  BY DEF TurnTypeOK, PCs
<1>3. BatchTypeOK'
  BY SMTT(30), ZenonT(30) DEF BatchTypeOK, BatchInv, SlotInv, EmitInv, Slots, Outcome
<1>4. BatchInv'
  BY DEF BatchInv, SlotInv, BatchTypeOK, TurnTypeOK
<1>5. SlotInv'
  BY DEF BatchInv, SlotInv, EmitInv, BatchTypeOK
<1>6. EmitInv'
  BY DEF BatchInv, SlotInv, EmitInv, BatchTypeOK
<1>7. CallsInv'
  BY DEF BatchInv, SlotInv, CallsInv, BatchTypeOK
<1>8. TurnInv'
  BY DEF TurnInv, BatchInv, TurnTypeOK
<1>. QED  BY <1>1, <1>2, <1>3, <1>4, <1>5, <1>6, <1>7, <1>8

\* DeliverUpdate keeps the inductive invariant.
LEMMA DeliverUpdateInv ==
  ASSUME Inv, NEW c \in Calls, DeliverUpdate(c)
  PROVE  Inv'
<1>0. reply.calls \in 0..MaxCalls
  BY ReplyFields DEF Inv, TypeOK, TurnTypeOK
<1>. USE <1>0, AgentLoopAssumption DEF DeliverUpdate, Inv, TypeOK, Calls, InBatch,
      logVars, turnVars, replyVars, batchVars, updateVars, queueVars, sinkVars
<1>1. LogTypeOK'
  BY DEF LogTypeOK
<1>2. TurnTypeOK'
  BY DEF TurnTypeOK, PCs
<1>3. BatchTypeOK'
  BY SMTT(30), ZenonT(30) DEF BatchTypeOK, BatchInv, SlotInv, EmitInv, Slots, Outcome
<1>4. BatchInv'
  BY DEF BatchInv, SlotInv, BatchTypeOK, TurnTypeOK
<1>5. SlotInv'
  BY DEF BatchInv, SlotInv, EmitInv, BatchTypeOK
<1>6. EmitInv'
  BY DEF BatchInv, SlotInv, EmitInv, BatchTypeOK
<1>7. CallsInv'
  BY DEF BatchInv, SlotInv, CallsInv, BatchTypeOK
<1>8. TurnInv'
  BY DEF TurnInv, BatchInv, TurnTypeOK
<1>. QED  BY <1>1, <1>2, <1>3, <1>4, <1>5, <1>6, <1>7, <1>8

\* Settle keeps the inductive invariant.
LEMMA SettleInv ==
  ASSUME Inv, NEW c \in Calls, Settle(c)
  PROVE  Inv'
<1>0. reply.calls \in 0..MaxCalls
  BY ReplyFields DEF Inv, TypeOK, TurnTypeOK
<1>. USE <1>0, AgentLoopAssumption DEF Settle, Inv, TypeOK, Calls, InBatch,
      logVars, turnVars, replyVars, batchVars, updateVars, queueVars, sinkVars
<1>1. LogTypeOK'
  BY DEF LogTypeOK
<1>2. TurnTypeOK'
  BY DEF TurnTypeOK, PCs
<1>3. BatchTypeOK'
  BY SMTT(30), ZenonT(30) DEF BatchTypeOK, BatchInv, SlotInv, EmitInv, Slots, Outcome
<1>4. BatchInv'
  BY DEF BatchInv, SlotInv, BatchTypeOK, TurnTypeOK
<1>5. SlotInv'
  BY DEF BatchInv, SlotInv, EmitInv, BatchTypeOK
<1>6. EmitInv'
  BY DEF BatchInv, SlotInv, EmitInv, BatchTypeOK
<1>7. CallsInv'
  BY DEF BatchInv, SlotInv, CallsInv, BatchTypeOK
<1>8. TurnInv'
  BY DEF TurnInv, BatchInv, TurnTypeOK
<1>. QED  BY <1>1, <1>2, <1>3, <1>4, <1>5, <1>6, <1>7, <1>8

\* FinishCall keeps the inductive invariant.
LEMMA FinishCallInv ==
  ASSUME Inv, NEW c \in Calls, FinishCall(c)
  PROVE  Inv'
<1>0. reply.calls \in 0..MaxCalls
  BY ReplyFields DEF Inv, TypeOK, TurnTypeOK
<1>. USE <1>0, AgentLoopAssumption DEF FinishCall, Finish, EmitResult, Inv, TypeOK, Calls, InBatch,
      logVars, turnVars, replyVars, batchVars, updateVars, queueVars, sinkVars
<1>1. LogTypeOK'
  <2>1. \A e \in BOOLEAN : ToolResult(turns, c, e) \in Message
    BY MessageTypes DEF TurnTypeOK
  <2>2. \A e \in BOOLEAN : Append(transcript, ToolResult(turns, c, e)) \in Seq(Message)
    BY <2>1, AppendProperties DEF LogTypeOK
  <2>. QED  BY <2>2 DEF LogTypeOK, Outcome
<1>2. TurnTypeOK'
  BY DEF TurnTypeOK, PCs
<1>3. BatchTypeOK'
  <2>1. mode = "sequential" => pc = "execute" /\ emitted + 1 \in 0..MaxCalls
    BY DEF BatchTypeOK, BatchInv, SlotInv, EmitInv
  <2>2. emitted' \in 0..MaxCalls
    BY <2>1 DEF BatchTypeOK
  <2>. QED  BY <2>2 DEF BatchTypeOK, Slots, Outcome
<1>4. BatchInv'
  BY DEF BatchInv, SlotInv, BatchTypeOK, TurnTypeOK
<1>5. SlotInv'
  BY DEF BatchInv, SlotInv, EmitInv, BatchTypeOK
<1>6. EmitInv'
  <2>1. /\ mode' = mode /\ next' = next
        /\ mode = "sequential" => emitted' = emitted + 1 /\ pc' = "checkCancel"
        /\ mode # "sequential" => emitted' = emitted /\ pc' = pc
    OBVIOUS
  <2>2. mode = "sequential" => pc = "execute"
    <3>1. c <= next
      BY DEF SlotInv, BatchTypeOK
    <3>2. mode = "sequential" => c = next
      BY <3>1 DEF SlotInv, BatchTypeOK
    <3>3. InBatch
      BY <3>1 DEF BatchInv, BatchTypeOK
    <3>. QED  BY <3>2, <3>3 DEF SlotInv, BatchInv
  <2>3. CASE mode = "sequential"
    BY <2>1, <2>2, <2>3 DEF EmitInv, BatchTypeOK
  <2>4. CASE mode # "sequential"
    BY <2>1, <2>4 DEF EmitInv
  <2>. QED  BY <2>3, <2>4
<1>7. CallsInv'
  BY DEF BatchInv, SlotInv, CallsInv, BatchTypeOK
<1>8. TurnInv'
  BY DEF TurnInv, BatchInv, TurnTypeOK
<1>. QED  BY <1>1, <1>2, <1>3, <1>4, <1>5, <1>6, <1>7, <1>8

\* Abort keeps the inductive invariant.
LEMMA AbortInv ==
  ASSUME Inv, Abort
  PROVE  Inv'
<1>0. reply.calls \in 0..MaxCalls
  BY ReplyFields DEF Inv, TypeOK, TurnTypeOK
<1>. USE <1>0, AgentLoopAssumption DEF Abort, Active, Inv, TypeOK, Calls, InBatch,
      logVars, turnVars, replyVars, batchVars, updateVars, queueVars, sinkVars
<1>1. LogTypeOK'
  BY DEF LogTypeOK
<1>2. TurnTypeOK'
  BY DEF TurnTypeOK, PCs
<1>3. BatchTypeOK'
  BY SMTT(30), ZenonT(30) DEF BatchTypeOK, BatchInv, SlotInv, EmitInv, Slots, Outcome
<1>4. BatchInv'
  BY DEF BatchInv, SlotInv, BatchTypeOK, TurnTypeOK
<1>5. SlotInv'
  BY DEF BatchInv, SlotInv, EmitInv, BatchTypeOK
<1>6. EmitInv'
  BY DEF BatchInv, SlotInv, EmitInv, BatchTypeOK
<1>7. CallsInv'
  BY DEF BatchInv, SlotInv, CallsInv, BatchTypeOK
<1>8. TurnInv'
  BY DEF TurnInv, BatchInv, TurnTypeOK
<1>. QED  BY <1>1, <1>2, <1>3, <1>4, <1>5, <1>6, <1>7, <1>8

\* Steer keeps the inductive invariant.
LEMMA SteerInv ==
  ASSUME Inv, NEW m \in UserMessages, Steer(m)
  PROVE  Inv'
<1>0. reply.calls \in 0..MaxCalls
  BY ReplyFields DEF Inv, TypeOK, TurnTypeOK
<1>. USE <1>0, AgentLoopAssumption DEF Steer, Inv, TypeOK, Calls, InBatch,
      logVars, turnVars, replyVars, batchVars, updateVars, queueVars, sinkVars
<1>1. LogTypeOK'
  <2>1. User(m) \in UserMessage
    BY MessageTypes
  <2>. QED  BY <2>1, AppendProperties DEF LogTypeOK
<1>2. TurnTypeOK'
  BY DEF TurnTypeOK, PCs
<1>3. BatchTypeOK'
  BY SMTT(30), ZenonT(30) DEF BatchTypeOK, BatchInv, SlotInv, EmitInv, Slots, Outcome
<1>4. BatchInv'
  BY DEF BatchInv, SlotInv, BatchTypeOK, TurnTypeOK
<1>5. SlotInv'
  BY DEF BatchInv, SlotInv, EmitInv, BatchTypeOK
<1>6. EmitInv'
  BY DEF BatchInv, SlotInv, EmitInv, BatchTypeOK
<1>7. CallsInv'
  BY DEF BatchInv, SlotInv, CallsInv, BatchTypeOK
<1>8. TurnInv'
  BY DEF TurnInv, BatchInv, TurnTypeOK
<1>. QED  BY <1>1, <1>2, <1>3, <1>4, <1>5, <1>6, <1>7, <1>8

\* FollowUp keeps the inductive invariant.
LEMMA FollowUpInv ==
  ASSUME Inv, NEW m \in UserMessages, FollowUp(m)
  PROVE  Inv'
<1>0. reply.calls \in 0..MaxCalls
  BY ReplyFields DEF Inv, TypeOK, TurnTypeOK
<1>. USE <1>0, AgentLoopAssumption DEF FollowUp, Inv, TypeOK, Calls, InBatch,
      logVars, turnVars, replyVars, batchVars, updateVars, queueVars, sinkVars
<1>1. LogTypeOK'
  <2>1. User(m) \in UserMessage
    BY MessageTypes
  <2>. QED  BY <2>1, AppendProperties DEF LogTypeOK
<1>2. TurnTypeOK'
  BY DEF TurnTypeOK, PCs
<1>3. BatchTypeOK'
  BY SMTT(30), ZenonT(30) DEF BatchTypeOK, BatchInv, SlotInv, EmitInv, Slots, Outcome
<1>4. BatchInv'
  BY DEF BatchInv, SlotInv, BatchTypeOK, TurnTypeOK
<1>5. SlotInv'
  BY DEF BatchInv, SlotInv, EmitInv, BatchTypeOK
<1>6. EmitInv'
  BY DEF BatchInv, SlotInv, EmitInv, BatchTypeOK
<1>7. CallsInv'
  BY DEF BatchInv, SlotInv, CallsInv, BatchTypeOK
<1>8. TurnInv'
  BY DEF TurnInv, BatchInv, TurnTypeOK
<1>. QED  BY <1>1, <1>2, <1>3, <1>4, <1>5, <1>6, <1>7, <1>8

\* Start keeps the inductive invariant.
LEMMA StartInv ==
  ASSUME Inv, Start
  PROVE  Inv'
<1>0. reply.calls \in 0..MaxCalls
  BY ReplyFields DEF Inv, TypeOK, TurnTypeOK
<1>. USE <1>0, AgentLoopAssumption DEF Start, StartPrompt, StartContinue, BeginLoop, Inv, TypeOK, Calls, InBatch,
      logVars, turnVars, replyVars, batchVars, updateVars, queueVars, sinkVars
<1>1. LogTypeOK'
  <2>1. \A m \in UserMessages : <<User(m)>> \in Seq(Message)
    BY MessageTypes
  <2>2. \A s \in Seq(Message) : transcript \o s \in Seq(Message)
    BY ConcatProperties DEF LogTypeOK
  <2>3. <<>> \in Seq(Message) /\ <<>> \in Seq(UserMessage)
    BY EmptySeq
  <2>4. CASE \E m \in unsent, skip \in BOOLEAN :
               StartPrompt(transcript, <<User(m)>>, skip) /\ unsent' = unsent \ {m}
    BY <2>1, <2>2, <2>3, <2>4 DEF LogTypeOK, StartPrompt, BeginLoop
  <2>5. CASE StartContinue(transcript) /\ UNCHANGED unsent
    BY <2>2, <2>3, <2>5 DEF LogTypeOK, StartContinue, BeginLoop
  <2>. QED  BY <2>4, <2>5
<1>2. TurnTypeOK'
  <2>1. NoReply \in Reply
    <3>1. 0 \in 0..MaxTurns /\ 0 \in 0..MaxCalls
      OBVIOUS
    <3>. QED  BY <3>1, AssistantType DEF NoReply, StopReasons
  <2>2. CASE \E m \in unsent, skip \in BOOLEAN :
               StartPrompt(transcript, <<User(m)>>, skip) /\ unsent' = unsent \ {m}
    BY <2>1, <2>2 DEF TurnTypeOK, PCs, StartPrompt, BeginLoop
  <2>3. CASE StartContinue(transcript) /\ UNCHANGED unsent
    BY <2>1, <2>3 DEF TurnTypeOK, PCs, StartContinue, BeginLoop
  <2>. QED  BY <2>2, <2>3
<1>3. BatchTypeOK'
  BY SMTT(30), ZenonT(30) DEF BatchTypeOK, BatchInv, SlotInv, EmitInv, Slots, Outcome
<1>4. BatchInv'
  BY DEF BatchInv, SlotInv, BatchTypeOK, TurnTypeOK
<1>5. SlotInv'
  BY DEF BatchInv, SlotInv, EmitInv, BatchTypeOK
<1>6. EmitInv'
  BY DEF BatchInv, SlotInv, EmitInv, BatchTypeOK
<1>7. CallsInv'
  BY DEF BatchInv, SlotInv, CallsInv, BatchTypeOK
<1>8. TurnInv'
  <2>1. partial' = FALSE /\ pc' = "pollInitial" /\ turns' = turns /\ pc = "idle"
    OBVIOUS
  <2>2. streaming' = FALSE
    BY DEF TurnInv, TurnTypeOK
  <2>3. reply' = NoReply
    OBVIOUS
  <2>4. NoReply.stop # "error"
    BY DEF NoReply, Assistant
  <2>. QED  BY <2>1, <2>2, <2>3, <2>4 DEF TurnInv
<1>. QED  BY <1>1, <1>2, <1>3, <1>4, <1>5, <1>6, <1>7, <1>8

\* A step that changes nothing keeps the inductive invariant.
LEMMA StutterInv == Inv /\ UNCHANGED vars => Inv'
BY DEF Inv, TypeOK, LogTypeOK, TurnTypeOK, BatchTypeOK, BatchInv, SlotInv, EmitInv,
       CallsInv, TurnInv, InBatch, vars, logVars, turnVars, replyVars, batchVars, updateVars, queueVars, sinkVars

\* Every step, of the loop or around it, keeps the inductive invariant.
LEMMA StepInv == Inv /\ [Next]_vars => Inv'
<1>. SUFFICES ASSUME Inv, [Next]_vars PROVE Inv'
  OBVIOUS
<1>1. CASE TurnStep
  BY <1>1, PollSteeringInv, InjectInv, RequestInv, StreamStartInv, StreamDoneInv, ErrorEndInv, NoCallsInv, PrepareNextTurnInv, ShouldStopInv, PollFollowUpInv DEF TurnStep
<1>2. CASE BatchStep
  BY <1>2, StartBatchInv, StartCallInv, FailCallInv, PrepareInv, CheckCancelInv, CollectBatchInv, EmitNextInv, EmitEndInv, CommitBatchInv DEF BatchStep
<1>3. ASSUME NEW c \in Calls, ToolStep(c) PROVE Inv'
  BY <1>3, ExecuteInv, DeliverUpdateInv, SettleInv, FinishCallInv DEF ToolStep
<1>4. CASE Surroundings
  BY <1>4, AbortInv, SteerInv, FollowUpInv, OnUpdateInv DEF Surroundings
<1>5. CASE Start
  BY <1>5, StartInv
<1>6. CASE Terminated \/ UNCHANGED vars
  BY <1>6, StutterInv DEF Terminated
<1>. QED  BY <1>1, <1>2, <1>3, <1>4, <1>5, <1>6 DEF Next, LoopStep

\* The inductive invariant holds of every run of the loop.
THEOREM InvHolds == Spec => []Inv
BY InitInv, StepInv, PTL DEF Spec

-----------------------------------------------------------------------------
(***************************************************************************)
(* What it implies                                                         *)
(***************************************************************************)

\* The calls shown as pending are those the slots tell of, whatever the step.
LEMMA ShownStep ==
  ASSUME Inv, ShownInv, [Next]_vars
  PROVE  ShownInv'
<1>0. /\ slot \in [Calls -> Slots] /\ next \in Nat /\ reply.calls \in Nat
      /\ ~InBatch => next = 0 /\ \A c \in Calls : slot[c] = "none"
      /\ InBatch => next \in Calls
  <2>1. ~InBatch => next = 0 /\ \A c \in Calls : slot[c] = "none"
    BY DEF Inv, TypeOK, BatchTypeOK, BatchInv, SlotInv, Calls
  <2>2. reply.calls \in 0..MaxCalls
    BY ReplyFields DEF Inv, TypeOK, TurnTypeOK
  <2>. QED  BY <2>1, <2>2, AgentLoopAssumption DEF Inv, TypeOK, BatchTypeOK, BatchInv, Calls
<1>. USE <1>0 DEF ShownInv, InBatch, batchVars, sinkVars
<1>1. CASE TurnStep
  BY <1>1 DEF TurnStep, PollSteering, Inject, Request, Replied, StreamStart, StreamDone,
              ErrorEnd, NoCalls, PrepareNextTurn, ShouldStop, PollFollowUp, TurnOrFollowUp
<1>2. CASE FailCall
  BY <1>2 DEF FailCall, Finish
<1>3. CASE Prepare
  BY <1>3 DEF Prepare, BeginExecution
<1>4. CASE StartBatch \/ StartCall \/ CheckCancel \/ CollectBatch \/ EmitNext \/ EmitEnd
  <2>1. pc = "checkCancel" => slot[next] # "none"
    BY DEF Inv, SlotInv
  <2>2. pc = "startCall" => slot[next] = "none"
    BY DEF Inv, SlotInv
  <2>. QED  BY <1>4, <2>1, <2>2 DEF StartBatch, StartCall, CheckCancel, AfterBatch, CollectBatch, EmitNext, EmitEnd
<1>5. CASE CommitBatch
  <2>1. pc = "commit" => \A c \in Calls : slot[c] \in {"none", "finished"}
    BY DEF Inv, SlotInv
  <2>. QED  BY <1>5, <2>1 DEF CommitBatch
<1>6. ASSUME NEW c \in Calls, ToolStep(c) PROVE ShownInv'
  <2>1. CASE Execute(c)
    BY <2>1 DEF Execute, BeginExecution
  <2>2. CASE DeliverUpdate(c) \/ Settle(c)
    BY <2>2 DEF DeliverUpdate, Settle
  <2>3. CASE FinishCall(c)
    <3>1. pc # "prepare"
      BY <2>3 DEF FinishCall, Inv, SlotInv, BatchInv, BatchTypeOK, TypeOK, Calls
    <3>. QED  BY <2>3, <3>1 DEF FinishCall, Finish
  <2>. QED  BY <1>6, <2>1, <2>2, <2>3 DEF ToolStep
<1>7. CASE Surroundings \/ Start \/ Terminated \/ UNCHANGED vars
  BY <1>7 DEF Surroundings, Abort, Steer, FollowUp, OnUpdate, Start, StartPrompt, StartContinue,
              BeginLoop, Terminated, vars
<1>. QED  BY <1>1, <1>2, <1>3, <1>4, <1>5, <1>6, <1>7 DEF Next, LoopStep, BatchStep

\* Nothing is shown as pending before the run.
LEMMA ShownHolds == Spec => []ShownInv
<1>1. Init => ShownInv
  BY DEF Init, ShownInv
<1>. QED  BY <1>1, ShownStep, InvHolds, PTL DEF Spec

\* Every variable keeps its type.
THEOREM TypeCorrect == Spec => []TypeOK
<1>1. Inv => TypeOK
  BY DEF Inv
<1>. QED  BY <1>1, InvHolds, PTL

\* An update of a tool call is delivered only between the call's start and end
\* events (execute_prepared), whatever the tool does with its callback.
THEOREM UpdatesScopedHolds == Spec => []UpdatesScoped
<1>1. Inv /\ ShownInv => UpdatesScoped
  BY DEF Inv, CallsInv, ShownInv, UpdatesScoped
<1>. QED  BY <1>1, InvHolds, ShownHolds, PTL

\* Nothing a turn began outlives it: no pending call, running tool, open latch,
\* outstanding update or streaming message (run_loop, execute_tool_calls).
THEOREM TurnsAreClosedHolds == Spec => []TurnsAreClosed
<1>1. Inv /\ ShownInv => TurnsAreClosed
  <2>. SUFFICES ASSUME Inv, ShownInv PROVE TurnsAreClosed
    OBVIOUS
  <2>1. ~InBatch => \A c \in Calls : slot[c] = "none"
    BY DEF Inv, TypeOK, BatchTypeOK, BatchInv, SlotInv, Calls
  <2>2. ~InBatch => \A c \in Calls : ~accepting[c] /\ inflight[c] = 0
    BY <2>1, AgentLoopAssumption DEF Inv, TypeOK, BatchTypeOK, CallsInv
  <2>3. ~InBatch => pendingCalls = {}
    BY <2>1 DEF Inv, TypeOK, BatchTypeOK, ShownInv, InBatch
  <2>. QED  BY <2>1, <2>2, <2>3 DEF Inv, TurnInv, TurnsAreClosed
<1>. QED  BY <1>1, InvHolds, ShownHolds, PTL

-----------------------------------------------------------------------------
(***************************************************************************)
(* The loop implements the conversation protocol                           *)
(***************************************************************************)

Excused == cancelled \/ reply.stop = "error"

\* What is owed to a reply t with n calls after e results.
Owing(t, e, n) == [k \in 1..(n - e) |-> <<t, e + k>>]

\* The next result is the head of what is owed, and announcing it leaves the
\* rest.
LEMMA OwingStep ==
  ASSUME NEW t, NEW e \in Nat, NEW n \in Nat, e < n
  PROVE  /\ Owing(t, e, n) # <<>>
         /\ Head(Owing(t, e, n)) = <<t, e + 1>>
         /\ Tail(Owing(t, e, n)) = Owing(t, e + 1, n)
<1>. DEFINE s == Owing(t, e, n)
            S == {<<t, k>> : k \in Nat}
<1>1. n - e \in Nat /\ \A k \in 1..(n - e) : <<t, e + k>> \in S
  OBVIOUS
<1>2. s \in Seq(S) /\ Len(s) = n - e
  BY <1>1, IsASeq, LenProperties DEF Owing
<1>3. s # <<>>
  BY <1>2, EmptySeq
<1>4. Head(s) = s[1] /\ s[1] = <<t, e + 1>>
  BY <1>1 DEF Owing
<1>5. Tail(s) = Owing(t, e + 1, n)
  <2>1. /\ Tail(s) \in Seq(S) /\ Len(Tail(s)) = n - e - 1
        /\ \A i \in 1..(n - e - 1) : Tail(s)[i] = s[i + 1]
    BY <1>2, <1>3, HeadTailProperties
  <2>2. \A i \in 1..(n - e - 1) : s[i + 1] = <<t, e + 1 + i>>
    BY DEF Owing
  <2>3. n - (e + 1) \in Nat /\ \A k \in 1..(n - (e + 1)) : <<t, e + 1 + k>> \in S
    OBVIOUS
  <2>4. Owing(t, e + 1, n) \in Seq(S) /\ Len(Owing(t, e + 1, n)) = n - e - 1
    BY <2>3, IsASeq, LenProperties DEF Owing
  <2>5. \A i \in 1..(n - e - 1) : Owing(t, e + 1, n)[i] = <<t, e + 1 + i>>
    BY DEF Owing
  <2>. HIDE DEF s, S
  <2>. QED  BY <2>1, <2>2, <2>4, <2>5, SeqEqual
<1>. QED  BY <1>3, <1>4, <1>5

\* Between batches nothing is owed, and during one the results still owed are
\* those not yet announced.
LEMMA OwedValue ==
  /\ pc # "replied" /\ ~InBatch => Owed = <<>>
  /\ pc = "replied" \/ InBatch => Owed = Owing(turns, emitted, reply.calls)
BY DEF Owed, Owing

\* Nothing is owed outside a batch and a fresh reply.
LEMMA OwedNone ==
  ASSUME NEW t, NEW n \in Nat
  PROVE  Owing(t, n, n) = <<>>
<1>1. 1..(n - n) = {}
  OBVIOUS
<1>. QED  BY <1>1 DEF Owing

\* A complete reply is a reply of the protocol, which owes all its results.
LEMMA RepliedRefines ==
  ASSUME Inv, NEW r \in Reply, r.turn = turns', r.turn \in 1..MaxTurns,
         r.stop \in StopReasons, pc \in {"request", "stream"}, Replied(r),
         UNCHANGED <<emitted, cancelled>>
  PROVE  Conv!Next
<1>1. emitted = 0 /\ ~InBatch /\ pc # "replied" /\ ~InBatch' /\ pc' = "replied"
  BY DEF Inv, EmitInv, InBatch, Replied
<1>2. Owed = <<>>
  BY <1>1, OwedValue
<1>3. Owed' = [k \in 1..r.calls |-> <<r.turn, k>>]
  <2>1. reply' = r /\ emitted' = 0 /\ r.calls \in Nat
    BY <1>1, ReplyFields DEF Replied
  <2>. QED  BY <1>1, <2>1 DEF Owed
<1>4. r = [role |-> "assistant", turn |-> r.turn, stop |-> r.stop, calls |-> r.calls]
  BY DEF Reply
<1>5. Excused => Excused'
  BY DEF Inv, TurnInv, Excused
<1>6. r.stop = "error" => Excused'
  BY DEF Replied, Excused
<1>7. Conv!Reply
  BY <1>2, <1>3, <1>4, <1>6, ReplyFields DEF Conv!Reply, Replied, StopReasons, Excused
<1>. QED  BY <1>5, <1>7 DEF Conv!Next, Excused

\* Announcing the next result answers the head of what is owed.
LEMMA EmitResultRefines ==
  ASSUME Inv, InBatch, InBatch', NEW o \in Outcome, emitted < reply.calls,
         EmitResult(emitted + 1, o), UNCHANGED <<reply, turns, cancelled>>
  PROVE  Conv!Next
<1>1. emitted \in Nat /\ reply.calls \in Nat /\ emitted' = emitted + 1
  BY ReplyFields DEF Inv, TypeOK, TurnTypeOK, BatchTypeOK, EmitResult
<1>2. Owed = Owing(turns, emitted, reply.calls) /\ Owed' = Owing(turns, emitted + 1, reply.calls)
  BY <1>1 DEF Owed, Owing, InBatch
<1>3. Owed # <<>> /\ Head(Owed) = <<turns, emitted + 1>> /\ Owed' = Tail(Owed)
  BY <1>1, <1>2, OwingStep
<1>4. Head(Owed)[1] = turns /\ Head(Owed)[2] = emitted + 1
  BY <1>3
<1>5. transcript' = Append(transcript, Conv!Result(turns, emitted + 1, o.error))
  BY DEF EmitResult, ToolResult, Conv!Result
<1>6. o.error \in BOOLEAN
  BY DEF Outcome
<1>7. Conv!Answer
  BY <1>3, <1>4, <1>5, <1>6 DEF Conv!Answer
<1>. QED  BY <1>7 DEF Conv!Next

\* A step that announces nothing leaves what is owed, or abandons it with an
\* excuse.
LEMMA QuietRefines ==
  ASSUME UNCHANGED transcript, Excused => Excused',
         \/ Owed' = Owed
         \/ Owed' = <<>> /\ (Excused \/ Owed = <<>>)
  PROVE  Conv!Next
<1>1. CASE Owed' = Owed
  BY <1>1 DEF Conv!Next, Excused
<1>2. CASE Owed' # Owed
  <2>1. Owed # <<>> /\ Owed' = <<>> /\ Excused
    BY <1>2
  <2>. QED  BY <2>1 DEF Conv!Next, Conv!Abandon, Excused
<1>. QED  BY <1>1, <1>2

\* A user message is said when nothing is owed.
LEMMA SayRefines ==
  ASSUME NEW u \in {User(m) : m \in UserMessages}, transcript' = Append(transcript, u),
         pc \in {"idle", "inject"}, pc' \in {"pollInitial", "inject", "request"},
         Excused => Excused'
  PROVE  Conv!Next
<1>1. Owed = <<>> /\ Owed' = <<>>
  BY DEF Owed, InBatch
<1>. QED  BY <1>1 DEF Conv!Next, Conv!Say, Excused

\* The steps outside the batch speak for the conversation.
LEMMA TurnRefines == Inv /\ TurnStep => Conv!Next
<1>. SUFFICES ASSUME Inv, TurnStep PROVE Conv!Next
  OBVIOUS
<1>. USE DEF Inv, TypeOK, turnVars, replyVars, batchVars, queueVars, sinkVars, logVars
<1>1. CASE Inject
  <2>1. pending \in Seq(UserMessage) /\ pending # <<>>
    BY <1>1 DEF LogTypeOK, TurnInv, Inject
  <2>2. Head(pending) \in {User(m) : m \in UserMessages}
    <3>1. Head(pending) \in UserMessage
      BY <2>1, HeadTailProperties
    <3>. QED  BY <3>1 DEF UserMessage, User
  <2>3. Excused => Excused'
    BY <1>1 DEF Inject, Excused
  <2>. QED  BY <1>1, <2>2, <2>3, SayRefines DEF Inject
<1>2. CASE Request
  <2>1. turns + 1 \in 1..MaxTurns /\ 0 \in 0..MaxCalls /\ "error" \in StopReasons
    BY <1>2, AgentLoopAssumption DEF Request, TurnInv, TurnTypeOK, StopReasons
  <2>2. /\ Assistant(turns + 1, "error", 0) \in Reply
        /\ Assistant(turns + 1, "error", 0).turn = turns + 1
        /\ Assistant(turns + 1, "error", 0).stop = "error"
    BY <2>1, AssistantType DEF Assistant
  <2>3. CASE pc' = "stream"
    <3>1. UNCHANGED <<transcript, reply, cancelled>>
      BY <1>2, <2>3 DEF Request, Replied
    <3>2. Owed = <<>> /\ Owed' = <<>>
      BY <1>2, <2>3 DEF Owed, InBatch, Request
    <3>. QED  BY <3>1, <3>2, QuietRefines DEF Excused
  <2>4. CASE Replied(Assistant(turns + 1, "error", 0))
    BY <1>2, <2>1, <2>2, <2>4, RepliedRefines DEF Request
  <2>. QED  BY <1>2, <2>3, <2>4 DEF Request
<1>3. CASE StreamDone
  <2>1. PICK r \in Replies : Replied(r)
    BY <1>3 DEF StreamDone
  <2>2. turns \in 1..MaxTurns
    BY <1>3 DEF StreamDone, TurnInv, TurnTypeOK
  <2>3. r \in Reply /\ r.turn = turns /\ r.stop \in StopReasons
    BY <2>1, AssistantType DEF Replies, Assistant, TurnTypeOK
  <2>. QED  BY <1>3, <2>1, <2>2, <2>3, RepliedRefines DEF StreamDone
<1>4. CASE ErrorEnd
  <2>1. Excused /\ Excused' /\ Owed' = <<>>
    BY <1>4 DEF ErrorEnd, Excused, Owed, InBatch
  <2>. QED  BY <1>4, <2>1, QuietRefines DEF ErrorEnd
<1>5. CASE NoCalls
  <2>1. Owed = <<>> /\ Owed' = <<>>
    BY <1>5, OwedValue, OwedNone DEF NoCalls, Owed, InBatch, EmitInv
  <2>. QED  BY <1>5, <2>1, QuietRefines DEF NoCalls, Excused
<1>6. CASE PollSteering \/ StreamStart \/ PrepareNextTurn \/ ShouldStop \/ PollFollowUp
  <2>1. UNCHANGED <<transcript, reply, cancelled>>
    BY <1>6 DEF PollSteering, StreamStart, PrepareNextTurn, ShouldStop, PollFollowUp
  <2>2. Owed = <<>> /\ Owed' = <<>>
    BY <1>6 DEF Owed, InBatch, PollSteering, TurnOrFollowUp, StreamStart,
                PrepareNextTurn, ShouldStop, PollFollowUp
  <2>. QED  BY <2>1, <2>2, QuietRefines DEF Excused
<1>. QED  BY <1>1, <1>2, <1>3, <1>4, <1>5, <1>6 DEF TurnStep

\* So do the steps that walk through the batch.
LEMMA BatchRefines == Inv /\ BatchStep => Conv!Next
<1>. SUFFICES ASSUME Inv, BatchStep PROVE Conv!Next
  OBVIOUS
<1>. USE DEF Inv, TypeOK, turnVars, replyVars, batchVars, queueVars, sinkVars, logVars, InBatch
<1>1. CASE FailCall
  <2>1. CASE mode = "parallel"
    <3>1. UNCHANGED <<transcript, reply, cancelled, emitted, turns>> /\ Owed' = Owed
      BY <1>1, <2>1 DEF FailCall, Owed
    <3>. QED  BY <3>1, QuietRefines DEF Excused
  <2>2. CASE mode # "parallel"
    <3>1. next = emitted + 1 /\ emitted < reply.calls
      BY <1>1, <2>2, ReplyFields DEF FailCall, EmitInv, BatchInv, BatchTypeOK, TurnTypeOK
    <3>2. EmitResult(emitted + 1, Failure) /\ Failure \in Outcome
      BY <1>1, <2>2, <3>1 DEF FailCall, Failure, Outcome
    <3>3. InBatch /\ InBatch' /\ UNCHANGED <<reply, turns, cancelled>>
      BY <1>1 DEF FailCall
    <3>. QED  BY <3>1, <3>2, <3>3, EmitResultRefines
  <2>. QED  BY <2>1, <2>2
<1>2. CASE EmitNext
  <2>1. emitted < reply.calls
    BY <1>2, ReplyFields DEF EmitNext, Finished, SlotInv, EmitInv, BatchInv, BatchTypeOK, TurnTypeOK, Calls
  <2>2. outcome[emitted + 1] \in Outcome
    BY <1>2 DEF EmitNext, Finished, BatchTypeOK
  <2>. QED  BY <1>2, <2>1, <2>2, EmitResultRefines DEF EmitNext
<1>3. CASE CommitBatch
  <2>1. UNCHANGED <<transcript, reply, cancelled>> /\ Owed' = <<>>
    BY <1>3 DEF CommitBatch, Owed
  <2>2. cancelled \/ emitted = reply.calls
    BY <1>3 DEF CommitBatch, BatchInv, EmitInv
  <2>3. Excused \/ Owed = <<>>
    <3>1. reply.calls \in Nat
      BY ReplyFields DEF TurnTypeOK
    <3>. QED  BY <1>3, <2>2, <3>1, OwedValue, OwedNone DEF CommitBatch, Excused
  <2>. QED  BY <2>1, <2>3, QuietRefines DEF Excused
<1>4. CASE StartBatch \/ StartCall \/ Prepare \/ CheckCancel \/ CollectBatch \/ EmitEnd
  <2>1. UNCHANGED <<transcript, reply, cancelled, emitted, turns>>
    BY <1>4 DEF StartBatch, StartCall, Prepare, CheckCancel, CollectBatch, EmitEnd
  <2>2. Owed' = Owed
    BY <1>4, <2>1 DEF Owed, StartBatch, StartCall, Prepare, CheckCancel, AfterBatch,
                      CollectBatch, EmitEnd
  <2>. QED  BY <2>1, <2>2, QuietRefines DEF Excused
<1>. QED  BY <1>1, <1>2, <1>3, <1>4 DEF BatchStep

\* The steps of a tool call: the sequential one announces its result.
LEMMA ToolRefines ==
  ASSUME Inv, NEW c \in Calls, ToolStep(c) \/ OnUpdate(c)
  PROVE  Conv!Next
<1>. USE DEF Inv, TypeOK, turnVars, replyVars, batchVars, queueVars, sinkVars, logVars, InBatch
<1>1. CASE FinishCall(c)
  <2>1. PICK o \in Outcome :
          IF mode = "sequential"
          THEN EmitResult(c, o) /\ pc' = "checkCancel"
          ELSE UNCHANGED <<transcript, streaming, emitted, pc>>
    BY <1>1 DEF FinishCall
  <2>2. CASE mode # "sequential"
    <3>1. UNCHANGED <<transcript, reply, cancelled, emitted, turns, pc>> /\ Owed' = Owed
      BY <1>1, <2>1, <2>2 DEF FinishCall, Owed
    <3>. QED  BY <3>1, QuietRefines DEF Excused
  <2>3. CASE mode = "sequential"
    <3>1. c <= next
      BY <1>1 DEF FinishCall, SlotInv, BatchTypeOK, Calls
    <3>2. c = next
      BY <1>1, <2>3, <3>1 DEF FinishCall, SlotInv, BatchTypeOK, Calls
    <3>3. pc = "execute"
      BY <1>1, <2>3, <3>1, <3>2 DEF FinishCall, SlotInv, BatchInv, BatchTypeOK, Calls
    <3>4. c = emitted + 1 /\ emitted < reply.calls
      BY <2>3, <3>2, <3>3, ReplyFields DEF EmitInv, BatchInv, BatchTypeOK, TurnTypeOK
    <3>5. InBatch /\ InBatch' /\ UNCHANGED <<reply, turns, cancelled>>
      BY <1>1, <2>1, <2>3, <3>3 DEF FinishCall
    <3>. QED  BY <2>1, <2>3, <3>4, <3>5, EmitResultRefines
  <2>. QED  BY <2>2, <2>3
<1>2. CASE Execute(c) \/ DeliverUpdate(c) \/ Settle(c) \/ OnUpdate(c)
  <2>1. UNCHANGED <<transcript, reply, cancelled, emitted, turns, pc>>
    BY <1>2 DEF Execute, DeliverUpdate, Settle, OnUpdate
  <2>2. Owed' = Owed
    BY <2>1 DEF Owed
  <2>. QED  BY <2>1, <2>2, QuietRefines DEF Excused
<1>. QED  BY <1>1, <1>2 DEF ToolStep

\* Before the run there is no reply.
FreshInv == pc = "idle" => reply = NoReply

\* Every step but the first finds the loop started.
LEMMA FreshStep == FreshInv /\ [Next]_vars => FreshInv'
BY DEF FreshInv, Next, Start, StartPrompt, StartContinue, BeginLoop, LoopStep, TurnStep, PollSteering,
       TurnOrFollowUp, Inject, Request, Replied, StreamStart, StreamDone, ErrorEnd, NoCalls,
       PrepareNextTurn, ShouldStop, PollFollowUp, BatchStep, StartBatch, StartCall, FailCall, Prepare,
       CheckCancel, AfterBatch, CollectBatch, EmitNext, EmitEnd, CommitBatch, ToolStep, Execute,
       DeliverUpdate, Settle, FinishCall, Surroundings, Abort, Steer, FollowUp, OnUpdate, Terminated,
       vars, replyVars

\* What happens around the loop touches no account of the conversation.
LEMMA OtherRefines ==
  Inv /\ FreshInv /\ (Start \/ Abort \/ Terminated \/ UNCHANGED vars
          \/ \E m \in UserMessages : Steer(m) \/ FollowUp(m)) => [Conv!Next]_Conv!vars
<1>. SUFFICES ASSUME Inv, FreshInv, Start \/ Abort \/ Terminated \/ UNCHANGED vars
                          \/ \E m \in UserMessages : Steer(m) \/ FollowUp(m)
              PROVE  Conv!Next
  OBVIOUS
<1>. USE DEF Inv, TypeOK, turnVars, replyVars, batchVars, queueVars, sinkVars, logVars
<1>1. CASE Abort \/ Terminated \/ UNCHANGED vars \/ \E m \in UserMessages : Steer(m) \/ FollowUp(m)
  <2>1. UNCHANGED <<transcript, reply, emitted, turns, pc>> /\ (cancelled => cancelled')
    BY <1>1 DEF Abort, Terminated, Steer, FollowUp, vars
  <2>2. Owed' = Owed
    BY <2>1 DEF Owed, InBatch
  <2>. QED  BY <2>1, <2>2, QuietRefines DEF Excused
<1>2. CASE Start
  <2>1. pc = "idle" /\ pc' = "pollInitial" /\ UNCHANGED cancelled /\ reply' = NoReply
    BY <1>2 DEF Start, StartPrompt, StartContinue, BeginLoop
  <2>2. Excused => Excused'
    BY <2>1 DEF Excused, FreshInv
  <2>3. CASE \E m \in unsent, skip \in BOOLEAN :
               StartPrompt(transcript, <<User(m)>>, skip) /\ unsent' = unsent \ {m}
    <3>1. PICK m \in unsent : transcript' = transcript \o <<User(m)>>
      BY <2>3 DEF StartPrompt
    <3>2. m \in UserMessages /\ transcript \in Seq(Message) /\ User(m) \in Message
      BY <3>1, MessageTypes DEF LogTypeOK
    <3>3. transcript' = Append(transcript, User(m))
      BY <3>1, <3>2, AppendIsConcat
    <3>. QED  BY <2>1, <2>2, <3>2, <3>3, SayRefines
  <2>4. CASE StartContinue(transcript)
    <3>1. UNCHANGED transcript
      BY <2>4 DEF StartContinue
    <3>2. Owed = <<>> /\ Owed' = <<>>
      BY <2>1 DEF Owed, InBatch
    <3>. QED  BY <2>2, <3>1, <3>2, QuietRefines
  <2>. QED  BY <1>2, <2>3, <2>4 DEF Start
<1>. QED  BY <1>1, <1>2

\* Every step of the loop is a step of the conversation or leaves it alone.
LEMMA StepRefines == Inv /\ FreshInv /\ [Next]_vars => [Conv!Next]_Conv!vars
<1>. SUFFICES ASSUME Inv, FreshInv, [Next]_vars PROVE [Conv!Next]_Conv!vars
  OBVIOUS
<1>1. CASE TurnStep
  BY <1>1, TurnRefines
<1>2. CASE BatchStep
  BY <1>2, BatchRefines
<1>3. CASE \E c \in Calls : ToolStep(c) \/ OnUpdate(c)
  BY <1>3, ToolRefines
<1>4. CASE Start \/ Abort \/ Terminated \/ UNCHANGED vars
           \/ \E m \in UserMessages : Steer(m) \/ FollowUp(m)
  BY <1>4, OtherRefines
<1>. QED  BY <1>1, <1>2, <1>3, <1>4 DEF Next, LoopStep, Surroundings

\* The loop implements Conversation: the transcript only grows, results follow
\* their reply in the order of its calls although parallel tools finish in any
\* order, and calls go unanswered only after a cancellation or in a failed
\* reply (run_loop, execute_sequential, execute_parallel).
THEOREM LoopImplementsConversation == Spec => ImplementsConversation
<1>1. Init => Conv!Init
  BY DEF Init, Conv!Init, Owed, InBatch, NoReply, Assistant
<1>2. Init => FreshInv
  BY DEF Init, FreshInv
<1>. QED  BY <1>1, <1>2, InitInv, StepInv, FreshStep, StepRefines, PTL DEF Spec, Conv!Spec, ImplementsConversation

-----------------------------------------------------------------------------
(***************************************************************************)
(* How often a log holds a user message                                    *)
(***************************************************************************)

\* Where a log holds the user message m.
Positions(log, m) == {i \in 1..Len(log) : log[i] = User(m)}

\* A log holds a message a finite number of times.
LEMMA OccurrencesType ==
  ASSUME NEW S, NEW log \in Seq(S), NEW m
  PROVE  /\ IsFiniteSet(Positions(log, m))
         /\ Occurrences(log, m) = Cardinality(Positions(log, m))
         /\ Occurrences(log, m) \in Nat
<1>1. Len(log) \in Nat
  BY LenProperties
<1>2. IsFiniteSet(1..Len(log)) /\ Positions(log, m) \in SUBSET (1..Len(log))
  BY <1>1, FS_Interval DEF Positions
<1>3. IsFiniteSet(Positions(log, m))
  BY <1>2, FS_Subset
<1>4. Occurrences(log, m) = Cardinality(Positions(log, m))
  BY DEF Occurrences, Positions
<1>. QED  BY <1>3, <1>4, FS_CardinalityType

\* The empty log holds none.
LEMMA OccurrencesEmpty ==
  ASSUME NEW m
  PROVE  Occurrences(<<>>, m) = 0
<1>1. Positions(<<>>, m) = {}
  BY EmptySeq DEF Positions
<1>. QED  BY <1>1, EmptySeq, OccurrencesType, FS_EmptySet

\* Appending a message adds one occurrence of it and none of another.
LEMMA OccurrencesAppend ==
  ASSUME NEW S, NEW log \in Seq(S), NEW x \in S, NEW m
  PROVE  Occurrences(Append(log, x), m)
           = Occurrences(log, m) + (IF x = User(m) THEN 1 ELSE 0)
<1>. DEFINE n == Len(log)  P == Positions(log, m)  Q == Positions(Append(log, x), m)
<1>1. n \in Nat
  BY LenProperties
<1>2. /\ Append(log, x) \in Seq(S) /\ Len(Append(log, x)) = n + 1
      /\ \A i \in 1..n : Append(log, x)[i] = log[i]
      /\ Append(log, x)[n + 1] = x
  BY AppendProperties
<1>3. /\ IsFiniteSet(P) /\ Occurrences(log, m) = Cardinality(P) /\ Cardinality(P) \in Nat
      /\ Occurrences(Append(log, x), m) = Cardinality(Q)
  BY <1>2, OccurrencesType
<1>4. CASE x = User(m)
  <2>1. Q = P \cup {n + 1} /\ n + 1 \notin P
    BY <1>1, <1>2, <1>4 DEF Positions
  <2>. HIDE DEF P, Q, n
  <2>. QED  BY <1>3, <1>4, <2>1, FS_AddElement
<1>5. CASE x # User(m)
  <2>1. Q = P
    BY <1>1, <1>2, <1>5 DEF Positions
  <2>. HIDE DEF P, Q, n
  <2>. QED  BY <1>3, <1>5, <2>1
<1>. QED  BY <1>4, <1>5

\* Cutting a log in two shares its occurrences out.
LEMMA OccurrencesSplit ==
  ASSUME NEW S, NEW log \in Seq(S), NEW n \in 0..Len(log), NEW m
  PROVE  Occurrences(log, m)
           = Occurrences(SubSeq(log, 1, n), m) + Occurrences(SubSeq(log, n + 1, Len(log)), m)
<1>. DEFINE N == Len(log)
            a == SubSeq(log, 1, n)
            b == SubSeq(log, n + 1, N)
            A == Positions(a, m)
            B == Positions(b, m)
            C == {i \in (n + 1)..N : log[i] = User(m)}
<1>1. N \in Nat /\ \A i \in 1..N : log[i] \in S
  BY LenProperties, ElementOfSeq
<1>2. /\ a \in Seq(S) /\ Len(a) = n
      /\ \A i \in 1..n : a[i] = log[i]
  BY <1>1, SubSeqProperties
<1>3. /\ b \in Seq(S) /\ Len(b) = N - n
      /\ \A i \in 1..(N - n) : b[i] = log[n + i]
  <2>1. \A i \in (n + 1)..N : log[i] \in S
    BY <1>1
  <2>2. /\ b \in Seq(S)
        /\ Len(b) = IF n + 1 <= N THEN N - (n + 1) + 1 ELSE 0
        /\ \A i \in 1..(N - (n + 1) + 1) : b[i] = log[(n + 1) + i - 1]
    BY <1>1, <2>1, SubSeqProperties
  <2>. HIDE DEF b
  <2>. QED  BY <1>1, <2>2
<1>4. IsFiniteSet(A) /\ IsFiniteSet(B) /\ Cardinality(A) \in Nat /\ Cardinality(B) \in Nat
  BY <1>2, <1>3, OccurrencesType
<1>5. A = {i \in 1..n : log[i] = User(m)}
  BY <1>2 DEF Positions
<1>6. IsFiniteSet(C) /\ Cardinality(C) = Cardinality(B)
  <2>1. B = {i \in 1..(N - n) : log[n + i] = User(m)}
    BY <1>1, <1>3 DEF Positions
  <2>. DEFINE f == [i \in B |-> n + i]
  <2>2. f \in [B -> C]
    BY <1>1, <2>1
  <2>3. \A x, y \in B : f[x] = f[y] => x = y
    BY <1>1, <2>1
  <2>4. \A z \in C : \E x \in B : f[x] = z
    <3>. SUFFICES ASSUME NEW z \in C PROVE z - n \in B /\ f[z - n] = z
      OBVIOUS
    <3>. QED  BY <1>1, <2>1
  <2>5. ExistsBijection(B, C)
    <3>. HIDE DEF f, B, C
    <3>. QED  BY <2>2, <2>3, <2>4 DEF ExistsBijection, Bijection, Injection, Surjection, IsInjective
  <2>. HIDE DEF B, C
  <2>. QED  BY <1>4, <2>5, FS_Bijection
<1>7. Positions(log, m) = A \cup C /\ A \cap C = {}
  BY <1>1, <1>5 DEF Positions
<1>8. /\ Occurrences(log, m) = Cardinality(A \cup C)
      /\ Occurrences(a, m) = Cardinality(A) /\ Occurrences(b, m) = Cardinality(B)
  <2>1. Occurrences(log, m) = Cardinality(Positions(log, m))
    BY OccurrencesType
  <2>2. Occurrences(a, m) = Cardinality(A)
    BY <1>2, OccurrencesType
  <2>3. Occurrences(b, m) = Cardinality(B)
    BY <1>3, OccurrencesType
  <2>. HIDE DEF A, B, C, a, b
  <2>. QED  BY <1>7, <2>1, <2>2, <2>3
<1>. HIDE DEF A, B, C, a, b
<1>9. Cardinality(A \cup C) = Cardinality(A) + Cardinality(C)
  <2>1. Cardinality(A \cup C) = Cardinality(A) + Cardinality(C) - Cardinality(A \cap C)
    BY <1>4, <1>6, FS_Union
  <2>2. Cardinality(A \cap C) = 0
    BY <1>7, FS_EmptySet
  <2>. QED  BY <1>4, <1>6, <2>1, <2>2
<1>10. Occurrences(log, m) = Occurrences(a, m) + Occurrences(b, m)
  BY <1>4, <1>6, <1>8, <1>9
<1>. QED  BY <1>10 DEF a, b

\* What a poll takes and what it leaves hold together what the queue held.
LEMMA OccurrencesDrain ==
  ASSUME NEW S, NEW q \in Seq(S), NEW d, NEW m
  PROVE  Occurrences(q, m) = Occurrences(Drained(q, d), m) + Occurrences(Left(q, d), m)
BY TakenRange, OccurrencesSplit DEF Drained, Left

\* A single message occurs once.
LEMMA OccurrencesOne ==
  ASSUME NEW x, NEW m
  PROVE  Occurrences(<<x>>, m) = IF x = User(m) THEN 1 ELSE 0
<1>. DEFINE P == Positions(<<x>>, m)
<1>1. P = IF x = User(m) THEN {1} ELSE {}
  BY DEF Positions
<1>2. Occurrences(<<x>>, m) = Cardinality(P)
  BY DEF Occurrences, Positions
<1>3. Cardinality({1}) = 1 /\ Cardinality({}) = 0
  BY FS_Singleton, FS_EmptySet
<1>. HIDE DEF P
<1>. QED  BY <1>1, <1>2, <1>3

\* The head of a log and its tail hold together what the log held.
LEMMA OccurrencesTail ==
  ASSUME NEW S, NEW log \in Seq(S), log # <<>>, NEW m
  PROVE  Occurrences(log, m)
           = (IF Head(log) = User(m) THEN 1 ELSE 0) + Occurrences(Tail(log), m)
<1>1. Len(log) \in Nat \ {0}
  BY EmptySeq
<1>2. 1 \in 0..Len(log) /\ 1 \in 1..Len(log)
  BY <1>1
<1>3. Occurrences(log, m)
        = Occurrences(SubSeq(log, 1, 1), m) + Occurrences(SubSeq(log, 1 + 1, Len(log)), m)
  BY <1>2, OccurrencesSplit
<1>4. SubSeq(log, 1 + 1, Len(log)) = Tail(log)
  BY TailIsSubSeq
<1>5. Head(log) \in S /\ <<>> \in Seq(S)
  BY HeadTailProperties, EmptySeq
<1>6. SubSeq(log, 1, 1) = <<Head(log)>>
  <2>1. SubSeq(log, 1, 1) = <<log[1]>> \o SubSeq(log, 1 + 1, 1)
    BY <1>2, SubSeqRecursiveFirst
  <2>2. SubSeq(log, 1 + 1, 1) = <<>>
    BY SubSeqEmpty
  <2>3. log[1] = Head(log) /\ <<Head(log)>> \in Seq(S)
    BY <1>5
  <2>4. <<Head(log)>> \o <<>> = <<Head(log)>>
    BY <2>3, ConcatEmptySeq
  <2>. QED  BY <2>1, <2>2, <2>3, <2>4
<1>7. Occurrences(SubSeq(log, 1, 1), m) = IF Head(log) = User(m) THEN 1 ELSE 0
  BY <1>6, OccurrencesOne
<1>8. Occurrences(Tail(log), m) \in Nat
  <2>1. Tail(log) \in Seq(S)
    BY HeadTailProperties
  <2>. QED  BY <2>1, OccurrencesType
<1>. QED  BY <1>3, <1>4, <1>7, <1>8

\* A call that has a slot belongs to a batch, and one that runs in a
\* sequential batch is the call the batch has reached.
LEMMA SlotInBatch ==
  ASSUME Inv, NEW c \in Calls, slot[c] # "none"
  PROVE  /\ InBatch
         /\ slot[c] \in {"running", "settling"} /\ mode # "parallel" =>
              pc = "execute" /\ mode = "sequential" /\ c = next
<1>. USE AgentLoopAssumption DEF Inv, TypeOK, Calls
<1>1. c <= next /\ next # 0
  BY DEF SlotInv, BatchTypeOK
<1>2. InBatch
  BY <1>1 DEF BatchInv, InBatch
<1>3. ASSUME slot[c] \in {"running", "settling"}, mode # "parallel"
      PROVE  pc = "execute" /\ mode = "sequential" /\ c = next
  <2>1. c = next
    BY <1>1, <1>3 DEF SlotInv, BatchTypeOK
  <2>2. pc \notin {"startCall", "prepare", "checkCancel", "parallel", "emit", "commit"}
    BY <1>3, <2>1 DEF SlotInv, BatchInv
  <2>. QED  BY <1>2, <2>1, <2>2 DEF InBatch, BatchInv
<1>. QED  BY <1>2, <1>3

\* Drained messages wait only while they are injected.
PendingInv == pc # "inject" => pending = <<>>

\* Every step keeps it.
LEMMA PendingStep ==
  ASSUME Inv, PendingInv, [Next]_vars
  PROVE  PendingInv'
<1>. USE DEF PendingInv, logVars, turnVars, replyVars, batchVars, updateVars, queueVars, sinkVars
<1>1. CASE PollSteering
  BY <1>1 DEF PollSteering, TurnOrFollowUp
<1>2. CASE Inject
  <2>1. pending \in Seq(UserMessage) /\ pending # <<>>
    BY <1>2 DEF Inject, Inv, TypeOK, LogTypeOK, TurnInv
  <2>2. Len(pending) = 1 => Tail(pending) = <<>>
    <3>1. Tail(pending) \in Seq(UserMessage) /\ Len(Tail(pending)) = Len(pending) - 1
      BY <2>1, HeadTailProperties
    <3>. DEFINE t == Tail(pending)
    <3>2. t \in Seq(UserMessage) /\ Len(t) = Len(pending) - 1
      BY <3>1
    <3>. HIDE DEF t
    <3>3. Len(pending) = 1 => t = <<>>
      BY <3>2, EmptySeq
    <3>. QED  BY <3>3 DEF t
  <2>. QED  BY <1>2, <2>2 DEF Inject
<1>3. CASE PollFollowUp
  BY <1>3 DEF PollFollowUp
<1>4. CASE Request \/ StreamStart \/ StreamDone \/ ErrorEnd \/ NoCalls \/ PrepareNextTurn \/ ShouldStop
  BY <1>4 DEF Request, Replied, StreamStart, StreamDone, ErrorEnd, NoCalls, PrepareNextTurn, ShouldStop
<1>5. CASE BatchStep
  BY <1>5 DEF BatchStep, StartBatch, StartCall, FailCall, Prepare, CheckCancel, CollectBatch,
              EmitNext, EmitEnd, CommitBatch
<1>6. ASSUME NEW c \in Calls, ToolStep(c) PROVE PendingInv'
  <2>1. slot[c] # "none"
    BY <1>6, AgentLoopAssumption DEF ToolStep, Execute, DeliverUpdate, Settle, FinishCall, Inv, CallsInv, TypeOK, BatchTypeOK
  <2>2. pc # "inject"
    BY <2>1, SlotInBatch DEF InBatch
  <2>. QED  BY <1>6, <2>2 DEF ToolStep, Execute, DeliverUpdate, Settle, FinishCall
<1>7. CASE Surroundings
  BY <1>7 DEF Surroundings, Abort, Steer, FollowUp, OnUpdate
<1>8. CASE Start
  BY <1>8 DEF Start, StartPrompt, StartContinue, BeginLoop
<1>9. CASE Terminated \/ UNCHANGED vars
  BY <1>9 DEF Terminated, vars
<1>. QED  BY <1>1, <1>2, <1>3, <1>4, <1>5, <1>6, <1>7, <1>8, <1>9 DEF Next, LoopStep, TurnStep

\* What is not the user's message is no occurrence of it.
LEMMA OthersAreNotUsers ==
  /\ \A m, n \in UserMessages : User(m) = User(n) <=> m = n
  /\ \A m, t, s, n : Assistant(t, s, n) # User(m)
  /\ \A m, t, c, e : ToolResult(t, c, e) # User(m)
<1>1. \A m : User(m).role = "user" /\ User(m).id = m
  BY DEF User
<1>2. \A t, s, n : Assistant(t, s, n).role = "assistant"
  BY DEF Assistant
<1>3. \A t, c, e : ToolResult(t, c, e).role = "toolResult"
  BY DEF ToolResult
<1>. QED  BY <1>1, <1>2, <1>3

Where(m) ==
  Occurrences(steering, m) + Occurrences(followUp, m) + Occurrences(pending, m)
    + Occurrences(transcript, m) + (IF m \in unsent THEN 1 ELSE 0)

\* The queues, the pending messages and the transcript count as numbers.
LEMMA CountsAreNumbers ==
  ASSUME Inv, NEW m
  PROVE  /\ Occurrences(steering, m) \in Nat /\ Occurrences(followUp, m) \in Nat
         /\ Occurrences(pending, m) \in Nat /\ Occurrences(transcript, m) \in Nat
<1>1. /\ steering \in Seq(UserMessage) /\ followUp \in Seq(UserMessage)
      /\ pending \in Seq(UserMessage) /\ transcript \in Seq(Message)
  BY DEF Inv, TypeOK, LogTypeOK
<1>. QED  BY <1>1, OccurrencesType

\* The request fails at once or streams, and the stream ends with a reply of
\* the turn.
LEMMA RepliesAreMessages ==
  ASSUME Inv, Request \/ StreamDone
  PROVE  \/ pc = "request" /\ pc' = "stream" /\ UNCHANGED <<logVars, partial, reply, transcript>>
         \/ \E r \in Reply : /\ Replied(r) /\ r \in Message
                            /\ r.role = "assistant" /\ r.turn = turns'
<1>. USE AgentLoopAssumption DEF Inv, TypeOK
<1>1. ASSUME NEW t \in 0..MaxTurns, NEW s \in StopReasons, NEW n \in 0..MaxCalls
      PROVE  /\ Assistant(t, s, n) \in Reply /\ Assistant(t, s, n) \in Message
             /\ Assistant(t, s, n).role = "assistant" /\ Assistant(t, s, n).turn = t
  BY <1>1, AssistantType DEF Assistant
<1>2. CASE Request
  <2>1. turns + 1 \in 0..MaxTurns /\ 0 \in 0..MaxCalls /\ "error" \in StopReasons
    BY <1>2 DEF Request, TurnTypeOK, TurnInv, StopReasons
  <2>. QED  BY <1>1, <1>2, <2>1 DEF Request, logVars
<1>3. CASE StreamDone
  <2>1. PICK r \in Replies : Replied(r)
    BY <1>3 DEF StreamDone
  <2>2. PICK s \in StopReasons, n \in 0..MaxCalls : r = Assistant(turns, s, n)
    BY DEF Replies
  <2>3. turns \in 0..MaxTurns /\ turns' = turns
    BY <1>3 DEF TurnTypeOK, StreamDone
  <2>. QED  BY <1>1, <2>1, <2>2, <2>3
<1>. QED  BY <1>2, <1>3

\* A result that a step of a batch announces is a message.
LEMMA ResultsAreMessages ==
  ASSUME Inv, NEW c \in Calls, NEW o \in Outcome
  PROVE  ToolResult(turns, c, o.error) \in Message
BY MessageTypes DEF Inv, TypeOK, TurnTypeOK, Outcome

\* The call a batch has reached is one of its calls.
LEMMA NextIsCall ==
  ASSUME Inv, InBatch
  PROVE  next \in Calls /\ next <= reply.calls
BY ReplyFields, AgentLoopAssumption DEF Inv, TypeOK, TurnTypeOK, BatchInv, Calls

\* The results announced so far stay what they are.
KeepsAnnounced == emitted' = emitted /\ \A d \in 1..emitted : outcome'[d] = outcome[d]

\* The next result, o, is announced.
Announces(o) ==
  /\ emitted + 1 \in Calls
  /\ EmitResult(emitted + 1, o)
  /\ outcome'[emitted + 1] = o
  /\ \A d \in 1..emitted : outcome'[d] = outcome[d]

\* What a step of a batch other than its commit, or of one of its tools, leaves.
LEMMA BatchLeaves ==
  ASSUME (BatchStep /\ ~CommitBatch) \/ \E c \in Calls : ToolStep(c)
  PROVE  UNCHANGED <<cancelled, context, newMessages, pending, skipPoll, rewrites, partial, reply,
                     turns, steering, followUp, unsent>>
BY DEF BatchStep, StartBatch, StartCall, FailCall, Prepare, CheckCancel, CollectBatch,
       EmitNext, EmitEnd, ToolStep, Execute, DeliverUpdate, Settle, FinishCall,
       logVars, turnVars, replyVars, queueVars

\* Such a step announces the next result of the batch or none.
LEMMA BatchAnnounces ==
  ASSUME Inv, (BatchStep /\ ~CommitBatch) \/ \E c \in Calls : ToolStep(c)
  PROVE  \/ UNCHANGED transcript /\ KeepsAnnounced
         \/ \E o \in Outcome : Announces(o)
<1>. USE AgentLoopAssumption
<1>0. /\ emitted \in Nat /\ outcome \in [Calls -> Outcome] /\ next \in Nat
      /\ mode \in {"none", "sequential", "parallel", "truncated"}
  BY DEF Inv, TypeOK, BatchTypeOK
<1>1. Failure \in Outcome
  BY DEF Failure, Outcome
<1>2. CASE FailCall
  <2>1. next \in Calls
    BY <1>2, NextIsCall DEF FailCall, InBatch
  <2>2. mode # "parallel" => emitted = next - 1
    BY <1>2 DEF FailCall, Inv, EmitInv
  <2>3. mode = "parallel" => emitted = 0
    BY <1>2 DEF FailCall, Inv, EmitInv
  <2>4. outcome' = [outcome EXCEPT ![next] = Failure]
    BY <1>2 DEF FailCall, Finish
  <2>5. CASE mode = "parallel"
    BY <1>0, <1>2, <2>3, <2>5 DEF FailCall, KeepsAnnounced
  <2>6. CASE mode # "parallel"
    <3>1. emitted + 1 = next
      BY <1>0, <2>2, <2>6 DEF Calls
    <3>2. outcome'[next] = Failure /\ \A d \in 1..emitted : outcome'[d] = outcome[d]
      BY <1>0, <2>1, <2>4, <3>1
    <3>. QED  BY <1>1, <1>2, <2>1, <2>6, <3>1, <3>2 DEF FailCall, Announces
  <2>. QED  BY <2>5, <2>6
<1>3. CASE EmitNext
  <2>1. emitted + 1 \in Calls /\ outcome' = outcome
    BY <1>3 DEF EmitNext, Finished
  <2>. QED  BY <1>0, <1>3, <2>1 DEF EmitNext, Announces
<1>4. CASE StartBatch \/ StartCall \/ Prepare \/ CheckCancel \/ CollectBatch \/ EmitEnd
  BY <1>4 DEF StartBatch, StartCall, Prepare, CheckCancel, CollectBatch, EmitEnd,
              batchVars, sinkVars, KeepsAnnounced
<1>5. ASSUME NEW c \in Calls, Execute(c) \/ DeliverUpdate(c) \/ Settle(c)
      PROVE  UNCHANGED transcript /\ KeepsAnnounced
  BY <1>5 DEF Execute, DeliverUpdate, Settle, batchVars, sinkVars, KeepsAnnounced
<1>6. ASSUME NEW c \in Calls, FinishCall(c)
      PROVE  (UNCHANGED transcript /\ KeepsAnnounced) \/ \E o \in Outcome : Announces(o)
  <2>1. PICK o \in Outcome :
          /\ outcome' = [outcome EXCEPT ![c] = o]
          /\ IF mode = "sequential"
             THEN EmitResult(c, o)
             ELSE UNCHANGED <<transcript, emitted>>
    BY <1>6 DEF FinishCall, Finish
  <2>2. CASE mode = "parallel"
    <3>1. InBatch /\ pc \notin {"emit", "commit"}
      BY <1>6, SlotInBatch DEF FinishCall, Inv, SlotInv
    <3>2. emitted = 0
      BY <2>2, <3>1 DEF Inv, EmitInv
    <3>. QED  BY <1>0, <2>1, <2>2, <3>2 DEF KeepsAnnounced
  <2>3. CASE mode # "parallel"
    <3>1. pc = "execute" /\ mode = "sequential" /\ c = next
      BY <1>6, <2>3, SlotInBatch DEF FinishCall
    <3>2. emitted + 1 = c
      BY <1>0, <2>3, <3>1 DEF Inv, EmitInv, Calls
    <3>3. outcome'[c] = o /\ \A d \in 1..emitted : outcome'[d] = outcome[d]
      BY <1>0, <2>1, <3>2
    <3>. QED  BY <2>1, <3>1, <3>2, <3>3 DEF Announces
  <2>. QED  BY <2>2, <2>3
<1>. QED  BY <1>2, <1>3, <1>4, <1>5, <1>6 DEF BatchStep, ToolStep

\* Every step moves each message from one place to at most one other.
LEMMA MovesStep ==
  ASSUME Inv, PendingInv, [Next]_vars, NEW m \in UserMessages
  PROVE  Where(m)' = Where(m)
<1>. DEFINE st == Occurrences(steering, m)  fu == Occurrences(followUp, m)
            pe == Occurrences(pending, m)   tr == Occurrences(transcript, m)
            un == IF m \in unsent THEN 1 ELSE 0
<1>t. /\ steering \in Seq(UserMessage) /\ followUp \in Seq(UserMessage)
      /\ pending \in Seq(UserMessage) /\ transcript \in Seq(Message)
      /\ unsent \subseteq UserMessages
  BY DEF Inv, TypeOK, LogTypeOK
<1>n. st \in Nat /\ fu \in Nat /\ pe \in Nat /\ tr \in Nat /\ un \in Nat
  BY CountsAreNumbers
<1>p. /\ Occurrences(steering', m) \in Nat /\ Occurrences(followUp', m) \in Nat
      /\ Occurrences(pending', m) \in Nat /\ Occurrences(transcript', m) \in Nat
  <2>1. /\ steering' \in Seq(UserMessage) /\ followUp' \in Seq(UserMessage)
        /\ pending' \in Seq(UserMessage) /\ transcript' \in Seq(Message)
    BY StepInv DEF Inv, TypeOK, LogTypeOK
  <2>. QED  BY <2>1, OccurrencesType
<1>y. PICK s1 \in Nat, f1 \in Nat, p1 \in Nat, t1 \in Nat, u1 \in Nat :
        /\ s1 = Occurrences(steering', m) /\ f1 = Occurrences(followUp', m)
        /\ p1 = Occurrences(pending', m) /\ t1 = Occurrences(transcript', m)
        /\ u1 = IF m \in unsent' THEN 1 ELSE 0
  BY <1>p
<1>w. Where(m) = st + fu + pe + tr + un /\ Where(m)' = s1 + f1 + p1 + t1 + u1
  BY <1>y DEF Where
<1>e. Occurrences(<<>>, m) = 0
  BY OccurrencesEmpty
<1>m. User(m) \in UserMessage /\ User(m) \in Message
  BY MessageTypes
<1>s. UNCHANGED steering => s1 = st
  BY <1>y
<1>f. UNCHANGED followUp => f1 = fu
  BY <1>y
<1>d. UNCHANGED pending => p1 = pe
  BY <1>y
<1>r. UNCHANGED transcript => t1 = tr
  BY <1>y
<1>x. ASSUME NEW x \in Message, transcript' = Append(transcript, x)
      PROVE  t1 = tr + (IF x = User(m) THEN 1 ELSE 0)
  <2>1. Occurrences(Append(transcript, x), m) = tr + (IF x = User(m) THEN 1 ELSE 0)
    BY <1>t, OccurrencesAppend
  <2>2. t1 = Occurrences(Append(transcript, x), m)
    BY <1>x, <1>y
  <2>. QED  BY <2>1, <2>2
<1>v. UNCHANGED unsent => u1 = un
  BY <1>y
<1>. HIDE DEF st, fu, pe, tr, un
<1>1. CASE PollSteering
  <2>1. UNCHANGED <<followUp, transcript, unsent>>
    BY <1>1 DEF PollSteering, queueVars, sinkVars
  <2>2. pending = <<>>
    BY <1>1 DEF PollSteering, PendingInv
  <2>3. s1 + p1 = st
    <3>1. CASE pending' = <<>> /\ UNCHANGED steering
      BY <1>e, <1>n, <1>s, <1>y, <3>1
    <3>2. CASE /\ pending' = Drained(steering, SteeringMode)
               /\ steering' = Left(steering, SteeringMode)
      BY <1>t, <1>y, <3>2, OccurrencesDrain DEF st
    <3>. QED  BY <1>1, <3>1, <3>2 DEF PollSteering, PollQueue
  <2>4. pe = 0 /\ f1 = fu /\ t1 = tr /\ u1 = un
    BY <1>e, <1>f, <1>r, <1>v, <2>1, <2>2 DEF pe
  <2>. QED  BY <1>n, <1>w, <2>3, <2>4
<1>2. CASE Inject
  <2>1. pending # <<>> /\ UNCHANGED <<steering, followUp, unsent>>
    BY <1>2 DEF Inject, queueVars, Inv, TurnInv
  <2>2. Head(pending) \in Message
    BY <1>t, <2>1, HeadTailProperties, MessageTypes
  <2>. DEFINE h == IF Head(pending) = User(m) THEN 1 ELSE 0
  <2>h. h \in Nat
    OBVIOUS
  <2>3. t1 = tr + h
    BY <1>2, <1>x, <2>2 DEF Inject
  <2>4. pe = h + p1
    BY <1>2, <1>t, <1>y, <2>1, OccurrencesTail DEF Inject, pe
  <2>. HIDE DEF h
  <2>. QED  BY <1>n, <1>w, <1>s, <1>f, <1>v, <2>1, <2>3, <2>4, <2>h
<1>3. CASE PollFollowUp
  <2>1. UNCHANGED <<steering, transcript, unsent>> /\ pending = <<>>
    BY <1>3 DEF PollFollowUp, sinkVars, PendingInv
  <2>2. f1 + p1 = fu
    BY <1>3, <1>t, <1>y, OccurrencesDrain DEF PollFollowUp, fu
  <2>3. pe = 0
    BY <1>e, <2>1 DEF pe
  <2>. QED  BY <1>n, <1>w, <1>s, <1>r, <1>v, <2>1, <2>2, <2>3
<1>4. ASSUME NEW x \in Message, x # User(m), transcript' = Append(transcript, x),
             UNCHANGED <<pending, steering, followUp, unsent>>
      PROVE  Where(m)' = Where(m)
  <2>1. t1 = tr
    BY <1>4, <1>n, <1>x
  <2>. QED  BY <1>4, <1>n, <1>w, <1>s, <1>f, <1>d, <1>v, <2>1
<1>5. ASSUME UNCHANGED <<pending, steering, followUp, unsent, transcript>>
      PROVE  Where(m)' = Where(m)
  BY <1>5, <1>w, <1>s, <1>f, <1>d, <1>r, <1>v
<1>6. CASE Request \/ StreamDone
  <2>1. UNCHANGED <<pending, steering, followUp, unsent>>
    BY <1>6 DEF Request, StreamDone, turnVars, queueVars
  <2>2. CASE UNCHANGED transcript
    BY <1>5, <2>1, <2>2
  <2>3. ASSUME NEW r \in Reply, Replied(r), r \in Message, r.role = "assistant"
        PROVE  Where(m)' = Where(m)
    <3>1. r # User(m)
      BY <2>3 DEF User
    <3>. QED  BY <1>4, <2>1, <2>3, <3>1 DEF Replied
  <2>. QED  BY <1>6, <2>2, <2>3, RepliesAreMessages
<1>7. CASE StreamStart \/ ErrorEnd \/ NoCalls \/ PrepareNextTurn \/ ShouldStop \/ CommitBatch
  BY <1>5, <1>7 DEF StreamStart, ErrorEnd, NoCalls, PrepareNextTurn, ShouldStop, CommitBatch, turnVars, queueVars, sinkVars
<1>8. CASE (BatchStep /\ ~CommitBatch) \/ \E c \in Calls : ToolStep(c)
  <2>1. UNCHANGED <<pending, steering, followUp, unsent>>
    BY <1>8, BatchLeaves
  <2>2. ASSUME NEW o \in Outcome, Announces(o)
        PROVE  Where(m)' = Where(m)
    <3>1. ToolResult(turns, emitted + 1, o.error) \in Message
      BY <2>2, ResultsAreMessages DEF Announces
    <3>. QED  BY <1>4, <2>1, <2>2, <3>1, OthersAreNotUsers DEF Announces, EmitResult
  <2>. QED  BY <1>5, <1>8, <2>1, <2>2, BatchAnnounces
<1>9. CASE Surroundings
  <2>1. CASE Abort \/ \E c \in Calls : OnUpdate(c)
    BY <1>5, <2>1 DEF Abort, OnUpdate, turnVars, queueVars, sinkVars
  <2>2. ASSUME NEW n \in UserMessages, Steer(n)
        PROVE  Where(m)' = Where(m)
    <3>1. UNCHANGED <<followUp, pending, transcript>>
      BY <2>2 DEF Steer, turnVars, sinkVars
    <3>2. User(n) \in UserMessage /\ (User(n) = User(m) <=> n = m)
      BY MessageTypes, OthersAreNotUsers
    <3>3. s1 = st + (IF n = m THEN 1 ELSE 0)
      BY <1>t, <2>2, <3>2, OccurrencesAppend, <1>y DEF Steer, st
    <3>4. un = u1 + (IF n = m THEN 1 ELSE 0)
      BY <1>y, <2>2 DEF Steer, un
    <3>. QED  BY <1>n, <1>w, <1>f, <1>d, <1>r, <3>1, <3>3, <3>4
  <2>3. ASSUME NEW n \in UserMessages, FollowUp(n)
        PROVE  Where(m)' = Where(m)
    <3>1. UNCHANGED <<steering, pending, transcript>>
      BY <2>3 DEF FollowUp, turnVars, sinkVars
    <3>2. User(n) \in UserMessage /\ (User(n) = User(m) <=> n = m)
      BY MessageTypes, OthersAreNotUsers
    <3>3. f1 = fu + (IF n = m THEN 1 ELSE 0)
      BY <1>t, <2>3, <3>2, OccurrencesAppend, <1>y DEF FollowUp, fu
    <3>4. un = u1 + (IF n = m THEN 1 ELSE 0)
      BY <1>y, <2>3 DEF FollowUp, un
    <3>. QED  BY <1>n, <1>w, <1>s, <1>d, <1>r, <3>1, <3>3, <3>4
  <2>. QED  BY <1>9, <2>1, <2>2, <2>3 DEF Surroundings
<1>10. CASE Start
  <2>1. pending = <<>> /\ pending' = <<>> /\ UNCHANGED <<steering, followUp>>
    BY <1>10 DEF Start, StartPrompt, StartContinue, BeginLoop, PendingInv
  <2>2. ASSUME NEW n \in unsent, transcript' = transcript \o <<User(n)>>, unsent' = unsent \ {n}
        PROVE  Where(m)' = Where(m)
    <3>1. n \in UserMessages /\ User(n) \in Message /\ (User(n) = User(m) <=> n = m)
      BY <1>t, MessageTypes, OthersAreNotUsers
    <3>2. transcript' = Append(transcript, User(n))
      BY <1>t, <2>2, <3>1, AppendIsConcat
    <3>3. t1 = tr + (IF n = m THEN 1 ELSE 0)
      BY <1>x, <3>1, <3>2
    <3>4. un = u1 + (IF n = m THEN 1 ELSE 0)
      BY <1>y, <2>2 DEF un
    <3>. QED  BY <1>n, <1>w, <1>s, <1>f, <1>d, <2>1, <3>3, <3>4
  <2>3. CASE UNCHANGED <<transcript, unsent>>
    BY <1>5, <2>1, <2>3
  <2>. QED  BY <1>10, <2>2, <2>3 DEF Start, StartPrompt, StartContinue
<1>11. CASE Terminated \/ UNCHANGED vars
  BY <1>5, <1>11 DEF Terminated, vars, turnVars, queueVars, sinkVars
<1>. QED  BY <1>1, <1>2, <1>3, <1>6, <1>7, <1>8, <1>9, <1>10, <1>11 DEF Next, LoopStep, TurnStep

\* So none is lost or repeated.
LEMMA ConservedStep ==
  ASSUME Inv, PendingInv, MessagesConserved, [Next]_vars
  PROVE  MessagesConserved'
BY MovesStep DEF MessagesConserved, Where

\* At the start each message is with the caller, or one is the transcript.
LEMMA ConservedInit == Init => MessagesConserved
<1>. SUFFICES ASSUME Init, NEW m \in UserMessages PROVE Where(m) = 1
  BY DEF MessagesConserved, Where
<1>1. Occurrences(<<>>, m) = 0
  BY OccurrencesEmpty
<1>2. CASE transcript = <<>> /\ unsent = UserMessages
  BY <1>1, <1>2 DEF Where, Init
<1>3. ASSUME NEW n \in UserMessages, transcript = <<User(n)>>, unsent = UserMessages \ {n}
      PROVE  Where(m) = 1
  <2>1. User(n) \in Message /\ (User(n) = User(m) <=> n = m)
    BY MessageTypes, OthersAreNotUsers
  <2>3. Occurrences(transcript, m) = IF n = m THEN 1 ELSE 0
    BY <1>3, <2>1, OccurrencesOne
  <2>. QED  BY <1>1, <1>3, <2>3 DEF Where, Init
<1>. QED  BY <1>2, <1>3 DEF Init

\* A user message is never lost or duplicated between the caller, the two
\* queues, the pending messages of run_loop and the transcript.
THEOREM MessagesConservedHolds == Spec => []MessagesConserved
<1>1. Init => PendingInv
  BY DEF Init, PendingInv
<1>. QED  BY <1>1, ConservedInit, PendingStep, ConservedStep, InvHolds, PTL DEF Spec

-----------------------------------------------------------------------------
(***************************************************************************)
(* What a context recalls of a log                                         *)
(***************************************************************************)

\* Users, replies and the results that tools gave are said, and in full.
LEMMA SaidMessages ==
  /\ \A x \in UserMessage \cup Reply : Said(x) /\ Whole(x) = x
  /\ \A t, c, e : Said(ToolResult(t, c, e)) /\ Whole(ToolResult(t, c, e)) = ToolResult(t, c, e)
<1>1. \A x \in UserMessage \cup Reply : x.role \in {"user", "assistant"}
  BY DEF UserMessage, Reply
<1>2. ASSUME NEW t, NEW c, NEW e
      PROVE  Said(ToolResult(t, c, e)) /\ Whole(ToolResult(t, c, e)) = ToolResult(t, c, e)
  BY DEF Said, Whole, ToolResult
<1>. QED  BY <1>1, <1>2 DEF Said, Whole

\* What is said behind a message of a context is finite in number.
LEMMA BehindType ==
  ASSUME NEW ctx \in Seq(Message), NEW i \in Nat
  PROVE  /\ IsFiniteSet(Behind(ctx, i)) /\ Cardinality(Behind(ctx, i)) \in Nat
         /\ Behind(ctx, i) \subseteq (i + 1)..Len(ctx)
<1>1. Len(ctx) \in Nat
  BY LenProperties
<1>2. Behind(ctx, i) \in SUBSET ((i + 1)..Len(ctx))
  BY DEF Behind
<1>3. IsFiniteSet((i + 1)..Len(ctx))
  <2>1. i + 1 \in Int /\ Len(ctx) \in Int
    BY <1>1
  <2>. QED  BY <2>1, FS_Interval
<1>4. IsFiniteSet(Behind(ctx, i))
  BY <1>2, <1>3, FS_Subset
<1>. QED  BY <1>2, <1>4, FS_CardinalityType

\* A message that is said counts behind all before it, and another does not.
LEMMA BehindAppend ==
  ASSUME NEW ctx \in Seq(Message), NEW x \in Message
  PROVE  /\ \A i \in 0..Len(ctx) :
              Cardinality(Behind(Append(ctx, x), i))
                = Cardinality(Behind(ctx, i)) + (IF Said(x) THEN 1 ELSE 0)
         /\ Cardinality(Behind(Append(ctx, x), Len(ctx) + 1)) = 0
<1>. DEFINE n == Len(ctx)  new == Append(ctx, x)
<1>1. /\ n \in Nat /\ Len(new) = n + 1 /\ new[n + 1] = x
      /\ \A j \in 1..n : new[j] = ctx[j]
  BY LenProperties, AppendProperties
<1>2. new \in Seq(Message)
  BY AppendProperties
<1>3. ASSUME NEW i \in 0..n
      PROVE  Cardinality(Behind(new, i)) = Cardinality(Behind(ctx, i)) + (IF Said(x) THEN 1 ELSE 0)
  <2>. DEFINE B == Behind(ctx, i)  C == Behind(new, i)
  <2>1. B = {j \in (i + 1)..n : Said(ctx[j])} /\ C = {j \in (i + 1)..(n + 1) : Said(new[j])}
    BY <1>1 DEF Behind
  <2>2. i \in Nat
    BY <1>1
  <2>3. IsFiniteSet(B) /\ Cardinality(B) \in Nat
    BY <2>2, BehindType
  <2>4. n + 1 \notin B
    BY <1>1, <2>1
  <2>. HIDE DEF n, new, B, C
  <2>5. \A j : j \in (i + 1)..(n + 1) <=> j \in (i + 1)..n \/ j = n + 1
    BY <1>1, <2>2
  <2>6. \A j \in (i + 1)..n : new[j] = ctx[j]
    BY <1>1, <2>2
  <2>7. \A j : j \in C <=> j \in B \/ (j = n + 1 /\ Said(x))
    <3>1. ASSUME NEW j \in (i + 1)..n PROVE j \in C <=> j \in B
      BY <2>1, <2>5, <2>6
    <3>2. n + 1 \in C <=> Said(x)
      BY <1>1, <2>1, <2>5
    <3>3. \A j : j \in C => j \in (i + 1)..(n + 1)
      BY <2>1
    <3>4. \A j : j \in B => j \in (i + 1)..n
      BY <2>1
    <3>. QED  BY <2>4, <2>5, <3>1, <3>2, <3>3, <3>4
  <2>8. CASE Said(x)
    <3>1. C = B \cup {n + 1}
      BY <2>7, <2>8
    <3>. QED  BY <2>3, <2>4, <2>8, <3>1, FS_AddElement DEF B, C
  <2>9. CASE ~Said(x)
    <3>1. C = B
      BY <2>7, <2>9
    <3>. QED  BY <2>3, <2>9, <3>1 DEF B, C
  <2>. QED  BY <2>8, <2>9
<1>4. Cardinality(Behind(new, n + 1)) = 0
  <2>1. Behind(new, n + 1) \subseteq (n + 1 + 1)..(n + 1)
    BY <1>1 DEF Behind
  <2>. HIDE DEF n, new
  <2>2. Behind(new, n + 1) = {}
    BY <1>1, <2>1
  <2>. QED  BY <2>2, FS_EmptySet
<1>. QED  BY <1>3, <1>4

\* What Recalls says, position by position.
LEMMA RecallsParts ==
  ASSUME NEW ctx \in Seq(Message), NEW log
  PROVE  Recalls(ctx, log) <=>
           /\ \A i \in 1..Len(ctx) :
                Said(ctx[i]) => /\ Cardinality(Behind(ctx, i)) < Len(log)
                                /\ Whole(ctx[i]) = log[Len(log) - Cardinality(Behind(ctx, i))]
           /\ \A i \in 1..Len(ctx) : ctx[i] = Summary => i = 1
           /\ Cardinality(Behind(ctx, 0)) = Len(log) \/ (ctx # <<>> /\ ctx[1] = Summary)
<1>1. DOMAIN ctx = 1..Len(ctx)
  BY LenProperties
<1>. QED  BY <1>1 DEF Recalls

\* A message said to both keeps a context a recall of a log.
LEMMA RecallsSaid ==
  ASSUME NEW ctx \in Seq(Message), NEW log \in Seq(Message), NEW x \in Message,
         Said(x), Whole(x) = x, Recalls(ctx, log)
  PROVE  Recalls(Append(ctx, x), Append(log, x))
<1>. DEFINE n == Len(ctx)  m == Len(log)  new == Append(ctx, x)  end == Append(log, x)
            b(i) == Cardinality(Behind(ctx, i))  c(i) == Cardinality(Behind(new, i))
<1>1. /\ n \in Nat /\ Len(new) = n + 1 /\ new[n + 1] = x
      /\ \A j \in 1..n : new[j] = ctx[j]
      /\ new \in Seq(Message) /\ new # <<>>
  BY LenProperties, AppendProperties
<1>2. /\ m \in Nat /\ Len(end) = m + 1 /\ end[m + 1] = x
      /\ \A j \in 1..m : end[j] = log[j]
  BY LenProperties, AppendProperties
<1>3. \A i \in 0..n : c(i) = b(i) + 1 /\ b(i) \in Nat
  <2>1. \A i \in 0..n : c(i) = b(i) + 1
    BY BehindAppend
  <2>2. \A i \in 0..n : b(i) \in Nat
    BY <1>1, BehindType
  <2>. QED  BY <2>1, <2>2
<1>4. c(n + 1) = 0
  BY BehindAppend
<1>5. /\ \A i \in 1..n : Said(ctx[i]) => b(i) < m /\ Whole(ctx[i]) = log[m - b(i)]
      /\ \A i \in 1..n : ctx[i] = Summary => i = 1
      /\ b(0) = m \/ (ctx # <<>> /\ ctx[1] = Summary)
  BY RecallsParts
<1>6. x # Summary
  BY HookMessages DEF Said
<1>7. ctx # <<>> => 1 \in 1..n
  BY <1>1, EmptySeq
<1>. HIDE DEF n, m, new, end, b, c
<1>8. \A i : i \in 1..(n + 1) <=> i \in 1..n \/ i = n + 1
  BY <1>1
<1>9. ASSUME NEW i \in 1..(n + 1), Said(new[i])
      PROVE  c(i) < m + 1 /\ Whole(new[i]) = end[(m + 1) - c(i)]
  <2>1. CASE i \in 1..n
    <3>1. i \in 0..n /\ new[i] = ctx[i]
      BY <1>1, <2>1
    <3>2. c(i) = b(i) + 1 /\ b(i) \in Nat /\ b(i) < m /\ Whole(ctx[i]) = log[m - b(i)]
      BY <1>3, <1>5, <1>9, <2>1, <3>1
    <3>3. c(i) < m + 1 /\ (m + 1) - c(i) = m - b(i) /\ m - b(i) \in 1..m
      BY <1>2, <3>2
    <3>. QED  BY <1>2, <3>1, <3>2, <3>3
  <2>2. CASE i = n + 1
    <3>1. c(i) = 0 /\ new[i] = x
      BY <1>1, <1>4, <2>2
    <3>2. c(i) < m + 1 /\ (m + 1) - c(i) = m + 1
      BY <1>2, <3>1
    <3>. QED  BY <1>2, <3>1, <3>2
  <2>. QED  BY <1>8, <2>1, <2>2
<1>10. ASSUME NEW i \in 1..(n + 1), new[i] = Summary PROVE i = 1
  <2>1. i \in 1..n
    BY <1>1, <1>6, <1>8, <1>10
  <2>. QED  BY <1>1, <1>5, <1>10, <2>1
<1>11. c(0) = m + 1 \/ new[1] = Summary
  <2>1. 0 \in 0..n
    BY <1>1
  <2>. QED  BY <1>1, <1>3, <1>5, <1>7, <2>1
<1>12. Recalls(new, end)
  <2>1. Len(end) = m + 1 /\ Len(new) = n + 1 /\ new \in Seq(Message) /\ new # <<>>
    BY <1>1, <1>2
  <2>2. \A i \in 1..Len(new) :
          Said(new[i]) => /\ Cardinality(Behind(new, i)) < Len(end)
                          /\ Whole(new[i]) = end[Len(end) - Cardinality(Behind(new, i))]
    BY <1>9, <2>1 DEF c
  <2>3. \A i \in 1..Len(new) : new[i] = Summary => i = 1
    BY <1>10, <2>1
  <2>4. Cardinality(Behind(new, 0)) = Len(end) \/ (new # <<>> /\ new[1] = Summary)
    BY <1>11, <2>1 DEF c
  <2>. QED  BY <2>1, <2>2, <2>3, <2>4, RecallsParts
<1>. QED  BY <1>12 DEF new, end

\* A remark behind a context takes nothing from what it recalls.
LEMMA RecallsRemark ==
  ASSUME NEW ctx \in Seq(Message), NEW log \in Seq(Message), Recalls(ctx, log)
  PROVE  Recalls(Append(ctx, Remark), log)
<1>. DEFINE n == Len(ctx)  new == Append(ctx, Remark)
            b(i) == Cardinality(Behind(ctx, i))  c(i) == Cardinality(Behind(new, i))
<1>0. Remark \in Message /\ ~Said(Remark) /\ Remark # Summary
  BY HookMessages DEF Said
<1>1. /\ n \in Nat /\ Len(new) = n + 1 /\ new[n + 1] = Remark
      /\ \A j \in 1..n : new[j] = ctx[j]
      /\ new \in Seq(Message) /\ new # <<>>
  BY <1>0, LenProperties, AppendProperties
<1>2. \A i \in 0..n : c(i) = b(i)
  <2>1. \A i \in 0..n : b(i) \in Nat
    BY <1>1, BehindType
  <2>2. \A i \in 0..n : c(i) = b(i) + 0
    BY <1>0, BehindAppend
  <2>. HIDE DEF b, c, n
  <2>. QED  BY <2>1, <2>2
<1>3. /\ \A i \in 1..n : Said(ctx[i]) => b(i) < Len(log) /\ Whole(ctx[i]) = log[Len(log) - b(i)]
      /\ \A i \in 1..n : ctx[i] = Summary => i = 1
      /\ b(0) = Len(log) \/ (ctx # <<>> /\ ctx[1] = Summary)
  BY RecallsParts
<1>4. ctx # <<>> => 1 \in 1..n
  BY <1>1, EmptySeq
<1>. HIDE DEF n, new, b, c
<1>5. \A i : i \in 1..(n + 1) <=> i \in 1..n \/ i = n + 1
  BY <1>1
<1>6. \A i \in 1..n : i \in 0..n
  BY <1>1
<1>7. ASSUME NEW i \in 1..(n + 1), Said(new[i])
      PROVE  c(i) < Len(log) /\ Whole(new[i]) = log[Len(log) - c(i)]
  BY <1>0, <1>1, <1>2, <1>3, <1>5, <1>6, <1>7
<1>8. ASSUME NEW i \in 1..(n + 1), new[i] = Summary PROVE i = 1
  BY <1>0, <1>1, <1>3, <1>5, <1>8
<1>9. c(0) = Len(log) \/ new[1] = Summary
  <2>1. 0 \in 0..n
    BY <1>1
  <2>. QED  BY <1>1, <1>2, <1>3, <1>4, <2>1
<1>10. Recalls(new, log)
  <2>1. Len(new) = n + 1 /\ new \in Seq(Message) /\ new # <<>>
    BY <1>1
  <2>2. \A i \in 1..Len(new) :
          Said(new[i]) => /\ Cardinality(Behind(new, i)) < Len(log)
                          /\ Whole(new[i]) = log[Len(log) - Cardinality(Behind(new, i))]
    BY <1>7, <2>1 DEF c
  <2>3. \A i \in 1..Len(new) : new[i] = Summary => i = 1
    BY <1>8, <2>1
  <2>4. Cardinality(Behind(new, 0)) = Len(log) \/ (new # <<>> /\ new[1] = Summary)
    BY <1>9, <2>1 DEF c
  <2>. QED  BY <2>1, <2>2, <2>3, <2>4, RecallsParts
<1>. QED  BY <1>10 DEF new

\* Shortened results are recalled as the results they were.
LEMMA RecallsShort ==
  ASSUME NEW ctx \in Seq(Message), NEW log, Recalls(ctx, log)
  PROVE  Recalls(Shortened(ctx), log)
<1>. DEFINE n == Len(ctx)  new == Shortened(ctx)
<1>1. /\ n \in Nat /\ new \in Seq(Message) /\ Len(new) = n
      /\ \A i \in 1..n : Alike(new[i], ctx[i])
  BY Shortening, LenProperties
<1>2. ctx # <<>> => new # <<>> /\ 1 \in 1..n
  BY <1>1, EmptySeq
<1>. HIDE DEF n, new
<1>3. ASSUME NEW i \in 1..n
      PROVE  /\ Said(new[i]) <=> Said(ctx[i])
             /\ Whole(new[i]) = Whole(ctx[i])
             /\ new[i] = Summary <=> ctx[i] = Summary
  <2>1. Alike(new[i], ctx[i])
    BY <1>1
  <2>2. new[i].role = ctx[i].role /\ Whole(new[i]) = Whole(ctx[i])
    BY <2>1 DEF Alike
  <2>3. ctx[i].role # "toolResult" => new[i] = ctx[i]
    BY <2>1 DEF Alike
  <2>4. new[i] = Summary <=> ctx[i] = Summary
    BY <2>2, <2>3, HookMessages
  <2>. QED  BY <2>2, <2>4 DEF Said
<1>4. ASSUME NEW i \in 0..n PROVE Behind(new, i) = Behind(ctx, i)
  <2>1. (i + 1)..n \subseteq 1..n
    BY <1>1
  <2>. QED  BY <1>1, <1>3, <2>1 DEF Behind, n
<1>5. /\ \A i \in 1..n : Said(ctx[i]) => /\ Cardinality(Behind(ctx, i)) < Len(log)
                                         /\ Whole(ctx[i]) = log[Len(log) - Cardinality(Behind(ctx, i))]
      /\ \A i \in 1..n : ctx[i] = Summary => i = 1
      /\ Cardinality(Behind(ctx, 0)) = Len(log) \/ (ctx # <<>> /\ ctx[1] = Summary)
  BY RecallsParts DEF n
<1>6. 0 \in 0..n /\ \A i \in 1..n : i \in 0..n
  BY <1>1
<1>7. \A i \in 1..n : Said(new[i]) => /\ Cardinality(Behind(new, i)) < Len(log)
                                      /\ Whole(new[i]) = log[Len(log) - Cardinality(Behind(new, i))]
  BY <1>3, <1>4, <1>5, <1>6
<1>8. \A i \in 1..n : new[i] = Summary => i = 1
  BY <1>3, <1>5
<1>9. Cardinality(Behind(new, 0)) = Len(log) \/ (new # <<>> /\ new[1] = Summary)
  BY <1>2, <1>3, <1>4, <1>5, <1>6
<1>. QED  BY <1>1, <1>7, <1>8, <1>9, RecallsParts DEF new

\* A fold leaves as much behind each message it keeps.
LEMMA BehindFolded ==
  ASSUME NEW ctx \in Seq(Message), NEW k \in 2..Len(ctx), NEW i \in 1..(Len(ctx) - k + 1)
  PROVE  Cardinality(Behind(Folded(ctx, k), i)) = Cardinality(Behind(ctx, i + k - 1))
<1>. DEFINE n == Len(ctx)  new == Folded(ctx, k)  d == k - 1
            B == Behind(new, i)  C == Behind(ctx, i + k - 1)
<1>1. /\ n \in Nat /\ d \in Nat /\ d < n /\ i \in 1..(n - d) /\ n - k + 1 = n - d
      /\ i + k - 1 = i + d /\ i + k - 1 \in Nat /\ i \in Nat
  BY LenProperties
<1>2. new \in Seq(Message) /\ Len(new) = n - d
  BY <1>1, Folding
<1>3. \A j \in 2..(n - d) : new[j] = ctx[j + d]
  <2>1. \A j \in 2..(n - k + 1) : new[j] = ctx[j + k - 1]
    BY Folding
  <2>2. \A j \in 2..(n - d) : j + k - 1 = j + d
    BY <1>1
  <2>. QED  BY <1>1, <2>1, <2>2
<1>4. IsFiniteSet(B)
  BY <1>1, <1>2, BehindType
<1>5. B = {j \in (i + 1)..(n - d) : Said(ctx[j + d])} /\ C = {j \in (i + d + 1)..n : Said(ctx[j])}
  <2>1. \A j \in (i + 1)..(n - d) : j \in 2..(n - d)
    BY <1>1
  <2>2. B = {j \in (i + 1)..(n - d) : Said(new[j])}
    BY <1>2 DEF Behind
  <2>3. C = {j \in (i + d + 1)..n : Said(ctx[j])}
    BY <1>1 DEF Behind
  <2>. HIDE DEF B, C, new, n, d
  <2>. QED  BY <1>3, <2>1, <2>2, <2>3
<1>. DEFINE f == [j \in B |-> j + d]
<1>. HIDE DEF n, new, d, B, C
<1>6. f \in [B -> C]
  <2>1. \A j \in (i + 1)..(n - d) : j + d \in (i + d + 1)..n
    BY <1>1
  <2>. QED  BY <1>5, <2>1
<1>7. \A x, y \in B : f[x] = f[y] => x = y
  <2>1. \A x, y \in (i + 1)..(n - d) : x + d = y + d => x = y
    BY <1>1
  <2>. QED  BY <1>5, <2>1
<1>8. \A z \in C : \E x \in B : f[x] = z
  <2>. SUFFICES ASSUME NEW z \in C PROVE z - d \in B /\ f[z - d] = z
    OBVIOUS
  <2>1. z \in (i + d + 1)..n /\ Said(ctx[z])
    BY <1>5
  <2>2. z - d \in (i + 1)..(n - d) /\ (z - d) + d = z
    BY <1>1, <2>1
  <2>. QED  BY <1>5, <2>1, <2>2
<1>9. ExistsBijection(B, C)
  <2>. HIDE DEF f
  <2>. QED  BY <1>6, <1>7, <1>8 DEF ExistsBijection, Bijection, Injection, Surjection, IsInjective
<1>. QED  BY <1>4, <1>9, FS_Bijection DEF B, C, new

\* A folded context recalls what its summary did not take.
LEMMA RecallsFolded ==
  ASSUME NEW ctx \in Seq(Message), NEW log, NEW k \in 2..Len(ctx), Recalls(ctx, log)
  PROVE  Recalls(Folded(ctx, k), log)
<1>. DEFINE n == Len(ctx)  m == n - k + 1  new == Folded(ctx, k)
<1>1. n \in Nat /\ m \in Nat \ {0}
  BY LenProperties
<1>2. /\ new \in Seq(Message) /\ Len(new) = m /\ new[1] = Summary /\ new # <<>>
      /\ \A i \in 2..m : new[i] = ctx[i + k - 1]
  <2>1. /\ new \in Seq(Message) /\ Len(new) = m /\ new[1] = Summary
        /\ \A i \in 2..m : new[i] = ctx[i + k - 1]
    BY Folding
  <2>. QED  BY <1>1, <2>1, EmptySeq
<1>3. \A i \in 1..m : Cardinality(Behind(new, i)) = Cardinality(Behind(ctx, i + k - 1))
  BY BehindFolded
<1>4. /\ \A i \in 1..n : Said(ctx[i]) => /\ Cardinality(Behind(ctx, i)) < Len(log)
                                         /\ Whole(ctx[i]) = log[Len(log) - Cardinality(Behind(ctx, i))]
      /\ \A i \in 1..n : ctx[i] = Summary => i = 1
  BY RecallsParts
<1>5. \A i \in 2..m : i + k - 1 \in 1..n /\ i + k - 1 # 1 /\ i \in 1..m
  BY <1>1
<1>6. ~Said(Summary)
  BY HookMessages DEF Said
<1>. HIDE DEF n, new, m
<1>7. \A i \in 1..m : i = 1 \/ i \in 2..m
  BY <1>1
<1>8. ASSUME NEW i \in 1..m, Said(new[i])
      PROVE  /\ Cardinality(Behind(new, i)) < Len(log)
             /\ Whole(new[i]) = log[Len(log) - Cardinality(Behind(new, i))]
  <2>1. i \in 2..m
    BY <1>2, <1>6, <1>7, <1>8
  <2>. QED  BY <1>2, <1>3, <1>4, <1>5, <1>8, <2>1
<1>9. ASSUME NEW i \in 1..m, new[i] = Summary PROVE i = 1
  <2>1. ASSUME i \in 2..m PROVE FALSE
    BY <1>2, <1>4, <1>5, <1>9, <2>1
  <2>. QED  BY <1>7, <2>1
<1>. QED  BY <1>2, <1>8, <1>9, RecallsParts DEF new

\* What the chain of hooks makes of a context recalls what the context did.
LEMMA RecallsRewritten ==
  ASSUME NEW ctx \in Seq(Message), NEW log \in Seq(Message), Recalls(ctx, log),
         NEW new \in Rewrites(ctx)
  PROVE  Recalls(new, log)
<1>. DEFINE s == Shortened(ctx)
<1>1. s \in Seq(Message) /\ Recalls(s, log)
  BY Shortening, RecallsShort
<1>2. PICK folded \in Seq(Message) :
        /\ folded = s \/ \E k \in Cuts(s) : folded = Folded(s, k)
        /\ new = folded \/ new = Append(folded, Remark)
  BY Rewriting
<1>. HIDE DEF s
<1>3. Recalls(folded, log)
  <2>1. ASSUME NEW k \in Cuts(s), folded = Folded(s, k) PROVE Recalls(folded, log)
    <3>1. k \in 2..Len(s)
      BY DEF Cuts
    <3>. QED  BY <1>1, <2>1, <3>1, RecallsFolded
  <2>. QED  BY <1>1, <1>2, <2>1
<1>. QED  BY <1>2, <1>3, RecallsRemark

\* A log in which all is said, and in full, recalls itself.
LEMMA RecallsItself ==
  ASSUME NEW log \in Seq(Message), \A i \in 1..Len(log) : Said(log[i]) /\ Whole(log[i]) = log[i]
  PROVE  Recalls(log, log)
<1>. DEFINE n == Len(log)
<1>1. n \in Nat
  BY LenProperties
<1>2. ASSUME NEW i \in 0..n PROVE Cardinality(Behind(log, i)) = n - i
  <2>1. \A j \in (i + 1)..n : j \in 1..n
    BY <1>1
  <2>2. Behind(log, i) = (i + 1)..n
    BY <2>1 DEF Behind
  <2>. HIDE DEF n
  <2>3. Cardinality((i + 1)..n) = IF i + 1 > n THEN 0 ELSE n - (i + 1) + 1
    <3>1. i + 1 \in Int /\ n \in Int
      BY <1>1
    <3>. QED  BY <3>1, FS_Interval
  <2>4. (IF i + 1 > n THEN 0 ELSE n - (i + 1) + 1) = n - i
    BY <1>1
  <2>. QED  BY <2>2, <2>3, <2>4
<1>3. ASSUME NEW i \in 1..n
      PROVE  /\ Cardinality(Behind(log, i)) < n
             /\ Whole(log[i]) = log[n - Cardinality(Behind(log, i))]
  <2>1. i \in 0..n /\ n - i < n /\ n - (n - i) = i
    BY <1>1
  <2>2. Cardinality(Behind(log, i)) = n - i
    BY <1>2, <2>1
  <2>. QED  BY <1>3, <2>1, <2>2
<1>4. Cardinality(Behind(log, 0)) = n
  BY <1>1, <1>2
<1>5. ASSUME NEW i \in 1..n PROVE log[i] # Summary
  <2>1. Said(log[i])
    OBVIOUS
  <2>. QED  BY <2>1, HookMessages DEF Said
<1>. QED  BY <1>3, <1>4, <1>5, RecallsParts

-----------------------------------------------------------------------------
(***************************************************************************)
(* The three accounts of the conversation                                  *)
(***************************************************************************)

\* The context without the reply that is still streaming.
Stem == IF partial THEN SubSeq(context, 1, Len(context) - 1) ELSE context

\* A reply is complete and its batch, if any, not yet committed.
HasReply == pc = "replied" \/ InBatch

\* The reply of the turn is the last message of the context and of new_messages
\* until its results are committed; only a batch has outcomes, those of a
\* truncated one failures.
ReplyInv ==
  /\ HasReply => /\ context # <<>> /\ context[Len(context)] = reply
                 /\ newMessages # <<>> /\ newMessages[Len(newMessages)] = reply
                 /\ reply.turn = turns
  /\ InBatch => (mode = "truncated" <=> reply.stop = "length")
  /\ ~InBatch \/ mode = "truncated" => \A c \in Calls : outcome[c] = Failure

\* The stem is a log.
LEMMA StemType ==
  ASSUME Inv
  PROVE  Stem \in Seq(Message)
<1>1. context \in Seq(Message) /\ partial \in BOOLEAN /\ (partial => context # <<>>)
  BY DEF Inv, TypeOK, LogTypeOK, TurnTypeOK, TurnInv
<1>2. Len(context) \in Nat /\ \A i \in 1..Len(context) : context[i] \in Message
  BY <1>1, LenProperties, ElementOfSeq
<1>3. CASE partial
  <2>1. \A i \in 1..(Len(context) - 1) : context[i] \in Message
    BY <1>2
  <2>2. SubSeq(context, 1, Len(context) - 1) \in Seq(Message)
    BY <1>2, <2>1, SubSeqProperties
  <2>. QED  BY <1>3, <2>2 DEF Stem
<1>. QED  BY <1>1, <1>3 DEF Stem

\* A reply takes the place of the partial one behind the stem.
LEMMA ReplyBehindStem ==
  ASSUME Inv, NEW r \in Message
  PROVE  WithReply(r) = Append(Stem, r)
<1>1. context \in Seq(Message) /\ (partial => context # <<>>)
  BY DEF Inv, TypeOK, LogTypeOK, TurnInv
<1>2. CASE ~partial
  BY <1>2 DEF WithReply, Stem
<1>3. CASE partial
  <2>. DEFINE n == Len(context)  s == SubSeq(context, 1, n - 1)
  <2>1. n \in Nat \ {0} /\ \A i \in 1..n : context[i] \in Message
    BY <1>1, <1>3, EmptySeq, ElementOfSeq
  <2>2. s \in Seq(Message) /\ Len(s) = n - 1 /\ \A i \in 1..(n - 1) : s[i] = context[i]
    <3>1. \A i \in 1..(n - 1) : context[i] \in Message
      BY <2>1
    <3>2. /\ s \in Seq(Message)
          /\ Len(s) = IF 1 <= n - 1 THEN n - 1 - 1 + 1 ELSE 0
          /\ \A i \in 1..(n - 1 - 1 + 1) : s[i] = context[1 + i - 1]
      BY <2>1, <3>1, SubSeqProperties
    <3>. HIDE DEF s, n
    <3>. QED  BY <2>1, <3>2
  <2>3. /\ [context EXCEPT ![n] = r] \in Seq(Message) /\ Len([context EXCEPT ![n] = r]) = n
        /\ \A j \in 1..n : [context EXCEPT ![n] = r][j] = IF j = n THEN r ELSE context[j]
    BY <1>1, <2>1, ExceptSeq
  <2>. HIDE DEF s
  <2>4. /\ Append(s, r) \in Seq(Message) /\ Len(Append(s, r)) = n
        /\ \A j \in 1..(n - 1) : Append(s, r)[j] = context[j]
        /\ Append(s, r)[n] = r
    BY <2>1, <2>2, AppendProperties
  <2>. DEFINE u == [context EXCEPT ![n] = r]  v == Append(s, r)
  <2>5. ASSUME NEW j \in 1..n PROVE u[j] = v[j]
    <3>1. u[j] = IF j = n THEN r ELSE context[j]
      BY <2>3
    <3>2. CASE j = n
      BY <2>4, <3>1, <3>2
    <3>3. CASE j # n
      <4>1. j \in 1..(n - 1)
        BY <2>1, <3>3
      <4>. QED  BY <2>4, <3>1, <3>3, <4>1
    <3>. QED  BY <3>2, <3>3
  <2>. HIDE DEF u, v
  <2>6. u = v
    BY <2>3, <2>4, <2>5, SeqEqual DEF u, v
  <2>. QED  BY <1>3, <2>6 DEF WithReply, Stem, s, u, v
<1>. QED  BY <1>2, <1>3

\* The first e results of turn t, by their outcomes.
ResultsOf(t, e, oc) == [c \in 1..e |-> ToolResult(t, c, oc[c].error)]

\* The first none of them are none.
LEMMA NoResults ==
  ASSUME NEW t, NEW oc
  PROVE  ResultsOf(t, 0, oc) = <<>>
<1>. DEFINE R == ResultsOf(t, 0, oc)
            S == {ToolResult(t, c, oc[c].error) : c \in 1..0}
<1>1. R \in Seq(S)
  <2>1. \A c \in 1..0 : ToolResult(t, c, oc[c].error) \in S
    OBVIOUS
  <2>. HIDE DEF S
  <2>2. [c \in 1..0 |-> ToolResult(t, c, oc[c].error)] \in Seq(S)
    BY <2>1, IsASeq
  <2>. QED  BY <2>2 DEF ResultsOf
<1>2. DOMAIN R = 1..0
  BY DEF ResultsOf
<1>. HIDE DEF R
<1>3. Len(R) \in Nat /\ DOMAIN R = 1..Len(R)
  BY <1>1, LenProperties
<1>. QED  BY <1>1, <1>2, <1>3, EmptySeq DEF R

\* They are a log of as many messages.
LEMMA ResultsType ==
  ASSUME NEW t \in 0..MaxTurns, NEW e \in 0..MaxCalls, NEW oc \in [Calls -> Outcome]
  PROVE  /\ ResultsOf(t, e, oc) \in Seq(Message) /\ Len(ResultsOf(t, e, oc)) = e
         /\ \A c \in 1..e : ResultsOf(t, e, oc)[c] = ToolResult(t, c, oc[c].error)
<1>1. e \in Nat /\ MaxCalls \in Nat
  BY AgentLoopAssumption
<1>2. \A c \in 1..e : ToolResult(t, c, oc[c].error) \in Message
  <2>. SUFFICES ASSUME NEW c \in 1..e PROVE ToolResult(t, c, oc[c].error) \in Message
    OBVIOUS
  <2>1. c \in Calls /\ oc[c].error \in BOOLEAN
    BY <1>1 DEF Calls, Outcome
  <2>. QED  BY <2>1, MessageTypes
<1>3. [c \in 1..e |-> ToolResult(t, c, oc[c].error)] \in Seq(Message)
  BY <1>1, <1>2, IsASeq
<1>. QED  BY <1>1, <1>3, LenProperties DEF ResultsOf

\* What they are made of, before and after a step.
LEMMA ResultsParts ==
  ASSUME Inv
  PROVE  /\ Results = ResultsOf(turns, emitted, outcome)
         /\ turns \in 0..MaxTurns /\ emitted \in 0..MaxCalls /\ outcome \in [Calls -> Outcome]
         /\ emitted \in Nat
BY AgentLoopAssumption DEF Results, ResultsOf, Inv, TypeOK, TurnTypeOK, BatchTypeOK

\* Announcing the next result appends it to the results.
LEMMA ResultsGrow ==
  ASSUME Inv, Inv', NEW o \in Outcome, Announces(o), UNCHANGED turns
  PROVE  Results' = Append(Results, ToolResult(turns, emitted + 1, o.error))
<1>. DEFINE x == ToolResult(turns, emitted + 1, o.error)  n == emitted
<1>0. n \in Nat /\ emitted' = n + 1
  BY ResultsParts DEF Announces, EmitResult
<1>1. /\ Results \in Seq(Message) /\ Len(Results) = n
      /\ \A c \in 1..n : Results[c] = ToolResult(turns, c, outcome[c].error)
  BY ResultsParts, ResultsType
<1>2. /\ Results' \in Seq(Message) /\ Len(Results') = n + 1
      /\ \A c \in 1..(n + 1) : Results'[c] = ToolResult(turns, c, outcome'[c].error)
  <2>1. /\ Results' = ResultsOf(turns, n + 1, outcome')
        /\ turns \in 0..MaxTurns /\ n + 1 \in 0..MaxCalls /\ outcome' \in [Calls -> Outcome]
    BY <1>0 DEF Results, ResultsOf, Inv, TypeOK, TurnTypeOK, BatchTypeOK
  <2>. QED  BY <2>1, ResultsType
<1>3. x \in Message
  BY ResultsAreMessages DEF Announces
<1>4. /\ Append(Results, x) \in Seq(Message) /\ Len(Append(Results, x)) = n + 1
      /\ \A c \in 1..n : Append(Results, x)[c] = Results[c]
      /\ Append(Results, x)[n + 1] = x
  BY <1>1, <1>3, AppendProperties
<1>5. /\ outcome'[n + 1] = o /\ \A c \in 1..n : outcome'[c] = outcome[c]
  BY DEF Announces
<1>. DEFINE R == Append(Results, x)
<1>6. \A c \in 1..(n + 1) : Results'[c] = Append(Results, x)[c]
  <2>. SUFFICES ASSUME NEW c \in 1..(n + 1) PROVE Results'[c] = R[c]
    OBVIOUS
  <2>0. Results'[c] = ToolResult(turns, c, outcome'[c].error)
    BY <1>2
  <2>1. CASE c \in 1..n
    <3>1. R[c] = ToolResult(turns, c, outcome[c].error)
      BY <1>1, <1>4, <2>1
    <3>. QED  BY <1>5, <2>0, <2>1, <3>1
  <2>2. CASE c = n + 1
    BY <1>4, <1>5, <2>0, <2>2
  <2>3. c \in 1..n \/ c = n + 1
    BY <1>0
  <2>. QED  BY <2>1, <2>2, <2>3
<1>. QED  BY <1>2, <1>4, <1>6, SeqEqual

\* A step that announces nothing leaves the results.
LEMMA ResultsStay ==
  ASSUME Inv, KeepsAnnounced, UNCHANGED turns
  PROVE  Results' = Results
<1>1. \A c \in 1..emitted : ToolResult(turns, c, outcome'[c].error) = ToolResult(turns, c, outcome[c].error)
  BY DEF KeepsAnnounced
<1>. QED  BY <1>1 DEF Results, KeepsAnnounced

\* One log is the end of another.
Ends(log, end) == \E p \in Seq(Message) : log = p \o end

\* The transcript ends with what the run has said, and the context recalls it,
\* the results of the batch included that are announced and not yet committed;
\* with no context replaced the two are the same.  Before its run the loop has
\* only what users said.
AccountsInv ==
  /\ Ends(transcript, newMessages \o Results)
  /\ pc # "idle" => Recalls(Stem \o Results, transcript)
  /\ pc # "idle" /\ rewrites = 0 => transcript = Stem \o Results
  /\ pc = "idle" => \A i \in 1..Len(transcript) : transcript[i].role = "user"

\* Appending the same message to both keeps it.
LEMMA EndsAppend ==
  ASSUME NEW t \in Seq(Message), NEW e \in Seq(Message), NEW x \in Message, Ends(t, e)
  PROVE  Ends(Append(t, x), Append(e, x))
<1>1. PICK p \in Seq(Message) : t = p \o e
  BY DEF Ends
<1>2. <<x>> \in Seq(Message) /\ Append(t, x) = t \o <<x>> /\ Append(e, x) = e \o <<x>>
  BY AppendIsConcat
<1>3. (p \o e) \o <<x>> = p \o (e \o <<x>>)
  BY <1>2, ConcatAssociative, SMTT(30), ZenonT(30)
<1>. QED  BY <1>1, <1>2, <1>3 DEF Ends

\* Appending behind a concatenation is appending to its second part.
LEMMA AppendBehind ==
  ASSUME NEW a \in Seq(Message), NEW b \in Seq(Message), NEW x \in Message
  PROVE  Append(a \o b, x) = a \o Append(b, x)
<1>1. <<x>> \in Seq(Message) /\ a \o b \in Seq(Message)
  BY ConcatProperties
<1>2. Append(a \o b, x) = (a \o b) \o <<x>> /\ Append(b, x) = b \o <<x>>
  BY <1>1, AppendIsConcat
<1>. QED  BY <1>1, <1>2, ConcatAssociative

\* An end in the sense of the property.
LEMMA EndsIsSuffix ==
  ASSUME NEW t \in Seq(Message), NEW e \in Seq(Message), Ends(t, e)
  PROVE  EndsWith(t, e)
<1>1. PICK p \in Seq(Message) : t = p \o e
  BY DEF Ends
<1>2. Len(p) \in Nat /\ Len(e) \in Nat /\ Len(t) = Len(p) + Len(e)
  BY <1>1, LenProperties, ConcatProperties
<1>3. \A i \in 1..Len(t) : t[i] = IF i <= Len(p) THEN p[i] ELSE e[i - Len(p)]
  BY <1>1, <1>2, ConcatProperties
<1>. DEFINE k == Len(t) - Len(e) + 1  s == SubSeq(t, k, Len(t))
<1>4. \A i \in k..Len(t) : t[i] \in Message
  BY <1>2, ElementOfSeq
<1>5. /\ s \in Seq(Message)
      /\ Len(s) = IF k <= Len(t) THEN Len(t) - k + 1 ELSE 0
      /\ \A i \in 1..(Len(t) - k + 1) : s[i] = t[k + i - 1]
  BY <1>2, <1>4, SubSeqProperties
<1>. HIDE DEF s
<1>6. Len(s) = Len(e)
  BY <1>2, <1>5
<1>7. ASSUME NEW i \in 1..Len(e) PROVE s[i] = e[i]
  <2>0. i \in 1..(Len(t) - k + 1)
    BY <1>2
  <2>1. s[i] = t[k + i - 1]
    <3>. HIDE DEF k
    <3>. QED  BY <1>5, <2>0
  <2>2. k + i - 1 \in 1..Len(t) /\ ~(k + i - 1 <= Len(p)) /\ k + i - 1 - Len(p) = i
    BY <1>2
  <2>. QED  BY <1>3, <2>1, <2>2, SMTT(30), ZenonT(30)
<1>8. s = e
  BY <1>5, <1>6, <1>7, SeqEqual
<1>. QED  BY <1>2, <1>8 DEF EndsWith, s

\* What the three accounts are made of.
LEMMA LogParts ==
  ASSUME Inv
  PROVE  /\ context \in Seq(Message) /\ newMessages \in Seq(Message)
         /\ transcript \in Seq(Message) /\ Stem \in Seq(Message) /\ Results \in Seq(Message)
BY StemType, ResultsParts, ResultsType DEF Inv, TypeOK, LogTypeOK

\* A message that the run says while no result is announced joins all three.
LEMMA SayAccounts ==
  ASSUME Inv, AccountsInv, NEW x \in Message, Said(x), Whole(x) = x,
         pc # "idle", pc' # "idle", emitted = 0, emitted' = 0,
         transcript' = Append(transcript, x), newMessages' = Append(newMessages, x),
         Stem' = Append(Stem, x), UNCHANGED rewrites
  PROVE  AccountsInv'
<1>0. /\ context \in Seq(Message) /\ newMessages \in Seq(Message)
      /\ transcript \in Seq(Message) /\ Stem \in Seq(Message)
  BY LogParts
<1>1. Results = <<>> /\ Results' = <<>>
  BY NoResults DEF Results, ResultsOf
<1>2. /\ Ends(transcript, newMessages) /\ Recalls(Stem, transcript)
      /\ rewrites = 0 => transcript = Stem
  BY <1>0, <1>1, ConcatEmptySeq DEF AccountsInv
<1>3. /\ Append(newMessages, x) \in Seq(Message) /\ Append(Stem, x) \in Seq(Message)
      /\ Append(newMessages, x) \o <<>> = Append(newMessages, x)
      /\ Append(Stem, x) \o <<>> = Append(Stem, x)
  BY <1>0, AppendProperties, ConcatEmptySeq
<1>4. Ends(Append(transcript, x), Append(newMessages, x)) /\ Recalls(Append(Stem, x), Append(transcript, x))
  BY <1>0, <1>2, EndsAppend, RecallsSaid
<1>5. /\ newMessages' \o Results' = Append(newMessages, x)
      /\ Stem' \o Results' = Append(Stem, x)
  BY <1>1, <1>3
<1>6. Ends(transcript', newMessages' \o Results') /\ Recalls(Stem' \o Results', transcript')
  BY <1>4, <1>5
<1>7. rewrites' = 0 => transcript' = Stem' \o Results'
  BY <1>2, <1>5
<1>. QED  BY <1>6, <1>7 DEF AccountsInv

\* A result that a batch announces joins the transcript and the results.
LEMMA AnnounceAccounts ==
  ASSUME Inv, AccountsInv, NEW x \in Message, Said(x), Whole(x) = x, pc # "idle", pc' # "idle",
         transcript' = Append(transcript, x), Results' = Append(Results, x),
         Stem' = Stem, UNCHANGED <<newMessages, rewrites>>
  PROVE  AccountsInv'
<1>0. /\ newMessages \in Seq(Message) /\ transcript \in Seq(Message)
      /\ Stem \in Seq(Message) /\ Results \in Seq(Message)
      /\ newMessages \o Results \in Seq(Message) /\ Stem \o Results \in Seq(Message)
  BY LogParts, ConcatProperties
<1>1. /\ newMessages' \o Results' = Append(newMessages \o Results, x)
      /\ Stem' \o Results' = Append(Stem \o Results, x)
  BY <1>0, AppendBehind, SMTT(30), ZenonT(30)
<1>2. /\ Ends(Append(transcript, x), Append(newMessages \o Results, x))
      /\ Recalls(Append(Stem \o Results, x), Append(transcript, x))
  BY <1>0, EndsAppend, RecallsSaid DEF AccountsInv
<1>3. rewrites = 0 => Append(transcript, x) = Append(Stem \o Results, x)
  BY DEF AccountsInv
<1>4. Ends(transcript', newMessages' \o Results') /\ Recalls(Stem' \o Results', transcript')
  BY <1>1, <1>2
<1>5. rewrites' = 0 => transcript' = Stem' \o Results'
  BY <1>1, <1>3
<1>. QED  BY <1>4, <1>5 DEF AccountsInv

\* Committing the batch moves its results into both accounts of the loop.
LEMMA CommitAccounts ==
  ASSUME Inv, AccountsInv, CommitBatch
  PROVE  AccountsInv'
<1>0. /\ newMessages \in Seq(Message) /\ transcript \in Seq(Message)
      /\ Stem \in Seq(Message) /\ Results \in Seq(Message)
      /\ newMessages \o Results \in Seq(Message) /\ Stem \o Results \in Seq(Message)
  BY LogParts, ConcatProperties
<1>1. /\ pc # "idle" /\ pc' # "idle" /\ ~partial /\ ~partial' /\ emitted' = 0
      /\ UNCHANGED <<transcript, rewrites>>
  BY DEF CommitBatch, Inv, TurnInv, replyVars, sinkVars
<1>2. Results' = <<>>
  BY <1>1, NoResults DEF Results, ResultsOf
<1>3. Stem' = Stem \o Results /\ newMessages' = newMessages \o Results
  BY <1>1 DEF Stem, CommitBatch
<1>4. newMessages' \o Results' = newMessages \o Results /\ Stem' \o Results' = Stem \o Results
  BY <1>0, <1>2, <1>3, ConcatEmptySeq
<1>. QED  BY <1>1, <1>4 DEF AccountsInv

\* A step that says nothing leaves the accounts.
LEMMA QuietAccounts ==
  ASSUME AccountsInv, pc' = "idle" => pc = "idle", pc = "idle" => pc' = "idle",
         Results' = Results, Stem' = Stem, UNCHANGED <<transcript, newMessages, rewrites>>
  PROVE  AccountsInv'
BY DEF AccountsInv

\* A context that hooks replaced still recalls the transcript.
LEMMA RewriteAccounts ==
  ASSUME Inv, AccountsInv, PrepareNextTurn
  PROVE  AccountsInv'
<1>0. /\ newMessages \in Seq(Message) /\ transcript \in Seq(Message)
      /\ context \in Seq(Message) /\ context' \in Seq(Message)
  BY LogParts, StepInv DEF Inv, TypeOK, LogTypeOK, Next, LoopStep, TurnStep
<1>1. /\ pc # "idle" /\ pc' # "idle" /\ ~partial /\ ~partial' /\ emitted = 0 /\ emitted' = 0
      /\ UNCHANGED <<transcript, newMessages>>
  BY DEF PrepareNextTurn, Inv, TurnInv, EmitInv, InBatch, replyVars, batchVars, sinkVars
<1>2. Results = <<>> /\ Results' = <<>>
  BY <1>1, NoResults DEF Results, ResultsOf
<1>3. Stem = context /\ Stem' = context'
  BY <1>1 DEF Stem
<1>4. /\ newMessages \o <<>> = newMessages /\ context \o <<>> = context
      /\ context' \o <<>> = context'
  BY <1>0, ConcatEmptySeq
<1>5. /\ Ends(transcript, newMessages) /\ Recalls(context, transcript)
      /\ rewrites = 0 => transcript = context
  BY <1>1, <1>2, <1>3, <1>4 DEF AccountsInv
<1>6. Recalls(context', transcript) /\ (rewrites' = 0 => context' = context /\ rewrites = 0)
  <2>1. CASE UNCHANGED <<context, rewrites>>
    BY <1>5, <2>1
  <2>2. CASE context' \in Rewrites(context) /\ rewrites' = rewrites + 1
    <3>1. Recalls(context', transcript)
      BY <1>0, <1>5, <2>2, RecallsRewritten
    <3>2. rewrites \in Nat
      BY AgentLoopAssumption DEF Inv, TypeOK, TurnTypeOK
    <3>. QED  BY <2>2, <3>1, <3>2
  <2>. QED  BY <2>1, <2>2 DEF PrepareNextTurn
<1>. QED  BY <1>1, <1>2, <1>3, <1>4, <1>5, <1>6 DEF AccountsInv

\* A run begins with the transcript and its prompts, all of them of users.
LEMMA StartAccounts ==
  ASSUME Inv, AccountsInv, Start
  PROVE  AccountsInv'
<1>0. /\ transcript \in Seq(Message) /\ <<>> \in Seq(Message)
      /\ \A i \in 1..Len(transcript) : transcript[i].role = "user"
  BY LogParts, EmptySeq DEF AccountsInv, Start
<1>1. ~partial' /\ emitted' = 0 /\ pc' # "idle"
  BY DEF Start, StartPrompt, StartContinue, BeginLoop, Inv, EmitInv, InBatch, batchVars
<1>2. Results' = <<>> /\ Stem' = context'
  BY <1>1, NoResults DEF Results, ResultsOf, Stem
<1>3. PICK prompts \in Seq(Message) :
        /\ context' = transcript \o prompts /\ newMessages' = prompts
        /\ transcript' = transcript \o prompts
        /\ \A i \in 1..Len(prompts) : prompts[i].role = "user"
  <2>1. ASSUME NEW m \in unsent, NEW skip, StartPrompt(transcript, <<User(m)>>, skip)
        PROVE  /\ <<User(m)>> \in Seq(Message)
               /\ context' = transcript \o <<User(m)>> /\ newMessages' = <<User(m)>>
               /\ transcript' = transcript \o <<User(m)>>
               /\ \A i \in 1..Len(<<User(m)>>) : <<User(m)>>[i].role = "user"
    <3>1. m \in UserMessages
      BY DEF Inv, TypeOK, LogTypeOK
    <3>2. <<User(m)>> \in Seq(Message)
      BY <3>1, MessageTypes
    <3>3. \A i \in 1..Len(<<User(m)>>) : <<User(m)>>[i].role = "user"
      BY DEF User
    <3>. QED  BY <2>1, <3>2, <3>3 DEF StartPrompt, BeginLoop
  <2>2. CASE StartContinue(transcript)
    <3>1. transcript \o <<>> = transcript /\ \A i \in 1..Len(<<>>) : <<>>[i].role = "user"
      BY <1>0, ConcatEmptySeq, EmptySeq
    <3>. QED  BY <1>0, <2>2, <3>1 DEF StartContinue, BeginLoop
  <2>. QED  BY <2>1, <2>2 DEF Start
<1>4. /\ newMessages' \o Results' = prompts
      /\ context' \in Seq(Message) /\ Stem' \o Results' = transcript'
      /\ <<>> \o transcript' = transcript' /\ transcript' \in Seq(Message)
  <2>1. transcript \o prompts \in Seq(Message)
    BY <1>0, ConcatProperties
  <2>2. prompts \o <<>> = prompts /\ context' \o <<>> = context' /\ <<>> \o context' = context'
    BY <1>3, <2>1, ConcatEmptySeq
  <2>. QED  BY <1>2, <1>3, <2>1, <2>2
<1>5. Ends(transcript', newMessages' \o Results')
  BY <1>0, <1>3, <1>4 DEF Ends
<1>6. ASSUME NEW i \in 1..Len(transcript')
      PROVE  Said(transcript'[i]) /\ Whole(transcript'[i]) = transcript'[i]
  <2>1. transcript'[i].role = "user"
    <3>. DEFINE n == Len(transcript)  m == Len(prompts)  t == transcript \o prompts
    <3>1. /\ n \in Nat /\ m \in Nat /\ Len(t) = n + m
          /\ \A j \in 1..(n + m) : t[j] = IF j <= n THEN transcript[j] ELSE prompts[j - n]
      BY <1>0, <1>3, LenProperties, ConcatProperties
    <3>2. \A j \in 1..m : prompts[j].role = "user"
      BY <1>3
    <3>3. \A j \in 1..n : transcript[j].role = "user"
      BY <1>0
    <3>4. i \in 1..Len(t) /\ transcript' = t
      BY <1>3
    <3>. HIDE DEF n, m, t
    <3>5. t[i].role = "user"
      <4>1. CASE i <= n
        BY <3>1, <3>3, <3>4, <4>1
      <4>2. CASE ~(i <= n)
        <5>1. i - n \in 1..m /\ i \in 1..(n + m)
          BY <3>1, <3>4, <4>2
        <5>. QED  BY <3>1, <3>2, <4>2, <5>1
      <4>. QED  BY <4>1, <4>2
    <3>. QED  BY <3>4, <3>5
  <2>. QED  BY <2>1 DEF Said, Whole
<1>7. Recalls(Stem' \o Results', transcript')
  BY <1>4, <1>6, RecallsItself
<1>. QED  BY <1>1, <1>4, <1>5, <1>7 DEF AccountsInv

\* Every step keeps the reply of the turn and its outcomes.
LEMMA ReplyStep ==
  ASSUME Inv, ReplyInv, [Next]_vars
  PROVE  ReplyInv'
<1>. USE AgentLoopAssumption DEF InBatch, HasReply
<1>0. outcome \in [Calls -> Outcome]
  BY DEF Inv, TypeOK, BatchTypeOK
<1>1. ASSUME ~InBatch, ~HasReply', UNCHANGED outcome
      PROVE  ReplyInv'
  BY <1>1 DEF ReplyInv
<1>2. ASSUME UNCHANGED <<pc, context, newMessages, reply, turns, mode, outcome>>
      PROVE  ReplyInv'
  BY <1>2 DEF ReplyInv
<1>3. CASE Request \/ StreamDone
  <2>1. ~InBatch /\ UNCHANGED outcome
    BY <1>3 DEF Request, StreamDone, batchVars
  <2>2. ASSUME NEW r \in Reply, Replied(r), r \in Message, r.turn = turns'
        PROVE  ReplyInv'
    <3>1. /\ context' = Append(Stem, r) /\ newMessages' = Append(newMessages, r)
          /\ reply' = r /\ pc' = "replied"
      BY <2>2, ReplyBehindStem DEF Replied
    <3>2. context' # <<>> /\ context'[Len(context')] = r
      BY <2>2, <3>1, StemType, AppendProperties
    <3>3. newMessages \in Seq(Message)
      BY DEF Inv, TypeOK, LogTypeOK
    <3>4. newMessages' # <<>> /\ newMessages'[Len(newMessages')] = r
      BY <2>2, <3>1, <3>3, AppendProperties
    <3>. QED  BY <2>1, <2>2, <3>1, <3>2, <3>4 DEF ReplyInv
  <2>. QED  BY <1>1, <1>3, <2>1, <2>2, RepliesAreMessages
<1>4. CASE PollSteering \/ Inject \/ StreamStart \/ ErrorEnd \/ NoCalls \/ PrepareNextTurn
           \/ ShouldStop \/ PollFollowUp
  <2>1. ~InBatch /\ ~HasReply' /\ UNCHANGED outcome
    BY <1>4 DEF PollSteering, TurnOrFollowUp, Inject, StreamStart, ErrorEnd, NoCalls,
                PrepareNextTurn, ShouldStop, PollFollowUp, batchVars
  <2>. QED  BY <1>1, <2>1
<1>5. CASE StartBatch
  <2>1. /\ HasReply /\ ~InBatch /\ UNCHANGED <<context, newMessages, reply, turns, outcome>>
        /\ mode' = "truncated" <=> reply.stop = "length"
    BY <1>5 DEF StartBatch, logVars, replyVars
  <2>. QED  BY <2>1 DEF ReplyInv
<1>6. CASE CommitBatch
  BY <1>6 DEF CommitBatch, ReplyInv
<1>7. CASE (BatchStep /\ ~CommitBatch /\ ~StartBatch) \/ \E c \in Calls : ToolStep(c)
  <2>1. InBatch /\ UNCHANGED <<context, newMessages, reply, turns>>
    <3>1. ASSUME NEW c \in Calls, ToolStep(c) PROVE InBatch
      <4>1. slot[c] # "none"
        BY <3>1 DEF ToolStep, Execute, DeliverUpdate, Settle, FinishCall, Inv, CallsInv, TypeOK, BatchTypeOK
      <4>. QED  BY <4>1, SlotInBatch
    <3>. QED  BY <1>7, <3>1, BatchLeaves DEF BatchStep, StartCall, FailCall, Prepare, CheckCancel,
                 CollectBatch, EmitNext, EmitEnd
  <2>2. UNCHANGED mode
    BY <1>7 DEF BatchStep, StartCall, FailCall, Prepare, CheckCancel, CollectBatch,
                EmitNext, EmitEnd, ToolStep, Execute, DeliverUpdate, Settle, FinishCall, batchVars
  <2>3. pc' \in {"startCall", "prepare", "execute", "checkCancel", "parallel", "emit", "commit"}
    BY <1>7, <2>1 DEF BatchStep, StartCall, FailCall, Prepare, CheckCancel, CollectBatch, AfterBatch,
                EmitNext, EmitEnd, ToolStep, Execute, DeliverUpdate, Settle, FinishCall
  <2>4. mode = "truncated" => \A c \in Calls : outcome'[c] = outcome[c] \/ outcome'[c] = Failure
    <3>1. CASE FailCall
      <4>1. outcome' = [outcome EXCEPT ![next] = Failure]
        BY <3>1 DEF FailCall, Finish
      <4>. QED  BY <1>0, <4>1
    <3>2. ASSUME NEW c \in Calls, FinishCall(c) PROVE mode # "truncated"
      BY <3>2, SlotInBatch DEF FinishCall
    <3>3. CASE UNCHANGED outcome
      BY <3>3
    <3>. QED  BY <1>7, <3>1, <3>2, <3>3 DEF BatchStep, StartCall, Prepare, CheckCancel, CollectBatch,
                EmitNext, EmitEnd, ToolStep, Execute, DeliverUpdate, Settle, batchVars
  <2>. QED  BY <2>1, <2>2, <2>3, <2>4 DEF ReplyInv
<1>8. CASE Surroundings
  <2>1. UNCHANGED <<pc, context, newMessages, reply, turns, mode, outcome>>
    BY <1>8 DEF Surroundings, Abort, Steer, FollowUp, OnUpdate, logVars, replyVars, batchVars
  <2>. QED  BY <1>2, <2>1
<1>9. CASE Start
  <2>1. ~InBatch /\ ~HasReply' /\ UNCHANGED outcome
    BY <1>9 DEF Start, StartPrompt, StartContinue, BeginLoop, batchVars
  <2>. QED  BY <1>1, <2>1
<1>10. CASE Terminated \/ UNCHANGED vars
  BY <1>2, <1>10 DEF Terminated, vars, logVars, replyVars, batchVars
<1>. QED  BY <1>3, <1>4, <1>5, <1>6, <1>7, <1>8, <1>9, <1>10 DEF Next, LoopStep, TurnStep, BatchStep

\* A log without its last message.
LEMMA FrontOfAppend ==
  ASSUME NEW log \in Seq(Message), NEW x \in Message
  PROVE  SubSeq(Append(log, x), 1, Len(Append(log, x)) - 1) = log
<1>. DEFINE n == Len(log)  a == Append(log, x)  s == SubSeq(a, 1, n)
<1>1. n \in Nat /\ \A i \in 1..n : log[i] \in Message
  BY LenProperties, ElementOfSeq
<1>2. Len(a) = n + 1 /\ \A i \in 1..n : a[i] = log[i]
  BY AppendProperties
<1>. HIDE DEF a, n
<1>3. /\ s \in Seq(Message) /\ Len(s) = IF 1 <= n THEN n - 1 + 1 ELSE 0
      /\ \A i \in 1..(n - 1 + 1) : s[i] = a[1 + i - 1]
  <2>1. \A i \in 1..n : a[i] \in Message
    BY <1>1, <1>2
  <2>. QED  BY <1>1, <2>1, SubSeqProperties
<1>. HIDE DEF s
<1>4. Len(s) = n
  BY <1>1, <1>3
<1>5. ASSUME NEW i \in 1..n PROVE s[i] = log[i]
  <2>1. i \in 1..(n - 1 + 1) /\ 1 + i - 1 = i
    BY <1>1
  <2>. QED  BY <1>2, <1>3, <2>1
<1>6. s = log
  BY <1>1, <1>3, <1>4, <1>5, SeqEqual DEF n
<1>7. Len(a) - 1 = n
  BY <1>1, <1>2
<1>. QED  BY <1>6, <1>7 DEF s, a

\* A streaming reply is no part of the stem.
LEMMA StemOfPartial ==
  ASSUME Inv, StreamStart
  PROVE  Stem' = Stem
<1>. DEFINE x == Assistant(turns, "partial", 0)  n == Len(context)
<1>1. x \in Message
  BY AgentLoopAssumption, AssistantType DEF Inv, TypeOK, TurnTypeOK
<1>2. context \in Seq(Message) /\ n \in Nat
  BY LogParts, LenProperties
<1>3. context' = Append(context, x) /\ partial' /\ ~partial
  BY DEF StreamStart
<1>4. Stem' = SubSeq(Append(context, x), 1, Len(Append(context, x)) - 1) /\ Stem = context
  BY <1>3 DEF Stem
<1>. QED  BY <1>1, <1>2, <1>4, FrontOfAppend

\* Every step keeps the accounts together.
LEMMA AccountsStep ==
  ASSUME Inv, AccountsInv, [Next]_vars
  PROVE  AccountsInv'
<1>0. Inv'
  BY StepInv
<1>q. ASSUME pc' = "idle" <=> pc = "idle", emitted = 0 /\ emitted' = 0, Stem' = Stem,
             UNCHANGED <<transcript, newMessages, rewrites>>
      PROVE  AccountsInv'
  <2>1. Results' = Results
    BY <1>q, NoResults DEF Results, ResultsOf
  <2>. QED  BY <1>q, <2>1, QuietAccounts
<1>1. CASE Inject
  <2>1. pending \in Seq(UserMessage) /\ pending # <<>> /\ ~partial
    BY <1>1 DEF Inject, Inv, TypeOK, LogTypeOK, TurnInv
  <2>2. Head(pending) \in Message /\ Said(Head(pending)) /\ Whole(Head(pending)) = Head(pending)
    <3>1. Head(pending) \in UserMessage
      BY <2>1, HeadTailProperties
    <3>. QED  BY <3>1, MessageTypes, SaidMessages
  <2>3. /\ pc # "idle" /\ pc' # "idle" /\ emitted = 0 /\ emitted' = 0 /\ ~partial' /\ UNCHANGED rewrites
        /\ transcript' = Append(transcript, Head(pending))
        /\ newMessages' = Append(newMessages, Head(pending))
        /\ context' = Append(context, Head(pending))
    BY <1>1, <2>1 DEF Inject, Inv, EmitInv, InBatch, replyVars, batchVars
  <2>4. Stem' = Append(Stem, Head(pending))
    BY <2>1, <2>3 DEF Stem
  <2>. QED  BY <2>2, <2>3, <2>4, SayAccounts
<1>2. CASE Request \/ StreamDone
  <2>1. /\ pc # "idle" /\ pc' # "idle" /\ emitted = 0 /\ emitted' = 0 /\ UNCHANGED rewrites
    BY <1>2 DEF Request, Replied, StreamDone, Inv, EmitInv, InBatch, turnVars, batchVars
  <2>2. ASSUME NEW r \in Reply, Replied(r), r \in Message
        PROVE  AccountsInv'
    <3>1. Stem' = Append(Stem, r)
      BY <2>2, ReplyBehindStem DEF Replied, Stem
    <3>2. Said(r) /\ Whole(r) = r
      BY SaidMessages
    <3>. QED  BY <2>1, <2>2, <3>1, <3>2, SayAccounts DEF Replied
  <2>3. CASE UNCHANGED <<logVars, partial, reply, transcript>>
    <3>1. Stem' = Stem
      BY <2>3 DEF Stem, logVars
    <3>. QED  BY <1>q, <2>1, <2>3, <3>1 DEF logVars
  <2>. QED  BY <1>2, <2>2, <2>3, RepliesAreMessages
<1>3. CASE StreamStart
  <2>1. /\ pc = "stream" /\ pc' = "stream" /\ emitted = 0 /\ emitted' = 0
        /\ UNCHANGED <<transcript, newMessages, rewrites>>
    BY <1>3 DEF StreamStart, Inv, EmitInv, InBatch, turnVars, batchVars
  <2>. QED  BY <1>3, <1>q, <2>1, StemOfPartial
<1>4. CASE PrepareNextTurn
  BY <1>4, RewriteAccounts
<1>5. CASE CommitBatch
  BY <1>5, CommitAccounts
<1>6. CASE Start
  BY <1>6, StartAccounts
<1>7. CASE PollSteering \/ ErrorEnd \/ NoCalls \/ ShouldStop \/ PollFollowUp
  <2>1. /\ pc # "idle" /\ pc' # "idle" /\ emitted = 0 /\ emitted' = 0
        /\ UNCHANGED <<transcript, context, newMessages, partial, rewrites>>
    BY <1>7 DEF PollSteering, TurnOrFollowUp, ErrorEnd, NoCalls, ShouldStop, PollFollowUp, Inv, EmitInv,
                InBatch, logVars, turnVars, replyVars, batchVars, sinkVars
  <2>2. Stem' = Stem
    BY <2>1 DEF Stem
  <2>. QED  BY <1>q, <2>1, <2>2
<1>8. CASE (BatchStep /\ ~CommitBatch) \/ \E c \in Calls : ToolStep(c)
  <2>1. UNCHANGED <<context, newMessages, partial, rewrites, turns>> /\ Stem' = Stem
    BY <1>8, BatchLeaves DEF Stem
  <2>2. pc # "idle" /\ pc' # "idle"
    <3>1. ASSUME NEW c \in Calls, ToolStep(c) PROVE InBatch
      <4>1. slot[c] # "none"
        BY <3>1, AgentLoopAssumption DEF ToolStep, Execute, DeliverUpdate, Settle, FinishCall, Inv, CallsInv, TypeOK, BatchTypeOK
      <4>. QED  BY <4>1, SlotInBatch
    <3>. QED  BY <1>8, <3>1 DEF InBatch, BatchStep, StartBatch, StartCall, FailCall, Prepare,
                 CheckCancel, AfterBatch, CollectBatch, EmitNext, EmitEnd, ToolStep, Execute,
                 DeliverUpdate, Settle, FinishCall
  <2>3. CASE UNCHANGED transcript /\ KeepsAnnounced
    BY <2>1, <2>2, <2>3, ResultsStay, QuietAccounts
  <2>4. ASSUME NEW o \in Outcome, Announces(o) PROVE AccountsInv'
    <3>1. ToolResult(turns, emitted + 1, o.error) \in Message
      BY <2>4, ResultsAreMessages DEF Announces
    <3>2. Results' = Append(Results, ToolResult(turns, emitted + 1, o.error))
      BY <1>0, <2>1, <2>4, ResultsGrow
    <3>3. transcript' = Append(transcript, ToolResult(turns, emitted + 1, o.error))
      BY <2>4 DEF Announces, EmitResult
    <3>4. /\ Said(ToolResult(turns, emitted + 1, o.error))
          /\ Whole(ToolResult(turns, emitted + 1, o.error)) = ToolResult(turns, emitted + 1, o.error)
      BY SaidMessages
    <3>. QED  BY <2>1, <2>2, <3>1, <3>2, <3>3, <3>4, AnnounceAccounts
  <2>. QED  BY <1>8, <2>3, <2>4, BatchAnnounces
<1>9. CASE Surroundings \/ Terminated \/ UNCHANGED vars
  <2>1. UNCHANGED <<pc, transcript, context, newMessages, partial, rewrites, turns, emitted, outcome>>
    BY <1>9 DEF Surroundings, Abort, Steer, FollowUp, OnUpdate, Terminated, vars, logVars, turnVars, replyVars,
                batchVars, sinkVars
  <2>2. Stem' = Stem /\ Results' = Results
    BY <2>1 DEF Stem, Results
  <2>. QED  BY <2>1, <2>2, QuietAccounts
<1>. QED  BY <1>1, <1>2, <1>3, <1>4, <1>5, <1>6, <1>7, <1>8, <1>9 DEF Next, LoopStep, TurnStep

\* At the start nothing has been said and the model has seen nothing.
LEMMA AccountsInit == Init => AccountsInv /\ ReplyInv
<1>. SUFFICES ASSUME Init PROVE AccountsInv /\ ReplyInv
  OBVIOUS
<1>1. newMessages = <<>> /\ Results = <<>>
  BY NoResults DEF Init, Results, ResultsOf
<1>2. transcript \in Seq(Message) /\ <<>> \in Seq(Message)
  BY InitInv, EmptySeq DEF Inv, TypeOK, LogTypeOK
<1>3. <<>> \o <<>> = <<>> /\ transcript \o <<>> = transcript
  BY <1>2, ConcatEmptySeq
<1>4. Ends(transcript, newMessages \o Results)
  BY <1>1, <1>2, <1>3 DEF Ends
<1>5. \A i \in 1..Len(transcript) : transcript[i].role = "user"
  BY DEF Init, User
<1>. QED  BY <1>4, <1>5 DEF Init, AccountsInv, ReplyInv, HasReply, InBatch

\* Between turns the transcript kept from events ends with what AgentEnd
\* reports, and the context the model sees recalls it: whatever batches,
\* injected messages, folds, shortened results and remarks of hooks came
\* before, what it holds of the conversation is the end of the transcript, each
\* message once and in its place, and all of it but for what the summary at its
\* head stands for (run_loop, process_event_impl, prepare_next_turn).
THEOREM AccountsAgreeHolds == Spec => []AccountsAgree
<1>1. Inv /\ AccountsInv => AccountsAgree
  <2>. SUFFICES ASSUME Inv, AccountsInv,
                       pc \in {"request", "turnEnd", "pollSteering", "pollFollowUp", "done"}
                PROVE  /\ EndsWith(transcript, newMessages) /\ Recalls(context, transcript)
                       /\ rewrites = 0 => transcript = context
    BY DEF AccountsAgree
  <2>0. /\ newMessages \in Seq(Message) /\ transcript \in Seq(Message) /\ context \in Seq(Message)
    BY LogParts
  <2>1. emitted = 0 /\ ~partial
    BY DEF Inv, EmitInv, TurnInv, InBatch
  <2>2. Results = <<>> /\ Stem = context
    BY <2>1, NoResults DEF Results, ResultsOf, Stem
  <2>3. newMessages \o <<>> = newMessages /\ context \o <<>> = context
    BY <2>0, ConcatEmptySeq
  <2>4. /\ Ends(transcript, newMessages) /\ Recalls(context, transcript)
        /\ rewrites = 0 => transcript = context
    BY <2>2, <2>3 DEF AccountsInv
  <2>. QED  BY <2>0, <2>4, EndsIsSuffix
<1>. QED  BY <1>1, AccountsInit, AccountsStep, InvHolds, PTL DEF Spec

-----------------------------------------------------------------------------
(***************************************************************************)
(* Truncated replies                                                       *)
(***************************************************************************)

\* When a truncated batch commits, the transcript ends with its reply and an
\* error result for each of its calls.
LEMMA TruncatedCommit ==
  ASSUME Inv, ReplyInv, AccountsInv, CommitBatch, reply.stop = "length", reply.calls > 0
  PROVE  TruncatedIsAnswered'
<1>. DEFINE n == reply.calls
<1>0. n \in Nat /\ n <= MaxCalls /\ MaxCalls \in Nat
  BY ReplyFields, AgentLoopAssumption DEF Inv, TypeOK, TurnTypeOK
<1>1. mode = "truncated" /\ emitted = n /\ turns \in 0..MaxTurns
  <2>1. pc = "commit" /\ InBatch
    BY DEF CommitBatch, InBatch
  <2>2. mode = "truncated"
    BY <2>1 DEF ReplyInv
  <2>3. emitted = next /\ next = n
    BY <2>1, <2>2 DEF Inv, BatchInv, EmitInv
  <2>. QED  BY <2>2, <2>3, ResultsParts
<1>2. /\ Results \in Seq(Message) /\ Len(Results) = n
      /\ \A k \in 1..n : Results[k] = ToolResult(turns, k, outcome[k].error)
  BY <1>1, ResultsParts, ResultsType
<1>3. \A k \in 1..n : outcome[k] = Failure
  BY <1>0, <1>1 DEF ReplyInv, Calls
<1>4. newMessages \in Seq(Message) /\ transcript \in Seq(Message)
  BY LogParts
<1>5. newMessages # <<>> /\ newMessages[Len(newMessages)] = reply /\ reply.turn = turns
  BY DEF ReplyInv, HasReply, InBatch, CommitBatch
<1>6. PICK p \in Seq(Message) : transcript = p \o (newMessages \o Results)
  BY <1>4 DEF AccountsInv, Ends
<1>. DEFINE q == p \o newMessages
<1>7. q \in Seq(Message) /\ transcript = q \o Results
  BY <1>2, <1>4, <1>6, ConcatProperties, ConcatAssociative, SMTT(30), ZenonT(30)
<1>8. Len(q) \in Nat \ {0} /\ q[Len(q)] = reply
  <2>1. Len(p) \in Nat /\ Len(newMessages) \in Nat \ {0} /\ Len(q) = Len(p) + Len(newMessages)
    BY <1>4, <1>5, LenProperties, EmptySeq, ConcatProperties
  <2>2. \A i \in 1..(Len(p) + Len(newMessages)) :
          q[i] = IF i <= Len(p) THEN p[i] ELSE newMessages[i - Len(p)]
    BY <1>4, ConcatProperties
  <2>. HIDE DEF q
  <2>3. Len(q) \in 1..(Len(p) + Len(newMessages)) /\ ~(Len(q) <= Len(p)) /\ Len(q) - Len(p) = Len(newMessages)
    BY <2>1
  <2>. QED  BY <1>5, <2>1, <2>2, <2>3
<1>. HIDE DEF q
<1>9. /\ Len(transcript) = Len(q) + n
      /\ \A i \in 1..(Len(q) + n) :
           transcript[i] = IF i <= Len(q) THEN q[i] ELSE Results[i - Len(q)]
  BY <1>2, <1>7, ConcatProperties
<1>10. transcript[Len(q)] = reply
  <2>1. Len(q) \in 1..(Len(q) + n) /\ Len(q) <= Len(q)
    BY <1>0, <1>8
  <2>. QED  BY <1>8, <1>9, <2>1
<1>11. ASSUME NEW k \in 1..n PROVE transcript[Len(q) + k] = ToolResult(turns, k, TRUE)
  <2>1. Len(q) + k \in 1..(Len(q) + n) /\ ~(Len(q) + k <= Len(q)) /\ Len(q) + k - Len(q) = k
    BY <1>0, <1>8
  <2>2. transcript[Len(q) + k] = Results[k]
    BY <1>9, <2>1
  <2>3. outcome[k].error = TRUE
    BY <1>3 DEF Failure
  <2>. QED  BY <1>2, <2>2, <2>3
<1>12. AnsweredAt(transcript, Len(q))
  <2>. SUFFICES ASSUME NEW k \in 1..n
                PROVE  /\ Len(q) + k <= Len(transcript)
                       /\ transcript[Len(q) + k].role = "toolResult"
                       /\ transcript[Len(q) + k].turn = transcript[Len(q)].turn
                       /\ transcript[Len(q) + k].call = k
    BY <1>10 DEF AnsweredAt
  <2>1. Len(q) + k <= Len(transcript)
    BY <1>0, <1>8, <1>9
  <2>2. transcript[Len(q) + k] = ToolResult(turns, k, TRUE)
    BY <1>11
  <2>3. /\ ToolResult(turns, k, TRUE).role = "toolResult"
        /\ ToolResult(turns, k, TRUE).turn = turns /\ ToolResult(turns, k, TRUE).call = k
    BY DEF ToolResult
  <2>4. transcript[Len(q)].turn = turns
    BY <1>5, <1>10
  <2>. QED  BY <2>1, <2>2, <2>3, <2>4
<1>13. ASSUME NEW k \in 1..n PROVE transcript[Len(transcript) - k + 1].error
  <2>1. n - k + 1 \in 1..n /\ Len(transcript) - k + 1 = Len(q) + (n - k + 1)
    <3>. DEFINE t == Len(transcript)  z == Len(q)
    <3>1. z \in Nat /\ t = z + n
      BY <1>8, <1>9
    <3>. HIDE DEF t, z, n
    <3>2. n - k + 1 \in 1..n /\ t - k + 1 = z + (n - k + 1)
      BY <1>0, <3>1
    <3>. QED  BY <3>2 DEF t, z
  <2>2. transcript[Len(q) + (n - k + 1)] = ToolResult(turns, n - k + 1, TRUE)
    BY <1>11, <2>1
  <2>. QED  BY <2>1, <2>2 DEF ToolResult
<1>14. Len(q) \in 1..Len(transcript) /\ Len(q) = Len(transcript) - n
  BY <1>0, <1>8, <1>9
<1>15. more' /\ UNCHANGED <<transcript, reply>>
  BY <1>1 DEF CommitBatch, ShouldTerminate, replyVars, sinkVars
<1>. QED  BY <1>10, <1>12, <1>13, <1>14, <1>15 DEF TruncatedIsAnswered, AnsweredAt

\* Every step keeps a truncated reply answered until the next turn.
LEMMA TruncatedStep ==
  ASSUME Inv, ReplyInv, AccountsInv, TruncatedIsAnswered, [Next]_vars
  PROVE  TruncatedIsAnswered'
<1>1. CASE CommitBatch
  <2>1. CASE reply.stop = "length" /\ reply.calls > 0
    BY <1>1, <2>1, TruncatedCommit
  <2>2. CASE ~(reply.stop = "length" /\ reply.calls > 0)
    BY <1>1, <2>2 DEF CommitBatch, replyVars, TruncatedIsAnswered
  <2>. QED  BY <2>1, <2>2
<1>2. CASE NoCalls
  BY <1>2 DEF NoCalls, replyVars, TruncatedIsAnswered
<1>3. ASSUME pc' # "turnEnd" PROVE TruncatedIsAnswered'
  BY <1>3 DEF TruncatedIsAnswered
<1>4. CASE PollSteering \/ Inject \/ Request \/ StreamStart \/ StreamDone \/ ErrorEnd \/ PrepareNextTurn
           \/ ShouldStop \/ PollFollowUp \/ Start
  BY <1>3, <1>4 DEF PollSteering, TurnOrFollowUp, Inject, Request, Replied, StreamStart, StreamDone,
              ErrorEnd, PrepareNextTurn, ShouldStop, PollFollowUp, Start, StartPrompt, StartContinue, BeginLoop
<1>5. CASE BatchStep /\ ~CommitBatch
  BY <1>3, <1>5 DEF BatchStep, StartBatch, StartCall, FailCall, Prepare, CheckCancel, AfterBatch,
              CollectBatch, EmitNext, EmitEnd
<1>6. ASSUME NEW c \in Calls, ToolStep(c) PROVE TruncatedIsAnswered'
  <2>1. slot[c] # "none"
    BY <1>6, AgentLoopAssumption DEF ToolStep, Execute, DeliverUpdate, Settle, FinishCall, Inv, CallsInv, TypeOK, BatchTypeOK
  <2>2. pc # "turnEnd"
    BY <2>1, SlotInBatch DEF InBatch
  <2>. QED  BY <1>3, <1>6, <2>2 DEF ToolStep, Execute, DeliverUpdate, Settle, FinishCall
<1>7. CASE Surroundings \/ Terminated \/ UNCHANGED vars
  <2>1. UNCHANGED <<pc, reply, more, transcript>>
    BY <1>7 DEF Surroundings, Abort, Steer, FollowUp, OnUpdate, Terminated, vars, turnVars, replyVars, sinkVars
  <2>. QED  BY <2>1 DEF TruncatedIsAnswered
<1>. QED  BY <1>1, <1>2, <1>4, <1>5, <1>6, <1>7 DEF Next, LoopStep, TurnStep

\* A reply cut off by the token limit ends with an error result for each of
\* its calls, cancelled or not, and the model is asked again
\* (fail_tool_calls_from_truncated_message).
THEOREM TruncatedIsAnsweredHolds == Spec => []TruncatedIsAnswered
<1>1. Init => TruncatedIsAnswered
  BY DEF Init, TruncatedIsAnswered
<1>. QED  BY <1>1, AccountsInit, AccountsStep, ReplyStep, TruncatedStep, InvHolds, PTL DEF Spec

-----------------------------------------------------------------------------
(***************************************************************************)
(* Calls and results of a request                                          *)
(***************************************************************************)

\* The calls of a reply and the call of a result are numbers.
LEMMA MessageKinds ==
  ASSUME NEW x \in Message
  PROVE  /\ x.role = "assistant" => x.calls \in Nat
         /\ x.role = "toolResult" => x.call \in Nat \ {0}
BY AgentLoopAssumption DEF Message, UserMessage, Reply, ToolResultMessage, Calls, Summary, Remark

\* A log of user messages has nothing to pair.
LEMMA UsersPaired ==
  ASSUME NEW log, \A i \in 1..Len(log) : log[i].role = "user"
  PROVE  Paired(log)
BY DEF Paired

\* A message that is neither a reply nor a result leaves a paired log so, be it
\* behind it,
LEMMA UserPaired ==
  ASSUME NEW log \in Seq(Message), Paired(log), NEW x \in Message,
         x.role \notin {"assistant", "toolResult"}
  PROVE  Paired(Append(log, x))
<1>. DEFINE n == Len(log)  new == Append(log, x)
<1>1. n \in Nat /\ \A i \in 1..n : log[i] \in Message
  BY LenProperties, ElementOfSeq
<1>2. /\ Len(new) = n + 1 /\ new[n + 1] = x
      /\ \A i \in 1..n : new[i] = log[i]
  BY AppendProperties
<1>. HIDE DEF new, n
<1>3. ASSUME NEW i \in 1..n, log[i].role = "assistant" PROVE AnsweredAt(new, i)
  <2>. SUFFICES ASSUME NEW k \in 1..log[i].calls
                PROVE  /\ i + k <= Len(new) /\ new[i + k].role = "toolResult"
                       /\ new[i + k].turn = log[i].turn /\ new[i + k].call = k
    BY <1>2 DEF AnsweredAt
  <2>1. /\ i + k <= n /\ log[i + k].role = "toolResult"
        /\ log[i + k].turn = log[i].turn /\ log[i + k].call = k
    BY <1>3 DEF Paired, AnsweredAt, n
  <2>2. log[i].calls \in Nat
    BY <1>1, <1>3, MessageKinds
  <2>3. i + k \in 1..n
    BY <1>1, <2>1, <2>2
  <2>. QED  BY <1>1, <1>2, <2>1, <2>3
<1>4. ASSUME NEW i \in 1..n, log[i].role = "toolResult" PROVE AskedAt(new, i)
  <2>. DEFINE j == i - log[i].call
  <2>1. /\ j >= 1 /\ log[j].role = "assistant"
        /\ log[j].turn = log[i].turn /\ log[i].call <= log[j].calls
    BY <1>4 DEF Paired, AskedAt, n
  <2>2. log[i].call \in Nat \ {0}
    BY <1>1, <1>4, MessageKinds
  <2>3. j \in 1..n
    BY <1>1, <2>1, <2>2
  <2>4. new[i] = log[i] /\ new[j] = log[j]
    BY <1>2, <2>3
  <2>. QED  BY <2>1, <2>4 DEF AskedAt
<1>5. ASSUME NEW i \in 1..Len(new)
      PROVE  /\ new[i].role = "assistant" => AnsweredAt(new, i)
             /\ new[i].role = "toolResult" => AskedAt(new, i)
  <2>1. i \in 1..n \/ i = n + 1
    BY <1>1, <1>2
  <2>. QED  BY <1>2, <1>3, <1>4, <2>1
<1>. QED  BY <1>5 DEF Paired, new

\* or before it.
LEMMA HeadPaired ==
  ASSUME NEW log \in Seq(Message), Paired(log),
         NEW new \in Seq(Message), Len(new) = Len(log) + 1,
         new[1].role \notin {"assistant", "toolResult"},
         \A i \in 1..Len(log) : new[i + 1] = log[i]
  PROVE  Paired(new)
<1>. DEFINE n == Len(log)
<1>1. n \in Nat /\ \A i \in 1..n : log[i] \in Message
  BY LenProperties, ElementOfSeq
<1>. HIDE DEF n
<1>2. Len(new) = n + 1 /\ \A i \in 1..n : new[i + 1] = log[i]
  BY DEF n
<1>3. ASSUME NEW i \in 1..n, log[i].role = "assistant" PROVE AnsweredAt(new, i + 1)
  <2>. SUFFICES ASSUME NEW k \in 1..log[i].calls
                PROVE  /\ (i + 1) + k <= Len(new) /\ new[(i + 1) + k].role = "toolResult"
                       /\ new[(i + 1) + k].turn = log[i].turn /\ new[(i + 1) + k].call = k
    BY <1>2 DEF AnsweredAt
  <2>1. /\ i + k <= n /\ log[i + k].role = "toolResult"
        /\ log[i + k].turn = log[i].turn /\ log[i + k].call = k
    BY <1>3 DEF Paired, AnsweredAt, n
  <2>2. log[i].calls \in Nat
    BY <1>1, <1>3, MessageKinds
  <2>3. i + k \in 1..n /\ (i + 1) + k = (i + k) + 1
    BY <1>1, <2>1, <2>2
  <2>4. new[(i + 1) + k] = log[i + k]
    BY <1>2, <2>3
  <2>5. (i + 1) + k <= n + 1
    BY <1>1, <2>3
  <2>. QED  BY <1>2, <2>1, <2>4, <2>5
<1>4. ASSUME NEW i \in 1..n, log[i].role = "toolResult" PROVE AskedAt(new, i + 1)
  <2>. DEFINE j == i - log[i].call
  <2>1. /\ j >= 1 /\ log[j].role = "assistant"
        /\ log[j].turn = log[i].turn /\ log[i].call <= log[j].calls
    BY <1>4 DEF Paired, AskedAt, n
  <2>2. log[i].call \in Nat \ {0}
    BY <1>1, <1>4, MessageKinds
  <2>3. j \in 1..n /\ (i + 1) - log[i].call = j + 1 /\ j + 1 >= 1
    BY <1>1, <2>1, <2>2
  <2>4. new[i + 1] = log[i] /\ new[j + 1] = log[j]
    BY <1>2, <2>3
  <2>. QED  BY <2>1, <2>3, <2>4 DEF AskedAt
<1>5. ASSUME NEW i \in 1..(n + 1)
      PROVE  /\ new[i].role = "assistant" => AnsweredAt(new, i)
             /\ new[i].role = "toolResult" => AskedAt(new, i)
  <2>1. CASE i = 1
    BY <2>1
  <2>2. CASE i # 1
    <3>1. PICK j \in 1..n : i = j + 1
      <4>1. i - 1 \in 1..n /\ i = (i - 1) + 1
        BY <1>1, <2>2
      <4>. QED  BY <4>1
    <3>2. new[i] = log[j]
      BY <1>2, <3>1
    <3>. QED  BY <1>3, <1>4, <3>1, <3>2
  <2>. QED  BY <2>1, <2>2
<1>. QED  BY <1>2, <1>5 DEF Paired

\* Shortened results pair as the results they were.
LEMMA ShortPaired ==
  ASSUME NEW log \in Seq(Message), Paired(log)
  PROVE  Paired(Shortened(log))
<1>. DEFINE n == Len(log)  new == Shortened(log)
<1>1. n \in Nat /\ \A i \in 1..n : log[i] \in Message
  BY LenProperties, ElementOfSeq
<1>2. Len(new) = n /\ \A i \in 1..n : Alike(new[i], log[i])
  BY Shortening
<1>. HIDE DEF n, new
<1>3. ASSUME NEW i \in 1..n
      PROVE  /\ new[i].role = log[i].role
             /\ log[i].role = "assistant" => new[i] = log[i]
             /\ log[i].role = "toolResult" => new[i].turn = log[i].turn /\ new[i].call = log[i].call
  <2>1. Alike(new[i], log[i])
    BY <1>2
  <2>. QED  BY <2>1 DEF Alike
<1>4. ASSUME NEW i \in 1..n, log[i].role = "assistant" PROVE AnsweredAt(new, i)
  <2>0. new[i] = log[i]
    BY <1>3, <1>4
  <2>. SUFFICES ASSUME NEW k \in 1..log[i].calls
                PROVE  /\ i + k <= Len(new) /\ new[i + k].role = "toolResult"
                       /\ new[i + k].turn = log[i].turn /\ new[i + k].call = k
    BY <2>0 DEF AnsweredAt
  <2>1. /\ i + k <= n /\ log[i + k].role = "toolResult"
        /\ log[i + k].turn = log[i].turn /\ log[i + k].call = k
    BY <1>4 DEF Paired, AnsweredAt, n
  <2>2. log[i].calls \in Nat
    BY <1>1, <1>4, MessageKinds
  <2>3. i + k \in 1..n
    BY <1>1, <2>1, <2>2
  <2>. QED  BY <1>2, <1>3, <2>1, <2>3
<1>5. ASSUME NEW i \in 1..n, log[i].role = "toolResult" PROVE AskedAt(new, i)
  <2>. DEFINE j == i - log[i].call
  <2>1. /\ j >= 1 /\ log[j].role = "assistant"
        /\ log[j].turn = log[i].turn /\ log[i].call <= log[j].calls
    BY <1>5 DEF Paired, AskedAt, n
  <2>2. log[i].call \in Nat \ {0}
    BY <1>1, <1>5, MessageKinds
  <2>3. j \in 1..n
    BY <1>1, <2>1, <2>2
  <2>4. new[j] = log[j] /\ new[i].turn = log[i].turn /\ new[i].call = log[i].call
    BY <1>3, <1>5, <2>1, <2>3
  <2>. QED  BY <2>1, <2>4 DEF AskedAt
<1>6. \A i \in 1..n : /\ new[i].role = "assistant" => AnsweredAt(new, i)
                      /\ new[i].role = "toolResult" => AskedAt(new, i)
  BY <1>3, <1>4, <1>5
<1>7. Paired(new)
  BY <1>2, <1>6 DEF Paired
<1>. QED  BY <1>7 DEF new

\* A reply with a result for each of its calls behind a paired log leaves it so.
LEMMA BatchPaired ==
  ASSUME NEW log \in Seq(Message), Paired(log),
         NEW r \in Message, r.role = "assistant",
         NEW rs \in Seq(Message), Len(rs) = r.calls,
         \A k \in 1..Len(rs) : /\ rs[k].role = "toolResult"
                               /\ rs[k].turn = r.turn /\ rs[k].call = k
  PROVE  Paired(Append(log, r) \o rs)
<1>. DEFINE n == Len(log)  c == Len(rs)  a == Append(log, r)  new == a \o rs
<1>1. n \in Nat /\ c \in Nat /\ \A i \in 1..n : log[i] \in Message
  BY LenProperties, ElementOfSeq
<1>2. /\ a \in Seq(Message) /\ Len(a) = n + 1 /\ a[n + 1] = r
      /\ \A i \in 1..n : a[i] = log[i]
  BY AppendProperties
<1>3. /\ Len(new) = n + 1 + c
      /\ \A i \in 1..(n + 1 + c) : new[i] = IF i <= n + 1 THEN a[i] ELSE rs[i - (n + 1)]
  <2>. HIDE DEF a, n
  <2>2. /\ Len(a \o rs) = Len(a) + Len(rs)
        /\ \A i \in 1..(Len(a) + Len(rs)) : (a \o rs)[i] = IF i <= Len(a) THEN a[i] ELSE rs[i - Len(a)]
    <3>1. a \in Seq(Message) /\ rs \in Seq(Message)
      BY <1>2
    <3>. QED  BY ONLY <3>1, ConcatProperties
  <2>. QED  BY <1>2, <2>2
<1>. HIDE DEF new, a, n, c
<1>4. /\ \A i \in 1..n : new[i] = log[i]
      /\ new[n + 1] = r
      /\ \A k \in 1..c : new[n + 1 + k] = rs[k]
  <2>1. ASSUME NEW i \in 1..n PROVE new[i] = log[i]
    <3>1. i \in 1..(n + 1 + c) /\ i <= n + 1
      BY <1>1
    <3>. QED  BY <1>2, <1>3, <3>1
  <2>2. new[n + 1] = r
    <3>1. n + 1 \in 1..(n + 1 + c) /\ n + 1 <= n + 1
      BY <1>1
    <3>. QED  BY <1>2, <1>3, <3>1
  <2>3. ASSUME NEW k \in 1..c PROVE new[n + 1 + k] = rs[k]
    <3>. DEFINE i == n + 1 + k
    <3>1. i \in 1..(n + 1 + c) /\ ~(i <= n + 1) /\ i - (n + 1) = k
      BY <1>1
    <3>. HIDE DEF i
    <3>2. new[i] = rs[i - (n + 1)]
      BY <1>3, <3>1
    <3>. QED  BY <3>1, <3>2 DEF i
  <2>. QED  BY <2>1, <2>2, <2>3
<1>5. ASSUME NEW i \in 1..n, log[i].role = "assistant" PROVE AnsweredAt(new, i)
  <2>. SUFFICES ASSUME NEW k \in 1..log[i].calls
                PROVE  /\ i + k <= Len(new) /\ new[i + k].role = "toolResult"
                       /\ new[i + k].turn = log[i].turn /\ new[i + k].call = k
    BY <1>4 DEF AnsweredAt
  <2>1. /\ i + k <= n /\ log[i + k].role = "toolResult"
        /\ log[i + k].turn = log[i].turn /\ log[i + k].call = k
    BY <1>5 DEF Paired, AnsweredAt, n
  <2>2. log[i].calls \in Nat
    BY <1>1, <1>5, MessageKinds
  <2>3. i + k \in 1..n
    BY <1>1, <2>1, <2>2
  <2>. QED  BY <1>1, <1>3, <1>4, <2>1, <2>3
<1>6. ASSUME NEW i \in 1..n, log[i].role = "toolResult" PROVE AskedAt(new, i)
  <2>. DEFINE j == i - log[i].call
  <2>1. /\ j >= 1 /\ log[j].role = "assistant"
        /\ log[j].turn = log[i].turn /\ log[i].call <= log[j].calls
    BY <1>6 DEF Paired, AskedAt, n
  <2>2. log[i].call \in Nat \ {0}
    BY <1>1, <1>6, MessageKinds
  <2>3. j \in 1..n
    BY <1>1, <2>1, <2>2
  <2>4. new[i] = log[i] /\ new[j] = log[j]
    BY <1>4, <2>3
  <2>. QED  BY <2>1, <2>4 DEF AskedAt
<1>7. AnsweredAt(new, n + 1)
  <2>. SUFFICES ASSUME NEW k \in 1..c
                PROVE  /\ n + 1 + k <= Len(new) /\ new[n + 1 + k].role = "toolResult"
                       /\ new[n + 1 + k].turn = r.turn /\ new[n + 1 + k].call = k
    BY <1>4 DEF AnsweredAt, c
  <2>1. rs[k].role = "toolResult" /\ rs[k].turn = r.turn /\ rs[k].call = k
    BY DEF c
  <2>2. new[n + 1 + k] = rs[k] /\ n + 1 + k <= Len(new)
    BY <1>1, <1>3, <1>4
  <2>. QED  BY <2>1, <2>2
<1>8. ASSUME NEW k \in 1..c PROVE AskedAt(new, n + 1 + k)
  <2>1. rs[k].role = "toolResult" /\ rs[k].turn = r.turn /\ rs[k].call = k /\ c = r.calls
    BY DEF c
  <2>2. new[n + 1 + k] = rs[k] /\ new[n + 1] = r
    BY <1>4
  <2>3. n + 1 + k - k = n + 1 /\ n + 1 >= 1 /\ k <= c
    BY <1>1
  <2>4. new[n + 1 + k].call = k
    BY <2>1, <2>2
  <2>5. (n + 1 + k) - new[n + 1 + k].call = n + 1
    <3>. DEFINE z == new[n + 1 + k].call
    <3>1. z = k
      BY <2>4
    <3>. HIDE DEF z
    <3>2. (n + 1 + k) - z = n + 1
      BY <1>1, <3>1
    <3>. QED  BY <3>2 DEF z
  <2>. QED  BY <2>1, <2>2, <2>3, <2>4, <2>5 DEF AskedAt
<1>9. ASSUME NEW i \in 1..Len(new)
      PROVE  /\ new[i].role = "assistant" => AnsweredAt(new, i)
             /\ new[i].role = "toolResult" => AskedAt(new, i)
  <2>1. i \in 1..n \/ i = n + 1 \/ \E k \in 1..c : i = n + 1 + k
    <3>1. i \in 1..(n + 1 + c)
      BY <1>3
    <3>2. i > n + 1 => i - (n + 1) \in 1..c /\ i = n + 1 + (i - (n + 1))
      BY <1>1, <3>1
    <3>. QED  BY <1>1, <3>1, <3>2
  <2>2. CASE i \in 1..n
    BY <1>4, <1>5, <1>6, <2>2
  <2>3. CASE i = n + 1
    BY <1>4, <1>7, <2>3
  <2>4. ASSUME NEW k \in 1..c, i = n + 1 + k
        PROVE  new[i].role = "toolResult" /\ AskedAt(new, i)
    BY <1>4, <1>8, <2>4 DEF c
  <2>. QED  BY <2>1, <2>2, <2>3, <2>4
<1>. QED  BY <1>9 DEF Paired, new, a

\* Dropping a prefix that does not end between a reply and its results leaves
\* a paired log so.
LEMMA SuffixPaired ==
  ASSUME NEW log \in Seq(Message), Paired(log),
         NEW k \in 2..Len(log), log[k].role # "toolResult"
  PROVE  Paired(SubSeq(log, k, Len(log)))
<1>. DEFINE n == Len(log)  d == k - 1  new == SubSeq(log, k, Len(log))
<1>1. n \in Nat /\ d \in Nat /\ k = d + 1 /\ d < n /\ \A i \in 1..n : log[i] \in Message
  BY LenProperties, ElementOfSeq
<1>2. Len(new) = n - d /\ \A i \in 1..(n - d) : new[i] = log[i + d]
  <2>1. \A i \in k..n : log[i] \in Message
    BY <1>1
  <2>2. /\ Len(new) = IF k <= n THEN n - k + 1 ELSE 0
        /\ \A i \in 1..(n - k + 1) : new[i] = log[k + i - 1]
    BY <1>1, <2>1, SubSeqProperties
  <2>. HIDE DEF new, d
  <2>3. n - k + 1 = n - d /\ k <= n
    BY <1>1
  <2>4. ASSUME NEW i \in 1..(n - d) PROVE new[i] = log[i + d]
    <3>1. i \in 1..(n - k + 1) /\ k + i - 1 = i + d
      BY <1>1
    <3>. QED  BY <2>2, <3>1
  <2>. QED  BY <2>2, <2>3, <2>4
<1>. HIDE DEF new, d, n
<1>3. ASSUME NEW i \in 1..(n - d), new[i].role = "assistant" PROVE AnsweredAt(new, i)
  <2>0. i + d \in 1..n /\ new[i] = log[i + d]
    BY <1>1, <1>2
  <2>. SUFFICES ASSUME NEW c \in 1..log[i + d].calls
                PROVE  /\ i + c <= Len(new) /\ new[i + c].role = "toolResult"
                       /\ new[i + c].turn = log[i + d].turn /\ new[i + c].call = c
    BY <2>0 DEF AnsweredAt
  <2>1. /\ i + d + c <= n /\ log[i + d + c].role = "toolResult"
        /\ log[i + d + c].turn = log[i + d].turn /\ log[i + d + c].call = c
    BY <1>3, <2>0 DEF Paired, AnsweredAt, n
  <2>2. log[i + d].calls \in Nat
    BY <1>1, <1>3, <2>0, MessageKinds
  <2>3. i + c \in 1..(n - d) /\ i + c + d = i + d + c
    BY <1>1, <2>1, <2>2
  <2>4. new[i + c] = log[i + d + c]
    BY <1>2, <2>3
  <2>. QED  BY <1>2, <2>1, <2>3, <2>4
<1>4. ASSUME NEW i \in 1..(n - d), new[i].role = "toolResult" PROVE AskedAt(new, i)
  <2>0. i + d \in 1..n /\ new[i] = log[i + d]
    BY <1>1, <1>2
  <2>. DEFINE c == log[i + d].call  j == (i + d) - c
  <2>1. /\ j >= 1 /\ log[j].role = "assistant"
        /\ log[j].turn = log[i + d].turn /\ c <= log[j].calls
    BY <1>4, <2>0 DEF Paired, AskedAt, n
  <2>2. c \in Nat \ {0}
    BY <1>1, <1>4, <2>0, MessageKinds
  <2>3. j \in 1..n
    <3>1. PICK p \in 1..n : p = i + d
      BY <2>0
    <3>2. j = p - c /\ j >= 1 /\ c \in Nat \ {0} /\ n \in Nat
      BY <1>1, <2>1, <2>2, <3>1
    <3>. HIDE DEF j, c
    <3>. QED  BY <3>1, <3>2
  <2>4. j > d
    <3>. SUFFICES ASSUME ~(j > d) PROVE FALSE
      OBVIOUS
    <3>1. log[j].calls \in Nat
      BY <1>1, <2>1, <2>3, MessageKinds
    <3>2. k - j \in 1..log[j].calls /\ j + (k - j) = k
      <4>1. j \in Nat /\ c \in Nat /\ j + c = i + d /\ i >= 1 /\ j <= d
        BY <1>1, <2>2, <2>3
      <4>2. k \in Nat /\ k - j >= 1 /\ k - j <= c
        <5>. HIDE DEF j, c
        <5>. QED  BY <1>1, <4>1
      <4>. DEFINE z == log[j].calls
      <4>3. z \in Nat /\ c <= z
        BY <2>1, <3>1
      <4>. HIDE DEF j, c, z
      <4>4. k - j \in 1..z /\ j + (k - j) = k
        BY <4>1, <4>2, <4>3
      <4>. QED  BY <4>4 DEF z
    <3>3. AnsweredAt(log, j)
      BY <2>1, <2>3 DEF Paired, n
    <3>. HIDE DEF j
    <3>. QED  BY <3>2, <3>3 DEF AnsweredAt
  <2>5. j - d \in 1..(n - d) /\ (j - d) + d = j /\ i - c = j - d
    <3>1. c \in Nat /\ j = (i + d) - c
      BY <2>2
    <3>. HIDE DEF j, c
    <3>. QED  BY <1>1, <2>0, <2>3, <2>4, <3>1, SMTT(30), ZenonT(30)
  <2>6. new[j - d] = log[j]
    BY <1>2, <2>5
  <2>. QED  BY <2>0, <2>1, <2>5, <2>6 DEF AskedAt
<1>. QED  BY <1>2, <1>3, <1>4 DEF Paired, new, n

\* A fold that does not cut between a reply and its results leaves a paired log
\* so.
LEMMA FoldPaired ==
  ASSUME NEW log \in Seq(Message), Paired(log), NEW k \in 2..Len(log),
         k < Len(log) => log[k + 1].role # "toolResult"
  PROVE  Paired(Folded(log, k))
<1>. DEFINE n == Len(log)  t == SubSeq(log, k + 1, n)  new == Folded(log, k)
<1>1. n \in Nat /\ \A i \in 1..n : log[i] \in Message
  BY LenProperties, ElementOfSeq
<1>2. /\ t \in Seq(Message) /\ new \in Seq(Message)
      /\ Len(new) = n - k + 1 /\ new[1] = Summary
      /\ \A i \in 2..(n - k + 1) : new[i] = log[i + k - 1]
  BY Folding
<1>3. /\ Len(t) = n - k
      /\ \A i \in 1..(n - k) : t[i] = log[k + i]
  <2>1. \A i \in (k + 1)..n : log[i] \in Message
    BY <1>1
  <2>2. /\ Len(t) = IF k + 1 <= n THEN n - (k + 1) + 1 ELSE 0
        /\ \A i \in 1..(n - (k + 1) + 1) : t[i] = log[(k + 1) + i - 1]
    BY <1>1, <2>1, SubSeqProperties
  <2>. HIDE DEF t, n
  <2>3. n \in Nat /\ k \in 2..n
    BY <1>1 DEF n
  <2>4. Len(t) = n - k
    BY <2>2, <2>3
  <2>5. ASSUME NEW i \in 1..(n - k) PROVE t[i] = log[k + i]
    <3>1. i \in 1..(n - (k + 1) + 1) /\ (k + 1) + i - 1 = k + i
      BY <2>3
    <3>. QED  BY <2>2, <3>1
  <2>. QED  BY <2>4, <2>5
<1>4. Paired(t)
  <2>1. CASE k < n
    <3>1. k + 1 \in 2..n /\ log[k + 1].role # "toolResult"
      BY <1>1, <2>1
    <3>. QED  BY <3>1, SuffixPaired
  <2>2. CASE ~(k < n)
    <3>1. Len(t) = 0
      <4>. HIDE DEF t
      <4>. QED  BY <1>1, <1>3, <2>2
    <3>. HIDE DEF t
    <3>2. 1..Len(t) = {}
      BY <3>1
    <3>. QED  BY <3>2 DEF Paired
  <2>. QED  BY <2>1, <2>2
<1>5. k \in 2..n
  OBVIOUS
<1>. HIDE DEF n, t, new
<1>6. Len(new) = Len(t) + 1
  BY <1>1, <1>2, <1>3
<1>7. \A i \in 1..Len(t) : new[i + 1] = t[i]
  <2>. SUFFICES ASSUME NEW i \in 1..(n - k) PROVE new[i + 1] = t[i]
    BY <1>3
  <2>1. i + 1 \in 2..(n - k + 1) /\ (i + 1) + k - 1 = k + i
    BY <1>1, <1>5
  <2>2. new[i + 1] = log[(i + 1) + k - 1]
    BY <1>2, <2>1
  <2>. QED  BY <1>3, <2>1, <2>2
<1>8. new[1].role \notin {"assistant", "toolResult"}
  BY <1>2, HookMessages
<1>9. Paired(new)
  BY <1>2, <1>4, <1>6, <1>7, <1>8, HeadPaired
<1>. QED  BY <1>9 DEF new

\* The context without a reply that is incomplete or not yet answered.
Base == IF partial \/ HasReply THEN SubSeq(context, 1, Len(context) - 1) ELSE context

\* What lies before that reply is paired unless the run was cancelled; a run
\* starts over user messages.
PairInv ==
  /\ ~cancelled /\ pc # "done" => Paired(Base)
  /\ pc = "idle" => \A i \in 1..Len(transcript) : transcript[i].role = "user"

\* The reply of the turn stands right behind the base.
LEMMA ReplyBehindBase ==
  ASSUME Inv, ReplyInv, HasReply
  PROVE  Base \in Seq(Message) /\ context = Append(Base, reply)
<1>. DEFINE n == Len(context)
<1>1. /\ context \in Seq(Message) /\ context # <<>> /\ context[n] = reply
      /\ n \in Nat \ {0} /\ \A i \in 1..n : context[i] \in Message
  BY LogParts, LenProperties, ElementOfSeq, EmptySeq DEF ReplyInv
<1>2. Base = SubSeq(context, 1, n - 1)
  BY DEF Base
<1>. HIDE DEF n
<1>3. SubSeq(context, 1, n - 1) \in Seq(Message)
  <2>1. \A i \in 1..(n - 1) : context[i] \in Message
    BY <1>1
  <2>. QED  BY <1>1, <2>1, SubSeqProperties
<1>4. SubSeq(context, 1, n) = SubSeq(context, 1, n - 1) \o <<context[n]>>
  BY <1>1, SubSeqRecursiveSecond
<1>5. SubSeq(context, 1, n) = context
  BY <1>1, SubSeqFull DEF n
<1>6. n \in 1..n
  BY <1>1
<1>7. context[n] \in Message
  BY <1>1, <1>6
<1>. QED  BY <1>1, <1>2, <1>3, <1>4, <1>5, <1>7, AppendIsConcat

\* Outside replies and streams the base is the context.
LEMMA BaseType ==
  ASSUME Inv, ReplyInv
  PROVE  Base \in Seq(Message) /\ (~HasReply => Base = Stem)
BY StemType, ReplyBehindBase DEF Base, Stem

\* A step that leaves the base keeps it paired.
LEMMA QuietPairs ==
  ASSUME PairInv, pc # "done" \/ pc' = "done", pc' # "idle" \/ UNCHANGED <<pc, transcript>>,
         Base' = Base, ~cancelled' => ~cancelled
  PROVE  PairInv'
BY DEF PairInv

\* A batch that was not cut short leaves a result for each call behind its reply.
LEMMA CommitPairs ==
  ASSUME Inv, ReplyInv, PairInv, CommitBatch
  PROVE  PairInv'
<1>. SUFFICES ASSUME ~cancelled PROVE Paired(Base')
  BY DEF PairInv, CommitBatch
<1>1. HasReply /\ pc = "commit" /\ InBatch /\ reply \in Message /\ reply.role = "assistant"
  BY MessageTypes DEF CommitBatch, HasReply, InBatch, Inv, TypeOK, TurnTypeOK, Reply
<1>2. Base' = context' /\ context' = Append(Base, reply) \o Results
  BY <1>1, ReplyBehindBase DEF CommitBatch, Base, HasReply, InBatch, replyVars, Inv, TurnInv
<1>3. emitted = reply.calls /\ reply.turn = turns
  BY <1>1 DEF Inv, BatchInv, EmitInv, ReplyInv
<1>4. /\ Results \in Seq(Message) /\ Len(Results) = emitted
      /\ \A c \in 1..emitted : Results[c] = ToolResult(turns, c, outcome[c].error)
  BY ResultsParts, ResultsType
<1>5. ASSUME NEW c \in 1..Len(Results)
      PROVE  /\ Results[c].role = "toolResult"
             /\ Results[c].turn = reply.turn /\ Results[c].call = c
  <2>1. Results[c] = ToolResult(turns, c, outcome[c].error)
    BY <1>4
  <2>. QED  BY <1>3, <2>1 DEF ToolResult
<1>6. Base \in Seq(Message) /\ Paired(Base)
  BY <1>1, BaseType DEF PairInv
<1>. QED  BY <1>1, <1>2, <1>3, <1>4, <1>5, <1>6, BatchPaired

\* A reply without calls needs no results.
LEMMA NoCallsPairs ==
  ASSUME Inv, ReplyInv, PairInv, NoCalls
  PROVE  PairInv'
<1>. SUFFICES ASSUME ~cancelled PROVE Paired(Base')
  BY DEF PairInv, NoCalls
<1>1. HasReply /\ reply \in Message /\ reply.role = "assistant" /\ reply.calls = 0 /\ pc = "replied"
  BY MessageTypes DEF NoCalls, HasReply, Inv, TypeOK, TurnTypeOK, Reply
<1>2. Base' = Append(Base, reply)
  BY <1>1, ReplyBehindBase DEF NoCalls, Base, HasReply, InBatch, replyVars, logVars, Inv, TurnInv
<1>3. Base \in Seq(Message) /\ Paired(Base)
  BY <1>1, BaseType DEF PairInv
<1>4. /\ <<>> \in Seq(Message) /\ Len(<<>>) = 0
      /\ \A k \in 1..Len(<<>>) : /\ <<>>[k].role = "toolResult"
                                 /\ <<>>[k].turn = reply.turn /\ <<>>[k].call = k
  BY EmptySeq
<1>5. Paired(Append(Base, reply) \o <<>>)
  BY <1>1, <1>3, <1>4, BatchPaired
<1>6. Append(Base, reply) \o <<>> = Append(Base, reply)
  BY <1>1, <1>3, AppendProperties, ConcatEmptySeq
<1>. QED  BY <1>2, <1>5, <1>6

\* A run starts over user messages only.
LEMMA StartPairs ==
  ASSUME Inv, PairInv, Start
  PROVE  PairInv'
<1>1. pc = "idle" /\ pc' = "pollInitial" /\ ~partial'
  BY DEF Start, StartPrompt, StartContinue, BeginLoop
<1>2. Base' = context'
  BY <1>1 DEF Base, HasReply, InBatch
<1>3. transcript \in Seq(Message) /\ \A i \in 1..Len(transcript) : transcript[i].role = "user"
  BY <1>1, LogParts DEF PairInv
<1>4. ASSUME NEW m \in UserMessages, context' = transcript \o <<User(m)>>
      PROVE  Paired(context')
  <2>1. User(m) \in Message /\ User(m).role = "user"
    BY MessageTypes DEF User
  <2>2. context' = Append(transcript, User(m))
    BY <1>3, <1>4, <2>1, AppendIsConcat
  <2>. QED  BY <1>3, <2>1, <2>2, UsersPaired, UserPaired
<1>5. ASSUME context' = transcript \o <<>>
      PROVE  Paired(context')
  BY <1>3, <1>5, ConcatEmptySeq, UsersPaired
<1>6. Paired(context')
  BY <1>4, <1>5 DEF Start, StartPrompt, StartContinue, BeginLoop, Inv, TypeOK, LogTypeOK
<1>. QED  BY <1>1, <1>2, <1>6 DEF PairInv

\* The hooks that replace a context cut it only where nothing is owed.
LEMMA RewritePairs ==
  ASSUME Policy = "TokenBudgetPolicy", Inv, PairInv, PrepareNextTurn
  PROVE  PairInv'
<1>1. /\ pc = "turnEnd" /\ pc' \in {"shouldStop", "pollSteering"} /\ UNCHANGED <<partial, cancelled>>
      /\ ~partial
  BY DEF PrepareNextTurn, replyVars, Inv, TurnInv
<1>2. Base' = context' /\ Base = context
  BY <1>1 DEF Base, HasReply, InBatch
<1>3. context \in Seq(Message)
  BY LogParts
<1>4. ASSUME context' \in Rewrites(context), Paired(context)
      PROVE  Paired(context')
  <2>. DEFINE s == Shortened(context)
  <2>1. s \in Seq(Message) /\ Paired(s)
    BY <1>3, <1>4, Shortening, ShortPaired
  <2>2. PICK folded \in Seq(Message) :
          /\ folded = s \/ \E k \in Cuts(s) : folded = Folded(s, k)
          /\ context' = folded \/ context' = Append(folded, Remark)
    BY <1>3, <1>4, Rewriting
  <2>. HIDE DEF s
  <2>3. ASSUME NEW k \in Cuts(s), folded = Folded(s, k) PROVE Paired(folded)
    <3>1. k \in 2..Len(s) /\ (k < Len(s) => s[k + 1].role # "toolResult")
      BY DEF Cuts
    <3>. QED  BY <2>1, <2>3, <3>1, FoldPaired
  <2>4. Paired(folded)
    BY <2>1, <2>2, <2>3
  <2>5. Remark \in Message /\ Remark.role \notin {"assistant", "toolResult"}
    BY HookMessages
  <2>6. Paired(Append(folded, Remark))
    BY <2>4, <2>5, UserPaired
  <2>. QED  BY <2>2, <2>4, <2>6
<1>. QED  BY <1>1, <1>2, <1>4 DEF PairInv, PrepareNextTurn

\* Every step keeps the base paired.
LEMMA PairStep ==
  ASSUME Policy = "TokenBudgetPolicy", Inv, ReplyInv, PairInv, [Next]_vars
  PROVE  PairInv'
<1>1. CASE Start
  BY <1>1, StartPairs
<1>2. CASE Inject
  <2>1. /\ pc = "inject" /\ pc' \in {"request", "inject"} /\ UNCHANGED <<partial, cancelled>> /\ ~partial
        /\ pending \in Seq(UserMessage) /\ pending # <<>> /\ context' = Append(context, Head(pending))
    BY <1>2 DEF Inject, replyVars, Inv, TypeOK, LogTypeOK, TurnInv
  <2>2. Head(pending) \in Message /\ Head(pending).role = "user"
    <3>1. Head(pending) \in UserMessage
      BY <2>1, HeadTailProperties
    <3>. QED  BY <3>1, MessageTypes DEF UserMessage
  <2>3. Base = context /\ Base' = context' /\ context \in Seq(Message)
    BY <2>1, LogParts DEF Base, HasReply, InBatch
  <2>. QED  BY <2>1, <2>2, <2>3, UserPaired DEF PairInv
<1>3. CASE Request \/ StreamDone
  <2>1. /\ pc \in {"request", "stream"} /\ pc' \in {"stream", "replied"} /\ UNCHANGED cancelled
    BY <1>3 DEF Request, Replied, StreamDone
  <2>2. ASSUME NEW r \in Reply, Replied(r), r \in Message PROVE Base' = Base
    <3>1. context' = Append(Stem, r) /\ pc' = "replied"
      BY <2>2, ReplyBehindStem DEF Replied
    <3>2. Base' = SubSeq(Append(Stem, r), 1, Len(Append(Stem, r)) - 1)
      BY <3>1 DEF Base, HasReply
    <3>. QED  BY <2>1, <2>2, <3>2, StemType, FrontOfAppend, BaseType DEF HasReply, InBatch
  <2>3. ASSUME pc' = "stream", UNCHANGED <<logVars, partial>> PROVE Base' = Base
    <3>1. Base = Stem /\ Base' = Stem'
      BY <2>1, <2>3 DEF Base, Stem, HasReply, InBatch
    <3>2. Stem' = Stem
      BY <2>3 DEF Stem, logVars
    <3>. QED  BY <3>1, <3>2
  <2>4. Base' = Base
    <3>1. \/ pc' = "stream" /\ UNCHANGED <<logVars, partial>>
          \/ \E r \in Reply : Replied(r) /\ r \in Message
      BY <1>3, RepliesAreMessages
    <3>2. ASSUME \E r \in Reply : Replied(r) /\ r \in Message PROVE Base' = Base
      <4>1. PICK r \in Reply : Replied(r) /\ r \in Message
        BY <3>2
      <4>. QED  BY <2>2, <4>1
    <3>. QED  BY <2>3, <3>1, <3>2
  <2>. QED  BY <2>1, <2>4, QuietPairs
<1>4. CASE StreamStart
  <2>1. pc = "stream" /\ pc' = "stream" /\ UNCHANGED cancelled
    BY <1>4 DEF StreamStart
  <2>2. Base = Stem /\ Base' = Stem'
    BY <2>1 DEF Base, Stem, HasReply, InBatch
  <2>. QED  BY <1>4, <2>1, <2>2, StemOfPartial, QuietPairs
<1>5. CASE ErrorEnd
  BY <1>5 DEF ErrorEnd, PairInv
<1>6. CASE NoCalls
  BY <1>6, NoCallsPairs
<1>7. CASE PrepareNextTurn
  BY <1>7, RewritePairs
<1>8. CASE PollSteering \/ ShouldStop \/ PollFollowUp
  <2>1. /\ pc \in {"pollInitial", "pollSteering", "shouldStop", "pollFollowUp"}
        /\ pc' \in {"inject", "request", "pollSteering", "pollFollowUp", "done"}
        /\ UNCHANGED <<cancelled, context, partial>>
    BY <1>8 DEF PollSteering, TurnOrFollowUp, ShouldStop, PollFollowUp, logVars, replyVars
  <2>2. Base' = Base
    BY <2>1 DEF Base, HasReply, InBatch
  <2>. QED  BY <2>1, <2>2, QuietPairs
<1>9. CASE CommitBatch
  BY <1>9, CommitPairs
<1>10. CASE (BatchStep /\ ~CommitBatch) \/ \E c \in Calls : ToolStep(c)
  <2>1. HasReply /\ HasReply' /\ pc # "done" /\ pc' # "idle"
    <3>1. ASSUME NEW c \in Calls, ToolStep(c) PROVE InBatch
      <4>1. slot[c] # "none"
        BY <3>1, AgentLoopAssumption DEF ToolStep, Execute, DeliverUpdate, Settle, FinishCall, Inv, CallsInv, TypeOK, BatchTypeOK
      <4>. QED  BY <4>1, SlotInBatch
    <3>. QED  BY <1>10, <3>1 DEF HasReply, InBatch, BatchStep, StartBatch, StartCall, FailCall, Prepare,
                 CheckCancel, AfterBatch, CollectBatch, EmitNext, EmitEnd, ToolStep, Execute,
                 DeliverUpdate, Settle, FinishCall
  <2>2. UNCHANGED <<context, cancelled>>
    BY <1>10, BatchLeaves DEF BatchStep, StartBatch, StartCall, FailCall, Prepare, CheckCancel,
                 CollectBatch, EmitNext, EmitEnd, ToolStep, Execute, DeliverUpdate, Settle, FinishCall
  <2>3. Base' = Base
    BY <2>1, <2>2 DEF Base
  <2>. QED  BY <2>1, <2>2, <2>3, QuietPairs
<1>11. CASE Surroundings \/ Terminated \/ UNCHANGED vars
  <2>1. UNCHANGED <<pc, transcript, context, partial>> /\ (~cancelled' => ~cancelled)
    BY <1>11 DEF Surroundings, Abort, Steer, FollowUp, OnUpdate, Terminated, vars, logVars, replyVars, sinkVars
  <2>2. Base' = Base
    BY <2>1 DEF Base, HasReply, InBatch
  <2>. QED  BY <2>1, <2>2 DEF PairInv
<1>. QED  BY <1>1, <1>2, <1>3, <1>4, <1>5, <1>6, <1>7, <1>8, <1>9, <1>10, <1>11
         DEF Next, LoopStep, TurnStep

\* At the start the context is empty.
LEMMA PairInit == Init => PairInv
<1>. SUFFICES ASSUME Init PROVE PairInv
  OBVIOUS
<1>1. Base = <<>> /\ Paired(<<>>)
  BY EmptySeq, UsersPaired DEF Init, Base, HasReply, InBatch
<1>2. \A i \in 1..Len(transcript) : transcript[i].role = "user"
  BY DEF Init, User
<1>. QED  BY <1>1, <1>2 DEF PairInv

\* A request of a run that was not cancelled never carries a call without its
\* result or a result without its call, whatever tools ran, replies were cut
\* off or contexts replaced before (stream_assistant_response), provided that
\* compaction cuts as TokenBudgetPolicy does.
THEOREM PairedAtRequestHolds == Policy = "TokenBudgetPolicy" => (Spec => []PairedAtRequest)
<1>. SUFFICES ASSUME Policy = "TokenBudgetPolicy" PROVE Spec => []PairedAtRequest
  OBVIOUS
<1>1. Inv /\ PairInv => PairedAtRequest
  <2>. SUFFICES ASSUME Inv, PairInv, pc = "request", ~cancelled PROVE Paired(context)
    BY DEF PairedAtRequest
  <2>1. Base = context
    BY DEF Base, HasReply, InBatch, Inv, TurnInv
  <2>. QED  BY <2>1 DEF PairInv
<1>2. Inv /\ ReplyInv /\ PairInv /\ [Next]_vars => PairInv'
  BY PairStep
<1>. QED  BY <1>1, <1>2, AccountsInit, PairInit, ReplyStep, InvHolds, PTL DEF Spec

-----------------------------------------------------------------------------
(***************************************************************************)
(* The inductive invariant                                                 *)
(***************************************************************************)

\* Nothing runs when the agent is built.
LEMMA AgentInitInv == AgentInit => RunInv
BY DEF AgentInit, Init, RunInv, SingleRun, Driving, BoundTo, Stages, InBatch

\* While the loop is idle no tool of a batch is left to move it, and a batch
\* leaves no call behind.
LEMMA LoopStepInv ==
  ASSUME ~InBatch => \A c \in Calls : slot[c] = "none", LoopStep
  PROVE  /\ pc' # "idle" => pc # "idle"
         /\ ~InBatch' => \A c \in Calls : slot'[c] = "none"
<1>1. ASSUME TurnStep
      PROVE  pc # "idle" /\ (~InBatch' => \A c \in Calls : slot'[c] = "none")
  <2>1. ~InBatch /\ pc # "idle" /\ slot' = slot
    BY <1>1 DEF TurnStep, PollSteering, Inject, Request, Replied, StreamStart,
       StreamDone, ErrorEnd, NoCalls, PrepareNextTurn, ShouldStop, PollFollowUp,
       InBatch, batchVars
  <2>. QED  BY <2>1
<1>2. ASSUME BatchStep
      PROVE  pc # "idle" /\ (~InBatch' => \A c \in Calls : slot'[c] = "none")
  <2>1. CASE CommitBatch
    BY <2>1 DEF CommitBatch
  <2>2. CASE StartBatch \/ StartCall \/ FailCall \/ Prepare \/ CheckCancel
               \/ CollectBatch \/ EmitNext \/ EmitEnd
    BY <2>2 DEF StartBatch, StartCall, FailCall, Prepare, CheckCancel, AfterBatch,
       CollectBatch, EmitNext, EmitEnd, InBatch
  <2>. QED  BY <1>2, <2>1, <2>2 DEF BatchStep
<1>3. ASSUME NEW c \in Calls, ToolStep(c)
      PROVE  (pc' # "idle" => pc # "idle")
             /\ (~InBatch' => \A d \in Calls : slot'[d] = "none")
  <2>1. CASE Execute(c)
    BY <2>1 DEF Execute, InBatch
  <2>2. CASE DeliverUpdate(c)
    BY <2>2 DEF DeliverUpdate, batchVars, InBatch
  <2>3. CASE Settle(c)
    BY <2>3 DEF Settle, InBatch
  <2>4. CASE FinishCall(c)
    BY <2>4 DEF FinishCall, InBatch
  <2>. QED  BY <1>3, <2>1, <2>2, <2>3, <2>4 DEF ToolStep
<1>. QED  BY <1>1, <1>2, <1>3 DEF LoopStep

\* What the invariant reads of the loop stays true when the loop and the queues
\* move and the callers do not.
LEMMA CallersStill ==
  ASSUME RunInv, UNCHANGED <<call, run, active, runs, settled>>,
         pc' # "idle" => pc # "idle",
         ~InBatch' => \A c \in Calls : slot'[c] = "none"
  PROVE  RunInv'
<1>1. Driving' = Driving
  BY DEF Driving
<1>. QED  BY <1>1 DEF RunInv, SingleRun, BoundTo

\* A step of a caller that neither begins nor ends a run leaves it where it was
\* with respect to the run.
LEMMA StageInv ==
  ASSUME RunInv, NEW c \in Callers, NEW s \in Stages, NEW r \in Nat,
         call' = [call EXCEPT ![c] = s], run' = [run EXCEPT ![c] = r],
         UNCHANGED <<pc, slot, active, runs, settled>>,
         c \in Driving <=> s \in {"snapshot", "config", "looping", "failed", "finish"},
         c \in Driving => r = run[c],
         call[c] = "looping" => s = "looping",
         s # "settle",
         s = "waiting" => r \in 1..runs
  PROVE  RunInv'
<1>1. Driving' = Driving
  BY DEF Driving, RunInv
<1>2. SingleRun'
  BY <1>1 DEF RunInv, SingleRun, Driving
<1>3. \A d \in Callers : BoundTo(d)'
  BY DEF RunInv, BoundTo
<1>. QED  BY <1>2, <1>3 DEF RunInv, InBatch

-----------------------------------------------------------------------------
(***************************************************************************)
(* The callers' steps                                                      *)
(***************************************************************************)

\* A message queue or a transcript moves and the runs do not.
LEMMA OutsideInv == RunInv /\ OutsideStep => RunInv'
<1>. SUFFICES ASSUME RunInv, OutsideStep
              PROVE  RunInv'
  OBVIOUS
<1>1. UNCHANGED <<call, run, active, runs, settled, pc, slot>>
  BY DEF OutsideStep, AbortRun, TakeQueues, Reset, SetMessages, SetSetting, Steer,
     FollowUp, OnUpdate, agentVars, callVars, runVars, vars, loopVars, batchVars
<1>2. ~InBatch' => \A c \in Calls : slot'[c] = "none"
  BY <1>1 DEF RunInv, InBatch
<1>. QED  BY <1>1, <1>2, CallersStill

\* The caller that finds no run active gets the next one, and drives it alone.
LEMMA BeginRunInv == ASSUME RunInv, NEW c \in Callers, BeginRun(c)
                     PROVE  RunInv'
<1>1. /\ active = 0 /\ active' = runs + 1 /\ runs' = runs + 1
      /\ call[c] = "begin" /\ call' = [call EXCEPT ![c] = "snapshot"]
      /\ run' = [run EXCEPT ![c] = runs + 1]
      /\ UNCHANGED <<pc, slot, settled>>
  BY DEF BeginRun, loopVars, batchVars
<1>2. Driving = {} /\ Driving' = {c}
  BY <1>1 DEF RunInv, SingleRun, Driving
<1>3. SingleRun'
  BY <1>1, <1>2 DEF RunInv, SingleRun
<1>4. \A d \in Callers : BoundTo(d)'
  BY <1>1 DEF RunInv, BoundTo
<1>5. settled' \subseteq 1..runs' /\ active' \notin settled'
  BY <1>1 DEF RunInv
<1>. QED  BY <1>1, <1>3, <1>4, <1>5 DEF RunInv, InBatch, Stages

\* The one caller that drives a run starts the loop, or fails to.
LEMMA BuildLoopConfigInv == ASSUME RunInv, NEW c \in Callers, BuildLoopConfig(c)
                            PROVE  RunInv'
<1>1. /\ call[c] = "config"
      /\ UNCHANGED <<run, active, runs, settled, slot>>
      /\ \/ call' = [call EXCEPT ![c] = "looping"]
         \/ call' = [call EXCEPT ![c] = "failed"] /\ pc' = pc
  BY DEF BuildLoopConfig, runVars, StartPrompt, StartContinue, BeginLoop, loopVars,
     batchVars
<1>2. Driving = {c} /\ Driving' = {c}
  BY <1>1 DEF RunInv, SingleRun, Driving
<1>3. pc = "idle"
  BY <1>1, <1>2 DEF RunInv, SingleRun
<1>4. SingleRun'
  BY <1>1, <1>2, <1>3 DEF RunInv, SingleRun
<1>5. \A d \in Callers : BoundTo(d)'
  BY <1>1 DEF RunInv, BoundTo
<1>. QED  BY <1>1, <1>3, <1>4, <1>5 DEF RunInv, InBatch, Stages

\* The driver records the end of the run and leaves no driver.
LEMMA FinishRunInv == ASSUME RunInv, NEW c \in Callers, FinishRun(c)
                      PROVE  RunInv'
<1>1. /\ call[c] \in {"looping", "finish"}
      /\ call' = [call EXCEPT ![c] = "settle"]
      /\ active' = 0 /\ pc' = "idle"
      /\ UNCHANGED <<run, runs, settled, slot>>
      /\ pc \in {"done", "idle"} \/ call[c] = "finish"
  BY DEF FinishRun, loopVars, batchVars
<1>2. Driving = {c} /\ Driving' = {} /\ active # 0 /\ run[c] = active
  BY <1>1 DEF RunInv, SingleRun, Driving
<1>3. ~InBatch
  BY <1>1, <1>2 DEF RunInv, SingleRun, InBatch
<1>4. SingleRun'
  BY <1>1, <1>2 DEF SingleRun
<1>5. \A d \in Callers : BoundTo(d)'
  BY <1>1, <1>2 DEF RunInv, BoundTo, SingleRun
<1>6. active' \notin settled'
  BY <1>1 DEF RunInv
<1>. QED  BY <1>1, <1>3, <1>4, <1>5, <1>6 DEF RunInv, Stages

\* The end of a run is made known after the agent has forgotten the run.
LEMMA SettleRunInv == ASSUME RunInv, NEW c \in Callers, SettleRun(c)
                      PROVE  RunInv'
<1>1. /\ call[c] = "settle" /\ settled' = settled \cup {run[c]}
      /\ call' = [call EXCEPT ![c] = "ready"] /\ run' = [run EXCEPT ![c] = 0]
      /\ UNCHANGED <<pc, slot, active, runs>>
  BY DEF SettleRun, Return, vars, batchVars
<1>2. Driving' = Driving /\ c \notin Driving
  BY <1>1 DEF RunInv, Driving
<1>3. SingleRun'
  BY <1>1, <1>2 DEF RunInv, SingleRun, Driving
<1>4. \A d \in Callers : BoundTo(d)'
  BY <1>1 DEF RunInv, BoundTo
<1>5. run[c] \in 1..runs /\ run[c] # active
  BY <1>1 DEF RunInv, BoundTo
<1>6. settled' \subseteq 1..runs' /\ active' \notin settled'
  BY <1>1, <1>5 DEF RunInv
<1>. QED  BY <1>1, <1>3, <1>4, <1>6 DEF RunInv, InBatch, Stages

\* The other steps of a call leave it where it was with respect to the run.
LEMMA CallerInv == ASSUME RunInv, NEW c \in Callers, RunStep(c) \/ CallerStep(c)
                   PROVE  RunInv'
<1>0. /\ call \in [Callers -> Stages] /\ run \in [Callers -> Nat]
      /\ run[c] \in Nat /\ run = [run EXCEPT ![c] = run[c]]
      /\ active \in Nat /\ runs \in Nat /\ active <= runs
  BY DEF RunInv
<1>1. CASE \/ \E m \in UserMessages : Prompt(c, m)
           \/ Continue(c)
  <2>1. /\ call[c] = "ready" /\ call' = [call EXCEPT ![c] = "begin"] /\ run' = run
        /\ UNCHANGED <<pc, slot, active, runs, settled>>
    BY <1>1 DEF Prompt, Continue, Decide, runVars, loopVars, batchVars
  <2>. QED  BY <1>0, <2>1, StageInv DEF Driving, Stages
<1>2. CASE BeginRun(c)
  BY <1>2, BeginRunInv
<1>3. CASE Refuse(c) \/ WaitReturns(c)
  <2>1. /\ call[c] \in {"begin", "waiting"} /\ Return(c)
        /\ UNCHANGED <<pc, slot, active, runs, settled>>
    BY <1>3 DEF Refuse, WaitReturns, runVars, loopVars, vars, batchVars
  <2>. QED  BY <1>0, <2>1, StageInv DEF Return, Driving, Stages
<1>4. CASE SnapshotContext(c)
  <2>1. /\ call[c] = "snapshot" /\ call' = [call EXCEPT ![c] = "config"] /\ run' = run
        /\ UNCHANGED <<pc, slot, active, runs, settled>>
    BY <1>4 DEF SnapshotContext, loopVars, batchVars
  <2>. QED  BY <1>0, <2>1, StageInv DEF Driving, Stages
<1>5. CASE BuildLoopConfig(c)
  BY <1>5, BuildLoopConfigInv
<1>6. CASE FailRun(c)
  <2>1. /\ call[c] = "failed" /\ call' = [call EXCEPT ![c] = "finish"] /\ run' = run
        /\ UNCHANGED <<pc, slot, active, runs, settled>>
    BY <1>6 DEF FailRun, loopVars, batchVars, runVars
  <2>. QED  BY <1>0, <2>1, StageInv DEF Driving, Stages
<1>7. CASE FinishRun(c)
  BY <1>7, FinishRunInv
<1>8. CASE SettleRun(c)
  BY <1>8, SettleRunInv
<1>9. CASE WaitForIdle(c)
  <2>1. /\ call[c] = "ready" /\ active # 0
        /\ call' = [call EXCEPT ![c] = "waiting"] /\ run' = [run EXCEPT ![c] = active]
        /\ UNCHANGED <<pc, slot, active, runs, settled>>
    BY <1>9 DEF WaitForIdle, vars, batchVars, runVars
  <2>2. active \in 1..runs /\ c \notin Driving
    BY <1>0, <2>1 DEF Driving
  <2>. QED  BY <1>0, <2>1, <2>2, StageInv DEF Stages
<1>. QED  BY <1>1, <1>2, <1>3, <1>4, <1>5, <1>6, <1>7, <1>8, <1>9
          DEF RunStep, CallerStep

-----------------------------------------------------------------------------
(***************************************************************************)
(* The theorems                                                            *)
(***************************************************************************)

\* Every step of the callers, the loop and the surroundings keeps the
\* invariant of the runs.
LEMMA AgentStepInv == RunInv /\ [AgentNext]_allVars => RunInv'
<1>. SUFFICES ASSUME RunInv, [AgentNext]_allVars
              PROVE  RunInv'
  OBVIOUS
<1>1. CASE \E c \in Callers : RunStep(c) \/ CallerStep(c)
  BY <1>1, CallerInv
<1>2. CASE LoopRuns
  <2>1. UNCHANGED <<call, run, active, runs, settled>>
    BY <1>2 DEF LoopRuns, agentVars, callVars, runVars
  <2>2. ~InBatch => \A c \in Calls : slot[c] = "none"
    BY DEF RunInv
  <2>. QED  BY <1>2, <2>1, <2>2, LoopStepInv, CallersStill DEF LoopRuns
<1>3. CASE OutsideStep
  BY <1>3, OutsideInv
<1>4. CASE UNCHANGED allVars
  <2>1. UNCHANGED <<call, run, active, runs, settled, pc, slot>>
    BY <1>4 DEF allVars, vars, agentVars, callVars, runVars, batchVars
  <2>2. ~InBatch' => \A c \in Calls : slot'[c] = "none"
    BY <2>1 DEF RunInv, InBatch
  <2>. QED  BY <2>1, <2>2, CallersStill
<1>. QED  BY <1>1, <1>2, <1>3, <1>4 DEF AgentNext

\* The invariant of the runs holds in every reachable state: stages and run
\* numbers are coherent and the active run is never recorded as over.
THEOREM RunInvHolds == AgentSpec => []RunInv
BY AgentInitInv, AgentStepInv, PTL DEF AgentSpec

\* Whatever calls race for the lock of Inner, begin_run gives the agent to one
\* of them at a time and the loop works for that one alone.
THEOREM SingleRunHolds == AgentSpec => []SingleRun
<1>1. RunInv => SingleRun
  BY DEF RunInv
<1>. QED  BY <1>1, RunInvHolds, PTL

\* A caller of wait_for_idle is released only when the run it was bound to is
\* no longer the agent's.
THEOREM WaitersSeeTheEndHolds == AgentSpec => WaitersSeeTheEnd
<1>1. RunInv /\ [AgentNext]_allVars
        => [\A c \in Callers : call[c] = "waiting" /\ call'[c] = "ready"
                                 => active # run[c]]_allVars
  <2>. SUFFICES ASSUME RunInv, AgentNext, NEW c \in Callers,
                       call[c] = "waiting", call'[c] = "ready"
                PROVE  active # run[c]
    OBVIOUS
  <2>1. call' # call
    OBVIOUS
  <2>2. PICK d \in Callers : RunStep(d) \/ CallerStep(d)
    BY <2>1 DEF AgentNext, LoopRuns, OutsideStep, AbortRun, TakeQueues, Reset,
       SetMessages, SetSetting, agentVars, callVars
  <2>3. WaitReturns(c)
    BY <2>2 DEF RunInv, RunStep, CallerStep, Prompt, Continue, Decide, BeginRun,
       Refuse, Return, SnapshotContext, BuildLoopConfig, FailRun, FinishRun,
       SettleRun, WaitForIdle, WaitReturns
  <2>. QED  BY <2>3 DEF WaitReturns, RunInv
<1>. QED  BY <1>1, RunInvHolds, PTL DEF AgentSpec, WaitersSeeTheEnd

-----------------------------------------------------------------------------
(***************************************************************************)
(* Counting messages                                                       *)
(***************************************************************************)

\* Two logs one after the other hold together what each of them holds.
LEMMA OccurrencesConcat ==
  ASSUME NEW S, NEW a \in Seq(S), NEW b \in Seq(S), NEW m
  PROVE  Occurrences(a \o b, m) = Occurrences(a, m) + Occurrences(b, m)
<1>. DEFINE s == a \o b  k == Len(a)  l == Len(b)
            p == SubSeq(s, 1, k)  q == SubSeq(s, k + 1, Len(s))
<1>1. k \in Nat /\ l \in Nat /\ s \in Seq(S) /\ Len(s) = k + l
  BY ConcatProperties, LenProperties
<1>2. /\ \A i \in 1..k : s[i] = a[i] /\ a[i] \in S
      /\ \A i \in 1..l : s[k + i] = b[i] /\ b[i] \in S
  <2>1. \A i \in 1..(k + l) : s[i] = IF i <= k THEN a[i] ELSE b[i - k]
    BY ConcatProperties
  <2>2. \A i \in 1..l : k + i \in 1..(k + l) /\ ~(k + i <= k) /\ (k + i) - k = i
    BY <1>1
  <2>3. \A i \in 1..k : i \in 1..(k + l) /\ i <= k
    BY <1>1
  <2>. HIDE DEF s
  <2>. QED  BY <2>1, <2>2, <2>3, ElementOfSeq
<1>3. Occurrences(s, m) = Occurrences(p, m) + Occurrences(q, m)
  <2>1. k \in 0..Len(s)
    BY <1>1
  <2>. HIDE DEF s, k
  <2>. QED  BY <1>1, <2>1, OccurrencesSplit
<1>4. p = a
  <2>1. /\ p \in Seq(S) /\ Len(p) = IF 1 <= k THEN k - 1 + 1 ELSE 0
        /\ \A i \in 1..(k - 1 + 1) : p[i] = s[1 + i - 1]
    <3>1. \A i \in 1..k : s[i] \in S
      BY <1>2
    <3>. HIDE DEF s, k
    <3>. QED  BY <1>1, <3>1, SubSeqProperties
  <2>2. Len(p) = k /\ \A i \in 1..k : p[i] = a[i]
    <3>1. \A i \in 1..k : i \in 1..(k - 1 + 1) /\ 1 + i - 1 = i
      BY <1>1
    <3>. HIDE DEF s, k, p
    <3>. QED  BY <1>1, <1>2, <2>1, <3>1
  <2>. HIDE DEF p
  <2>. QED  BY <2>1, <2>2, SeqEqual
<1>5. q = b
  <2>1. \A i \in (k + 1)..(k + l) : s[i] \in S
    <3>1. \A i \in (k + 1)..(k + l) : i - k \in 1..l /\ k + (i - k) = i
      BY <1>1
    <3>. HIDE DEF s, k, l
    <3>. QED  BY <1>2, <3>1
  <2>2. /\ q \in Seq(S) /\ Len(q) = IF k + 1 <= k + l THEN (k + l) - (k + 1) + 1 ELSE 0
        /\ \A i \in 1..((k + l) - (k + 1) + 1) : q[i] = s[(k + 1) + i - 1]
    <3>. HIDE DEF s, k, l
    <3>. QED  BY <1>1, <2>1, SubSeqProperties, SMTT(30), ZenonT(30)
  <2>3. Len(q) = l /\ \A i \in 1..l : q[i] = b[i]
    <3>1. \A i \in 1..l : i \in 1..((k + l) - (k + 1) + 1) /\ (k + 1) + i - 1 = k + i
      BY <1>1
    <3>. HIDE DEF s, k, l, q
    <3>. QED  BY <1>1, <1>2, <2>2, <3>1
  <2>. HIDE DEF q
  <2>. QED  BY <2>2, <2>3, SeqEqual
<1>. QED  BY <1>3, <1>4, <1>5

\* A log without the message holds it no times.
LEMMA OccurrencesNone ==
  ASSUME NEW log, NEW m, \A i \in 1..Len(log) : log[i] # User(m)
  PROVE  Occurrences(log, m) = 0
<1>1. {i \in 1..Len(log) : log[i] = User(m)} = {}
  OBVIOUS
<1>. QED  BY <1>1, FS_EmptySet DEF Occurrences

\* A list of user messages names those that occur in it.
LEMMA OccurrencesNamed ==
  ASSUME NEW msgs \in Seq(UserMessage), NEW m \in UserMessages
  PROVE  m \in Ids(msgs) <=> Occurrences(msgs, m) # 0
<1>1. \A i \in 1..Len(msgs) : msgs[i] \in UserMessage
  BY ElementOfSeq
<1>2. m \in Ids(msgs) <=> Positions(msgs, m) # {}
  BY <1>1 DEF Ids, Positions, User, UserMessage
<1>3. /\ IsFiniteSet(Positions(msgs, m))
      /\ Occurrences(msgs, m) = Cardinality(Positions(msgs, m))
  BY OccurrencesType
<1>. QED  BY <1>2, <1>3, FS_EmptySet

\* A caller, and how many hold the message in their hands.
Holders(h, m) == {c \in Callers : Occurrences(h[c], m) = 1}
OneHolder(h, m) ==
  /\ \A c \in Callers : Occurrences(h[c], m) \in {0, 1}
  /\ \A c, d \in Holders(h, m) : c = d
InHands(h, m) == IF Holders(h, m) = {} THEN 0 ELSE 1

\* One at most.
LEMMA HoldersCounted ==
  ASSUME NEW h, NEW m, OneHolder(h, m)
  PROVE  Cardinality(Holders(h, m)) = InHands(h, m)
<1>1. CASE Holders(h, m) = {}
  BY <1>1, FS_EmptySet DEF InHands
<1>2. CASE Holders(h, m) # {}
  <2>1. PICK c : Holders(h, m) = {c}
    BY <1>2 DEF OneHolder
  <2>. QED  BY <1>2, <2>1, FS_Singleton DEF InHands
<1>. QED  BY <1>1, <1>2

\* A caller takes other messages in its hands.
LEMMA HandsMove ==
  ASSUME NEW h, h = [c \in Callers |-> h[c]], NEW m, OneHolder(h, m), NEW c \in Callers, NEW msgs,
         NEW k \in Nat, k = Occurrences(msgs, m),
         InHands(h, m) - Occurrences(h[c], m) + k <= 1
  PROVE  LET g == [h EXCEPT ![c] = msgs]
         IN  OneHolder(g, m) /\ InHands(g, m) = InHands(h, m) - Occurrences(h[c], m) + k
<1>. DEFINE g == [h EXCEPT ![c] = msgs]
<1>1. /\ g[c] = msgs /\ \A d \in Callers \ {c} : g[d] = h[d]
      /\ Occurrences(h[c], m) \in {0, 1} /\ InHands(h, m) \in {0, 1}
  BY DEF OneHolder, InHands
<1>. HIDE DEF g
<1>2. CASE Holders(h, m) \subseteq {c}
  <2>1. InHands(h, m) = Occurrences(h[c], m)
    BY <1>1, <1>2 DEF Holders, InHands
  <2>2. k \in {0, 1}
    BY <1>1, <2>1
  <2>3. \A d \in Callers \ {c} : Occurrences(g[d], m) = 0
    BY <1>1, <1>2 DEF Holders, OneHolder
  <2>4. Holders(g, m) = IF k = 1 THEN {c} ELSE {}
    BY <1>1, <2>3 DEF Holders
  <2>5. OneHolder(g, m) /\ InHands(g, m) = k
    BY <1>1, <2>2, <2>3, <2>4 DEF OneHolder, InHands
  <2>. QED  BY <1>1, <2>1, <2>2, <2>5 DEF g
<1>3. CASE ~(Holders(h, m) \subseteq {c})
  <2>1. PICK d \in Holders(h, m) : d # c
    BY <1>3
  <2>2. d \in Callers /\ c \notin Holders(h, m) /\ InHands(h, m) = 1
    BY <2>1 DEF OneHolder, Holders, InHands
  <2>3. Occurrences(h[c], m) = 0 /\ k = 0
    BY <1>1, <2>2 DEF Holders
  <2>4. Holders(g, m) = Holders(h, m) /\ OneHolder(g, m)
    BY <1>1, <2>2, <2>3, SMTT(30), ZenonT(30) DEF Holders, OneHolder
  <2>. QED  BY <1>1, <2>2, <2>3, <2>4 DEF g, InHands
<1>. QED  BY <1>2, <1>3

-----------------------------------------------------------------------------
(***************************************************************************)
(* Where a message is, while callers race                                  *)
(***************************************************************************)

Bit(b) == IF b THEN 1 ELSE 0

\* How often a message is elsewhere than in the logs: in a queue, pending, in
\* the hands of a caller, not sent or lost.
Elsewhere(st, fu, pe, h, un, lo, m) ==
  Occurrences(st, m) + Occurrences(fu, m) + Occurrences(pe, m) + InHands(h, m)
    + Bit(m \in un) + Bit(m \in lo)
Away(m) == Elsewhere(steering, followUp, pending, held, unsent, lost, m)

\* Once at most elsewhere or in a log that is or may become the transcript, and
\* the latter has what the transcript has.
OnceIn(log, m) ==
  /\ Away(m) + Occurrences(log, m) <= 1
  /\ Occurrences(transcript, m) <= Occurrences(log, m)

\* The transcript is what a run that begins reads, and is replaced at its end by
\* the context.  A caller may reset it at any time between.
OnceInv(m) ==
  /\ OneHolder(held, m)
  /\ Away(m) + Occurrences(transcript, m) <= 1
  /\ \A c \in Callers : call[c] = "config" => OnceIn(base, m)
  /\ \A c \in Callers : call[c] = "looping" => OnceIn(Stem, m)

\* What callers hold, and until when.
Sources == {"none", "argument", "transcript", "steering", "followUp"}
HoldInv ==
  /\ base \in Seq(Message) /\ lost \subseteq UserMessages
  /\ held \in [Callers -> Seq(UserMessage)] /\ from \in [Callers -> Sources]
  /\ \A c \in Callers :
       /\ held[c] # <<>> => call[c] \in {"begin", "snapshot", "config"} /\ from[c] # "transcript"
       /\ call[c] \in {"snapshot", "config"} => turns < MaxTurns

\* The invariant of the messages.
KeptInv == Inv /\ RunInv /\ PendingInv /\ HoldInv /\ \A m \in UserMessages : OnceInv(m)

\* The types of what is counted.
QueueTypes(st, fu, pe, h, un, lo) ==
  /\ st \in Seq(UserMessage) /\ fu \in Seq(UserMessage) /\ pe \in Seq(UserMessage)
  /\ h \in [Callers -> Seq(UserMessage)] /\ un \subseteq UserMessages /\ lo \subseteq UserMessages

\* Everything counted is a number.
LEMMA ElsewhereType ==
  ASSUME NEW st, NEW fu, NEW pe, NEW h, NEW un, NEW lo, QueueTypes(st, fu, pe, h, un, lo), NEW m
  PROVE  /\ Elsewhere(st, fu, pe, h, un, lo, m) \in Nat
         /\ Occurrences(st, m) \in Nat /\ Occurrences(fu, m) \in Nat /\ Occurrences(pe, m) \in Nat
         /\ InHands(h, m) \in {0, 1} /\ \A c \in Callers : Occurrences(h[c], m) \in Nat
         /\ Bit(m \in un) \in {0, 1} /\ Bit(m \in lo) \in {0, 1}
<1>1. Occurrences(st, m) \in Nat /\ Occurrences(fu, m) \in Nat /\ Occurrences(pe, m) \in Nat
  BY OccurrencesType DEF QueueTypes
<1>2. InHands(h, m) \in {0, 1} /\ Bit(m \in un) \in {0, 1} /\ Bit(m \in lo) \in {0, 1}
  BY DEF InHands, Bit
<1>3. \A c \in Callers : Occurrences(h[c], m) \in Nat
  BY OccurrencesType DEF QueueTypes
<1>. QED  BY <1>1, <1>2, <1>3 DEF Elsewhere

\* Only the caller has other messages in its hands.
Lays(h, c, msgs, g) == g = [h EXCEPT ![c] = msgs]

\* What one caller holds or lets go goes to a queue, to nobody, or comes from
\* there.
Passes(st, fu, un, lo, old, st1, fu1, un1, lo1, msgs, m) ==
  Occurrences(st1, m) + Occurrences(fu1, m) + Bit(m \in un1) + Bit(m \in lo1) + Occurrences(msgs, m)
    = Occurrences(st, m) + Occurrences(fu, m) + Bit(m \in un) + Bit(m \in lo) + Occurrences(old, m)

\* A caller that takes messages in its hands, or lays them down.
LEMMA HandsMoveElsewhere ==
  ASSUME NEW st, NEW fu, NEW pe, NEW h, NEW un, NEW lo, QueueTypes(st, fu, pe, h, un, lo),
         NEW st1, NEW fu1, NEW un1, NEW lo1, NEW c \in Callers, NEW msgs \in Seq(UserMessage),
         QueueTypes(st1, fu1, pe, h, un1, lo1), NEW m, OneHolder(h, m),
         Elsewhere(st, fu, pe, h, un, lo, m) <= 1,
         Passes(st, fu, un, lo, h[c], st1, fu1, un1, lo1, msgs, m),
         NEW g, Lays(h, c, msgs, g)
  PROVE  OneHolder(g, m) /\ Elsewhere(st1, fu1, pe, g, un1, lo1, m) = Elsewhere(st, fu, pe, h, un, lo, m)
<1>1. h = [d \in Callers |-> h[d]]
  BY DEF QueueTypes
<1>2. /\ Occurrences(st, m) \in Nat /\ Occurrences(fu, m) \in Nat /\ Occurrences(pe, m) \in Nat
      /\ InHands(h, m) \in {0, 1} /\ Occurrences(h[c], m) \in Nat
      /\ Bit(m \in un) \in {0, 1} /\ Bit(m \in lo) \in {0, 1}
  BY ElsewhereType
<1>3. /\ Occurrences(st1, m) \in Nat /\ Occurrences(fu1, m) \in Nat
      /\ Bit(m \in un1) \in {0, 1} /\ Bit(m \in lo1) \in {0, 1}
  BY ElsewhereType
<1>4. Occurrences(msgs, m) \in Nat
  BY OccurrencesType
<1>. DEFINE a == Occurrences(st, m)  b == Occurrences(fu, m)  p == Occurrences(pe, m)
            i == InHands(h, m)  x == Bit(m \in un)  y == Bit(m \in lo)
            a1 == Occurrences(st1, m)  b1 == Occurrences(fu1, m)
            x1 == Bit(m \in un1)  y1 == Bit(m \in lo1)
            k == Occurrences(h[c], m)  k1 == Occurrences(msgs, m)
            i1 == InHands(g, m)
<1>e. /\ Elsewhere(st, fu, pe, h, un, lo, m) = a + b + p + i + x + y
      /\ Elsewhere(st1, fu1, pe, g, un1, lo1, m) = a1 + b1 + p + i1 + x1 + y1
  BY DEF Elsewhere
<1>n. /\ a \in Nat /\ b \in Nat /\ p \in Nat /\ i \in {0, 1} /\ x \in {0, 1} /\ y \in {0, 1}
      /\ a1 \in Nat /\ b1 \in Nat /\ x1 \in {0, 1} /\ y1 \in {0, 1} /\ k \in Nat /\ k1 \in Nat
  BY <1>2, <1>3, <1>4
<1>s. a1 + b1 + x1 + y1 + k1 = a + b + x + y + k /\ a + b + p + i + x + y <= 1
  BY <1>e DEF Passes
<1>5. i - k + k1 <= 1
  <2>. HIDE DEF a, b, p, i, x, y, a1, b1, x1, y1, k, k1
  <2>. QED  BY <1>n, <1>s
<1>6. OneHolder(g, m) /\ InHands(g, m) = InHands(h, m) - Occurrences(h[c], m) + Occurrences(msgs, m)
  BY <1>1, <1>4, <1>5, HandsMove DEF Lays
<1>7. a1 + b1 + p + i1 + x1 + y1 = a + b + p + i + x + y
  <2>1. i1 = i - k + k1
    BY <1>6
  <2>. HIDE DEF a, b, p, i, x, y, a1, b1, x1, y1, k, k1, i1
  <2>. QED  BY <1>n, <1>s, <2>1
<1>. QED  BY <1>6, <1>7, <1>e

\* The types hold, before and after a step.
LEMMA KeptTypes ==
  ASSUME Inv, HoldInv
  PROVE  /\ QueueTypes(steering, followUp, pending, held, unsent, lost)
         /\ transcript \in Seq(Message) /\ base \in Seq(Message) /\ Stem \in Seq(Message)
         /\ context \in Seq(Message)
BY StemType DEF Inv, TypeOK, LogTypeOK, HoldInv, QueueTypes

LEMMA StemTypeNext ==
  ASSUME Inv'
  PROVE  Stem' \in Seq(Message)
<1>1. context' \in Seq(Message) /\ partial' \in BOOLEAN /\ (partial' => context' # <<>>)
  BY DEF Inv, TypeOK, LogTypeOK, TurnTypeOK, TurnInv
<1>2. Len(context') \in Nat /\ \A i \in 1..Len(context') : context'[i] \in Message
  BY <1>1, LenProperties, ElementOfSeq
<1>3. CASE partial'
  <2>1. \A i \in 1..(Len(context') - 1) : context'[i] \in Message
    BY <1>2
  <2>2. SubSeq(context', 1, Len(context') - 1) \in Seq(Message)
    BY <1>2, <2>1, SubSeqProperties
  <2>. QED  BY <1>3, <2>2 DEF Stem
<1>. QED  BY <1>1, <1>3 DEF Stem

LEMMA KeptTypesNext ==
  ASSUME Inv', HoldInv'
  PROVE  /\ QueueTypes(steering', followUp', pending', held', unsent', lost')
         /\ transcript' \in Seq(Message) /\ base' \in Seq(Message) /\ Stem' \in Seq(Message)
         /\ context' \in Seq(Message)
BY StemTypeNext DEF Inv, TypeOK, LogTypeOK, HoldInv, QueueTypes

\* What is counted, before and after a step.
LEMMA KeptCounts ==
  ASSUME Inv, HoldInv, Inv', HoldInv', NEW m
  PROVE  /\ Away(m) \in Nat /\ Away(m)' \in Nat
         /\ Occurrences(transcript, m) \in Nat /\ Occurrences(transcript', m) \in Nat
         /\ Occurrences(base, m) \in Nat /\ Occurrences(base', m) \in Nat
         /\ Occurrences(Stem, m) \in Nat /\ Occurrences(Stem', m) \in Nat
         /\ Occurrences(context, m) \in Nat /\ Occurrences(context', m) \in Nat
<1>1. Away(m) \in Nat
  BY KeptTypes, ElsewhereType DEF Away
<1>2. Away(m)' \in Nat
  BY KeptTypesNext, ElsewhereType DEF Away
<1>. QED  BY <1>1, <1>2, KeptTypes, KeptTypesNext, OccurrencesType

\* The count of the property is what is elsewhere and in the transcript.
LEMMA CountIs ==
  ASSUME Inv, HoldInv, NEW m, OneHolder(held, m)
  PROVE  Count(m) = Away(m) + Occurrences(transcript, m)
<1>1. Cardinality({c \in Callers : Occurrences(held[c], m) = 1}) = InHands(held, m)
  BY HoldersCounted DEF Holders
<1>2. /\ Occurrences(steering, m) \in Nat /\ Occurrences(followUp, m) \in Nat /\ Occurrences(pending, m) \in Nat
      /\ InHands(held, m) \in {0, 1} /\ Bit(m \in unsent) \in {0, 1} /\ Bit(m \in lost) \in {0, 1}
  BY KeptTypes, ElsewhereType
<1>3. Occurrences(transcript, m) \in Nat
  BY KeptTypes, OccurrencesType
<1>4. Count(m) = Occurrences(steering, m) + Occurrences(followUp, m) + Occurrences(pending, m)
                   + Occurrences(transcript, m) + InHands(held, m)
                   + Bit(m \in unsent) + Bit(m \in lost)
  BY <1>1 DEF Count, Bit
<1>. QED  BY <1>2, <1>3, <1>4 DEF Away, Elsewhere

LEMMA CountIsNext ==
  ASSUME Inv', HoldInv', NEW m, OneHolder(held', m)
  PROVE  Count(m)' = Away(m)' + Occurrences(transcript', m)
<1>1. Cardinality({c \in Callers : Occurrences(held'[c], m) = 1}) = InHands(held', m)
  BY HoldersCounted DEF Holders
<1>2. /\ Occurrences(steering', m) \in Nat /\ Occurrences(followUp', m) \in Nat /\ Occurrences(pending', m) \in Nat
      /\ InHands(held', m) \in {0, 1} /\ Bit(m \in unsent') \in {0, 1} /\ Bit(m \in lost') \in {0, 1}
  BY KeptTypesNext, ElsewhereType
<1>3. Occurrences(transcript', m) \in Nat
  BY KeptTypesNext, OccurrencesType
<1>4. Count(m)' = Occurrences(steering', m) + Occurrences(followUp', m) + Occurrences(pending', m)
                   + Occurrences(transcript', m) + InHands(held', m)
                   + Bit(m \in unsent') + Bit(m \in lost')
  BY <1>1 DEF Count, Bit
<1>. QED  BY <1>2, <1>3, <1>4 DEF Away, Elsewhere

-----------------------------------------------------------------------------
(***************************************************************************)
(* The loop's invariant in a run of an agent                               *)
(***************************************************************************)

\* A caller may change the queues and the transcript, hide what is shown, and
\* cancel the run; when nothing runs it may also end the cancellation.
LEMMA AroundInv ==
  ASSUME Inv, UNCHANGED <<pc, loopVars>>, pendingCalls' \in {pendingCalls, {}},
         transcript' \in Seq(Message), steering' \in Seq(UserMessage), followUp' \in Seq(UserMessage),
         unsent' \subseteq UserMessages, streaming' \in {streaming, FALSE},
         cancelled' \in BOOLEAN, cancelled' \/ cancelled' = cancelled \/ pc = "idle"
  PROVE  Inv'
<1>. USE DEF Inv, TypeOK, InBatch, loopVars, logVars, turnVars, replyVars, batchVars, updateVars
<1>1. LogTypeOK'
  BY DEF LogTypeOK
<1>2. TurnTypeOK'
  BY DEF TurnTypeOK
<1>3. BatchTypeOK'
  BY DEF BatchTypeOK
<1>4. BatchInv'
  BY DEF BatchInv, TurnTypeOK
<1>5. SlotInv' /\ EmitInv' /\ CallsInv'
  BY DEF SlotInv, EmitInv, CallsInv
<1>6. TurnInv'
  <2>1. streaming' => streaming
    OBVIOUS
  <2>2. UNCHANGED <<pc, turns, reply, pending, partial, context>>
    OBVIOUS
  <2>. QED  BY <2>1, <2>2 DEF TurnInv
<1>. QED  BY <1>1, <1>2, <1>3, <1>4, <1>5, <1>6

\* The loop begins over a base that a caller has read.
LEMMA BeginLoopInv ==
  ASSUME Inv, pc = "idle", turns < MaxTurns, NEW log \in Seq(Message), NEW msgs \in Seq(UserMessage),
         NEW skip \in BOOLEAN, BeginLoop(log, msgs, skip), transcript' \in Seq(Message),
         streaming' \in {streaming, FALSE}, UNCHANGED <<unsent, cancelled>>
  PROVE  Inv' /\ pending' = <<>> /\ Stem' = log \o msgs
<1>. USE AgentLoopAssumption DEF BeginLoop, Inv, TypeOK, Calls, InBatch, batchVars, updateVars
<1>0. msgs \in Seq(Message)
  BY MessageTypes, SeqMonotonic
<1>1. LogTypeOK'
  <2>1. log \o msgs \in Seq(Message)
    BY <1>0, ConcatProperties
  <2>2. <<>> \in Seq(UserMessage)
    BY EmptySeq
  <2>. QED  BY <1>0, <2>1, <2>2 DEF LogTypeOK
<1>2. TurnTypeOK'
  <2>1. NoReply \in Reply
    <3>1. 0 \in 0..MaxTurns /\ 0 \in 0..MaxCalls
      OBVIOUS
    <3>. QED  BY <3>1, AssistantType DEF NoReply, StopReasons
  <2>. QED  BY <2>1 DEF TurnTypeOK, PCs
<1>3. BatchTypeOK'
  BY DEF BatchTypeOK
<1>4. BatchInv'
  BY DEF BatchInv
<1>5. SlotInv'
  BY DEF SlotInv, BatchInv, BatchTypeOK
<1>6. EmitInv'
  BY DEF EmitInv, BatchInv
<1>7. CallsInv'
  BY DEF CallsInv
<1>8. TurnInv'
  <2>1. NoReply.stop # "error"
    BY DEF NoReply, Assistant
  <2>2. ~streaming'
    BY DEF TurnInv
  <2>3. /\ pc' = "pollInitial" /\ partial' = FALSE /\ reply' = NoReply /\ turns' = turns
    OBVIOUS
  <2>. QED  BY <2>1, <2>2, <2>3 DEF TurnInv
<1>9. Stem' = context'
  BY DEF Stem
<1>. QED  BY <1>1, <1>2, <1>3, <1>4, <1>5, <1>6, <1>7, <1>8, <1>9

\* The run's end leaves the loop idle.
LEMMA FinishInv ==
  ASSUME Inv, RunInv, NEW c \in Callers, FinishRun(c)
  PROVE  Inv' /\ pc \in {"idle", "done"} /\ Stem = context /\ Stem' = Stem
<1>1. /\ pc' = "idle" /\ pendingCalls' = {} /\ streaming' = FALSE
      /\ transcript' = context \/ transcript' = transcript
      /\ UNCHANGED <<cancelled, loopVars, queueVars>>
      /\ call[c] = "looping" => pc = "done"
  BY DEF FinishRun
<1>2. pc \in {"idle", "done"}
  <2>1. ASSUME call[c] # "looping" PROVE pc = "idle"
    BY <2>1 DEF FinishRun, RunInv, SingleRun, Driving
  <2>. QED  BY <1>1, <2>1
<1>. USE <1>1, <1>2 DEF Inv, TypeOK, InBatch, loopVars, logVars, turnVars, replyVars, batchVars,
          updateVars, queueVars
<1>3. LogTypeOK'
  BY DEF LogTypeOK
<1>4. TurnTypeOK' /\ BatchTypeOK'
  BY DEF TurnTypeOK, BatchTypeOK, PCs
<1>5. BatchInv'
  BY DEF BatchInv
<1>6. SlotInv'
  <2>1. next = 0 /\ \A c1 \in Calls : slot[c1] = "none"
    BY DEF BatchInv, SlotInv, Calls
  <2>. QED  BY <2>1 DEF SlotInv, Calls
<1>7. EmitInv' /\ CallsInv'
  BY DEF EmitInv, CallsInv, BatchInv
<1>8. TurnInv' /\ ~partial
  BY DEF TurnInv, TurnTypeOK
<1>. QED  BY <1>3, <1>4, <1>5, <1>6, <1>7, <1>8 DEF Stem

\* A list of user messages names user messages.
LEMMA IdsType ==
  ASSUME NEW msgs \in Seq(UserMessage)
  PROVE  Ids(msgs) \subseteq UserMessages
<1>1. \A i \in 1..Len(msgs) : msgs[i] \in UserMessage
  BY ElementOfSeq
<1>. QED  BY <1>1 DEF Ids, UserMessage

\* The failure message is a message.
LEMMA FailureType == Assistant(0, "error", 0) \in Message
<1>1. 0 \in 0..MaxTurns /\ 0 \in 0..MaxCalls /\ "error" \in StopReasons
  BY AgentLoopAssumption DEF StopReasons
<1>. QED  BY <1>1, AssistantType

\* Every step of the callers, the loop and the surroundings keeps it, and tells
\* nothing to inject but in the loop.
LEMMA AgentKeepsInv ==
  ASSUME Inv, RunInv, PendingInv, HoldInv, [AgentNext]_allVars
  PROVE  Inv' /\ PendingInv'
<1>t. /\ transcript \in Seq(Message) /\ steering \in Seq(UserMessage) /\ followUp \in Seq(UserMessage)
      /\ unsent \subseteq UserMessages /\ cancelled \in BOOLEAN /\ context \in Seq(Message)
      /\ \A q \in Seq(UserMessage) : \A d : Left(q, d) \in Seq(UserMessage)
      /\ <<>> \in Seq(UserMessage) /\ <<>> \in Seq(Message)
  BY DrainTypes, EmptySeq DEF Inv, TypeOK, LogTypeOK, TurnTypeOK
<1>a. ASSUME UNCHANGED <<pc, loopVars>>, pendingCalls' \in {pendingCalls, {}},
             transcript' \in Seq(Message), steering' \in Seq(UserMessage), followUp' \in Seq(UserMessage),
             unsent' \subseteq UserMessages, streaming' \in {streaming, FALSE},
             cancelled' \in BOOLEAN, cancelled' \/ cancelled' = cancelled \/ pc = "idle"
      PROVE  Inv' /\ PendingInv'
  <2>1. Inv'
    BY <1>a, AroundInv
  <2>2. UNCHANGED <<pc, pending>>
    BY <1>a DEF loopVars, turnVars
  <2>. QED  BY <2>1, <2>2 DEF PendingInv
<1>1. ASSUME NEW c \in Callers, RunStep(c) \/ CallerStep(c) PROVE Inv' /\ PendingInv'
  <2>h. held[c] \in Seq(UserMessage) /\ Ids(held[c]) \subseteq UserMessages
    <3>1. held[c] \in Seq(UserMessage)
      BY DEF HoldInv
    <3>. QED  BY <3>1, IdsType
  <2>1. CASE (\E m \in UserMessages : Prompt(c, m)) \/ Continue(c)
    BY <1>a, <1>t, <2>1 DEF Prompt, Continue, sinkVars
  <2>2. CASE BeginRun(c)
    <3>1. pc = "idle"
      BY <2>2 DEF BeginRun, RunInv, SingleRun
    <3>. QED  BY <1>a, <1>t, <2>2, <3>1 DEF BeginRun, queueVars
  <2>3. CASE Refuse(c)
    BY <1>a, <1>t, <2>h, <2>3 DEF Refuse, sinkVars
  <2>4. CASE SnapshotContext(c) \/ SettleRun(c) \/ WaitForIdle(c) \/ WaitReturns(c)
    <3>1. UNCHANGED <<pc, cancelled, loopVars, queueVars, sinkVars>>
      BY <2>4 DEF SnapshotContext, SettleRun, WaitForIdle, WaitReturns, vars, loopVars
    <3>. QED  BY <1>a, <1>t, <3>1 DEF queueVars, sinkVars
  <2>5. CASE BuildLoopConfig(c)
    <3>1. pc = "idle" /\ turns < MaxTurns /\ base \in Seq(Message)
      BY <2>5 DEF BuildLoopConfig, RunInv, SingleRun, Driving, HoldInv
    <3>2. CASE StartPrompt(base, held[c], from[c] = "steering")
      <4>1. transcript' = transcript \o held[c] /\ streaming' = FALSE
            /\ BeginLoop(base, held[c], from[c] = "steering") /\ UNCHANGED <<unsent, cancelled>>
        BY <2>5, <3>2 DEF StartPrompt, BuildLoopConfig
      <4>2. held[c] \in Seq(Message)
        BY <2>h, MessageTypes, SeqMonotonic
      <4>3. transcript' \in Seq(Message)
        BY <1>t, <4>1, <4>2, ConcatProperties
      <4>4. Inv' /\ pending' = <<>>
        BY <2>h, <3>1, <4>1, <4>3, BeginLoopInv
      <4>. QED  BY <4>4 DEF PendingInv
    <3>3. CASE StartContinue(base)
      <4>1. transcript' = transcript /\ streaming' = streaming
            /\ BeginLoop(base, <<>>, FALSE) /\ UNCHANGED <<unsent, cancelled>>
        BY <2>5, <3>3 DEF StartContinue, BuildLoopConfig
      <4>2. Inv' /\ pending' = <<>>
        BY <1>t, <3>1, <4>1, BeginLoopInv
      <4>. QED  BY <4>2 DEF PendingInv
    <3>4. CASE UNCHANGED <<pc, loopVars, steering, followUp, sinkVars>>
      BY <1>a, <1>t, <2>5, <3>4 DEF BuildLoopConfig, sinkVars
    <3>. QED  BY <2>5, <3>2, <3>3, <3>4 DEF BuildLoopConfig
  <2>6. CASE FailRun(c)
    <3>1. Append(transcript, Assistant(0, "error", 0)) \in Seq(Message)
      BY <1>t, FailureType, AppendProperties
    <3>. QED  BY <1>a, <1>t, <2>6, <3>1 DEF FailRun, queueVars
  <2>7. CASE FinishRun(c)
    <3>1. pending' = pending
      BY <2>7 DEF FinishRun, loopVars, turnVars
    <3>. QED  BY <2>7, <3>1, FinishInv DEF PendingInv
  <2>. QED  BY <1>1, <2>1, <2>2, <2>3, <2>4, <2>5, <2>6, <2>7 DEF RunStep, CallerStep
<1>2. CASE LoopRuns
  <2>1. Next
    BY <1>2 DEF LoopRuns, Next
  <2>. QED  BY <2>1, StepInv, PendingStep
<1>3. CASE OutsideStep
  <2>1. CASE AbortRun
    BY <1>a, <1>t, <2>1 DEF AbortRun, queueVars, sinkVars
  <2>2. CASE TakeQueues
    <3>1. Ids(steering) \subseteq UserMessages /\ Ids(followUp) \subseteq UserMessages
      BY <1>t, IdsType
    <3>2. /\ unsent' = unsent \cup Ids(steering) \cup Ids(followUp)
          /\ steering' = <<>> /\ followUp' = <<>> /\ UNCHANGED <<pc, cancelled, loopVars, sinkVars>>
      BY <2>2 DEF TakeQueues
    <3>3. unsent' \subseteq UserMessages
      BY <1>t, <3>1, <3>2
    <3>. QED  BY <1>a, <1>t, <3>2, <3>3 DEF sinkVars
  <2>3. CASE Reset
    BY <1>a, <1>t, <2>3 DEF Reset
  <2>4. CASE SetMessages
    <3>1. PICK n \in 0..Len(transcript) : transcript' = SubSeq(transcript, 1, n)
      BY <2>4 DEF SetMessages
    <3>2. n \in Int /\ \A i \in 1..n : transcript[i] \in Message
      BY <1>t, LenProperties, ElementOfSeq
    <3>3. transcript' \in Seq(Message)
      BY <3>1, <3>2, SubSeqProperties
    <3>. QED  BY <1>a, <1>t, <2>4, <3>3 DEF SetMessages, queueVars
  <2>5. CASE \E s \in Settings : SetSetting(s)
    <3>1. UNCHANGED vars
      BY <2>5 DEF SetSetting
    <3>. QED  BY <3>1, StutterInv, PendingStep
  <2>6. CASE (\E m \in UserMessages : Steer(m) \/ FollowUp(m)) \/ \E c \in Calls : OnUpdate(c)
    <3>1. Next
      BY <2>6 DEF Next, Surroundings
    <3>. QED  BY <3>1, StepInv, PendingStep
  <2>. QED  BY <1>3, <2>1, <2>2, <2>3, <2>4, <2>5, <2>6 DEF OutsideStep
<1>4. CASE UNCHANGED allVars
  <2>1. UNCHANGED vars
    BY <1>4 DEF allVars
  <2>. QED  BY <2>1, StutterInv, PendingStep
<1>. QED  BY <1>1, <1>2, <1>3, <1>4 DEF AgentNext

\* The loop moves only in a run.
LEMMA LoopRunsInRun ==
  ASSUME Inv, LoopStep
  PROVE  pc # "idle"
<1>1. CASE TurnStep
  BY <1>1 DEF TurnStep, PollSteering, Inject, Request, StreamStart, StreamDone, ErrorEnd, NoCalls,
              PrepareNextTurn, ShouldStop, PollFollowUp
<1>2. CASE BatchStep
  BY <1>2 DEF BatchStep, StartBatch, StartCall, FailCall, Prepare, CheckCancel, CollectBatch, EmitNext,
              EmitEnd, CommitBatch
<1>3. ASSUME NEW c \in Calls, ToolStep(c) PROVE pc # "idle"
  <2>1. slot[c] # "none"
    BY <1>3, AgentLoopAssumption DEF ToolStep, Execute, DeliverUpdate, Settle, FinishCall, Inv, CallsInv,
       TypeOK, BatchTypeOK
  <2>. QED  BY <2>1, SlotInBatch DEF InBatch
<1>. QED  BY <1>1, <1>2, <1>3 DEF LoopStep

\* What a call takes in its hands it lays down when it returns or its run
\* begins to work; while it sets up the run no other run makes turns.
LEMMA AgentKeepsHold ==
  ASSUME Inv, RunInv, HoldInv, [AgentNext]_allVars
  PROVE  HoldInv'
<1>t. /\ transcript \in Seq(Message) /\ steering \in Seq(UserMessage) /\ followUp \in Seq(UserMessage)
      /\ unsent \subseteq UserMessages /\ <<>> \in Seq(UserMessage)
      /\ \A q \in Seq(UserMessage) : \A d : Drained(q, d) \in Seq(UserMessage)
      /\ \A m \in UserMessages : <<User(m)>> \in Seq(UserMessage)
  <2>1. \A m \in UserMessages : User(m) \in UserMessage
    BY MessageTypes
  <2>. QED  BY <2>1, DrainTypes, EmptySeq DEF Inv, TypeOK, LogTypeOK
<1>s. /\ from \in [Callers -> Sources]
      /\ held \in [Callers -> Seq(UserMessage)] /\ call \in [Callers -> Stages]
      /\ \A c \in Callers : call[c] \in {"snapshot", "config"} => turns < MaxTurns
      /\ \A c \in Callers : held[c] # <<>> => call[c] \in {"begin", "snapshot", "config"} /\ from[c] # "transcript"
  BY DEF HoldInv, RunInv
<1>q. ASSUME UNCHANGED <<base, lost, held, from, call>>,
             turns' = turns \/ \A c \in Callers : call[c] \notin {"snapshot", "config"}
      PROVE  HoldInv'
  BY <1>q DEF HoldInv
<1>1. ASSUME NEW c \in Callers, RunStep(c) \/ CallerStep(c) PROVE HoldInv'
  <2>0. ASSUME call[c] = "ready", UNCHANGED <<base, lost, turns>>, NEW msgs \in Seq(UserMessage),
               NEW source \in Sources, Decide(c, msgs, source), source = "transcript" => msgs = <<>>
        PROVE  HoldInv'
    <3>1. /\ call' = [call EXCEPT ![c] = "begin"] /\ held' = [held EXCEPT ![c] = msgs]
          /\ from' = [from EXCEPT ![c] = source]
      BY <2>0 DEF Decide
    <3>2. /\ held'[c] = msgs /\ call'[c] = "begin" /\ held' \in [Callers -> Seq(UserMessage)]
          /\ from'[c] = source /\ from' \in [Callers -> Sources]
          /\ \A d \in Callers \ {c} : held'[d] = held[d] /\ call'[d] = call[d] /\ from'[d] = from[d]
      BY <1>s, <2>0, <3>1
    <3>3. ASSUME NEW d \in Callers
          PROVE  /\ held'[d] # <<>> => call'[d] \in {"begin", "snapshot", "config"} /\ from'[d] # "transcript"
                 /\ call'[d] \in {"snapshot", "config"} => turns' < MaxTurns
      BY <1>s, <2>0, <3>2
    <3>. QED  BY <2>0, <3>2, <3>3 DEF HoldInv
  <2>1. ASSUME NEW m \in UserMessages, Prompt(c, m) PROVE HoldInv'
    <3>1. call[c] = "ready" /\ UNCHANGED <<base, lost, turns>> /\ Decide(c, <<User(m)>>, "argument")
      BY <2>1 DEF Prompt, runVars, loopVars, replyVars
    <3>. QED  BY <1>t, <2>0, <3>1 DEF Sources
  <2>2. CASE Continue(c)
    <3>1. call[c] = "ready" /\ UNCHANGED <<base, lost, turns>>
      BY <2>2 DEF Continue, runVars, loopVars, replyVars
    <3>2. \/ Decide(c, <<>>, "transcript")
          \/ Decide(c, Drained(steering, SteeringMode), "steering")
          \/ Decide(c, Drained(followUp, FollowUpMode), "followUp")
      BY <2>2 DEF Continue
    <3>. QED  BY <1>t, <2>0, <3>1, <3>2 DEF Sources
  <2>3. CASE BeginRun(c)
    <3>1. /\ call[c] = "begin" /\ turns < MaxTurns /\ call' = [call EXCEPT ![c] = "snapshot"]
          /\ UNCHANGED <<base, lost, held, from, turns>>
      BY <2>3 DEF BeginRun, loopVars, replyVars
    <3>. QED  BY <1>s, <3>1 DEF HoldInv
  <2>4. CASE Refuse(c) \/ SettleRun(c) \/ WaitReturns(c)
    <3>1. Return(c) /\ UNCHANGED <<base, turns>> /\ lost' \subseteq UserMessages
      <4>1. Ids(held[c]) \subseteq UserMessages
        BY <1>s, IdsType
      <4>. QED  BY <2>4, <4>1 DEF Refuse, SettleRun, WaitReturns, runVars, loopVars, replyVars, vars, HoldInv
    <3>2. /\ held' \in [Callers -> Seq(UserMessage)] /\ held'[c] = <<>> /\ call'[c] = "ready"
          /\ from' \in [Callers -> Sources]
          /\ \A d \in Callers \ {c} : held'[d] = held[d] /\ call'[d] = call[d] /\ from'[d] = from[d]
      BY <1>s, <1>t, <3>1 DEF Return, Sources
    <3>. QED  BY <1>s, <3>1, <3>2 DEF HoldInv
  <2>5. CASE SnapshotContext(c)
    <3>1. /\ call[c] = "snapshot" /\ call' = [call EXCEPT ![c] = "config"] /\ base' = transcript
          /\ UNCHANGED <<lost, held, from, turns>>
      BY <2>5 DEF SnapshotContext, loopVars, replyVars
    <3>. QED  BY <1>s, <1>t, <3>1 DEF HoldInv
  <2>6. CASE BuildLoopConfig(c)
    <3>1. /\ call[c] = "config" /\ held' = [held EXCEPT ![c] = <<>>]
          /\ \E s \in {"looping", "failed"} : call' = [call EXCEPT ![c] = s]
          /\ UNCHANGED <<base, lost, from>> /\ turns' = turns
      BY <2>6 DEF BuildLoopConfig, StartPrompt, StartContinue, BeginLoop, runVars, loopVars, replyVars
    <3>2. /\ held' \in [Callers -> Seq(UserMessage)] /\ held'[c] = <<>> /\ call'[c] \in {"looping", "failed"}
          /\ \A d \in Callers \ {c} : held'[d] = held[d] /\ call'[d] = call[d]
      BY <1>s, <1>t, <3>1
    <3>. QED  BY <1>s, <3>1, <3>2 DEF HoldInv
  <2>7. CASE FailRun(c) \/ FinishRun(c)
    <3>1. /\ call[c] \in {"failed", "looping", "finish"}
          /\ \E s \in {"finish", "settle"} : call' = [call EXCEPT ![c] = s]
          /\ UNCHANGED <<base, lost, held, from, turns>>
      BY <2>7 DEF FailRun, FinishRun, runVars, loopVars, replyVars
    <3>2. call'[c] \in {"finish", "settle"} /\ held[c] = <<>> /\ \A d \in Callers \ {c} : call'[d] = call[d]
      BY <1>s, <3>1
    <3>. QED  BY <1>s, <3>1, <3>2 DEF HoldInv
  <2>8. CASE WaitForIdle(c)
    <3>1. /\ call[c] = "ready" /\ call' = [call EXCEPT ![c] = "waiting"]
          /\ UNCHANGED <<base, lost, held, from, turns>>
      BY <2>8 DEF WaitForIdle, vars, replyVars, runVars
    <3>2. call'[c] = "waiting" /\ held[c] = <<>> /\ \A d \in Callers \ {c} : call'[d] = call[d]
      BY <1>s, <3>1
    <3>. QED  BY <1>s, <3>1, <3>2 DEF HoldInv
  <2>. QED  BY <1>1, <2>1, <2>2, <2>3, <2>4, <2>5, <2>6, <2>7, <2>8 DEF RunStep, CallerStep
<1>2. CASE LoopRuns
  <2>1. pc # "idle"
    BY <1>2, LoopRunsInRun DEF LoopRuns
  <2>2. \A c \in Callers : call[c] \notin {"snapshot", "config"}
    BY <2>1 DEF RunInv, SingleRun, Driving
  <2>. QED  BY <1>2, <1>q, <2>2 DEF LoopRuns, agentVars, callVars, runVars
<1>3. CASE OutsideStep \/ UNCHANGED allVars
  <2>1. UNCHANGED <<base, lost, held, from, call, turns>>
    BY <1>3 DEF OutsideStep, AbortRun, TakeQueues, Reset, SetMessages, SetSetting, Steer, FollowUp, OnUpdate,
                agentVars, callVars, runVars, loopVars, replyVars, vars, allVars
  <2>. QED  BY <1>q, <2>1
<1>. QED  BY <1>1, <1>2, <1>3 DEF AgentNext

-----------------------------------------------------------------------------
(***************************************************************************)
(* Each message once                                                       *)
(***************************************************************************)

\* Nothing is told twice, and nothing is forgotten.
Moved(m) == OnceInv(m)' /\ Count(m)' >= Count(m)

\* What is counted of a message.
LEMMA Counted ==
  ASSUME KeptInv, Inv', HoldInv', NEW m \in UserMessages, OneHolder(held', m)
  PROVE  \E e, e1, t, t1, b, b1, s, s1 \in Nat :
           /\ e = Away(m) /\ e1 = Away(m)'
           /\ t = Occurrences(transcript, m) /\ t1 = Occurrences(transcript', m)
           /\ b = Occurrences(base, m) /\ b1 = Occurrences(base', m)
           /\ s = Occurrences(Stem, m) /\ s1 = Occurrences(Stem', m)
           /\ Count(m) = e + t /\ Count(m)' = e1 + t1
<1>1. Count(m) = Away(m) + Occurrences(transcript, m)
  BY CountIs DEF KeptInv, OnceInv
<1>2. Count(m)' = Away(m)' + Occurrences(transcript', m)
  BY CountIsNext
<1>. QED  BY <1>1, <1>2, KeptCounts DEF KeptInv

\* Messages move about elsewhere, and no log that counts is another.
LEMMA StillOnce ==
  ASSUME KeptInv, Inv', HoldInv', NEW m \in UserMessages, OneHolder(held', m), Away(m)' = Away(m),
         Occurrences(transcript', m) = Occurrences(transcript, m),
         \A c \in Callers : call'[c] = "config" =>
           base' = transcript \/ (call[c] = "config" /\ base' = base),
         \A c \in Callers : call'[c] = "looping" => call[c] = "looping" /\ Stem' = Stem
  PROVE  Moved(m)
<1>1. OnceInv(m)
  BY DEF KeptInv
<1>2. PICK e, e1, t, t1, b, b1, s, s1 \in Nat :
           /\ e = Away(m) /\ e1 = Away(m)'
           /\ t = Occurrences(transcript, m) /\ t1 = Occurrences(transcript', m)
           /\ b = Occurrences(base, m) /\ b1 = Occurrences(base', m)
           /\ s = Occurrences(Stem, m) /\ s1 = Occurrences(Stem', m)
           /\ Count(m) = e + t /\ Count(m)' = e1 + t1
  BY Counted
<1>3. e1 = e /\ t1 = t /\ e + t <= 1
  BY <1>1, <1>2 DEF OnceInv
<1>4. ASSUME NEW c \in Callers, call'[c] = "config" PROVE OnceIn(base, m)'
  <2>1. CASE base' = transcript
    <3>1. b1 = t
      BY <1>2, <2>1
    <3>. QED  BY <1>2, <1>3, <3>1 DEF OnceIn
  <2>2. CASE call[c] = "config" /\ base' = base
    <3>1. e + b <= 1 /\ t <= b /\ b1 = b
      BY <1>1, <1>2, <2>2 DEF OnceInv, OnceIn
    <3>. QED  BY <1>2, <1>3, <3>1 DEF OnceIn
  <2>. QED  BY <1>4, <2>1, <2>2
<1>5. ASSUME NEW c \in Callers, call'[c] = "looping" PROVE OnceIn(Stem, m)'
  <2>1. call[c] = "looping" /\ Stem' = Stem
    BY <1>5
  <2>2. e + s <= 1 /\ t <= s /\ s1 = s
    BY <1>1, <1>2, <2>1 DEF OnceInv, OnceIn
  <2>. QED  BY <1>2, <1>3, <2>2 DEF OnceIn
<1>6. OnceInv(m)'
  BY <1>2, <1>3, <1>4, <1>5 DEF OnceInv
<1>. QED  BY <1>2, <1>3, <1>6 DEF Moved

\* A caller lets messages go from its hands or into them.
LEMMA HandsMoved ==
  ASSUME KeptInv, Inv', HoldInv', NEW m \in UserMessages, NEW c \in Callers,
         NEW msgs \in Seq(UserMessage), Lays(held, c, msgs, held'), UNCHANGED pending,
         Passes(steering, followUp, unsent, lost, held[c], steering', followUp', unsent', lost', msgs, m)
  PROVE  OneHolder(held', m) /\ Away(m)' = Away(m)
<1>1. OneHolder(held, m) /\ Away(m) + Occurrences(transcript, m) <= 1
  BY DEF KeptInv, OnceInv
<1>2. Away(m) <= 1
  <2>1. Away(m) \in Nat /\ Occurrences(transcript, m) \in Nat
    BY KeptCounts DEF KeptInv
  <2>. HIDE DEF Away
  <2>. QED  BY <1>1, <2>1
<1>3. QueueTypes(steering, followUp, pending, held, unsent, lost)
  BY KeptTypes DEF KeptInv
<1>4. QueueTypes(steering', followUp', pending, held, unsent', lost')
  BY <1>3, KeptTypesNext DEF QueueTypes
<1>5. /\ OneHolder(held', m)
      /\ Elsewhere(steering', followUp', pending, held', unsent', lost', m)
           = Elsewhere(steering, followUp, pending, held, unsent, lost, m)
  <2>1. Elsewhere(steering, followUp, pending, held, unsent, lost, m) <= 1
    BY <1>2 DEF Away
  <2>. QED  BY <1>1, <1>3, <1>4, <2>1, HandsMoveElsewhere
<1>. QED  BY <1>5 DEF Away

\* Those of a list of messages that occur at most once.
LEMMA BitOfIds ==
  ASSUME NEW msgs \in Seq(UserMessage), NEW m \in UserMessages, NEW S,
         Occurrences(msgs, m) + Bit(m \in S) <= 1
  PROVE  Bit(m \in S \cup Ids(msgs)) = Bit(m \in S) + Occurrences(msgs, m)
<1>1. Occurrences(msgs, m) \in Nat /\ (m \in Ids(msgs) <=> Occurrences(msgs, m) # 0)
  BY OccurrencesNamed, OccurrencesType
<1>2. CASE m \in S
  <2>1. Occurrences(msgs, m) = 0 /\ Bit(m \in S) = 1 /\ Bit(m \in S \cup Ids(msgs)) = 1
    BY <1>1, <1>2 DEF Bit
  <2>. QED  BY <2>1
<1>3. CASE m \notin S
  <2>1. Occurrences(msgs, m) \in {0, 1} /\ Bit(m \in S) = 0
    BY <1>1, <1>3 DEF Bit
  <2>2. Bit(m \in S \cup Ids(msgs)) = IF Occurrences(msgs, m) # 0 THEN 1 ELSE 0
    BY <1>1, <1>3 DEF Bit
  <2>. QED  BY <2>1, <2>2
<1>. QED  BY <1>2, <1>3

\* What the parts of the count are, and that they are one at most together.
Parts(st, fu, pe, ha, un, lo, k, m, c) ==
  /\ st = Occurrences(steering, m) /\ fu = Occurrences(followUp, m)
  /\ pe = Occurrences(pending, m) /\ ha = InHands(held, m)
  /\ un = Bit(m \in unsent) /\ lo = Bit(m \in lost)
  /\ k = Occurrences(held[c], m) /\ k <= ha /\ ha <= 1
  /\ Away(m) = st + fu + pe + ha + un + lo /\ st + fu + pe + ha + un + lo <= 1

LEMMA AwayParts ==
  ASSUME KeptInv, NEW m \in UserMessages, NEW c \in Callers
  PROVE  \E st, fu, pe, ha, un, lo, k \in Nat : Parts(st, fu, pe, ha, un, lo, k, m, c)
<1>1. OneHolder(held, m) /\ Away(m) + Occurrences(transcript, m) <= 1
  BY DEF KeptInv, OnceInv
<1>2. Away(m) <= 1
  <2>1. Away(m) \in Nat /\ Occurrences(transcript, m) \in Nat
    BY KeptTypes, ElsewhereType, OccurrencesType DEF KeptInv, Away
  <2>. HIDE DEF Away
  <2>. QED  BY <1>1, <2>1
<1>3. /\ Occurrences(steering, m) \in Nat /\ Occurrences(followUp, m) \in Nat
      /\ Occurrences(pending, m) \in Nat
      /\ InHands(held, m) \in {0, 1} /\ Occurrences(held[c], m) \in Nat
      /\ Bit(m \in unsent) \in {0, 1} /\ Bit(m \in lost) \in {0, 1}
  BY KeptTypes, ElsewhereType DEF KeptInv
<1>4. Occurrences(held[c], m) <= InHands(held, m)
  BY <1>1 DEF OneHolder, InHands, Holders
<1>5. Away(m) = Occurrences(steering, m) + Occurrences(followUp, m) + Occurrences(pending, m)
                  + InHands(held, m) + Bit(m \in unsent) + Bit(m \in lost)
  BY DEF Away, Elsewhere
<1>6. InHands(held, m) \in Nat /\ InHands(held, m) <= 1 /\ Bit(m \in unsent) \in Nat /\ Bit(m \in lost) \in Nat
  BY <1>3
<1>. DEFINE st == Occurrences(steering, m)  fu == Occurrences(followUp, m)  pe == Occurrences(pending, m)
            ha == InHands(held, m)  un == Bit(m \in unsent)  lo == Bit(m \in lost)
            k == Occurrences(held[c], m)
<1>7. /\ st \in Nat /\ fu \in Nat /\ pe \in Nat /\ ha \in Nat /\ un \in Nat /\ lo \in Nat /\ k \in Nat
      /\ k <= ha /\ ha <= 1 /\ Away(m) = st + fu + pe + ha + un + lo
  BY <1>3, <1>4, <1>5, <1>6
<1>. HIDE DEF st, fu, pe, ha, un, lo, k
<1>8. st + fu + pe + ha + un + lo <= 1
  BY <1>2, <1>7
<1>9. /\ st = Occurrences(steering, m) /\ fu = Occurrences(followUp, m) /\ pe = Occurrences(pending, m)
      /\ ha = InHands(held, m) /\ un = Bit(m \in unsent) /\ lo = Bit(m \in lost)
      /\ k = Occurrences(held[c], m)
  BY DEF st, fu, pe, ha, un, lo, k
<1>10. Parts(st, fu, pe, ha, un, lo, k, m, c)
  BY <1>7, <1>8, <1>9 DEF Parts
<1>. QED  BY <1>7, <1>10

\* Without replaced contexts the loop says to the transcript what it says to
\* the stem.
LEMMA GrowTogether ==
  ASSUME Inv, LoopStep, MaxRewrites = 0, NEW m
  PROVE  \E k \in Nat : /\ Occurrences(Stem', m) = Occurrences(Stem, m) + k
                        /\ Occurrences(transcript', m) = Occurrences(transcript, m) + k
<1>t. /\ transcript \in Seq(Message) /\ Stem \in Seq(Message) /\ context \in Seq(Message)
      /\ Occurrences(Stem, m) \in Nat /\ Occurrences(transcript, m) \in Nat
  BY LogParts, OccurrencesType
<1>q. ASSUME Stem' = Stem, transcript' = transcript
      PROVE  /\ Occurrences(Stem', m) = Occurrences(Stem, m) + 0
             /\ Occurrences(transcript', m) = Occurrences(transcript, m) + 0
  BY <1>t, <1>q
<1>x. ASSUME NEW x \in Message, Stem' = Append(Stem, x), transcript' = Append(transcript, x)
      PROVE  \E k \in Nat : /\ Occurrences(Stem', m) = Occurrences(Stem, m) + k
                            /\ Occurrences(transcript', m) = Occurrences(transcript, m) + k
  <2>. DEFINE k == IF x = User(m) THEN 1 ELSE 0
  <2>1. /\ k \in Nat
        /\ Occurrences(Stem', m) = Occurrences(Stem, m) + k
        /\ Occurrences(transcript', m) = Occurrences(transcript, m) + k
    BY <1>t, <1>x, OccurrencesAppend
  <2>. HIDE DEF k
  <2>. QED  BY <2>1
<1>1. CASE Inject
  <2>1. pending \in Seq(UserMessage) /\ pending # <<>> /\ ~partial
    BY <1>1 DEF Inject, Inv, TypeOK, LogTypeOK, TurnInv
  <2>2. Head(pending) \in Message
    BY <2>1, HeadTailProperties, MessageTypes
  <2>3. /\ ~partial' /\ transcript' = Append(transcript, Head(pending))
        /\ context' = Append(context, Head(pending))
    BY <1>1, <2>1 DEF Inject, replyVars
  <2>4. Stem' = Append(Stem, Head(pending))
    BY <2>1, <2>3 DEF Stem
  <2>. QED  BY <1>x, <2>2, <2>3, <2>4
<1>2. CASE Request \/ StreamDone
  <2>1. ASSUME NEW r \in Reply, Replied(r), r \in Message
        PROVE  Stem' = Append(Stem, r) /\ transcript' = Append(transcript, r)
    BY <2>1, ReplyBehindStem DEF Replied, Stem
  <2>2. ASSUME UNCHANGED <<logVars, partial, reply, transcript>>
        PROVE  Stem' = Stem /\ transcript' = transcript
    BY <2>2 DEF Stem, logVars
  <2>. QED  BY <1>2, <1>q, <1>x, <2>1, <2>2, RepliesAreMessages
<1>3. CASE StreamStart
  <2>1. transcript' = transcript
    BY <1>3 DEF StreamStart
  <2>. QED  BY <1>3, <1>q, <2>1, StemOfPartial
<1>4. CASE PollSteering \/ ErrorEnd \/ NoCalls \/ ShouldStop \/ PollFollowUp \/ PrepareNextTurn
  <2>1. UNCHANGED <<transcript, context, partial>>
    <3>1. ~(rewrites < MaxRewrites)
      BY DEF Inv, TypeOK, TurnTypeOK
    <3>. QED  BY <1>4, <3>1 DEF PollSteering, ErrorEnd, NoCalls, ShouldStop, PollFollowUp, PrepareNextTurn,
                 logVars, replyVars, sinkVars
  <2>2. Stem' = Stem
    BY <2>1 DEF Stem
  <2>. QED  BY <1>q, <2>1, <2>2
<1>5. CASE CommitBatch
  <2>1. /\ ~partial /\ ~partial' /\ context' = context \o Results /\ transcript' = transcript
    BY <1>5 DEF CommitBatch, replyVars, sinkVars, Inv, TurnInv
  <2>2. Stem' = Stem \o Results
    BY <2>1 DEF Stem
  <2>3. /\ Results \in Seq(Message) /\ Len(Results) = emitted
        /\ \A c \in 1..emitted : Results[c] = ToolResult(turns, c, outcome[c].error)
    BY ResultsParts, ResultsType
  <2>4. \A c \in 1..Len(Results) : Results[c] # User(m)
    BY <2>3, OthersAreNotUsers
  <2>5. Occurrences(Results, m) = 0
    BY <2>4, OccurrencesNone
  <2>6. Occurrences(Stem', m) = Occurrences(Stem, m) + 0
    BY <1>t, <2>2, <2>3, <2>5, OccurrencesConcat
  <2>. QED  BY <1>t, <2>1, <2>6
<1>6. CASE (BatchStep /\ ~CommitBatch) \/ \E c \in Calls : ToolStep(c)
  <2>1. UNCHANGED <<context, partial>> /\ Stem' = Stem
    BY <1>6, BatchLeaves DEF Stem
  <2>2. CASE UNCHANGED transcript
    BY <1>q, <2>1, <2>2
  <2>3. ASSUME NEW o \in Outcome, Announces(o)
        PROVE  Occurrences(transcript', m) = Occurrences(transcript, m) + 0
    <3>. DEFINE x == ToolResult(turns, emitted + 1, o.error)
    <3>1. x \in Message /\ x # User(m) /\ transcript' = Append(transcript, x)
      BY <2>3, ResultsAreMessages, OthersAreNotUsers DEF Announces, EmitResult
    <3>. HIDE DEF x
    <3>. QED  BY <1>t, <3>1, OccurrencesAppend
  <2>. QED  BY <1>6, <1>t, <2>1, <2>2, <2>3, BatchAnnounces
<1>. QED  BY <1>1, <1>2, <1>3, <1>4, <1>5, <1>6 DEF LoopStep, TurnStep

\* What moves only between the queues, the loop and the transcript.
LEMMA AwayWhere ==
  ASSUME KeptInv, Inv', HoldInv', NEW m \in UserMessages, UNCHANGED <<held, lost>>, Where(m)' = Where(m)
  PROVE  Away(m)' + Occurrences(transcript', m) = Away(m) + Occurrences(transcript, m)
<1>. DEFINE h == InHands(held, m)  l == Bit(m \in lost)  t == Occurrences(transcript, m)
            t1 == Occurrences(transcript', m)
            q == Occurrences(steering, m) + Occurrences(followUp, m) + Occurrences(pending, m) + Bit(m \in unsent)
            q1 == Occurrences(steering', m) + Occurrences(followUp', m) + Occurrences(pending', m)
                    + Bit(m \in unsent')
<1>1. /\ Occurrences(steering, m) \in Nat /\ Occurrences(followUp, m) \in Nat /\ Occurrences(pending, m) \in Nat
      /\ h \in {0, 1} /\ Bit(m \in unsent) \in {0, 1} /\ l \in {0, 1}
  BY KeptTypes, ElsewhereType DEF KeptInv
<1>2. /\ Occurrences(steering', m) \in Nat /\ Occurrences(followUp', m) \in Nat
      /\ Occurrences(pending', m) \in Nat /\ Bit(m \in unsent') \in {0, 1}
  BY KeptTypesNext, ElsewhereType
<1>3. t \in Nat /\ t1 \in Nat
  BY KeptTypes, KeptTypesNext, OccurrencesType DEF KeptInv
<1>4. q \in Nat /\ q1 \in Nat
  BY <1>1, <1>2
<1>5. Where(m) = q + t /\ Away(m) = q + h + l
  BY <1>1, <1>3 DEF Where, Away, Elsewhere, Bit
<1>6. Where(m)' = q1 + t1 /\ Away(m)' = q1 + h + l
  BY <1>1, <1>2, <1>3 DEF Where, Away, Elsewhere, Bit
<1>7. h \in Nat /\ l \in Nat
  BY <1>1
<1>8. q1 + t1 = q + t
  BY <1>5, <1>6
<1>. HIDE DEF q, q1, h, l, t, t1
<1>9. (q1 + h + l) + t1 = (q + h + l) + t
  BY <1>3, <1>4, <1>7, <1>8
<1>. QED  BY <1>5, <1>6, <1>9 DEF t, t1

\* Where a step of the loop leaves a message.
LEMMA LoopMoved ==
  ASSUME KeptInv, Inv', HoldInv', MaxRewrites = 0, NEW m \in UserMessages, LoopRuns
  PROVE  Moved(m)
<1>1. Inv /\ RunInv /\ PendingInv /\ OnceInv(m) /\ LoopStep /\ UNCHANGED agentVars /\ Next
  BY DEF KeptInv, LoopRuns, Next
<1>2. UNCHANGED <<held, lost, call, base>>
  BY <1>1 DEF agentVars, callVars, runVars
<1>3. OneHolder(held', m)
  BY <1>1, <1>2 DEF OnceInv
<1>4. Where(m)' = Where(m)
  BY <1>1, MovesStep
<1>5. Away(m)' + Occurrences(transcript', m) = Away(m) + Occurrences(transcript, m)
  BY <1>2, <1>4, AwayWhere
<1>6. PICK k \in Nat : /\ Occurrences(Stem', m) = Occurrences(Stem, m) + k
                       /\ Occurrences(transcript', m) = Occurrences(transcript, m) + k
  BY <1>1, GrowTogether
<1>7. PICK e, e1, t, t1, b, b1, s, s1 \in Nat :
           /\ e = Away(m) /\ e1 = Away(m)'
           /\ t = Occurrences(transcript, m) /\ t1 = Occurrences(transcript', m)
           /\ b = Occurrences(base, m) /\ b1 = Occurrences(base', m)
           /\ s = Occurrences(Stem, m) /\ s1 = Occurrences(Stem', m)
           /\ Count(m) = e + t /\ Count(m)' = e1 + t1
  BY <1>3, Counted
<1>8. e1 + t1 = e + t /\ s1 = s + k /\ t1 = t + k /\ e + t <= 1
  BY <1>1, <1>5, <1>6, <1>7 DEF OnceInv
<1>9. ASSUME NEW c \in Callers PROVE call'[c] # "config"
  <2>1. pc # "idle"
    BY <1>1, LoopRunsInRun
  <2>. QED  BY <1>1, <1>2, <2>1 DEF RunInv, SingleRun, Driving
<1>10. ASSUME NEW c \in Callers, call'[c] = "looping" PROVE OnceIn(Stem, m)'
  <2>1. e + s <= 1 /\ t <= s
    BY <1>1, <1>2, <1>7, <1>10 DEF OnceInv, OnceIn
  <2>2. e1 + s1 <= 1 /\ t1 <= s1
    BY <1>8, <2>1
  <2>. QED  BY <1>7, <2>2 DEF OnceIn
<1>11. Away(m)' + Occurrences(transcript', m) <= 1 /\ Count(m)' >= Count(m)
  BY <1>7, <1>8
<1>. QED  BY <1>3, <1>9, <1>10, <1>11 DEF Moved, OnceInv

\* A call that begins no loop and reads no transcript.
LEMMA StepsAside ==
  ASSUME RunInv, NEW c \in Callers, NEW s \in Stages \ {"config", "looping"},
         call' = [call EXCEPT ![c] = s], UNCHANGED base, Stem' = Stem
  PROVE  /\ \A d \in Callers : call'[d] = "config" =>
              base' = transcript \/ (call[d] = "config" /\ base' = base)
         /\ \A d \in Callers : call'[d] = "looping" => call[d] = "looping" /\ Stem' = Stem
<1>1. /\ call'[c] = s /\ s # "config" /\ s # "looping"
      /\ \A d \in Callers \ {c} : call'[d] = call[d]
  BY DEF RunInv
<1>. QED  BY <1>1

\* The logs of the loop stay.
LEMMA StemStays ==
  ASSUME UNCHANGED <<context, partial>>
  PROVE  Stem' = Stem
BY DEF Stem

\* A caller takes what it will send to the loop from its argument or a queue.
LEMMA DecideMoved ==
  ASSUME KeptInv, Inv', HoldInv', NEW m \in UserMessages, NEW c \in Callers,
         (\E n \in UserMessages : Prompt(c, n)) \/ Continue(c)
  PROVE  Moved(m)
<1>1. Inv /\ RunInv /\ HoldInv
  BY DEF KeptInv
<1>2. /\ call[c] = "ready" /\ UNCHANGED <<pending, base, transcript, context, partial>>
      /\ call' = [call EXCEPT ![c] = "begin"] /\ UNCHANGED lost
  BY DEF Prompt, Continue, Decide, loopVars, logVars, turnVars, replyVars, sinkVars, runVars
<1>3. held[c] = <<>> /\ Occurrences(held[c], m) = 0 /\ Occurrences(<<>>, m) = 0
  BY <1>1, <1>2, OccurrencesEmpty DEF HoldInv
<1>. DEFINE st == Occurrences(steering, m)  fu == Occurrences(followUp, m)
            un == Bit(m \in unsent)  lo == Bit(m \in lost)
<1>n. /\ st \in Nat /\ fu \in Nat /\ un \in {0, 1} /\ lo \in {0, 1}
      /\ steering \in Seq(UserMessage) /\ followUp \in Seq(UserMessage)
  <2>1. QueueTypes(steering, followUp, pending, held, unsent, lost)
    BY <1>1, KeptTypes
  <2>2. st \in Nat /\ fu \in Nat /\ un \in {0, 1} /\ lo \in {0, 1}
    BY <2>1, ElsewhereType
  <2>. QED  BY <2>1, <2>2 DEF QueueTypes
<1>4. ASSUME NEW msgs \in Seq(UserMessage), NEW source, Decide(c, msgs, source),
             Passes(steering, followUp, unsent, lost, held[c], steering', followUp', unsent', lost', msgs, m)
      PROVE  Moved(m)
  <2>1. Lays(held, c, msgs, held')
    BY <1>4 DEF Decide, Lays
  <2>2. OneHolder(held', m) /\ Away(m)' = Away(m)
    BY <1>2, <1>4, <2>1, HandsMoved
  <2>3. Stem' = Stem
    BY <1>2, StemStays
  <2>4. "begin" \in Stages \ {"config", "looping"}
    BY DEF Stages
  <2>5. /\ \A d \in Callers : call'[d] = "config" =>
              base' = transcript \/ (call[d] = "config" /\ base' = base)
        /\ \A d \in Callers : call'[d] = "looping" => call[d] = "looping" /\ Stem' = Stem
    BY <1>1, <1>2, <2>3, <2>4, StepsAside
  <2>. QED  BY <1>2, <2>2, <2>5, StillOnce
<1>5. ASSUME NEW n \in UserMessages, Prompt(c, n) PROVE Moved(m)
  <2>1. /\ n \in unsent /\ unsent' = unsent \ {n} /\ UNCHANGED <<steering, followUp>>
        /\ Decide(c, <<User(n)>>, "argument")
    BY <1>5 DEF Prompt
  <2>2. User(n) \in UserMessage /\ (User(n) = User(m) <=> n = m)
    BY MessageTypes, OthersAreNotUsers
  <2>3. <<User(n)>> \in Seq(UserMessage) /\ Occurrences(<<User(n)>>, m) = IF n = m THEN 1 ELSE 0
    BY <2>2, OccurrencesOne
  <2>4. Bit(m \in unsent') + Occurrences(<<User(n)>>, m) = un
    <3>1. CASE n = m
      BY <2>1, <2>3, <3>1 DEF Bit
    <3>2. CASE n # m
      BY <2>1, <2>3, <3>2 DEF Bit
    <3>. QED  BY <3>1, <3>2
  <2>5. Bit(m \in unsent') \in {0, 1} /\ Occurrences(<<User(n)>>, m) \in {0, 1}
    BY <2>3 DEF Bit
  <2>6. Passes(steering, followUp, unsent, lost, held[c], steering', followUp', unsent', lost', <<User(n)>>, m)
    <3>. DEFINE u1 == Bit(m \in unsent')  k == Occurrences(<<User(n)>>, m)
    <3>1. u1 + k = un /\ u1 \in {0, 1} /\ k \in {0, 1}
      BY <2>4, <2>5
    <3>2. st + fu + u1 + lo + k = st + fu + un + lo + 0
      <4>. HIDE DEF st, fu, un, lo, u1, k
      <4>. QED  BY <1>n, <3>1
    <3>. QED  BY <1>2, <1>3, <2>1, <3>2 DEF Passes
  <2>. QED  BY <1>4, <2>1, <2>3, <2>6
<1>6. ASSUME Decide(c, <<>>, "transcript"), UNCHANGED <<steering, followUp, unsent>>
      PROVE  Moved(m)
  <2>1. Passes(steering, followUp, unsent, lost, held[c], steering', followUp', unsent', lost', <<>>, m)
    BY <1>2, <1>3, <1>6 DEF Passes
  <2>2. <<>> \in Seq(UserMessage)
    BY EmptySeq
  <2>. QED  BY <1>4, <1>6, <2>1, <2>2
<1>7. ASSUME Decide(c, Drained(steering, SteeringMode), "steering"),
             steering' = Left(steering, SteeringMode), UNCHANGED <<followUp, unsent>>
      PROVE  Moved(m)
  <2>. DEFINE d == Drained(steering, SteeringMode)  k == Occurrences(d, m)
              s1 == Occurrences(steering', m)
  <2>1. /\ d \in Seq(UserMessage) /\ steering' \in Seq(UserMessage)
        /\ k \in Nat /\ s1 \in Nat /\ st = k + s1
    BY <1>7, <1>n, DrainTypes, OccurrencesDrain, OccurrencesType
  <2>2. s1 + fu + un + lo + k = st + fu + un + lo + 0
    <3>. HIDE DEF st, fu, un, lo, s1, k
    <3>. QED  BY <1>n, <2>1
  <2>3. Passes(steering, followUp, unsent, lost, held[c], steering', followUp', unsent', lost', d, m)
    BY <1>2, <1>3, <1>7, <2>2 DEF Passes
  <2>. QED  BY <1>4, <1>7, <2>1, <2>3
<1>8. ASSUME Decide(c, Drained(followUp, FollowUpMode), "followUp"),
             followUp' = Left(followUp, FollowUpMode), UNCHANGED <<steering, unsent>>
      PROVE  Moved(m)
  <2>. DEFINE d == Drained(followUp, FollowUpMode)  k == Occurrences(d, m)
              f1 == Occurrences(followUp', m)
  <2>1. /\ d \in Seq(UserMessage) /\ followUp' \in Seq(UserMessage)
        /\ k \in Nat /\ f1 \in Nat /\ fu = k + f1
    BY <1>8, <1>n, DrainTypes, OccurrencesDrain, OccurrencesType
  <2>2. st + f1 + un + lo + k = st + fu + un + lo + 0
    <3>. HIDE DEF st, fu, un, lo, f1, k
    <3>. QED  BY <1>n, <2>1
  <2>3. Passes(steering, followUp, unsent, lost, held[c], steering', followUp', unsent', lost', d, m)
    BY <1>2, <1>3, <1>8, <2>2 DEF Passes
  <2>. QED  BY <1>4, <1>8, <2>1, <2>3
<1>. QED  BY <1>5, <1>6, <1>7, <1>8 DEF Continue

\* A refused call gives its messages back to who wrote them or loses them.
LEMMA RefuseMoved ==
  ASSUME KeptInv, Inv', HoldInv', NEW m \in UserMessages, NEW c \in Callers, Refuse(c)
  PROVE  Moved(m)
<1>1. Inv /\ RunInv /\ HoldInv
  BY DEF KeptInv
<1>2. /\ UNCHANGED <<steering, followUp, pending, base, transcript, context, partial>>
      /\ call' = [call EXCEPT ![c] = "ready"] /\ Lays(held, c, <<>>, held')
      /\ \/ unsent' = unsent \cup Ids(held[c]) /\ lost' = lost
         \/ lost' = lost \cup Ids(held[c]) /\ unsent' = unsent
  BY DEF Refuse, Return, Lays, loopVars, logVars, turnVars, replyVars, sinkVars, runVars
<1>3. PICK st, fu, pe, ha, un, lo, k \in Nat : Parts(st, fu, pe, ha, un, lo, k, m, c)
  BY AwayParts
<1>. USE DEF Parts
<1>4. k + un <= 1 /\ k + lo <= 1
  BY <1>3
<1>5. held[c] \in Seq(UserMessage)
  BY <1>1 DEF HoldInv
<1>6. /\ Bit(m \in unsent \cup Ids(held[c])) = un + k
      /\ Bit(m \in lost \cup Ids(held[c])) = lo + k
  BY <1>3, <1>4, <1>5, BitOfIds
<1>7. Passes(steering, followUp, unsent, lost, held[c], steering', followUp', unsent', lost', <<>>, m)
  <2>1. Occurrences(<<>>, m) = 0
    BY OccurrencesEmpty
  <2>2. PICK u1, l1 \in Nat : u1 = Bit(m \in unsent') /\ l1 = Bit(m \in lost') /\ u1 + l1 = un + lo + k
    <3>1. CASE unsent' = unsent \cup Ids(held[c]) /\ lost' = lost
      <4>1. Bit(m \in unsent') = un + k /\ Bit(m \in lost') = lo
        BY <1>3, <1>6, <3>1
      <4>. QED  BY <4>1
    <3>2. CASE lost' = lost \cup Ids(held[c]) /\ unsent' = unsent
      <4>1. Bit(m \in lost') = lo + k /\ Bit(m \in unsent') = un
        BY <1>3, <1>6, <3>2
      <4>. QED  BY <4>1
    <3>. QED  BY <1>2, <3>1, <3>2
  <2>3. st + fu + u1 + l1 + 0 = st + fu + un + lo + k
    BY <2>2
  <2>4. Occurrences(steering', m) = st /\ Occurrences(followUp', m) = fu
    BY <1>2, <1>3
  <2>. QED  BY <1>3, <2>1, <2>2, <2>3, <2>4 DEF Passes
<1>8. <<>> \in Seq(UserMessage)
  BY EmptySeq
<1>9. OneHolder(held', m) /\ Away(m)' = Away(m)
  BY <1>2, <1>7, <1>8, HandsMoved
<1>10. "ready" \in Stages \ {"config", "looping"} /\ Stem' = Stem
  BY <1>2, StemStays DEF Stages
<1>11. /\ \A d \in Callers : call'[d] = "config" =>
            base' = transcript \/ (call[d] = "config" /\ base' = base)
       /\ \A d \in Callers : call'[d] = "looping" => call[d] = "looping" /\ Stem' = Stem
  BY <1>1, <1>2, <1>10, StepsAside
<1>. QED  BY <1>2, <1>9, <1>11, StillOnce

\* Hands that let messages go which nobody else takes.
LEMMA HandsEmptied ==
  ASSUME KeptInv, NEW m \in UserMessages, NEW c \in Callers, Lays(held, c, <<>>, held'),
         UNCHANGED <<steering, followUp, pending, unsent, lost>>
  PROVE  OneHolder(held', m) /\ Away(m)' + Occurrences(held[c], m) = Away(m)
<1>1. OneHolder(held, m) /\ held = [d \in Callers |-> held[d]]
  BY DEF KeptInv, OnceInv, HoldInv
<1>2. PICK st, fu, pe, ha, un, lo, k \in Nat : Parts(st, fu, pe, ha, un, lo, k, m, c)
  BY AwayParts
<1>. USE DEF Parts
<1>3. Occurrences(<<>>, m) = 0 /\ ha - k + 0 <= 1
  <2>1. ha <= 1
    BY <1>2
  <2>2. ha - k + 0 <= 1
    BY <2>1
  <2>. QED  BY <2>2, OccurrencesEmpty
<1>4. InHands(held, m) - Occurrences(held[c], m) + 0 <= 1
  BY <1>2, <1>3
<1>5. /\ OneHolder(held', m)
      /\ InHands(held', m) = InHands(held, m) - Occurrences(held[c], m) + 0
  BY <1>1, <1>3, <1>4, HandsMove DEF Lays
<1>6. InHands(held', m) = ha - k
  BY <1>2, <1>5
<1>7. Away(m)' = st + fu + pe + (ha - k) + un + lo
  BY <1>2, <1>6 DEF Away, Elsewhere
<1>8. Away(m)' + k = Away(m)
  <2>. DEFINE a == Away(m)  a1 == Away(m)'
  <2>1. a1 = st + fu + pe + (ha - k) + un + lo /\ a = st + fu + pe + ha + un + lo
    BY <1>2, <1>7
  <2>. HIDE DEF a, a1
  <2>2. a1 + k = a
    BY <2>1
  <2>. QED  BY <2>2 DEF a, a1
<1>. QED  BY <1>2, <1>5, <1>8

\* The loop begins with what its caller held behind the base, and says so; or it
\* does not begin.
LEMMA BuildMoved ==
  ASSUME KeptInv, Inv', HoldInv', NEW m \in UserMessages, NEW c \in Callers, BuildLoopConfig(c)
  PROVE  Moved(m)
<1>1. Inv /\ RunInv /\ PendingInv /\ HoldInv /\ OnceInv(m)
  BY DEF KeptInv
<1>2. /\ call[c] = "config" /\ Lays(held, c, <<>>, held')
      /\ UNCHANGED <<steering, followUp, unsent, lost, base>>
  BY DEF BuildLoopConfig, StartPrompt, StartContinue, BeginLoop, Lays, runVars
<1>3. /\ Driving = {c} /\ pc = "idle" /\ turns < MaxTurns /\ base \in Seq(Message)
      /\ held[c] \in Seq(UserMessage) /\ transcript \in Seq(Message)
  BY <1>1, <1>2, KeptTypes DEF RunInv, SingleRun, Driving, HoldInv
<1>4. pending = <<>>
  BY <1>1, <1>3 DEF PendingInv
<1>5. OnceIn(base, m)
  BY <1>1, <1>2 DEF OnceInv
<1>6. \A d \in Callers \ {c} : call[d] \notin {"config", "looping"} /\ call'[d] = call[d]
  BY <1>3, <1>1 DEF Driving, BuildLoopConfig, RunInv
<1>7. CASE call' = [call EXCEPT ![c] = "failed"] /\ held[c] = <<>>
           /\ UNCHANGED <<transcript, pending, context, partial>>
  <2>1. Occurrences(held[c], m) = 0
    BY <1>7, OccurrencesEmpty
  <2>2. OneHolder(held', m) /\ Away(m)' + Occurrences(held[c], m) = Away(m)
    BY <1>2, <1>7, HandsEmptied
  <2>3. Away(m)' = Away(m)
    <3>1. Away(m)' \in Nat
      BY <1>1, KeptCounts
    <3>. HIDE DEF Away
    <3>. QED  BY <2>1, <2>2, <3>1
  <2>4. "failed" \in Stages \ {"config", "looping"} /\ Stem' = Stem
    BY <1>7, StemStays DEF Stages
  <2>5. /\ \A d \in Callers : call'[d] = "config" =>
             base' = transcript \/ (call[d] = "config" /\ base' = base)
        /\ \A d \in Callers : call'[d] = "looping" => call[d] = "looping" /\ Stem' = Stem
    BY <1>1, <1>2, <1>7, <2>4, StepsAside
  <2>. QED  BY <1>7, <2>2, <2>3, <2>5, StillOnce
<1>8. ASSUME call' = [call EXCEPT ![c] = "looping"], pending' = <<>>,
             Stem' = base \o held[c], transcript' = transcript \o held[c]
      PROVE  Moved(m)
  <2>1. OneHolder(held', m) /\ Away(m)' + Occurrences(held[c], m) = Away(m)
    BY <1>2, <1>4, <1>8, HandsEmptied
  <2>2. held[c] \in Seq(Message) /\ Occurrences(held[c], m) \in Nat
    BY <1>3, MessageTypes, SeqMonotonic, OccurrencesType
  <2>3. PICK e, e1, t, t1, b, b1, s, s1 \in Nat :
           /\ e = Away(m) /\ e1 = Away(m)'
           /\ t = Occurrences(transcript, m) /\ t1 = Occurrences(transcript', m)
           /\ b = Occurrences(base, m) /\ b1 = Occurrences(base', m)
           /\ s = Occurrences(Stem, m) /\ s1 = Occurrences(Stem', m)
           /\ Count(m) = e + t /\ Count(m)' = e1 + t1
    BY <2>1, Counted
  <2>4. PICK k \in Nat : k = Occurrences(held[c], m)
    BY <2>2
  <2>5. t1 = t + k /\ s1 = b + k
    <3>1. Occurrences(transcript \o held[c], m) = Occurrences(transcript, m) + Occurrences(held[c], m)
      BY <1>3, <2>2, OccurrencesConcat
    <3>2. Occurrences(base \o held[c], m) = Occurrences(base, m) + Occurrences(held[c], m)
      BY <1>3, <2>2, OccurrencesConcat
    <3>. QED  BY <1>8, <2>3, <2>4, <3>1, <3>2
  <2>6. e1 + k = e
    BY <2>1, <2>3, <2>4
  <2>7. e + t <= 1 /\ e + b <= 1 /\ t <= b
    BY <1>1, <1>5, <2>3 DEF OnceInv, OnceIn
  <2>8. e1 + t1 <= 1 /\ e1 + s1 <= 1 /\ t1 <= s1 /\ e1 + t1 >= e + t
    BY <2>5, <2>6, <2>7
  <2>9. OnceIn(Stem, m)'
    BY <2>3, <2>8 DEF OnceIn
  <2>10. Away(m)' + Occurrences(transcript', m) <= 1 /\ Count(m)' >= Count(m)
    BY <2>3, <2>8
  <2>11. \A d \in Callers : call'[d] # "config"
    BY <1>1, <1>6, <1>8 DEF RunInv
  <2>. QED  BY <2>1, <2>9, <2>10, <2>11 DEF Moved, OnceInv
<1>9. CASE StartPrompt(base, held[c], from[c] = "steering") /\ call' = [call EXCEPT ![c] = "looping"]
  <2>1. /\ transcript' = transcript \o held[c] /\ streaming' = FALSE
        /\ BeginLoop(base, held[c], from[c] = "steering") /\ UNCHANGED <<unsent, cancelled>>
    BY <1>9 DEF StartPrompt, BuildLoopConfig
  <2>2. transcript' \in Seq(Message)
    BY DEF Inv, TypeOK, LogTypeOK
  <2>3. pending' = <<>> /\ Stem' = base \o held[c]
    BY <1>1, <1>3, <2>1, <2>2, BeginLoopInv
  <2>. QED  BY <1>8, <1>9, <2>1, <2>3
<1>10. CASE from[c] = "transcript" /\ StartContinue(base) /\ call' = [call EXCEPT ![c] = "looping"]
  <2>1. /\ transcript' = transcript /\ streaming' = streaming
        /\ BeginLoop(base, <<>>, FALSE) /\ UNCHANGED <<unsent, cancelled>>
    BY <1>10 DEF StartContinue, BuildLoopConfig
  <2>2. held[c] = <<>> /\ transcript' \in Seq(Message)
    BY <1>1, <1>10 DEF HoldInv, Inv, TypeOK, LogTypeOK
  <2>3. pending' = <<>> /\ Stem' = base \o held[c]
    BY <1>1, <1>3, <2>1, <2>2, BeginLoopInv
  <2>4. transcript' = transcript \o held[c]
    BY <1>3, <2>1, <2>2, ConcatEmptySeq
  <2>. QED  BY <1>8, <1>10, <2>3, <2>4
<1>11. CASE from[c] = "transcript" /\ call' = [call EXCEPT ![c] = "failed"]
            /\ UNCHANGED <<loopVars, sinkVars>>
  <2>1. held[c] = <<>> /\ UNCHANGED <<transcript, pending, context, partial>>
    BY <1>1, <1>11 DEF HoldInv, loopVars, logVars, turnVars, replyVars, sinkVars
  <2>. QED  BY <1>7, <1>11, <2>1
<1>. QED  BY <1>9, <1>10, <1>11 DEF BuildLoopConfig

\* The run's end makes the context, which has what the transcript has, the
\* transcript.
LEMMA FinishMoved ==
  ASSUME KeptInv, Inv', HoldInv', NEW m \in UserMessages, NEW c \in Callers, FinishRun(c)
  PROVE  Moved(m)
<1>1. Inv /\ RunInv /\ PendingInv /\ HoldInv /\ OnceInv(m)
  BY DEF KeptInv
<1>2. /\ call[c] \in {"looping", "finish"} /\ call' = [call EXCEPT ![c] = "settle"]
      /\ UNCHANGED <<steering, followUp, pending, held, unsent, lost, base>>
      /\ transcript' = context \/ (call[c] = "finish" /\ transcript' = transcript)
      /\ call[c] = "finish" => transcript' = transcript
  BY DEF FinishRun, loopVars, turnVars, queueVars
<1>3. Stem = context /\ Stem' = Stem
  BY <1>1, FinishInv
<1>4. OneHolder(held', m) /\ Away(m)' = Away(m)
  BY <1>1, <1>2 DEF OnceInv, Away
<1>5. CASE transcript' = transcript
  <2>1. "settle" \in Stages \ {"config", "looping"}
    BY DEF Stages
  <2>2. /\ \A d \in Callers : call'[d] = "config" =>
             base' = transcript \/ (call[d] = "config" /\ base' = base)
        /\ \A d \in Callers : call'[d] = "looping" => call[d] = "looping" /\ Stem' = Stem
    BY <1>1, <1>2, <1>3, <2>1, StepsAside
  <2>. QED  BY <1>4, <1>5, <2>2, StillOnce
<1>6. CASE call[c] = "looping" /\ transcript' = Stem
  <2>1. PICK e, e1, t, t1, b, b1, s, s1 \in Nat :
           /\ e = Away(m) /\ e1 = Away(m)'
           /\ t = Occurrences(transcript, m) /\ t1 = Occurrences(transcript', m)
           /\ b = Occurrences(base, m) /\ b1 = Occurrences(base', m)
           /\ s = Occurrences(Stem, m) /\ s1 = Occurrences(Stem', m)
           /\ Count(m) = e + t /\ Count(m)' = e1 + t1
    BY <1>4, Counted
  <2>2. e1 = e /\ t1 = s /\ e + s <= 1 /\ t <= s
    BY <1>1, <1>4, <1>6, <2>1 DEF OnceInv, OnceIn
  <2>3. Away(m)' + Occurrences(transcript', m) <= 1 /\ Count(m)' >= Count(m)
    BY <2>1, <2>2
  <2>4. \A d \in Callers : call'[d] \notin {"config", "looping"}
    BY <1>1, <1>2, <1>6 DEF RunInv, SingleRun, Driving
  <2>. QED  BY <1>4, <2>3, <2>4 DEF Moved, OnceInv
<1>. QED  BY <1>2, <1>3, <1>5, <1>6

\* The other steps of a call.
LEMMA OtherCallMoved ==
  ASSUME KeptInv, Inv', HoldInv', NEW m \in UserMessages, NEW c \in Callers,
         BeginRun(c) \/ SnapshotContext(c) \/ FailRun(c) \/ SettleRun(c) \/ WaitForIdle(c) \/ WaitReturns(c)
  PROVE  Moved(m)
<1>1. Inv /\ RunInv /\ PendingInv /\ HoldInv /\ OnceInv(m)
  BY DEF KeptInv
<1>2. UNCHANGED <<steering, followUp, pending, unsent, lost, context, partial>>
  BY DEF BeginRun, SnapshotContext, FailRun, SettleRun, WaitForIdle, WaitReturns, queueVars, loopVars,
         logVars, turnVars, replyVars, vars
<1>3. UNCHANGED held
  <2>1. CASE SettleRun(c) \/ WaitReturns(c)
    <3>1. call[c] \in {"settle", "waiting"} /\ held' = [held EXCEPT ![c] = <<>>]
      BY <2>1 DEF SettleRun, WaitReturns, Return
    <3>2. held[c] = <<>> /\ held \in [Callers -> Seq(UserMessage)]
      BY <1>1, <3>1 DEF HoldInv
    <3>. QED  BY <3>1, <3>2
  <2>. QED  BY <2>1 DEF BeginRun, SnapshotContext, FailRun, WaitForIdle
<1>4. OneHolder(held', m) /\ Away(m)' = Away(m) /\ Stem' = Stem
  BY <1>1, <1>2, <1>3, StemStays DEF OnceInv, Away
<1>5. Occurrences(transcript', m) = Occurrences(transcript, m)
  <2>1. CASE FailRun(c)
    <3>1. transcript' = Append(transcript, Assistant(0, "error", 0)) /\ transcript \in Seq(Message)
      BY <1>1, <2>1, KeptTypes DEF FailRun
    <3>2. Occurrences(transcript, m) \in Nat
      BY <3>1, OccurrencesType
    <3>. DEFINE x == Assistant(0, "error", 0)
    <3>3. x # User(m) /\ x \in Message
      BY OthersAreNotUsers, FailureType
    <3>. HIDE DEF x
    <3>4. Occurrences(Append(transcript, x), m) = Occurrences(transcript, m) + 0
      BY <3>1, <3>3, OccurrencesAppend
    <3>. QED  BY <3>1, <3>2, <3>4 DEF x
  <2>2. CASE ~FailRun(c)
    BY <2>2 DEF BeginRun, SnapshotContext, SettleRun, WaitForIdle, WaitReturns, sinkVars, vars
  <2>. QED  BY <2>1, <2>2
<1>6. CASE SnapshotContext(c)
  <2>1. /\ base' = transcript /\ call' = [call EXCEPT ![c] = "config"] /\ call[c] = "snapshot"
        /\ transcript' = transcript
    BY <1>6 DEF SnapshotContext, sinkVars
  <2>2. \A d \in Callers : call'[d] = "looping" => call[d] = "looping" /\ Stem' = Stem
    BY <1>1, <1>4, <2>1 DEF RunInv
  <2>. QED  BY <1>4, <1>5, <2>1, <2>2, StillOnce
<1>7. CASE ~SnapshotContext(c)
  <2>1. PICK s \in {"snapshot", "finish", "ready", "waiting"} :
          call' = [call EXCEPT ![c] = s] /\ UNCHANGED base
    BY <1>7 DEF BeginRun, FailRun, SettleRun, WaitForIdle, WaitReturns, Return, runVars
  <2>2. s \in Stages \ {"config", "looping"}
    BY DEF Stages
  <2>3. /\ \A d \in Callers : call'[d] = "config" =>
             base' = transcript \/ (call[d] = "config" /\ base' = base)
        /\ \A d \in Callers : call'[d] = "looping" => call[d] = "looping" /\ Stem' = Stem
    BY <1>1, <1>4, <2>1, <2>2, StepsAside
  <2>. QED  BY <1>4, <1>5, <2>3, StillOnce
<1>. QED  BY <1>6, <1>7

\* What callers and tools do beside the runs, except to reset the transcript.
LEMMA OutsideMoved ==
  ASSUME KeptInv, Inv', HoldInv', NEW m \in UserMessages,
         (OutsideStep /\ ~Reset /\ ~SetMessages) \/ UNCHANGED allVars
  PROVE  Moved(m)
<1>1. Inv /\ RunInv /\ PendingInv /\ HoldInv /\ OnceInv(m)
  BY DEF KeptInv
<1>2. UNCHANGED <<held, lost, call, base, transcript, context, partial, pending>>
  BY DEF OutsideStep, AbortRun, TakeQueues, SetSetting, Steer, FollowUp, OnUpdate, allVars, vars, agentVars,
         callVars, runVars, loopVars, logVars, turnVars, replyVars, sinkVars
<1>3. OneHolder(held', m) /\ Stem' = Stem
  BY <1>1, <1>2, StemStays DEF OnceInv
<1>4. Away(m)' = Away(m)
  <2>1. CASE TakeQueues
    <3>2. /\ unsent' = unsent \cup Ids(steering) \cup Ids(followUp)
          /\ steering' = <<>> /\ followUp' = <<>>
          /\ steering \in Seq(UserMessage) /\ followUp \in Seq(UserMessage)
      BY <1>1, <2>1, KeptTypes DEF TakeQueues, QueueTypes
    <3>. DEFINE st == Occurrences(steering, m)  fu == Occurrences(followUp, m)
                pe == Occurrences(pending, m)  ha == InHands(held, m)
                un == Bit(m \in unsent)  lo == Bit(m \in lost)  t == Occurrences(transcript, m)
                u1 == Bit(m \in unsent')
    <3>3. /\ st \in Nat /\ fu \in Nat /\ pe \in Nat /\ ha \in {0, 1} /\ un \in {0, 1} /\ lo \in {0, 1}
          /\ t \in Nat
      BY <1>1, KeptTypes, ElsewhereType, OccurrencesType
    <3>4. st + fu + pe + ha + un + lo + t <= 1
      BY <1>1 DEF OnceInv, Away, Elsewhere
    <3>5. st + un <= 1 /\ fu + (un + st) <= 1
      <4>. HIDE DEF st, fu, pe, ha, un, lo, t
      <4>. QED  BY <3>3, <3>4
    <3>6. Bit(m \in unsent \cup Ids(steering)) = un + st
      BY <3>2, <3>5, BitOfIds
    <3>7. u1 = (un + st) + fu
      <4>1. Occurrences(followUp, m) + Bit(m \in unsent \cup Ids(steering)) <= 1
        BY <3>5, <3>6
      <4>2. Bit(m \in (unsent \cup Ids(steering)) \cup Ids(followUp))
              = Bit(m \in unsent \cup Ids(steering)) + Occurrences(followUp, m)
        BY <3>2, <4>1, BitOfIds
      <4>. QED  BY <3>2, <3>6, <4>2
    <3>8. Occurrences(<<>>, m) = 0
      BY OccurrencesEmpty
    <3>9. Away(m)' = 0 + 0 + pe + ha + u1 + lo /\ Away(m) = st + fu + pe + ha + un + lo
      BY <1>2, <3>2, <3>8 DEF Away, Elsewhere
    <3>10. 0 + 0 + pe + ha + u1 + lo = st + fu + pe + ha + un + lo
      <4>. HIDE DEF st, fu, pe, ha, un, lo, u1
      <4>. QED  BY <3>3, <3>7
    <3>. QED  BY <3>9, <3>10
  <2>2. CASE AbortRun \/ (\E s \in Settings : SetSetting(s)) \/ UNCHANGED allVars
    <3>1. UNCHANGED <<steering, followUp, unsent>>
      BY <2>2 DEF AbortRun, SetSetting, allVars, vars, queueVars
    <3>. QED  BY <1>2, <3>1 DEF Away
  <2>3. CASE (\E n \in UserMessages : Steer(n) \/ FollowUp(n)) \/ \E c \in Calls : OnUpdate(c)
    <3>1. Next
      BY <2>3 DEF Next, Surroundings
    <3>2. Where(m)' = Where(m)
      BY <1>1, <3>1, MovesStep
    <3>3. Away(m)' + Occurrences(transcript', m) = Away(m) + Occurrences(transcript, m)
      BY <1>2, <3>2, AwayWhere
    <3>. DEFINE a == Away(m)  a1 == Away(m)'  t == Occurrences(transcript, m)
    <3>4. a \in Nat /\ a1 \in Nat /\ t \in Nat /\ a1 + t = a + t
      BY <1>1, <1>2, <3>3, KeptCounts
    <3>. HIDE DEF a, a1, t
    <3>5. a1 = a
      BY <3>4
    <3>. QED  BY <3>5 DEF a, a1
  <2>. QED  BY <2>1, <2>2, <2>3 DEF OutsideStep
<1>. QED  BY <1>2, <1>3, <1>4, StillOnce

\* A reset forgets messages and doubles none.
LEMMA ResetOnce ==
  ASSUME KeptInv, Inv', HoldInv', NEW m \in UserMessages, Reset \/ SetMessages
  PROVE  OnceInv(m)'
<1>1. Inv /\ RunInv /\ PendingInv /\ HoldInv /\ OnceInv(m)
  BY DEF KeptInv
<1>2. UNCHANGED <<held, lost, call, base, context, partial, pending, unsent>>
  BY DEF Reset, SetMessages, agentVars, callVars, runVars, loopVars, logVars, turnVars, replyVars, queueVars
<1>3. OneHolder(held', m) /\ Stem' = Stem
  BY <1>1, <1>2, StemStays DEF OnceInv
<1>4. PICK e, e1, t, t1, b, b1, s, s1 \in Nat :
           /\ e = Away(m) /\ e1 = Away(m)'
           /\ t = Occurrences(transcript, m) /\ t1 = Occurrences(transcript', m)
           /\ b = Occurrences(base, m) /\ b1 = Occurrences(base', m)
           /\ s = Occurrences(Stem, m) /\ s1 = Occurrences(Stem', m)
           /\ Count(m) = e + t /\ Count(m)' = e1 + t1
  BY <1>3, Counted
<1>5. Away(m)' <= Away(m)
  <2>1. PICK st, fu, pe, ha, un, lo \in Nat :
           /\ st = Occurrences(steering, m) /\ fu = Occurrences(followUp, m)
           /\ pe = Occurrences(pending, m) /\ ha = InHands(held, m)
           /\ un = Bit(m \in unsent) /\ lo = Bit(m \in lost)
    <3>1. /\ Occurrences(steering, m) \in Nat /\ Occurrences(followUp, m) \in Nat
          /\ Occurrences(pending, m) \in Nat
          /\ InHands(held, m) \in {0, 1} /\ Bit(m \in unsent) \in {0, 1} /\ Bit(m \in lost) \in {0, 1}
      BY <1>1, KeptTypes, ElsewhereType
    <3>. QED  BY <3>1
  <2>2. Away(m) = st + fu + pe + ha + un + lo
    BY <2>1 DEF Away, Elsewhere
  <2>3. \/ steering' = steering /\ followUp' = followUp
        \/ steering' = <<>> /\ followUp' = <<>>
    BY DEF Reset, SetMessages, queueVars
  <2>4. CASE steering' = steering /\ followUp' = followUp
    <3>1. Away(m)' = Away(m)
      BY <1>2, <2>4 DEF Away
    <3>. QED  BY <1>4, <3>1
  <2>5. CASE steering' = <<>> /\ followUp' = <<>>
    <3>1. Away(m)' = 0 + 0 + pe + ha + un + lo
      BY <1>2, <2>1, <2>5, OccurrencesEmpty DEF Away, Elsewhere
    <3>. QED  BY <2>2, <3>1
  <2>. QED  BY <2>3, <2>4, <2>5
<1>6. Occurrences(transcript', m) <= Occurrences(transcript, m)
  <2>1. transcript \in Seq(Message) /\ Occurrences(transcript, m) \in Nat
    BY <1>1, KeptTypes, OccurrencesType
  <2>2. CASE Reset
    <3>1. Occurrences(transcript', m) = 0
      BY <2>2, OccurrencesEmpty DEF Reset
    <3>. QED  BY <2>1, <3>1
  <2>3. CASE SetMessages
    <3>1. PICK n \in 0..Len(transcript) : transcript' = SubSeq(transcript, 1, n)
      BY <2>3 DEF SetMessages
    <3>. DEFINE r == SubSeq(transcript, n + 1, Len(transcript))
    <3>2. Occurrences(transcript, m) = Occurrences(transcript', m) + Occurrences(r, m)
      BY <2>1, <3>1, OccurrencesSplit
    <3>3. r \in Seq(Message)
      <4>1. Len(transcript) \in Nat /\ n \in Nat
        BY <2>1, LenProperties
      <4>2. \A i \in (n + 1)..Len(transcript) : transcript[i] \in Message
        <5>1. \A i \in (n + 1)..Len(transcript) : i \in 1..Len(transcript)
          BY <4>1
        <5>. QED  BY <2>1, <5>1, ElementOfSeq
      <4>. QED  BY <4>1, <4>2, SubSeqProperties
    <3>4. Occurrences(r, m) \in Nat
      BY <3>3, OccurrencesType
    <3>. HIDE DEF r
    <3>5. PICK z \in Nat : z = Occurrences(r, m)
      BY <3>4
    <3>6. t = t1 + z
      BY <1>4, <3>2, <3>5
    <3>. QED  BY <1>4, <3>6
  <2>. QED  BY <2>2, <2>3
<1>7. e1 <= e /\ t1 <= t /\ e + t <= 1 /\ b1 = b /\ s1 = s
  BY <1>1, <1>2, <1>3, <1>4, <1>5, <1>6 DEF OnceInv
<1>8. ASSUME NEW c \in Callers, call'[c] = "config" PROVE OnceIn(base, m)'
  <2>1. e + b <= 1 /\ t <= b
    BY <1>1, <1>2, <1>4, <1>8 DEF OnceInv, OnceIn
  <2>2. e1 + b1 <= 1 /\ t1 <= b1
    BY <1>7, <2>1
  <2>. QED  BY <1>4, <2>2 DEF OnceIn
<1>9. ASSUME NEW c \in Callers, call'[c] = "looping" PROVE OnceIn(Stem, m)'
  <2>1. e + s <= 1 /\ t <= s
    BY <1>1, <1>2, <1>4, <1>9 DEF OnceInv, OnceIn
  <2>2. e1 + s1 <= 1 /\ t1 <= s1
    BY <1>7, <2>1
  <2>. QED  BY <1>4, <2>2 DEF OnceIn
<1>10. e1 + t1 <= 1
  BY <1>7
<1>11. Away(m)' + Occurrences(transcript', m) <= 1
  BY <1>4, <1>10
<1>. QED  BY <1>3, <1>8, <1>9, <1>11 DEF OnceInv

\* Every step of the agent keeps each message once, and only a reset forgets it.
LEMMA KeptStep ==
  ASSUME KeptInv, [AgentNext]_allVars, MaxRewrites = 0
  PROVE  /\ KeptInv'
         /\ \A m \in UserMessages : Count(m)' < Count(m) => Reset \/ SetMessages
<1>1. Inv /\ RunInv /\ PendingInv /\ HoldInv
  BY DEF KeptInv
<1>2. Inv' /\ PendingInv' /\ RunInv' /\ HoldInv'
  BY <1>1, AgentKeepsInv, AgentStepInv, AgentKeepsHold
<1>3. ASSUME NEW m \in UserMessages, ~(Reset \/ SetMessages)
      PROVE  Moved(m)
  <2>1. ASSUME NEW c \in Callers, RunStep(c) \/ CallerStep(c) PROVE Moved(m)
    <3>1. CASE (\E n \in UserMessages : Prompt(c, n)) \/ Continue(c)
      BY <1>2, <3>1, DecideMoved
    <3>2. CASE Refuse(c)
      BY <1>2, <3>2, RefuseMoved
    <3>3. CASE BuildLoopConfig(c)
      BY <1>2, <3>3, BuildMoved
    <3>4. CASE FinishRun(c)
      BY <1>2, <3>4, FinishMoved
    <3>5. CASE BeginRun(c) \/ SnapshotContext(c) \/ FailRun(c) \/ SettleRun(c) \/ WaitForIdle(c)
                 \/ WaitReturns(c)
      BY <1>2, <3>5, OtherCallMoved
    <3>. QED  BY <2>1, <3>1, <3>2, <3>3, <3>4, <3>5 DEF RunStep, CallerStep
  <2>2. CASE LoopRuns
    BY <1>2, <2>2, LoopMoved
  <2>3. CASE OutsideStep \/ UNCHANGED allVars
    BY <1>2, <1>3, <2>3, OutsideMoved
  <2>. QED  BY <2>1, <2>2, <2>3 DEF AgentNext
<1>4. ASSUME NEW m \in UserMessages PROVE OnceInv(m)'
  BY <1>2, <1>3, ResetOnce DEF Moved
<1>5. ASSUME NEW m \in UserMessages, Count(m)' < Count(m) PROVE Reset \/ SetMessages
  <2>. SUFFICES ASSUME ~(Reset \/ SetMessages) PROVE FALSE
    OBVIOUS
  <2>1. OnceInv(m)' /\ Count(m)' >= Count(m)
    BY <1>3 DEF Moved
  <2>2. OneHolder(held', m)
    BY <2>1 DEF OnceInv
  <2>3. \E x, y \in Nat : Count(m) = x /\ Count(m)' = y
    <3>1. PICK e, e1, t, t1, b, b1, s, s1 \in Nat :
           /\ e = Away(m) /\ e1 = Away(m)'
           /\ t = Occurrences(transcript, m) /\ t1 = Occurrences(transcript', m)
           /\ b = Occurrences(base, m) /\ b1 = Occurrences(base', m)
           /\ s = Occurrences(Stem, m) /\ s1 = Occurrences(Stem', m)
           /\ Count(m) = e + t /\ Count(m)' = e1 + t1
      BY <1>2, <2>2, Counted
    <3>. QED  BY <3>1
  <2>. QED  BY <1>5, <2>1, <2>3
<1>. QED  BY <1>2, <1>4, <1>5 DEF KeptInv

\* At the start every message is with those who wrote it, or one is the
\* transcript.
LEMMA KeptInit == AgentInit => KeptInv
<1>. SUFFICES ASSUME AgentInit PROVE KeptInv
  OBVIOUS
<1>1. Inv /\ RunInv /\ PendingInv /\ Init
  BY InitInv, AgentInitInv DEF AgentInit, Init, PendingInv
<1>2. HoldInv
  <2>1. <<>> \in Seq(Message) /\ <<>> \in Seq(UserMessage)
    BY EmptySeq
  <2>. QED  BY <2>1 DEF AgentInit, HoldInv, Sources
<1>3. ASSUME NEW m \in UserMessages PROVE OnceInv(m)
  <2>1. Where(m) = 1
    BY <1>1, ConservedInit DEF MessagesConserved, Where
  <2>2. \A c \in Callers : Occurrences(held[c], m) = 0
    BY OccurrencesEmpty DEF AgentInit
  <2>3. OneHolder(held, m) /\ InHands(held, m) = 0
    BY <2>2 DEF OneHolder, Holders, InHands
  <2>4. Bit(m \in lost) = 0
    BY DEF AgentInit, Bit
  <2>5. PICK st, fu, pe, tr, un \in Nat :
          /\ st = Occurrences(steering, m) /\ fu = Occurrences(followUp, m)
          /\ pe = Occurrences(pending, m) /\ tr = Occurrences(transcript, m)
          /\ un = Bit(m \in unsent)
    <3>1. Bit(m \in unsent) \in Nat
      BY DEF Bit
    <3>. QED  BY <1>1, <3>1, CountsAreNumbers
  <2>6. st + fu + pe + tr + un = 1
    BY <2>1, <2>5 DEF Where, Bit
  <2>7. Away(m) = st + fu + pe + 0 + un + 0
    BY <2>3, <2>4, <2>5 DEF Away, Elsewhere
  <2>8. Away(m) + Occurrences(transcript, m) <= 1
    BY <2>5, <2>6, <2>7
  <2>9. \A c \in Callers : call[c] \notin {"config", "looping"}
    BY DEF AgentInit
  <2>. QED  BY <2>3, <2>8, <2>9 DEF OnceInv
<1>. QED  BY <1>1, <1>2, <1>3 DEF KeptInv

\* Between and during the runs of an agent, with callers that cancel, reset and
\* take messages at any moment, each run of the loop keeps the invariant it has
\* when it runs alone, and a call that sets up a run has turns left for it.
THEOREM LoopInvInRuns == AgentSpec => [](Inv /\ PendingInv /\ HoldInv)
<1>1. AgentInit => Inv /\ PendingInv /\ HoldInv
  BY KeptInit DEF KeptInv
<1>2. (Inv /\ PendingInv /\ HoldInv) /\ RunInv /\ [AgentNext]_allVars => (Inv /\ PendingInv /\ HoldInv)'
  BY AgentKeepsInv, AgentKeepsHold
<1>. QED  BY <1>1, <1>2, RunInvHolds, PTL DEF AgentSpec

\* However prompt, continue, steer, abort, take and the runs' ends interleave,
\* each user message is in one place at most and leaves the agent only through a
\* reset or a replaced transcript, if no hook drops a part of a run's context
\* (MaxRewrites = 0), which its end would make the transcript: finish_run
\* overwrites the agent's messages, and the context it writes has whatever they
\* have.
THEOREM MessagesKeptHolds == MaxRewrites = 0 => (AgentSpec => MessagesKept)
<1>. SUFFICES ASSUME MaxRewrites = 0 PROVE AgentSpec => MessagesKept
  OBVIOUS
<1>1. KeptInv /\ [AgentNext]_allVars => KeptInv'
  BY KeptStep
<1>2. KeptInv /\ [AgentNext]_allVars
        => [\A m \in UserMessages :
              /\ Count(m)' <= 1
              /\ Count(m)' < Count(m) => Reset \/ SetMessages]_allVars
  <2>. SUFFICES ASSUME KeptInv, [AgentNext]_allVars, NEW m \in UserMessages
                PROVE  Count(m)' <= 1 /\ (Count(m)' < Count(m) => Reset \/ SetMessages)
    OBVIOUS
  <2>1. KeptInv' /\ (Count(m)' < Count(m) => Reset \/ SetMessages)
    BY KeptStep
  <2>2. Inv' /\ HoldInv' /\ OneHolder(held', m) /\ Away(m)' + Occurrences(transcript', m) <= 1
    BY <2>1 DEF KeptInv, OnceInv
  <2>3. Count(m)' = Away(m)' + Occurrences(transcript', m)
    BY <2>2, CountIsNext
  <2>. QED  BY <2>1, <2>2, <2>3
<1>. QED  BY <1>1, <1>2, KeptInit, PTL DEF AgentSpec, MessagesKept
=============================================================================

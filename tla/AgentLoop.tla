----------------------------- MODULE AgentLoop -----------------------------
(***************************************************************************)
(* One invocation of the low-level agent loop (grain-agent-core,           *)
(* agent_loop.rs) together with what it shares with its surroundings: the  *)
(* run's cancellation token, the steering and follow-up queues it polls,   *)
(* the tool futures and update callbacks it runs concurrently, and the     *)
(* part of the Agent's state that its event sink maintains (agent.rs,      *)
(* process_event_impl).                                                    *)
(*                                                                         *)
(* A message keeps its role and what pairs it with others; texts, models,  *)
(* usage and timestamps are left out.  A tool call is identified by the    *)
(* reply it belongs to and its position there.  The start and end events   *)
(* of a message that is not streamed are one step.                         *)
(***************************************************************************)
EXTENDS Naturals, Sequences, FiniteSets

CONSTANTS
  UserMessages,   \* the user messages the environment may submit
  MaxTurns,       \* bound: replies asked for; the last one is an error
  MaxCalls,       \* bound: tool calls of one reply
  MaxInflight,    \* bound: undelivered update events of one call
  MaxRewrites,    \* bound: contexts replaced by prepare_next_turn (0: no hook)
  Policy,         \* the compaction policy behind that hook
  Long,           \* tool results too long to stay: pairs of a reply and a call
  StopHook,       \* should_stop_after_turn is installed
  Modes,          \* the ways a batch may run under the tools' configuration
  SteeringMode,   \* drain policy of the steering queue
  FollowUpMode    \* drain policy of the follow-up queue

QueueModes == {"one-at-a-time", "all"}

ASSUME AgentLoopAssumption ==
  /\ MaxTurns \in Nat \ {0}
  /\ MaxCalls \in Nat
  /\ MaxInflight \in Nat
  /\ MaxRewrites \in Nat
  /\ Policy \in {"TokenBudgetPolicy", "MessageCountPolicy"}
  /\ StopHook \in BOOLEAN
  /\ Modes \subseteq {"sequential", "parallel"} /\ Modes # {}
  /\ SteeringMode \in QueueModes
  /\ FollowUpMode \in QueueModes

VARIABLES
  pc,             \* where the loop task stands
  cancelled,      \* the run's CancellationToken
  context,        \* AgentContext.messages
  newMessages,    \* new_messages, the payload of AgentEnd
  pending,        \* pending_messages, drained and not yet injected
  more,           \* has_more_tool_calls
  skipPoll,       \* the steering provider still has to skip its first poll
  rewrites,       \* contexts replaced so far
  partial,        \* added_partial
  reply,          \* the assistant message of this turn
  turns,          \* requests made so far
  mode,           \* how this turn's batch runs
  next,           \* the tool call the batch has reached
  emitted,        \* tool results of the batch announced so far
  slot,           \* progress of each tool call of the batch
  outcome,        \* its finalized result
  accepting,      \* UpdateEventState.accepting of each call
  inflight,       \* UpdateEventState.tasks not yet delivered
  steering,       \* Inner.steering_queue
  followUp,       \* Inner.follow_up_queue
  unsent,         \* user messages nobody has submitted yet
  transcript,     \* Inner.messages
  streaming,      \* Inner.streaming_message is set
  pendingCalls    \* Inner.pending_tool_calls

turnVars  == <<pending, more, skipPoll, rewrites>>
replyVars == <<partial, reply, turns>>
batchVars == <<mode, next, emitted, slot, outcome>>
updateVars == <<accepting, inflight>>
queueVars == <<steering, followUp, unsent>>
sinkVars  == <<transcript, streaming, pendingCalls>>
logVars   == <<context, newMessages>>
vars == <<pc, cancelled, logVars, turnVars, replyVars, batchVars, updateVars,
          queueVars, sinkVars>>

Calls == 1..MaxCalls

\* "tool_use" takes the same paths as "stop", and "aborted" as "error".
StopReasons == {"stop", "length", "error"}

User(m) == [role |-> "user", id |-> m]
Assistant(t, s, n) == [role |-> "assistant", turn |-> t, stop |-> s, calls |-> n]
ToolResult(t, c, e) ==
  [role |-> "toolResult", turn |-> t, call |-> c, error |-> e, whole |-> TRUE]

UserMessage       == [role : {"user"}, id : UserMessages]
Reply             == [role : {"assistant"}, turn : 0..MaxTurns,
                      stop : StopReasons \cup {"partial"}, calls : 0..MaxCalls]
ToolResultMessage == [role : {"toolResult"}, turn : 0..MaxTurns,
                      call : Calls, error : BOOLEAN, whole : BOOLEAN]

\* What hooks put into a context: the summary of a compaction, and a message
\* of a configured rule, a script or a plugin.
Summary == [role |-> "summary"]
Remark  == [role |-> "remark"]

Message == UserMessage \cup Reply \cup ToolResultMessage \cup {Summary, Remark}

Outcome == [error : BOOLEAN, terminate : BOOLEAN]

NoReply   == Assistant(0, "stop", 0)
Failure   == [error |-> TRUE, terminate |-> FALSE]   \* AgentToolResult::error

\* Faulty: one message is taken, the queue is emptied.
LeftFaulty(q, m) == <<>>

\* PendingMessageQueue::drain: what a poll takes under the queue's mode, and
\* what it leaves.
Taken(q, m)   == IF m = "all" \/ q = <<>> THEN Len(q) ELSE 1
Drained(q, m) == SubSeq(q, 1, Taken(q, m))
Left(q, m)    == SubSeq(q, Taken(q, m) + 1, Len(q))

PCs == {"idle", "pollInitial", "inject", "request", "stream", "replied",
        "startCall", "prepare", "execute", "checkCancel", "parallel", "emit",
        "commit", "turnEnd", "shouldStop", "pollSteering", "pollFollowUp", "done"}

Active == pc \notin {"idle", "done"}

-----------------------------------------------------------------------------
(***************************************************************************)
(* Entry points                                                            *)
(***************************************************************************)

Init ==
  /\ pc = "idle"
  /\ cancelled = FALSE
  /\ context = <<>> /\ newMessages = <<>>
  /\ pending = <<>> /\ more = TRUE /\ skipPoll = FALSE /\ rewrites = 0
  /\ partial = FALSE /\ reply = NoReply /\ turns = 0
  /\ mode = "none" /\ next = 0 /\ emitted = 0
  /\ slot = [c \in Calls |-> "none"]
  /\ outcome = [c \in Calls |-> Failure]
  /\ accepting = [c \in Calls |-> FALSE]
  /\ inflight = [c \in Calls |-> 0]
  /\ steering = <<>> /\ followUp = <<>>
  /\ \/ transcript = <<>> /\ unsent = UserMessages
     \/ \E m \in UserMessages :
          transcript = <<User(m)>> /\ unsent = UserMessages \ {m}
  /\ streaming = FALSE /\ pendingCalls = {}

\* The locals a run starts with; run_loop begins by polling the steering queue.
BeginLoop(base, prompts, skip) ==
  /\ pc' = "pollInitial"
  /\ context' = base \o prompts
  /\ newMessages' = prompts
  /\ pending' = <<>> /\ more' = TRUE /\ skipPoll' = skip
  /\ partial' = FALSE /\ reply' = NoReply
  /\ UNCHANGED <<rewrites, turns, batchVars, updateVars, steering, followUp,
                 pendingCalls>>

\* run_agent_loop: the prompts join the context and are announced.
StartPrompt(base, prompts, skip) ==
  /\ BeginLoop(base, prompts, skip)
  /\ transcript' = transcript \o prompts
  /\ streaming' = FALSE

\* run_agent_loop_continue refuses an empty context and an assistant tail.
CanContinue(base) == base # <<>> /\ base[Len(base)].role # "assistant"

StartContinue(base) ==
  /\ CanContinue(base)
  /\ BeginLoop(base, <<>>, FALSE)
  /\ UNCHANGED <<transcript, streaming>>

-----------------------------------------------------------------------------
(***************************************************************************)
(* Turns: polling, injecting, asking the model                             *)
(***************************************************************************)

\* The inner while loop: another turn, or the end of this round of turns.
TurnOrFollowUp(m, p) ==
  pc' = CASE p # <<>>        -> "inject"
          [] p = <<>> /\ m   -> "request"
          [] p = <<>> /\ ~m  -> "pollFollowUp"

\* The steering provider of build_loop_config.
PollQueue ==
  \/ /\ skipPoll
     /\ skipPoll' = FALSE /\ pending' = <<>>
     /\ UNCHANGED steering
  \/ /\ ~skipPoll
     /\ pending' = Drained(steering, SteeringMode)
     /\ steering' = Left(steering, SteeringMode)
     /\ UNCHANGED skipPoll

PollSteering ==
  /\ pc \in {"pollInitial", "pollSteering"}
  /\ PollQueue
  /\ TurnOrFollowUp(more, pending')
  /\ UNCHANGED <<cancelled, logVars, more, rewrites, replyVars, batchVars,
                 updateVars, followUp, unsent, sinkVars>>

Inject ==
  /\ pc = "inject"
  /\ context' = Append(context, Head(pending))
  /\ newMessages' = Append(newMessages, Head(pending))
  /\ transcript' = Append(transcript, Head(pending))
  /\ streaming' = FALSE
  /\ pending' = Tail(pending)
  /\ pc' = IF Len(pending) = 1 THEN "request" ELSE "inject"
  /\ UNCHANGED <<cancelled, more, skipPoll, rewrites, replyVars, batchVars,
                 updateVars, queueVars, pendingCalls>>

\* The context with the reply in the place of the partial one, if any.
WithReply(r) ==
  IF partial THEN [context EXCEPT ![Len(context)] = r] ELSE Append(context, r)

\* The reply is complete: MessageEnd, and new_messages takes it.
Replied(r) ==
  /\ pc' = "replied"
  /\ reply' = r
  /\ context' = WithReply(r)
  /\ newMessages' = Append(newMessages, r)
  /\ transcript' = Append(transcript, r)
  /\ streaming' = FALSE
  /\ partial' = FALSE

Request ==
  /\ pc = "request"
  /\ turns' = turns + 1
  /\ \/ /\ pc' = "stream"
        /\ UNCHANGED <<logVars, partial, reply, transcript, streaming>>
     \/ Replied(Assistant(turns + 1, "error", 0))  \* stream_fn returned Err
  /\ UNCHANGED <<cancelled, turnVars, batchVars, updateVars, queueVars,
                 pendingCalls>>

StreamStart ==
  /\ pc = "stream" /\ ~partial
  /\ partial' = TRUE
  /\ context' = Append(context, Assistant(turns, "partial", 0))
  /\ streaming' = TRUE
  /\ UNCHANGED <<pc, cancelled, newMessages, turnVars, reply, turns, batchVars,
                 updateVars, queueVars, transcript, pendingCalls>>

\* A terminal event, or the end of the stream without one (an error reply
\* without calls).
Replies == {Assistant(turns, s, n) : s \in StopReasons, n \in 0..MaxCalls}

StreamDone ==
  /\ pc = "stream"
  /\ \E r \in Replies :
       /\ turns = MaxTurns => r.stop = "error"
       /\ Replied(r)
  /\ UNCHANGED <<cancelled, turnVars, turns, batchVars, updateVars, queueVars,
                 pendingCalls>>

\* An error or aborted reply ends the run, whatever calls it carries.
ErrorEnd ==
  /\ pc = "replied" /\ reply.stop = "error"
  /\ pc' = "done"
  /\ UNCHANGED <<cancelled, logVars, turnVars, replyVars, batchVars, updateVars,
                 queueVars, sinkVars>>

NoCalls ==
  /\ pc = "replied" /\ reply.stop # "error" /\ reply.calls = 0
  /\ more' = FALSE
  /\ pc' = "turnEnd"
  /\ UNCHANGED <<cancelled, logVars, pending, skipPoll, rewrites, replyVars,
                 batchVars, updateVars, queueVars, sinkVars>>

-----------------------------------------------------------------------------
(***************************************************************************)
(* The batch of tool calls of one reply                                    *)
(***************************************************************************)

\* A reply cut off by the token limit has all its calls failed; otherwise the
\* configuration and the called tools decide how the batch runs.
StartBatch ==
  /\ pc = "replied" /\ reply.stop # "error" /\ reply.calls > 0
  /\ mode' \in IF reply.stop = "length" THEN {"truncated"} ELSE Modes
  /\ more' = FALSE
  /\ next' = 1
  /\ pc' = "startCall"
  /\ UNCHANGED <<cancelled, logVars, pending, skipPoll, rewrites, replyVars,
                 emitted, slot, outcome, updateVars, queueVars, sinkVars>>

StartCall ==
  /\ pc = "startCall"
  /\ pendingCalls' = pendingCalls \cup {next}
  /\ pc' = "prepare"
  /\ UNCHANGED <<cancelled, logVars, turnVars, replyVars, batchVars, updateVars,
                 queueVars, transcript, streaming>>

\* ToolExecutionEnd of call c, which finished with outcome o.
Finish(c, o) ==
  /\ slot' = [slot EXCEPT ![c] = "finished"]
  /\ outcome' = [outcome EXCEPT ![c] = o]
  /\ pendingCalls' = pendingCalls \ {c}

\* The result message of call c is announced.
EmitResult(c, o) ==
  /\ transcript' = Append(transcript, ToolResult(turns, c, o.error))
  /\ streaming' = FALSE
  /\ emitted' = emitted + 1

\* A call that was not executed: its tool is unknown, its arguments are
\* invalid, the hook blocked it or the run was cancelled; or it is one of a
\* truncated reply.  Sequential batches announce each result at once.
FailCall ==
  /\ pc = "prepare"
  /\ Finish(next, Failure)
  /\ IF mode = "parallel"
     THEN UNCHANGED <<transcript, streaming, emitted>>
     ELSE EmitResult(next, Failure)
  /\ pc' = "checkCancel"
  /\ UNCHANGED <<cancelled, logVars, turnVars, replyVars, mode, next,
                 updateVars, queueVars>>

\* execute_prepared opens the update latch and runs the tool.
BeginExecution(c) ==
  /\ slot' = [slot EXCEPT ![c] = "running"]
  /\ accepting' = [accepting EXCEPT ![c] = TRUE]

\* The cancellation check is the last step of prepare_tool_call.
Prepare ==
  /\ pc = "prepare" /\ mode # "truncated" /\ ~cancelled
  /\ IF mode = "sequential"
     THEN BeginExecution(next) /\ pc' = "execute"
     ELSE /\ slot' = [slot EXCEPT ![next] = "prepared"]
          /\ pc' = "checkCancel"
          /\ UNCHANGED accepting
  /\ UNCHANGED <<cancelled, logVars, turnVars, replyVars, mode, next, emitted,
                 outcome, inflight, queueVars, sinkVars>>

AfterBatch == IF mode = "parallel" THEN "parallel" ELSE "commit"

\* Faulty: cancellation also cuts a truncated batch short.
CheckCancelTruncated ==
  /\ pc = "checkCancel"
  /\ IF next = reply.calls \/ cancelled
     THEN pc' = AfterBatch /\ UNCHANGED next
     ELSE pc' = "startCall" /\ next' = next + 1
  /\ UNCHANGED <<cancelled, logVars, turnVars, replyVars, mode, emitted, slot,
                 outcome, updateVars, queueVars, sinkVars>>

\* After each call of the batch, except in a truncated one, cancellation ends
\* the loop over the calls.
CheckCancel ==
  /\ pc = "checkCancel"
  /\ IF next = reply.calls \/ (cancelled /\ mode # "truncated")
     THEN pc' = AfterBatch /\ UNCHANGED next
     ELSE pc' = "startCall" /\ next' = next + 1
  /\ UNCHANGED <<cancelled, logVars, turnVars, replyVars, mode, emitted, slot,
                 outcome, updateVars, queueVars, sinkVars>>

-----------------------------------------------------------------------------
(***************************************************************************)
(* Executing a tool: its updates, its settlement, its result               *)
(***************************************************************************)

\* The futures of a parallel batch begin when they are first polled.
Execute(c) ==
  /\ pc = "parallel" /\ slot[c] = "prepared"
  /\ BeginExecution(c)
  /\ UNCHANGED <<pc, cancelled, logVars, turnVars, replyVars, mode, next,
                 emitted, outcome, inflight, queueVars, sinkVars>>

\* on_update: the latch check and the registration of the event's task are one
\* step.  A tool may keep the callback after it returned.
OnUpdate(c) ==
  /\ accepting[c]
  /\ inflight[c] < MaxInflight
  /\ inflight' = [inflight EXCEPT ![c] = @ + 1]
  /\ UNCHANGED <<pc, cancelled, logVars, turnVars, replyVars, batchVars,
                 accepting, queueVars, sinkVars>>

\* A spawned task delivers its ToolExecutionUpdate to the listeners.
DeliverUpdate(c) ==
  /\ inflight[c] > 0
  /\ inflight' = [inflight EXCEPT ![c] = @ - 1]
  /\ UNCHANGED <<pc, cancelled, logVars, turnVars, replyVars, batchVars,
                 accepting, queueVars, sinkVars>>

\* The tool returned: the latch closes and the tasks are taken.
Settle(c) ==
  /\ slot[c] = "running"
  /\ slot' = [slot EXCEPT ![c] = "settling"]
  /\ accepting' = [accepting EXCEPT ![c] = FALSE]
  /\ UNCHANGED <<pc, cancelled, logVars, turnVars, replyVars, mode, next,
                 emitted, outcome, inflight, queueVars, sinkVars>>

\* Faulty: the call ends without waiting for its updates.
FinishCallEarly(c) ==
  /\ slot[c] = "settling"
  /\ \E o \in Outcome :
       /\ Finish(c, o)
       /\ IF mode = "sequential"
          THEN EmitResult(c, o) /\ pc' = "checkCancel"
          ELSE UNCHANGED <<transcript, streaming, emitted, pc>>
  /\ UNCHANGED <<cancelled, logVars, turnVars, replyVars, mode, next,
                 updateVars, queueVars>>

\* Faulty: a parallel call announces its result as soon as it finishes.
FinishCallEager(c) ==
  /\ slot[c] = "settling" /\ inflight[c] = 0
  /\ \E o \in Outcome :
       /\ Finish(c, o)
       /\ EmitResult(c, o)
       /\ pc' = IF mode = "sequential" THEN "checkCancel" ELSE pc
  /\ UNCHANGED <<cancelled, logVars, turnVars, replyVars, mode, next,
                 updateVars, queueVars>>

\* Every update was delivered; the after hook may change the result, and the
\* call ends.
FinishCall(c) ==
  /\ slot[c] = "settling" /\ inflight[c] = 0
  /\ \E o \in Outcome :
       /\ Finish(c, o)
       /\ IF mode = "sequential"
          THEN EmitResult(c, o) /\ pc' = "checkCancel"
          ELSE UNCHANGED <<transcript, streaming, emitted, pc>>
  /\ UNCHANGED <<cancelled, logVars, turnVars, replyVars, mode, next,
                 updateVars, queueVars>>

\* Faulty: the batch does not wait for calls whose updates are outstanding.
CollectBatchEarly ==
  /\ pc = "parallel"
  /\ \A c \in Calls : slot[c] \in {"none", "settling", "finished"}
  /\ pc' = "emit"
  /\ UNCHANGED <<cancelled, logVars, turnVars, replyVars, batchVars, updateVars,
                 queueVars, sinkVars>>

\* FuturesOrdered is exhausted: every call that was prepared has finished.
CollectBatch ==
  /\ pc = "parallel"
  /\ \A c \in Calls : slot[c] \in {"none", "finished"}
  /\ pc' = "emit"
  /\ UNCHANGED <<cancelled, logVars, turnVars, replyVars, batchVars, updateVars,
                 queueVars, sinkVars>>

Finished == {c \in Calls : slot[c] = "finished"}

\* A parallel batch announces its results in source order.
EmitNext ==
  /\ pc = "emit"
  /\ emitted + 1 \in Finished
  /\ EmitResult(emitted + 1, outcome[emitted + 1])
  /\ UNCHANGED <<pc, cancelled, logVars, turnVars, replyVars, mode, next, slot,
                 outcome, updateVars, queueVars, pendingCalls>>

EmitEnd ==
  /\ pc = "emit"
  /\ emitted + 1 \notin Finished
  /\ pc' = "commit"
  /\ UNCHANGED <<cancelled, logVars, turnVars, replyVars, batchVars, updateVars,
                 queueVars, sinkVars>>

\* should_terminate
ShouldTerminate ==
  /\ mode # "truncated"
  /\ Finished # {}
  /\ \A c \in Finished : outcome[c].terminate

Results == [c \in 1..emitted |-> ToolResult(turns, c, outcome[c].error)]

CommitBatch ==
  /\ pc = "commit"
  /\ context' = context \o Results
  /\ newMessages' = newMessages \o Results
  /\ more' = ~ShouldTerminate
  /\ mode' = "none" /\ next' = 0 /\ emitted' = 0
  /\ slot' = [c \in Calls |-> "none"]
  /\ outcome' = [c \in Calls |-> Failure]
  /\ pc' = "turnEnd"
  /\ UNCHANGED <<cancelled, pending, skipPoll, rewrites, replyVars, updateVars,
                 queueVars, sinkVars>>

-----------------------------------------------------------------------------
(***************************************************************************)
(* The end of a turn and of the run                                        *)
(***************************************************************************)

\* tool_result_truncation_hook: results over a cap lose their middle, others
\* some of their words.
Shortened(ctx) ==
  [i \in DOMAIN ctx |->
     IF ctx[i].role = "toolResult" /\ <<ctx[i].turn, ctx[i].call>> \in Long
     THEN [ctx[i] EXCEPT !.whole = FALSE] ELSE ctx[i]]

\* Faulty: the cut is not moved out of a reply and its results.
CutsAnywhere(ctx) == 2..Len(ctx)

\* How many messages a policy may choose to fold, whatever their sizes.  Only
\* TokenBudgetPolicy snaps to a boundary: neither between a reply and its
\* results nor between two of them.
Cuts(ctx) ==
  {k \in 2..Len(ctx) :
     Policy = "TokenBudgetPolicy" /\ k < Len(ctx) =>
       /\ ctx[k + 1].role # "toolResult"
       /\ ctx[k].role = "assistant" => ctx[k].calls = 0}

\* Faulty: the summary is left out.
FoldingsUnsaid(ctx) == {ctx} \cup {SubSeq(ctx, k + 1, Len(ctx)) : k \in Cuts(ctx)}

\* compaction_prepare_next_turn: a summary takes the place of what it folds.
Foldings(ctx) ==
  {ctx} \cup {<<Summary>> \o SubSeq(ctx, k + 1, Len(ctx)) : k \in Cuts(ctx)}

\* Configured rules, scripts and plugins may add a message behind it.
Additions(ctx) == {ctx, Append(ctx, Remark)}

\* The chain of hooks.  A cancelled run is not compacted.
Rewrites(ctx) ==
  LET short == Shortened(ctx)
  IN  UNION {Additions(folded) : folded \in IF cancelled THEN {short} ELSE Foldings(short)}

\* prepare_next_turn may replace the context, and that alone.
PrepareNextTurn ==
  /\ pc = "turnEnd"
  /\ \/ UNCHANGED <<context, rewrites>>
     \/ /\ rewrites < MaxRewrites
        /\ context' \in Rewrites(context)
        /\ rewrites' = rewrites + 1
  /\ pc' = IF StopHook THEN "shouldStop" ELSE "pollSteering"
  /\ UNCHANGED <<cancelled, newMessages, pending, more, skipPoll, replyVars,
                 batchVars, updateVars, queueVars, sinkVars>>

ShouldStop ==
  /\ pc = "shouldStop"
  /\ pc' \in {"pollSteering", "done"}
  /\ UNCHANGED <<cancelled, logVars, turnVars, replyVars, batchVars, updateVars,
                 queueVars, sinkVars>>

\* The outer loop: no tool calls and nothing to steer with.
PollFollowUp ==
  /\ pc = "pollFollowUp"
  /\ pending' = Drained(followUp, FollowUpMode)
  /\ followUp' = Left(followUp, FollowUpMode)
  /\ IF pending' = <<>>
     THEN pc' = "done" /\ UNCHANGED more
     ELSE pc' = "inject" /\ more' = TRUE
  /\ UNCHANGED <<cancelled, logVars, skipPoll, rewrites, replyVars, batchVars,
                 updateVars, steering, unsent, sinkVars>>

-----------------------------------------------------------------------------
(***************************************************************************)
(* The surroundings                                                        *)
(***************************************************************************)

Abort ==
  /\ Active /\ ~cancelled
  /\ cancelled' = TRUE
  /\ UNCHANGED <<pc, logVars, turnVars, replyVars, batchVars, updateVars,
                 queueVars, sinkVars>>

Steer(m) ==
  /\ m \in unsent
  /\ unsent' = unsent \ {m}
  /\ steering' = Append(steering, User(m))
  /\ UNCHANGED <<pc, cancelled, logVars, turnVars, replyVars, batchVars,
                 updateVars, followUp, sinkVars>>

FollowUp(m) ==
  /\ m \in unsent
  /\ unsent' = unsent \ {m}
  /\ followUp' = Append(followUp, User(m))
  /\ UNCHANGED <<pc, cancelled, logVars, turnVars, replyVars, batchVars,
                 updateVars, steering, sinkVars>>

\* A run over the transcript the agent was built with, while replies are left
\* to ask for.
Start ==
  /\ pc = "idle" /\ turns < MaxTurns
  /\ \/ \E m \in unsent, skip \in BOOLEAN :
          /\ StartPrompt(transcript, <<User(m)>>, skip)
          /\ unsent' = unsent \ {m}
     \/ StartContinue(transcript) /\ UNCHANGED unsent
  /\ UNCHANGED cancelled

\* A loop nobody starts stays idle, and one that has ended stays so.
Terminated == ~Active /\ UNCHANGED vars

TurnStep ==
  \/ PollSteering \/ Inject \/ Request \/ StreamStart \/ StreamDone
  \/ ErrorEnd \/ NoCalls \/ PrepareNextTurn \/ ShouldStop \/ PollFollowUp

BatchStep ==
  \/ StartBatch \/ StartCall \/ FailCall \/ Prepare \/ CheckCancel
  \/ CollectBatch \/ EmitNext \/ EmitEnd \/ CommitBatch

ToolStep(c) == Execute(c) \/ DeliverUpdate(c) \/ Settle(c) \/ FinishCall(c)

LoopStep == TurnStep \/ BatchStep \/ \E c \in Calls : ToolStep(c)

Surroundings ==
  \/ Abort
  \/ \E m \in UserMessages : Steer(m) \/ FollowUp(m)
  \/ \E c \in Calls : OnUpdate(c)

Next == Start \/ LoopStep \/ Surroundings \/ Terminated

Spec == Init /\ [][Next]_vars

-----------------------------------------------------------------------------
(***************************************************************************)
(* Properties                                                              *)
(***************************************************************************)

Slots == {"none", "prepared", "running", "settling", "finished"}

LogTypeOK ==
  /\ context \in Seq(Message) /\ newMessages \in Seq(Message)
  /\ transcript \in Seq(Message)
  /\ pending \in Seq(UserMessage)
  /\ steering \in Seq(UserMessage) /\ followUp \in Seq(UserMessage)
  /\ unsent \subseteq UserMessages

TurnTypeOK ==
  /\ pc \in PCs
  /\ cancelled \in BOOLEAN /\ more \in BOOLEAN /\ skipPoll \in BOOLEAN
  /\ partial \in BOOLEAN /\ streaming \in BOOLEAN
  /\ rewrites \in 0..MaxRewrites
  /\ reply \in Reply /\ turns \in 0..MaxTurns

BatchTypeOK ==
  /\ mode \in {"none", "sequential", "parallel", "truncated"}
  /\ next \in 0..MaxCalls /\ emitted \in 0..MaxCalls
  /\ slot \in [Calls -> Slots]
  /\ outcome \in [Calls -> Outcome]
  /\ accepting \in [Calls -> BOOLEAN]
  /\ inflight \in [Calls -> 0..MaxInflight]
  /\ pendingCalls \subseteq Calls

TypeOK == LogTypeOK /\ TurnTypeOK /\ BatchTypeOK

\* An update of a tool call reaches the listeners only between the call's
\* start and end events: execute_prepared closes the latch and then waits for
\* the registered tasks, so no update is outstanding once the call has ended.
UpdatesScoped == \A c \in Calls : inflight[c] > 0 => c \in pendingCalls

InBatch == pc \in {"startCall", "prepare", "execute", "checkCancel", "parallel",
                   "emit", "commit"}

\* Nothing a turn began outlives it: outside the batch no call is shown as
\* pending, no tool runs and no callback is accepted, and outside the stream
\* no message is shown as streaming.
TurnsAreClosed ==
  /\ ~InBatch => /\ pendingCalls = {}
                 /\ \A c \in Calls : slot[c] = "none" /\ ~accepting[c] /\ inflight[c] = 0
  /\ pc # "stream" => ~streaming

\* The reply at position i has its results right behind it, in the order of
\* its calls.
AnsweredAt(log, i) ==
  \A k \in 1..log[i].calls :
    /\ i + k <= Len(log)
    /\ log[i + k].role = "toolResult"
    /\ log[i + k].turn = log[i].turn
    /\ log[i + k].call = k

\* Every tool result stands behind the reply that asked for it.
AskedAt(log, i) ==
  LET j == i - log[i].call
  IN  /\ j >= 1 /\ log[j].role = "assistant"
      /\ log[j].turn = log[i].turn /\ log[i].call <= log[j].calls

Paired(log) ==
  \A i \in 1..Len(log) :
    /\ log[i].role = "assistant" => AnsweredAt(log, i)
    /\ log[i].role = "toolResult" => AskedAt(log, i)

\* A batch has a mode and a call it has reached, and nothing else has.
BatchInv ==
  /\ InBatch <=> mode # "none"
  /\ InBatch => next \in 1..reply.calls /\ reply.stop # "error"
  /\ ~InBatch => next = 0
  /\ pc = "execute" => mode = "sequential"
  /\ pc \in {"parallel", "emit"} => mode = "parallel"
  /\ pc \in {"parallel", "emit", "commit"} =>
       next = reply.calls \/ (cancelled /\ mode # "truncated")

\* Where each call of the batch stands relative to the one it has reached.
SlotInv ==
  \A c \in Calls :
    /\ c > next => slot[c] = "none"
    /\ c < next => slot[c] # "none"
    /\ c < next /\ mode # "parallel" => slot[c] = "finished"
    /\ mode = "parallel" /\ pc # "parallel" => slot[c] \notin {"running", "settling"}
    /\ pc \in {"emit", "commit"} => slot[c] \in {"none", "finished"}
    /\ c = next /\ pc \in {"startCall", "prepare"} => slot[c] = "none"
    /\ c = next /\ pc = "execute" => slot[c] \in {"running", "settling"}
    /\ c = next /\ pc \in {"checkCancel", "parallel", "emit", "commit"} => slot[c] # "none"
    /\ c = next /\ pc \in {"checkCancel", "commit"} /\ mode # "parallel" => slot[c] = "finished"

\* How many results of the batch have been announced.
EmitInv ==
  /\ ~InBatch => emitted = 0
  /\ mode = "parallel" /\ pc \notin {"emit", "commit"} => emitted = 0
  /\ pc = "emit" => emitted <= next
  /\ pc = "commit" => emitted = next
  /\ mode # "parallel" /\ pc \in {"startCall", "prepare", "execute"} => emitted = next - 1
  /\ mode # "parallel" /\ pc = "checkCancel" => emitted = next

\* Which calls are shown as pending follows from the slots.
ShownInv ==
  \A c \in Calls :
    c \in pendingCalls <=> \/ slot[c] \in {"prepared", "running", "settling"}
                           \/ pc = "prepare" /\ c = next

\* So does which calls accept updates and which may still deliver some.
CallsInv ==
  \A c \in Calls :
    /\ accepting[c] <=> slot[c] = "running"
    /\ inflight[c] > 0 => slot[c] \in {"running", "settling"}

\* Only the last reply asked for is an error for sure, so a turn that goes on
\* leaves room for another; and the partial reply is in the context.
TurnInv ==
  /\ pc \notin {"idle", "stream", "replied", "done"} => turns < MaxTurns
  /\ pc = "replied" /\ reply.stop # "error" => turns < MaxTurns
  /\ reply.stop = "error" => pc \in {"idle", "replied", "done"}
  /\ pc = "stream" => turns > 0
  /\ pc = "inject" => pending # <<>>
  /\ partial => pc = "stream" /\ context # <<>>
  /\ streaming => pc = "stream"

\* The inductive invariant of the loop.  It holds of every run of an Agent too,
\* whose callers may meanwhile reset what is shown.
Inv == TypeOK /\ BatchInv /\ SlotInv /\ EmitInv /\ CallsInv /\ TurnInv

\* A provider refuses a request in which a tool call has no result or a result
\* no call.  The loop never makes one in a run that was not cancelled, tools
\* of any mode, truncated replies and replaced contexts included.
PairedAtRequest == pc = "request" /\ ~cancelled => Paired(context)

EndsWith(log, end) ==
  /\ Len(end) <= Len(log)
  /\ SubSeq(log, Len(log) - Len(end) + 1, Len(log)) = end

\* A message of a context that somebody said, and it in full.
Said(m) == m.role \notin {"summary", "remark"}
Whole(m) == IF m.role = "toolResult" THEN [m EXCEPT !.whole = TRUE] ELSE m

\* What somebody said of the messages of a context behind the i-th.
Behind(ctx, i) == {j \in (i + 1)..Len(ctx) : Said(ctx[j])}

\* Cleared of what hooks did to it, a context is the end of a log, and all of
\* it but for what a summary at its head stands for.
Recalls(ctx, log) ==
  /\ \A i \in DOMAIN ctx :
       Said(ctx[i]) => LET n == Cardinality(Behind(ctx, i))
                       IN n < Len(log) /\ Whole(ctx[i]) = log[Len(log) - n]
  /\ \A i \in DOMAIN ctx : ctx[i] = Summary => i = 1
  /\ Cardinality(Behind(ctx, 0)) = Len(log) \/ (ctx # <<>> /\ ctx[1] = Summary)

\* Between turns the three accounts of the conversation agree: the transcript
\* kept from events (Agent.messages) ends with the messages AgentEnd reports,
\* and the context the model sees recalls it: whatever hooks shorten, fold and
\* add (compaction.rs, hooks.rs), no message is lost from it, doubled or moved
\* but for those a summary replaced, and without a hook it is the transcript.
AccountsAgree ==
  pc \in {"request", "turnEnd", "pollSteering", "pollFollowUp", "done"} =>
    /\ EndsWith(transcript, newMessages)
    /\ Recalls(context, transcript)
    /\ rewrites = 0 => transcript = context

Occurrences(log, m) == Cardinality({i \in 1..Len(log) : log[i] = User(m)})

\* A user message is never lost or duplicated on its way from the caller
\* through a queue and the loop's pending messages to the transcript.
MessagesConserved ==
  \A m \in UserMessages :
    Occurrences(steering, m) + Occurrences(followUp, m) + Occurrences(pending, m)
      + Occurrences(transcript, m) + (IF m \in unsent THEN 1 ELSE 0) = 1

\* A reply cut off by the token limit ends with an error result for each of
\* its calls even when the run is cancelled meanwhile, and the model is asked
\* again.
TruncatedIsAnswered ==
  pc = "turnEnd" /\ reply.stop = "length" /\ reply.calls > 0 =>
    /\ more
    /\ \E i \in 1..Len(transcript) :
         /\ i = Len(transcript) - reply.calls /\ transcript[i] = reply
         /\ AnsweredAt(transcript, i)
    /\ \A k \in 1..reply.calls : transcript[Len(transcript) - k + 1].error

\* What is still owed to the last reply of the transcript.
Owed ==
  IF pc = "replied" \/ InBatch
  THEN [k \in 1..(reply.calls - emitted) |-> <<turns, emitted + k>>]
  ELSE <<>>

Conv == INSTANCE Conversation WITH
          Users <- {User(m) : m \in UserMessages},
          Turns <- 1..MaxTurns,
          log <- transcript,
          owed <- Owed,
          excused <- cancelled \/ reply.stop = "error"

\* The loop implements the conversation protocol: parallel tools may finish in
\* any order and a cancellation may come at any point.
ImplementsConversation == Conv!Spec

\* docs/core-agent.md: the follow-up queue is consumed only when no more tool
\* calls are due and the steering queue is empty.
FollowUpAfterSteering ==
  [][Len(followUp') < Len(followUp) => steering = <<>> /\ ~more]_vars
=============================================================================

------------------------------- MODULE Agent -------------------------------
(***************************************************************************)
(* The stateful wrapper around the agent loop (grain-agent-core, agent.rs):*)
(* callers in several tasks start, continue, steer, abort and await runs   *)
(* over one shared state, Inner, whose mutex each of them takes for one    *)
(* step at a time.  A run is begun, its context and its configuration are  *)
(* read, and its end is recorded under separate acquisitions of the lock;  *)
(* the loop in between is AgentLoop.                                       *)
(*                                                                         *)
(* One setting stands for the model and the thinking level, which a run    *)
(* copies when its configuration is built and writes back when it ends;    *)
(* system_prompt and tools, copied with the context, are left out.         *)
(***************************************************************************)
EXTENDS AgentLoop

CONSTANTS
  Callers,        \* tasks that call the agent
  Settings,       \* values of the setting
  Resets          \* callers also reset the agent and replace its transcript

ASSUME AgentAssumption == Settings # {} /\ Resets \in BOOLEAN

VARIABLES
  active,         \* Inner.active_run: the run's number, 0 for None
  runs,           \* runs begun so far
  settled,        \* runs whose done channel holds true
  call,           \* where each caller stands in its call
  held,           \* the messages its call carries
  from,           \* where it took them: its own argument or a queue
  run,            \* the run it drives or awaits
  base,           \* the context snapshot of the run being set up
  setting,        \* Inner.model and the like
  loopSetting,    \* the loop's copy
  wanted,         \* the value set last
  lost            \* drained messages whose call was then refused

callVars == <<call, held, from, run>>
runVars == <<active, runs, settled, base>>
settingVars == <<setting, loopSetting, wanted>>
agentVars == <<callVars, runVars, settingVars, lost>>
allVars == <<vars, agentVars>>

loopVars == <<logVars, turnVars, replyVars, batchVars, updateVars>>

AgentInit ==
  /\ Init
  /\ active = 0 /\ runs = 0 /\ settled = {}
  /\ call = [c \in Callers |-> "ready"]
  /\ held = [c \in Callers |-> <<>>]
  /\ from = [c \in Callers |-> "none"]
  /\ run = [c \in Callers |-> 0]
  /\ base = <<>>
  /\ setting \in Settings /\ loopSetting = setting /\ wanted = setting
  /\ lost = {}

-----------------------------------------------------------------------------
(***************************************************************************)
(* Starting a run                                                          *)
(***************************************************************************)

\* The call goes on to begin_run with these messages.
Decide(c, msgs, source) ==
  /\ call' = [call EXCEPT ![c] = "begin"]
  /\ held' = [held EXCEPT ![c] = msgs]
  /\ from' = [from EXCEPT ![c] = source]
  /\ UNCHANGED run

Prompt(c, m) ==
  /\ call[c] = "ready" /\ m \in unsent
  /\ Decide(c, <<User(m)>>, "argument")
  /\ unsent' = unsent \ {m}
  /\ UNCHANGED <<pc, cancelled, loopVars, steering, followUp, sinkVars, runVars,
                 settingVars, lost>>

\* continue_ looks at the run, the transcript and the queues under one lock;
\* refusals leave everything as it is.
Continue(c) ==
  /\ call[c] = "ready" /\ active = 0 /\ transcript # <<>>
  /\ \/ /\ CanContinue(transcript)
        /\ Decide(c, <<>>, "transcript")
        /\ UNCHANGED <<steering, followUp>>
     \/ /\ ~CanContinue(transcript) /\ steering # <<>>
        /\ Decide(c, Drained(steering, SteeringMode), "steering")
        /\ steering' = Left(steering, SteeringMode)
        /\ UNCHANGED followUp
     \/ /\ ~CanContinue(transcript) /\ steering = <<>> /\ followUp # <<>>
        /\ Decide(c, Drained(followUp, FollowUpMode), "followUp")
        /\ followUp' = Left(followUp, FollowUpMode)
        /\ UNCHANGED steering
  /\ UNCHANGED <<pc, cancelled, loopVars, unsent, sinkVars, runVars, settingVars,
                 lost>>

Return(c) ==
  /\ call' = [call EXCEPT ![c] = "ready"]
  /\ held' = [held EXCEPT ![c] = <<>>]
  /\ from' = [from EXCEPT ![c] = "none"]
  /\ run' = [run EXCEPT ![c] = 0]

\* Faulty: a run begins while another is active.
BeginRunTwice(c) ==
  /\ call[c] = "begin" /\ turns < MaxTurns
  /\ runs' = runs + 1 /\ active' = runs + 1
  /\ cancelled' = FALSE
  /\ streaming' = FALSE
  /\ call' = [call EXCEPT ![c] = "snapshot"]
  /\ run' = [run EXCEPT ![c] = runs + 1]
  /\ UNCHANGED <<pc, loopVars, queueVars, transcript, pendingCalls, held, from,
                 settled, base, settingVars, lost>>

\* begin_run; runs are bounded by the replies left to ask for.
BeginRun(c) ==
  /\ call[c] = "begin" /\ active = 0 /\ turns < MaxTurns
  /\ runs' = runs + 1 /\ active' = runs + 1
  /\ cancelled' = FALSE
  /\ streaming' = FALSE
  /\ call' = [call EXCEPT ![c] = "snapshot"]
  /\ run' = [run EXCEPT ![c] = runs + 1]
  /\ UNCHANGED <<pc, loopVars, queueVars, transcript, pendingCalls, held, from,
                 settled, base, settingVars, lost>>

Ids(msgs) == {msgs[i].id : i \in 1..Len(msgs)}

\* AlreadyRunning: the messages of the call are gone, unless the caller of
\* prompt still has them.
Refuse(c) ==
  /\ call[c] = "begin" /\ active # 0
  /\ Return(c)
  /\ IF from[c] = "argument"
     THEN unsent' = unsent \cup Ids(held[c]) /\ UNCHANGED lost
     ELSE lost' = lost \cup Ids(held[c]) /\ UNCHANGED unsent
  /\ UNCHANGED <<pc, cancelled, loopVars, steering, followUp, sinkVars, runVars,
                 settingVars>>

SnapshotContext(c) ==
  /\ call[c] = "snapshot"
  /\ base' = transcript
  /\ call' = [call EXCEPT ![c] = "config"]
  /\ UNCHANGED <<pc, cancelled, loopVars, queueVars, sinkVars, held, from, run,
                 active, runs, settled, settingVars, lost>>

\* build_loop_config and the first step of the loop, or its refusal to
\* continue from a transcript that was replaced meanwhile.
BuildLoopConfig(c) ==
  /\ call[c] = "config"
  /\ loopSetting' = setting
  /\ \/ /\ from[c] # "transcript"
        /\ StartPrompt(base, held[c], from[c] = "steering")
        /\ call' = [call EXCEPT ![c] = "looping"]
     \/ /\ from[c] = "transcript"
        /\ StartContinue(base)
        /\ call' = [call EXCEPT ![c] = "looping"]
     \/ /\ from[c] = "transcript" /\ ~CanContinue(base)
        /\ call' = [call EXCEPT ![c] = "failed"]
        /\ UNCHANGED <<pc, loopVars, steering, followUp, sinkVars>>
  /\ held' = [held EXCEPT ![c] = <<>>]
  /\ UNCHANGED <<cancelled, unsent, from, run, runVars, setting, wanted, lost>>

-----------------------------------------------------------------------------
(***************************************************************************)
(* Ending a run                                                            *)
(***************************************************************************)

\* The failure message of a loop that did not start.
FailRun(c) ==
  /\ call[c] = "failed"
  /\ transcript' = Append(transcript, Assistant(0, "error", 0))
  /\ streaming' = FALSE
  /\ call' = [call EXCEPT ![c] = "finish"]
  /\ UNCHANGED <<pc, cancelled, loopVars, queueVars, pendingCalls, held, from,
                 run, runVars, settingVars, lost>>

\* Faulty: the messages of this run replace the whole transcript.
FinishRunPartial(c) ==
  /\ \/ /\ call[c] = "looping" /\ pc = "done"
        /\ transcript' = newMessages
        /\ setting' = loopSetting
     \/ /\ call[c] = "finish"
        /\ UNCHANGED <<transcript, setting>>
  /\ pc' = "idle"
  /\ active' = 0
  /\ streaming' = FALSE /\ pendingCalls' = {}
  /\ call' = [call EXCEPT ![c] = "settle"]
  /\ UNCHANGED <<cancelled, loopVars, queueVars, held, from, run, runs, settled,
                 base, loopSetting, wanted, lost>>

\* finish_run under the lock: the loop's context and settings become the
\* agent's.
FinishRun(c) ==
  /\ \/ /\ call[c] = "looping" /\ pc = "done"
        /\ transcript' = context
        /\ setting' = loopSetting
     \/ /\ call[c] = "finish"
        /\ UNCHANGED <<transcript, setting>>
  /\ pc' = "idle"
  /\ active' = 0
  /\ streaming' = FALSE /\ pendingCalls' = {}
  /\ call' = [call EXCEPT ![c] = "settle"]
  /\ UNCHANGED <<cancelled, loopVars, queueVars, held, from, run, runs, settled,
                 base, loopSetting, wanted, lost>>

\* Faulty: the channel is sent true before the state is cleared.
SettleRunFirst(c) ==
  /\ settled' = settled \cup {run[c]}
  /\ \/ /\ call[c] = "looping" /\ pc = "done" /\ run[c] \notin settled
        /\ UNCHANGED callVars
     \/ call[c] = "settle" /\ Return(c)
  /\ UNCHANGED <<vars, active, runs, base, settingVars, lost>>

\* Faulty: the channel stays false.
SettleRunSilent(c) ==
  /\ call[c] = "settle"
  /\ Return(c)
  /\ UNCHANGED <<vars, runVars, settingVars, lost>>

\* The run's done channel is sent true last.
SettleRun(c) ==
  /\ call[c] = "settle"
  /\ settled' = settled \cup {run[c]}
  /\ Return(c)
  /\ UNCHANGED <<vars, active, runs, base, settingVars, lost>>

-----------------------------------------------------------------------------
(***************************************************************************)
(* Other calls                                                             *)
(***************************************************************************)

\* wait_for_idle returns at once when no run is active; otherwise it waits for
\* the run active now.
WaitForIdle(c) ==
  /\ call[c] = "ready" /\ active # 0
  /\ call' = [call EXCEPT ![c] = "waiting"]
  /\ run' = [run EXCEPT ![c] = active]
  /\ UNCHANGED <<vars, held, from, runVars, settingVars, lost>>

WaitReturns(c) ==
  /\ call[c] = "waiting" /\ run[c] \in settled
  /\ Return(c)
  /\ UNCHANGED <<vars, runVars, settingVars, lost>>

AbortRun ==
  /\ active # 0
  /\ cancelled' = TRUE
  /\ UNCHANGED <<pc, loopVars, queueVars, sinkVars, agentVars>>

SetSetting(s) ==
  /\ setting' = s /\ wanted' = s
  /\ UNCHANGED <<vars, callVars, runVars, loopSetting, lost>>

\* take_steering_queue and take_follow_up_queue hand the messages back.
TakeQueues ==
  /\ unsent' = unsent \cup Ids(steering) \cup Ids(followUp)
  /\ steering' = <<>> /\ followUp' = <<>>
  /\ UNCHANGED <<pc, cancelled, loopVars, sinkVars, agentVars>>

Reset ==
  /\ Resets
  /\ transcript' = <<>>
  /\ streaming' = FALSE /\ pendingCalls' = {}
  /\ steering' = <<>> /\ followUp' = <<>>
  /\ UNCHANGED <<pc, cancelled, loopVars, unsent, agentVars>>

\* set_messages; callers go back to an earlier point of the transcript.
SetMessages ==
  /\ Resets
  /\ \E n \in 0..Len(transcript) : transcript' = SubSeq(transcript, 1, n)
  /\ UNCHANGED <<pc, cancelled, loopVars, queueVars, streaming, pendingCalls,
                 agentVars>>

RunStep(c) ==
  \/ BeginRun(c) \/ Refuse(c) \/ SnapshotContext(c) \/ BuildLoopConfig(c)
  \/ FailRun(c) \/ FinishRun(c) \/ SettleRun(c) \/ WaitReturns(c)

LoopRuns == LoopStep /\ UNCHANGED agentVars

CallerStep(c) ==
  \/ Continue(c) \/ WaitForIdle(c)
  \/ \E m \in UserMessages : Prompt(c, m)

OutsideStep ==
  \/ AbortRun \/ TakeQueues \/ Reset \/ SetMessages
  \/ \E s \in Settings : SetSetting(s)
  \/ /\ \/ \E m \in UserMessages : Steer(m) \/ FollowUp(m)
        \/ \E c \in Calls : OnUpdate(c)
     /\ UNCHANGED agentVars

AgentNext ==
  \/ \E c \in Callers : RunStep(c) \/ CallerStep(c)
  \/ LoopRuns
  \/ OutsideStep

\* The runtime polls a task that can make progress: a call that was begun, the
\* loop, and its tools and updates.  Streams and tools are assumed to answer, a
\* cancelled one included.
AgentFairness ==
  /\ \A c \in Callers : WF_allVars(RunStep(c))
  /\ WF_allVars(TurnStep /\ UNCHANGED agentVars)
  /\ WF_allVars(BatchStep /\ UNCHANGED agentVars)
  /\ \A c \in Calls :
       /\ WF_allVars(Execute(c) /\ UNCHANGED agentVars)
       /\ WF_allVars(DeliverUpdate(c) /\ UNCHANGED agentVars)
       /\ WF_allVars(Settle(c) /\ UNCHANGED agentVars)
       /\ WF_allVars(FinishCall(c) /\ UNCHANGED agentVars)

AgentSpec == AgentInit /\ [][AgentNext]_allVars
AgentFairSpec == AgentSpec /\ AgentFairness

-----------------------------------------------------------------------------
(***************************************************************************)
(* Properties                                                              *)
(***************************************************************************)

Stages == {"ready", "begin", "snapshot", "config", "looping", "failed", "finish",
           "settle", "waiting"}

\* The callers that have begun a run and not yet recorded its end.
Driving == {c \in Callers : call[c] \in {"snapshot", "config", "looping", "failed",
                                         "finish"}}

\* Whatever calls race for the lock, one caller at most drives a run; the active
\* run is the one it began, and the loop works for it alone.
SingleRun ==
  /\ \A c, d \in Driving : c = d
  /\ active # 0 <=> Driving # {}
  /\ \A c \in Driving : run[c] = active
  /\ pc # "idle" => \E c \in Driving : call[c] = "looping"

\* A caller waits for a run that was begun, or records the end of one that is
\* no longer active.
BoundTo(c) ==
  /\ call[c] \in {"waiting", "settle"} => run[c] \in 1..runs
  /\ call[c] = "settle" => run[c] # active

\* The inductive invariant of the runs: the run that is active has not been
\* recorded as over, and no call of a tool outlives its batch, so that only the
\* caller that drives the run moves the loop away from idle.
RunInv ==
  /\ call \in [Callers -> Stages] /\ run \in [Callers -> Nat]
  /\ active \in Nat /\ runs \in Nat /\ active <= runs
  /\ settled \subseteq 1..runs
  /\ SingleRun
  /\ \A c \in Callers : BoundTo(c)
  /\ active \notin settled
  /\ ~InBatch => \A c \in Calls : slot[c] = "none"

Count(m) ==
  LET HeldBy(c) == Occurrences(held[c], m)
      Bit(b) == IF b THEN 1 ELSE 0
  IN  Occurrences(steering, m) + Occurrences(followUp, m) + Occurrences(pending, m)
        + Occurrences(transcript, m) + Cardinality({c \in Callers : HeldBy(c) = 1})
        + Bit(m \in unsent) + Bit(m \in lost)

\* Over many runs of racing callers each message is in one place at most: with a
\* caller, in a queue, on its way through the loop, in the transcript that
\* outlives the runs, or among those a refused call took out of a queue.  Only a
\* reset or a replaced transcript takes it from there: no end of a run, whatever
\* was called meanwhile, forgets what it or an earlier run said.
MessagesKept ==
  [][\A m \in UserMessages :
       /\ Count(m)' <= 1
       /\ Count(m)' < Count(m) => Reset \/ SetMessages]_allVars

\* wait_for_idle returns only when the run it was bound to is over and its end
\* recorded.
WaitersSeeTheEnd ==
  [][\A c \in Callers : call[c] = "waiting" /\ call'[c] = "ready" => active # run[c]]_allVars

\* A call that got its run, and one that waits for a run, return, however tools,
\* updates and cancellation interleave; a loop that did not start ends its run
\* too.
CallsReturn ==
  \A c \in Callers : call[c] \notin {"ready", "begin"} ~> call[c] = "ready"

\* agent.rs, continue_: what to do is decided under one lock so that concurrent
\* callers cannot come between the check of the active run and the drain of the
\* queue; no drained message would be lost to another caller then.
NothingLost == lost = {}

\* docs/core-agent.md: a setter called during a run takes effect at the next
\* snapshot.
SettersLast == active = 0 => setting = wanted
=============================================================================

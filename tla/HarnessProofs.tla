---------------------------- MODULE HarnessProofs ----------------------------
(***************************************************************************)
(* Whoever calls the harness, and whichever writes fail: no deferred write *)
(* waits for nothing, a next-turn message leads the next prompt, a setting *)
(* whose caller was told that it was recorded is in the session, deferred  *)
(* or in one hand, and the session shows what the agent remembers until a  *)
(* step that the model names parts them.  For any callers, settings and    *)
(* bounds.                                                                 *)
(***************************************************************************)
EXTENDS Harness, Lemmas, FiniteSetTheorems

-----------------------------------------------------------------------------
(***************************************************************************)
(* Jobs                                                                    *)
(***************************************************************************)

\* The job of one process changes.
LEMMA JobMoves ==
  ASSUME JobsInv, NEW p \in Processes, NEW j, IsJob(j), Becomes(p, j)
  PROVE  /\ job' = [q \in Processes |-> job'[q]] /\ \A q \in Processes : IsJob(job'[q])
         /\ job'[p] = j /\ \A q \in Processes : q # p => job'[q] = job[q]
<1>1. DOMAIN job = Processes
  BY DEF JobsInv
<1>2. job' = [q \in Processes |-> IF q = p THEN j ELSE job[q]]
  BY <1>1 DEF Becomes
<1>. QED  BY <1>2 DEF JobsInv

\* The records that jobs are made of.
LEMMA JobIsJob ==
  /\ \A at, arg : IsJob(Job(at, arg)) /\ Job(at, arg).at = at /\ Job(at, arg).entry = <<>>
  /\ \A at, arg, e : IsJob(Writing(at, arg, e)) /\ Writing(at, arg, e).at = at
BY DEF IsJob, Job, Writing

\* What is being written.
LEMMA WrittenEntry ==
  ASSUME NEW at, NEW arg, NEW e
  PROVE  Writing(at, arg, e).entry # <<>> /\ Writing(at, arg, e).entry[1] = e
BY DEF Writing

\* A caller goes on,
LEMMA CallerMoves ==
  ASSUME JobsInv, NEW c \in Callers, NEW j, IsJob(j), Becomes(c, j), active' = active,
         j.at \in CallerStages, j.entry # <<>> => j.at \in CallerWrites
  PROVE  JobsInv'
<1>. USE HarnessAssumption DEF Processes
<1>1. /\ job' = [q \in Processes |-> job'[q]] /\ \A q \in Processes : IsJob(job'[q])
      /\ job'[c] = j /\ \A q \in Processes : q # c => job'[q] = job[q]
  BY JobMoves
<1>2. job'[Run] = job[Run] /\ c # Run
  BY <1>1
<1>. QED  BY <1>1, <1>2 DEF JobsInv

\* and the run does.
LEMMA RunMoves ==
  ASSUME JobsInv, NEW j, IsJob(j), Becomes(Run, j), active' = active, job[Run].at # "idle",
         j.at \in InTurn \cup Ending, j.entry # <<>> => j.at \in RunWrites
  PROVE  JobsInv'
<1>. USE HarnessAssumption DEF Processes
<1>1. /\ job' = [q \in Processes |-> job'[q]] /\ \A q \in Processes : IsJob(job'[q])
      /\ job'[Run] = j /\ \A q \in Processes : q # Run => job'[q] = job[q]
  BY JobMoves
<1>2. \A c \in Callers : job'[c] = job[c]
  BY <1>1
<1>. QED  BY <1>1, <1>2 DEF JobsInv, InTurn, Ending

-----------------------------------------------------------------------------
(***************************************************************************)
(* The steps of callers                                                    *)
(***************************************************************************)

\* A call begins where a caller is idle.
LEMMA Begins ==
  ASSUME NEW c, NEW call, NEW j, Start(c, call, j)
  PROVE  Becomes(c, j) /\ job[c].at = "idle" /\ job[c].entry = <<>>
BY DEF Start, At

\* Callers stay in their stages when a call begins,
LEMMA JobsCalls ==
  ASSUME JobsInv, NEW c \in Callers, CallNext(c)
  PROVE  JobsInv'
<1>1. active' = active
  BY DEF CallNext, CallPrompt, CallContinue, CallSet, CallNextTurn, CallSteer, CallAbort,
         CallAppendEntry, CallNavigate, CallCompact, agentVars
<1>2. ASSUME NEW call, NEW at, NEW arg, Start(c, call, Job(at, arg)), at \in CallerStages
      PROVE  JobsInv'
  BY <1>1, <1>2, Begins, JobIsJob, CallerMoves
<1>3. CASE CallAppendEntry(c)
  <2>1. PICK e : Start(c, "append", Writing("custom", <<>>, e))
    BY <1>3 DEF CallAppendEntry
  <2>2. "custom" \in CallerStages /\ "custom" \in CallerWrites
    BY DEF CallerStages, CallerWrites
  <2>. QED  BY <1>1, <2>1, <2>2, Begins, JobIsJob, CallerMoves
<1>4. CASE CallPrompt(c) \/ CallContinue(c) \/ CallSet(c)
  BY <1>2, <1>4 DEF CallPrompt, CallContinue, CallSet, CallerStages
<1>5. CASE CallNextTurn(c) \/ CallSteer(c) \/ CallAbort(c)
  BY <1>2, <1>5 DEF CallNextTurn, CallSteer, CallAbort, Idle, CallerStages
<1>6. CASE CallNavigate(c) \/ CallCompact(c)
  BY <1>2, <1>6 DEF CallNavigate, CallCompact, CallerStages
<1>. QED  BY <1>3, <1>4, <1>5, <1>6 DEF CallNext

\* A run begins, and its caller awaits it.
LEMMA RunBegins ==
  ASSUME JobsInv, NEW c \in Callers, BeginRun(c)
  PROVE  /\ JobsInv' /\ ~active /\ active'
         /\ job'[c] = Job("await", <<>>) /\ job'[Run] = Job("say", <<>>)
         /\ \A d \in Callers : d # c => job'[d] = job[d]
<1>. USE HarnessAssumption DEF Processes
<1>1. /\ ~active /\ active' /\ c # Run
      /\ job' = [job EXCEPT ![c] = Job("await", <<>>), ![Run] = Job("say", <<>>)]
  BY DEF BeginRun
<1>2. DOMAIN job = Processes
  BY DEF JobsInv
<1>3. PICK j, k : j = Job("await", <<>>) /\ k = Job("say", <<>>) /\ IsJob(j) /\ IsJob(k)
                  /\ j.at = "await" /\ k.at = "say" /\ j.entry = <<>> /\ k.entry = <<>>
  BY JobIsJob
<1>4. job' = [q \in Processes |-> IF q = Run THEN k ELSE IF q = c THEN j ELSE job[q]]
  BY <1>1, <1>2, <1>3
<1>5. job'[c] = j /\ job'[Run] = k /\ \A d \in Callers : d # c => job'[d] = job[d]
  BY <1>1, <1>4
<1>6. \A q \in Processes : IsJob(job'[q])
  BY <1>3, <1>4 DEF JobsInv
<1>7. "await" \in CallerStages /\ "say" \in InTurn
  BY DEF CallerStages, InTurn
<1>8. \A d \in Callers : /\ job'[d].at \in CallerStages
                         /\ job'[d].entry # <<>> => job'[d].at \in CallerWrites
  BY <1>3, <1>5, <1>7 DEF JobsInv
<1>9. job' = [q \in Processes |-> job'[q]]
  BY <1>4
<1>10. JobsInv'
  BY <1>1, <1>3, <1>5, <1>6, <1>7, <1>8, <1>9 DEF JobsInv
<1>. QED  BY <1>1, <1>3, <1>5, <1>10

\* when it goes on,
LEMMA JobsSteps ==
  ASSUME JobsInv, NEW c \in Callers, CallStep(c)
  PROVE  JobsInv'
<1>1. ASSUME NEW at, NEW arg, Becomes(c, Job(at, arg)), active' = active, at \in CallerStages
      PROVE  JobsInv'
  BY <1>1, JobIsJob, CallerMoves
<1>2. ASSUME NEW at, NEW arg, NEW e, Becomes(c, Writing(at, arg, e)), active' = active,
             at \in CallerWrites
      PROVE  JobsInv'
  <2>1. at \in CallerStages
    BY <1>2 DEF CallerWrites, CallerStages
  <2>. QED  BY <1>2, <2>1, JobIsJob, CallerMoves
<1>3. CASE TakeNextTurn(c)
  BY <1>1, <1>3 DEF TakeNextTurn, CallerStages, agentVars
<1>4. CASE MarkRunning(c)
  <2>1. PICK at : Becomes(c, Job(at, job[c].arg)) /\ at \in {"begin", "snapshot"}
    BY <1>4 DEF MarkRunning, Goes
  <2>. QED  BY <1>1, <1>4, <2>1 DEF MarkRunning, CallerStages, agentVars
<1>5. CASE RunRefused(c) \/ AssignSetting(c) \/ AbortSettles(c)
  BY <1>1, <1>5 DEF RunRefused, AssignSetting, AbortSettles, Idle, CallerStages, agentVars
<1>6. CASE CancelRun(c)
  BY <1>1, <1>6 DEF CancelRun, Goes, CallerStages, agentVars
<1>7. CASE RecordSetting(c)
  <2>1. active' = active
    BY <1>7 DEF RecordSetting, agentVars
  <2>2. CASE running
    BY <1>1, <1>7, <2>1, <2>2 DEF RecordSetting, Defer, Goes, CallerStages
  <2>3. CASE ~running
    BY <1>2, <1>7, <2>1, <2>3 DEF RecordSetting, WriteThrough, CallerWrites
  <2>. QED  BY <2>2, <2>3
<1>8. CASE BuildContext(c) \/ SummaryFails(c)
  BY <1>1, <1>8 DEF BuildContext, SummaryFails, CallerStages, agentVars
<1>9. CASE InstallMessages(c)
  <2>1. PICK at, arg : Becomes(c, Job(at, arg)) /\ at \in {"idle", "unmark"}
    BY <1>9 DEF InstallMessages, Idle
  <2>. QED  BY <1>1, <1>9, <2>1 DEF InstallMessages, CallerStages
<1>10. CASE CompactSnapshot(c)
  <2>1. PICK at, arg : Becomes(c, Job(at, arg)) /\ at \in {"unmark", "summarise"}
    BY <1>10 DEF CompactSnapshot
  <2>. QED  BY <1>1, <1>10, <2>1 DEF CompactSnapshot, CallerStages, agentVars
<1>11. CASE SummaryArrives(c)
  <2>1. PICK arg, e : Becomes(c, Writing("compact", arg, e))
    BY <1>11 DEF SummaryArrives
  <2>. QED  BY <1>2, <1>11, <2>1 DEF SummaryArrives, CallerWrites, agentVars
<1>12. CASE CompactEnds(c)
  BY <1>1, <1>12 DEF CompactEnds, CallerStages, agentVars
<1>. QED  BY <1>3, <1>4, <1>5, <1>6, <1>7, <1>8, <1>9, <1>10, <1>11, <1>12, RunBegins DEF CallStep

-----------------------------------------------------------------------------
(***************************************************************************)
(* The run and the writes                                                  *)
(***************************************************************************)

\* finish_run lets its caller go.
LEMMA RunFinishes ==
  ASSUME JobsInv, FinishRun
  PROVE  /\ JobsInv' /\ ~active'
         /\ job'[Run].at = "idle" /\ job'[Run].entry = <<>>
         /\ \A c \in Callers : \/ job'[c] = job[c]
                               \/ job[c].at = "await" /\ job'[c].at = "idle" /\ job'[c].entry = <<>>
<1>. USE HarnessAssumption DEF Processes
<1>1. ~active' /\ job[Run].at = "finish" /\ job[Run].entry = <<>>
  BY DEF FinishRun, At
<1>2. PICK i : i = Idle /\ IsJob(i) /\ i.at = "idle" /\ i.entry = <<>>
  BY JobIsJob DEF Idle
<1>3. job' = [p \in Processes |-> IF p = Run \/ job[p].at = "await" THEN i ELSE job[p]]
  BY <1>2 DEF FinishRun
<1>4. /\ job' = [p \in Processes |-> job'[p]] /\ \A p \in Processes : IsJob(job'[p])
      /\ job'[Run] = i
      /\ \A c \in Callers : job'[c] = job[c] \/ (job[c].at = "await" /\ job'[c] = i)
  BY <1>2, <1>3 DEF JobsInv
<1>5. "idle" \in CallerStages
  BY DEF CallerStages
<1>6. JobsInv'
  BY <1>1, <1>2, <1>4, <1>5 DEF JobsInv
<1>. QED  BY <1>1, <1>2, <1>4, <1>6

\* and when the run does.
LEMMA JobsRuns ==
  ASSUME JobsInv, RunStep
  PROVE  JobsInv'
<1>1. ASSUME NEW at, NEW arg, Becomes(Run, Job(at, arg)), active' = active,
             job[Run].at \in InTurn, at \in InTurn \cup Ending
      PROVE  JobsInv'
  <2>1. job[Run].at # "idle"
    BY <1>1 DEF InTurn
  <2>. QED  BY <1>1, <2>1, JobIsJob, RunMoves
<1>2. ASSUME NEW m, NEW at, Say(m, at), at \in {"say", "turnEnd"}, active' = active, job[Run].at = "say"
      PROVE  JobsInv'
  <2>1. Becomes(Run, Writing(at, <<>>, MessageEntry(m)))
    BY <1>2 DEF Say
  <2>2. at \in InTurn /\ at \in RunWrites /\ job[Run].at # "idle"
    BY <1>2 DEF InTurn, RunWrites
  <2>. QED  BY <1>2, <2>1, <2>2, JobIsJob, RunMoves
<1>3. CASE SayNext
  BY <1>2, <1>3 DEF SayNext, At
<1>4. CASE ModelReplies
  BY <1>2, <1>4 DEF ModelReplies, At
<1>5. CASE TurnEnd
  BY <1>1, <1>5 DEF TurnEnd, At, Goes, InTurn, agentVars
<1>6. CASE PollQueues
  BY <1>1, <1>6 DEF PollQueues, At, Goes, InTurn
<1>7. CASE AgentEnd
  BY <1>1, <1>7 DEF AgentEnd, At, Goes, InTurn, Ending, agentVars
<1>. QED  BY <1>3, <1>4, <1>5, <1>6, <1>7, RunFinishes DEF RunStep

\* Where a process goes on after its writes.
After(at) ==
  CASE at = "set" -> {"assign", "idle"}
    [] at = "custom" -> {"idle"}
    [] at = "compact" -> {"compacted", "unmark"}
    [] at = "flushCompact" -> {"idle"}
    [] at = "flushTurn" -> {"poll"}
    [] at = "flushEnd" -> {"finish"}
    [] OTHER -> {}

\* What a writer's step does to its own job.
LEMMA Writes ==
  ASSUME JobsInv, NEW p \in Processes, WriteStep(p)
  PROVE  /\ active' = active /\ running' = running
         /\ job[p].at \in Flushes \/ job[p].entry # <<>>
         /\ \E j : /\ IsJob(j) /\ Becomes(p, j)
                   /\ j.at = job[p].at \/ (j.at \in After(job[p].at) /\ j.entry = <<>>)
                   /\ j.entry = <<>> \/ j.entry = job[p].entry \/ job[p].at \in Flushes
<1>1. active' = active /\ running' = running
  BY DEF WriteStep, FlushNext, FlushEnds, ReadLeaf, AppendEntry, WriteFails, agentVars, innerVars
<1>2. ASSUME NEW at, NEW arg, Becomes(p, Job(at, arg)), at = job[p].at \/ at \in After(job[p].at)
      PROVE  \E j : /\ IsJob(j) /\ Becomes(p, j)
                    /\ j.at = job[p].at \/ (j.at \in After(job[p].at) /\ j.entry = <<>>)
                    /\ j.entry = <<>> \/ j.entry = job[p].entry \/ job[p].at \in Flushes
  <2>1. PICK j : j = Job(at, arg) /\ IsJob(j) /\ j.at = at /\ j.entry = <<>>
    BY JobIsJob
  <2>. QED  BY <1>2, <2>1
<1>3. CASE FlushNext(p)
  <2>1. PICK j : j = Writing(job[p].at, Head(pending), Head(pending)) /\ IsJob(j) /\ j.at = job[p].at
    BY JobIsJob
  <2>2. Becomes(p, j) /\ job[p].at \in Flushes
    BY <1>3, <2>1 DEF FlushNext
  <2>. QED  BY <1>1, <2>1, <2>2
<1>4. CASE FlushEnds(p)
  <2>1. job[p].at \in Flushes /\ Becomes(p, Job(AfterFlush[job[p].at], <<>>))
    BY <1>4 DEF FlushEnds
  <2>2. AfterFlush[job[p].at] \in After(job[p].at)
    BY <2>1 DEF Flushes, AfterFlush, After
  <2>. QED  BY <1>1, <1>2, <2>1, <2>2
<1>5. CASE ReadLeaf(p)
  <2>1. PICK j : j = [job[p] EXCEPT !.base = {leaf}]
    OBVIOUS
  <2>2. Becomes(p, j) /\ job[p].entry # <<>>
    BY <1>5, <2>1, Zenon DEF ReadLeaf, Becomes
  <2>3. IsJob(j) /\ j.at = job[p].at /\ j.entry = job[p].entry
    <3>1. PICK r, b : r = job[p] /\ b = {leaf}
      OBVIOUS
    <3>2. IsJob(r) /\ j = [r EXCEPT !.base = b]
      BY <2>1, <3>1 DEF JobsInv
    <3>. QED  BY <2>2, <3>1, <3>2 DEF IsJob
  <2>. QED  BY <1>1, <2>2, <2>3
<1>6. job[p].base # {} => job[p].entry # <<>>
  BY DEF JobsInv, IsJob
<1>7. CASE AppendEntry(p)
  <2>1. PICK at : Becomes(p, IF at = "idle" THEN Idle ELSE Job(at, job[p].arg))
                  /\ (at = job[p].at \/ at \in After(job[p].at))
    BY <1>7 DEF AppendEntry, Done, After
  <2>2. PICK arg : Becomes(p, Job(at, arg))
    BY <2>1 DEF Idle
  <2>. QED  BY <1>1, <1>2, <1>6, <1>7, <2>1, <2>2 DEF AppendEntry
<1>8. CASE WriteFails(p)
  <2>1. PICK at, arg : Becomes(p, Job(at, arg)) /\ (at = job[p].at \/ at \in After(job[p].at))
    BY <1>8 DEF WriteFails, Failed, Flushes, AfterFlush, After, Idle
  <2>. QED  BY <1>1, <1>2, <1>6, <1>8, <2>1 DEF WriteFails
<1>. QED  BY <1>3, <1>4, <1>5, <1>7, <1>8 DEF WriteStep

\* Writing to the session leaves the jobs in order.
LEMMA JobsWrites ==
  ASSUME JobsInv, NEW p \in Processes, WriteStep(p)
  PROVE  JobsInv'
<1>1. PICK j : /\ IsJob(j) /\ Becomes(p, j)
               /\ j.at = job[p].at \/ (j.at \in After(job[p].at) /\ j.entry = <<>>)
               /\ j.entry = <<>> \/ j.entry = job[p].entry \/ job[p].at \in Flushes
  BY Writes
<1>2. active' = active /\ (job[p].at \in Flushes \/ job[p].entry # <<>>)
  BY Writes
<1>3. CASE p \in Callers
  <2>1. job[p].at \in CallerWrites
    BY <1>2, <1>3 DEF JobsInv, Flushes, CallerWrites, CallerStages
  <2>2. j.at \in CallerStages /\ (j.entry # <<>> => j.at \in CallerWrites)
    BY <1>1, <2>1 DEF After, CallerWrites, CallerStages
  <2>. QED  BY <1>1, <1>2, <1>3, <2>2, CallerMoves
<1>4. CASE p = Run
  <2>1. job[Run].at \in RunWrites
    BY <1>2, <1>4 DEF JobsInv, Flushes, RunWrites, InTurn, Ending
  <2>2. job[Run].at # "idle" /\ j.at \in InTurn \cup Ending /\ (j.entry # <<>> => j.at \in RunWrites)
    BY <1>1, <1>4, <2>1 DEF After, RunWrites, InTurn, Ending
  <2>. QED  BY <1>1, <1>2, <1>4, <2>2, RunMoves
<1>. QED  BY <1>3, <1>4 DEF Processes

LEMMA JobsInit == Init => JobsInv
<1>. SUFFICES ASSUME Init PROVE JobsInv
  OBVIOUS
<1>1. PICK i : i = Idle /\ IsJob(i) /\ i.at = "idle" /\ i.entry = <<>>
  BY JobIsJob DEF Idle
<1>2. job = [p \in Processes |-> i] /\ ~active
  BY <1>1 DEF Init
<1>3. "idle" \in CallerStages /\ \A p \in Processes : job[p] = i
  BY <1>2 DEF CallerStages
<1>. QED  BY <1>1, <1>2, <1>3 DEF JobsInv, Processes

\* Every process stays in its stages, and the Agent has a run while the run has
\* a job.
LEMMA JobsNext == JobsInv /\ [Next]_vars => JobsInv'
<1>1. ASSUME JobsInv, UNCHANGED vars PROVE JobsInv'
  <2>1. job' = job /\ active' = active
    BY <1>1 DEF vars, agentVars
  <2>. QED  BY <1>1, <2>1 DEF JobsInv
<1>. QED  BY <1>1, JobsCalls, JobsSteps, JobsRuns, JobsWrites DEF Next

-----------------------------------------------------------------------------
(***************************************************************************)
(* The next-turn queue                                                     *)
(***************************************************************************)

\* What a step may do to the queue.
LEMMA NextTurnMoves ==
  ASSUME [Next]_vars
  PROVE  \/ nextTurn' = nextTurn
         \/ \E m : nextTurn' = Append(nextTurn, m)
         \/ \E c \in Callers : nextTurn' = <<>> /\ At(c, "take")
                               /\ Becomes(c, Job("mark", nextTurn \o job[c].arg))
BY DEF Next, CallNext, CallStep, RunStep, WriteStep, CallPrompt, CallContinue, CallSet, CallNextTurn,
       CallSteer, CallAbort, CallAppendEntry, CallNavigate, CallCompact, TakeNextTurn, MarkRunning,
       BeginRun, RunRefused, RecordSetting, AssignSetting, CancelRun, AbortSettles, BuildContext,
       InstallMessages, CompactSnapshot, SummaryArrives, SummaryFails, CompactEnds, SayNext,
       ModelReplies, TurnEnd, PollQueues, AgentEnd, FinishRun, FlushNext, FlushEnds, ReadLeaf,
       AppendEntry, WriteFails, innerVars, vars

\* Every process keeps its job.
LEMMA JobsKept == DOMAIN job = Processes /\ [Next]_vars => DOMAIN job' = Processes
BY SMTT(60), ZenonT(60) DEF Next, CallNext, CallStep, RunStep, WriteStep, CallPrompt, CallContinue, CallSet, CallNextTurn,
       CallSteer, CallAbort, CallAppendEntry, CallNavigate, CallCompact, TakeNextTurn, MarkRunning,
       BeginRun, RunRefused, RecordSetting, AssignSetting, CancelRun, AbortSettles, BuildContext,
       InstallMessages, CompactSnapshot, SummaryArrives, SummaryFails, CompactEnds, SayNext,
       ModelReplies, TurnEnd, PollQueues, AgentEnd, FinishRun, FlushNext, FlushEnds, ReadLeaf,
       AppendEntry, WriteFails, Start, Goes, Becomes, Defer, WriteThrough, Say, Done, Failed, vars

\* A queue is a prefix of itself and of itself with one more.
LEMMA QueuePrefix ==
  ASSUME NEW q, IsQueue(q), NEW m
  PROVE  IsPrefix(q, q) /\ IsPrefix(q, Append(q, m))
<1>1. /\ Len(q) \in Nat /\ DOMAIN q = 1..Len(q) /\ IsQueue(Append(q, m))
      /\ DOMAIN Append(q, m) = 1..(Len(q) + 1)
      /\ \A i \in 1..Len(q) : Append(q, m)[i] = q[i]
  BY Queued
<1>2. PICK n : n = Append(q, m)
  OBVIOUS
<1>3. IsQueue(n) /\ DOMAIN n = 1..(Len(q) + 1) /\ \A i \in 1..Len(q) : n[i] = q[i]
  BY <1>1, <1>2, Zenon
<1>4. Len(n) = Len(q) + 1
  BY <1>1, <1>3, LenProperties DEF IsQueue
<1>5. SubSeq(n, 1, Len(q)) = SubSeq(q, 1, Len(q))
  BY <1>1, <1>3, <1>4, SubSeqProperties DEF IsQueue
<1>. QED  BY <1>1, <1>2, <1>4, <1>5 DEF IsPrefix

\* A next-turn message survives whatever happens before the next prompt, which
\* it leads (next_turn, prompt), whoever calls and however often.
THEOREM NextTurnKeptHolds == HarnessSpec => NextTurnKept
<1>1. Init => NextTurnInv
  BY SeqIsQueue, EmptySeq DEF Init, NextTurnInv
<1>2. NextTurnInv /\ [Next]_vars => NextTurnInv'
  <2>. SUFFICES ASSUME NextTurnInv, [Next]_vars PROVE IsQueue(nextTurn')
    BY JobsKept DEF NextTurnInv, IsQueue
  <2>1. IsQueue(nextTurn) /\ IsQueue(<<>>)
    BY SeqIsQueue, EmptySeq DEF NextTurnInv
  <2>2. CASE \E m : nextTurn' = Append(nextTurn, m)
    BY <2>1, <2>2, Queued
  <2>. QED  BY <2>1, <2>2, NextTurnMoves
<1>3. ASSUME NextTurnInv, [Next]_vars
      PROVE  \/ IsPrefix(nextTurn, nextTurn')
             \/ \E c \in Callers : At(c, "take") /\ job'[c].arg = nextTurn \o job[c].arg
  <2>1. CASE nextTurn' = nextTurn \/ \E m : nextTurn' = Append(nextTurn, m)
    BY <1>3, <2>1, QueuePrefix DEF NextTurnInv
  <2>2. ASSUME NEW c \in Callers, At(c, "take"), Becomes(c, Job("mark", nextTurn \o job[c].arg))
        PROVE  job'[c].arg = nextTurn \o job[c].arg
    <3>1. job'[c] = Job("mark", nextTurn \o job[c].arg)
      BY <1>3, <2>2 DEF Becomes, Processes, NextTurnInv
    <3>. QED  BY <3>1 DEF Job
  <2>. QED  BY <1>3, <2>1, <2>2, NextTurnMoves
<1>4. NextTurnInv /\ [Next]_vars =>
        [nextTurn # <<>> =>
           \/ IsPrefix(nextTurn, nextTurn')
           \/ \E c \in Callers : At(c, "take") /\ job'[c].arg = nextTurn \o job[c].arg]_vars
  BY <1>3
<1>. QED  BY <1>1, <1>2, <1>4, PTL DEF HarnessSpec, NextTurnKept

-----------------------------------------------------------------------------
(***************************************************************************)
(* The flag and what is deferred                                           *)
(***************************************************************************)

\* A process goes on, and neither the flag nor what is deferred is forgotten.
LEMMA FlagMoves ==
  ASSUME JobsInv, FlagInv, NEW p \in Processes, NEW j, IsJob(j), Becomes(p, j),
         running => running', flagLeft => flagLeft', stuck => stuck',
         running' => running \/ (p \in Callers /\ j.at \in Raised),
         pending' # <<>> => pending # <<>> \/ running' \/ stuck',
         p \in Callers /\ job[p].at \in Raised => j.at \in Raised \/ flagLeft',
         job[p].at \in Flushes => j.at \in Flushes \/ pending' = <<>> \/ stuck',
         p = Run /\ job[p].at \in InTurn => j.at \in InTurn
  PROVE  FlagInv'
<1>. USE HarnessAssumption DEF Processes
<1>1. job'[p] = j /\ \A q \in Processes : q # p => job'[q] = job[q]
  BY JobMoves
<1>2. ASSUME running', ~flagLeft', job'[Run].at \notin InTurn
      PROVE  \E c \in Callers : job'[c].at \in Raised
  <2>1. CASE running
    <3>1. job[Run].at \notin InTurn
      BY <1>1, <1>2
    <3>2. PICK c \in Callers : job[c].at \in Raised
      BY <1>2, <2>1, <3>1 DEF FlagInv
    <3>. QED  BY <1>1, <1>2, <3>2
  <2>2. CASE ~running
    BY <1>1, <1>2, <2>2
  <2>. QED  BY <2>1, <2>2
<1>3. ASSUME pending' # <<>>, ~running', ~stuck'
      PROVE  \E q \in Processes : job'[q].at \in Flushes
  <2>1. pending # <<>> /\ ~running /\ ~stuck
    BY <1>3
  <2>2. PICK q \in Processes : job[q].at \in Flushes
    BY <2>1 DEF FlagInv
  <2>. QED  BY <1>1, <1>3, <2>2
<1>. QED  BY <1>2, <1>3 DEF FlagInv

\* FlagInv is kept when a call begins,
LEMMA FlagCalls ==
  ASSUME JobsInv, FlagInv, NEW c \in Callers, CallNext(c)
  PROVE  FlagInv'
<1>. USE DEF Processes
<1>1. UNCHANGED <<running, pending, flagLeft, stuck>> /\ "idle" \notin Flushes
  BY DEF Flushes, CallNext, CallPrompt, CallContinue, CallSet, CallNextTurn, CallSteer, CallAbort,
         CallAppendEntry, CallNavigate, CallCompact, innerVars, seenVars
<1>2. PICK call, j : Start(c, call, j) /\ IsJob(j)
  <2>1. \E call, at, arg : Start(c, call, Job(at, arg)) \/ \E e : Start(c, call, Writing(at, arg, e))
    BY Zenon DEF CallNext, CallPrompt, CallContinue, CallSet, CallNextTurn, CallSteer, CallAbort,
           CallAppendEntry, CallNavigate, CallCompact, Idle
  <2>. QED  BY <2>1, JobIsJob
<1>3. Becomes(c, j) /\ job[c].at = "idle" /\ c # Run
  BY <1>2, HarnessAssumption DEF Start, At
<1>. QED  BY <1>1, <1>2, <1>3, FlagMoves DEF Raised

\* when it goes on,
LEMMA FlagSteps ==
  ASSUME JobsInv, FlagInv, NEW c \in Callers, CallStep(c)
  PROVE  FlagInv'
<1>. USE HarnessAssumption DEF Processes
<1>0. c # Run
  OBVIOUS
<1>1. ASSUME NEW at, NEW arg, Becomes(c, Job(at, arg)), UNCHANGED <<running, flagLeft, stuck>>,
             pending' # <<>> => pending # <<>> \/ running',
             job[c].at \in Raised => at \in Raised, job[c].at \notin Flushes
      PROVE  FlagInv'
  <2>1. PICK j : j = Job(at, arg) /\ IsJob(j) /\ j.at = at
    BY JobIsJob
  <2>. QED  BY <1>0, <1>1, <2>1, FlagMoves
<1>2. CASE TakeNextTurn(c) \/ AssignSetting(c) \/ CancelRun(c) \/ AbortSettles(c) \/ BuildContext(c)
  BY <1>1, <1>2 DEF TakeNextTurn, AssignSetting, CancelRun, AbortSettles, BuildContext, At, Goes, Idle,
                    Raised, Flushes, innerVars, seenVars
<1>3. CASE MarkRunning(c)
  <2>1. PICK j : Becomes(c, j) /\ IsJob(j) /\ j.at \in Raised
    <3>1. PICK at : Becomes(c, Job(at, job[c].arg)) /\ at \in {"begin", "snapshot"}
      BY <1>3 DEF MarkRunning, Goes
    <3>. QED  BY <3>1, JobIsJob DEF Raised
  <2>2. running' = TRUE /\ UNCHANGED <<pending, flagLeft, stuck>> /\ job[c].at \notin Flushes
    BY <1>3 DEF MarkRunning, At, Flushes, seenVars
  <2>. QED  BY <1>0, <2>1, <2>2, FlagMoves
<1>4. CASE BeginRun(c)
  <2>1. UNCHANGED <<running, pending, flagLeft, stuck>> /\ job[c].at = "begin"
    BY <1>4 DEF BeginRun, At, innerVars
  <2>2. job'[Run].at = "say" /\ \A d \in Callers : d # c => job'[d] = job[d]
    BY <1>4, RunBegins, JobIsJob
  <2>3. job[Run].at = "idle"
    BY <1>4, RunBegins DEF JobsInv
  <2>4. \A p \in Processes : job[p].at \in Flushes => job'[p].at \in Flushes
    BY <2>1, <2>2, <2>3 DEF Flushes
  <2>. QED  BY <2>1, <2>2, <2>4 DEF FlagInv, InTurn
<1>5. CASE RunRefused(c)
  <2>1. UNCHANGED <<running, pending, stuck>> /\ job[c].at = "begin"
        /\ flagLeft' = (flagLeft \/ job[Run].at \notin InTurn)
    BY <1>5 DEF RunRefused, At, innerVars
  <2>2. PICK j : Becomes(c, j) /\ IsJob(j)
    BY <1>5, JobIsJob DEF RunRefused, Idle
  <2>3. \A q \in Processes : q # c => job'[q] = job[q]
    BY <2>2, JobMoves
  <2>4. running' => flagLeft' \/ job'[Run].at \in InTurn
    BY <1>0, <2>1, <2>3
  <2>5. \A p \in Processes : job[p].at \in Flushes => job'[p].at \in Flushes
    BY <2>1, <2>3 DEF Flushes
  <2>. QED  BY <2>1, <2>4, <2>5 DEF FlagInv
<1>6. CASE RecordSetting(c)
  <2>1. job[c].at = "check" /\ UNCHANGED <<running, flagLeft, stuck>>
    BY <1>6 DEF RecordSetting, At
  <2>2. CASE running
    BY <1>1, <1>6, <2>1, <2>2 DEF RecordSetting, Defer, Goes, Raised, Flushes
  <2>3. CASE ~running
    <3>1. PICK j : Becomes(c, j) /\ IsJob(j) /\ pending' = pending
      BY <1>6, <2>3, JobIsJob DEF RecordSetting, WriteThrough
    <3>. QED  BY <1>0, <2>1, <3>1, FlagMoves DEF Raised, Flushes
  <2>. QED  BY <2>2, <2>3
<1>7. CASE InstallMessages(c)
  <2>1. PICK at, arg : Becomes(c, Job(at, arg)) /\ (job[c].at \in Raised => at \in Raised)
    BY <1>7 DEF InstallMessages, At, Idle, Raised
  <2>. QED  BY <1>1, <1>7, <2>1 DEF InstallMessages, At, Flushes, innerVars, seenVars
<1>8. CASE CompactSnapshot(c)
  <2>1. PICK at, arg : Becomes(c, Job(at, arg)) /\ at \in {"unmark", "summarise"}
    BY <1>8 DEF CompactSnapshot
  <2>. QED  BY <1>1, <1>8, <2>1 DEF CompactSnapshot, At, Raised, Flushes, innerVars, seenVars
<1>9. CASE SummaryArrives(c)
  <2>1. PICK j : Becomes(c, j) /\ IsJob(j) /\ j.at \in Raised
    <3>1. PICK arg, e : Becomes(c, Writing("compact", arg, e))
      BY <1>9 DEF SummaryArrives
    <3>. QED  BY <3>1, JobIsJob DEF Raised
  <2>2. UNCHANGED <<running, pending, flagLeft, stuck>> /\ job[c].at \notin Flushes
    BY <1>9 DEF SummaryArrives, At, Flushes, innerVars
  <2>. QED  BY <1>0, <2>1, <2>2, FlagMoves
<1>10. CASE SummaryFails(c)
  BY <1>1, <1>10 DEF SummaryFails, At, Raised, Flushes, innerVars, seenVars
<1>11. CASE CompactEnds(c)
  <2>1. job'[c].at \in Flushes
    <3>1. PICK j : j = Job("flushCompact", <<>>) /\ IsJob(j) /\ j.at = "flushCompact"
      BY JobIsJob
    <3>2. Becomes(c, j)
      BY <1>11, <3>1 DEF CompactEnds
    <3>. QED  BY <3>1, <3>2, JobMoves DEF Flushes
  <2>2. running' = FALSE
    BY <1>11 DEF CompactEnds
  <2>. QED  BY <2>1, <2>2 DEF FlagInv
<1>. QED  BY <1>2, <1>3, <1>4, <1>5, <1>6, <1>7, <1>8, <1>9, <1>10, <1>11 DEF CallStep

\* when the run does,
LEMMA FlagRuns ==
  ASSUME JobsInv, FlagInv, RunStep
  PROVE  FlagInv'
<1>. USE HarnessAssumption DEF Processes
<1>0. Run \notin Callers
  OBVIOUS
<1>1. ASSUME NEW m, NEW at, Say(m, at), at \in InTurn, job[Run].at = "say",
             UNCHANGED <<running, pending, flagLeft, stuck>>
      PROVE  FlagInv'
  <2>1. PICK j : Becomes(Run, j) /\ IsJob(j) /\ j.at = at
    BY <1>1, JobIsJob DEF Say
  <2>. QED  BY <1>0, <1>1, <2>1, FlagMoves DEF Flushes
<1>2. CASE SayNext \/ ModelReplies
  BY <1>1, <1>2 DEF SayNext, ModelReplies, At, InTurn, innerVars, seenVars
<1>3. CASE TurnEnd
  <2>1. UNCHANGED <<running, pending, flagLeft>>
    BY <1>3 DEF TurnEnd, innerVars
  <2>2. PICK j : Becomes(Run, j) /\ IsJob(j) /\ j.at = "flushTurn"
    BY <1>3, JobIsJob DEF TurnEnd, Goes
  <2>3. job'[Run].at = "flushTurn"
    BY <2>2, JobMoves
  <2>. QED  BY <2>1, <2>3 DEF FlagInv, InTurn, Flushes
<1>4. CASE PollQueues
  <2>1. PICK j : Becomes(Run, j) /\ IsJob(j) /\ j.at \in {"say", "agentEnd"}
    BY <1>4, JobIsJob DEF PollQueues, Goes
  <2>2. UNCHANGED <<running, pending, flagLeft, stuck>> /\ job[Run].at = "poll"
    BY <1>4 DEF PollQueues, At, innerVars, seenVars
  <2>. QED  BY <1>0, <2>1, <2>2, FlagMoves DEF InTurn, Flushes
<1>5. CASE AgentEnd
  <2>1. PICK j : Becomes(Run, j) /\ IsJob(j) /\ j.at = "flushEnd"
    BY <1>5, JobIsJob DEF AgentEnd, Goes
  <2>2. job'[Run].at = "flushEnd" /\ running' = FALSE
    BY <1>5, <2>1, JobMoves DEF AgentEnd
  <2>. QED  BY <2>2 DEF FlagInv, Flushes
<1>6. CASE FinishRun
  <2>1. job[Run].at = "finish" /\ UNCHANGED <<running, pending, flagLeft, stuck>>
    BY <1>6 DEF FinishRun, At, innerVars, seenVars
  <2>2. \A c \in Callers : job'[c] = job[c] \/ job[c].at = "await"
    BY <1>6, RunFinishes
  <2>3. \A p \in Processes : job[p].at \in Flushes => job'[p].at \in Flushes
    BY <2>1, <2>2 DEF Flushes
  <2>4. (\E c \in Callers : job[c].at \in Raised) => \E c \in Callers : job'[c].at \in Raised
    BY <2>2 DEF Raised
  <2>. QED  BY <2>1, <2>3, <2>4 DEF FlagInv, InTurn
<1>. QED  BY <1>2, <1>3, <1>4, <1>5, <1>6 DEF RunStep

\* A flush ends with nothing deferred, or meets a write that fails.
LEMMA FlagFlushes ==
  ASSUME JobsInv, NEW p \in Processes, WriteStep(p)
  PROVE  /\ UNCHANGED <<running, flagLeft>> /\ (stuck => stuck')
         /\ pending' # <<>> => pending # <<>> \/ stuck'
         /\ job[p].at \in Flushes /\ job'[p].at # job[p].at => pending' = <<>> \/ stuck'
<1>1. DOMAIN job = Processes
  BY DEF JobsInv
<1>2. CASE FlushNext(p)
  <2>1. PICK j : Becomes(p, j) /\ j.at = job[p].at
    BY <1>2, JobIsJob DEF FlushNext
  <2>2. UNCHANGED <<running, flagLeft, stuck>> /\ pending # <<>>
    BY <1>2 DEF FlushNext, seenVars
  <2>. QED  BY <1>1, <2>1, <2>2 DEF Becomes
<1>3. CASE FlushEnds(p)
  BY <1>3 DEF FlushEnds, innerVars, seenVars
<1>4. CASE ReadLeaf(p)
  <2>1. UNCHANGED <<running, flagLeft, stuck, pending>>
    BY <1>4 DEF ReadLeaf, innerVars, seenVars
  <2>2. job'[p].at = job[p].at
    BY <1>1, <1>4 DEF ReadLeaf
  <2>. QED  BY <2>1, <2>2
<1>5. CASE AppendEntry(p)
  <2>1. UNCHANGED <<running, flagLeft, stuck, pending>>
    BY <1>5 DEF AppendEntry, Done
  <2>2. ASSUME job[p].at \in Flushes PROVE job'[p].at = job[p].at
    <3>1. PICK j : j = Job(job[p].at, job[p].arg) /\ j.at = job[p].at
      BY JobIsJob
    <3>2. Becomes(p, Job(job[p].at, job[p].arg))
      BY <1>5, <2>2 DEF AppendEntry, Done, Flushes
    <3>. QED  BY <1>1, <3>1, <3>2 DEF Becomes
  <2>. QED  BY <2>1, <2>2
<1>6. CASE WriteFails(p)
  <2>1. UNCHANGED <<running, flagLeft>> /\ (stuck => stuck')
    BY <1>6 DEF WriteFails, Failed
  <2>2. job[p].at \in Flushes => stuck'
    BY <1>6 DEF WriteFails, Failed
  <2>3. job[p].at \notin Flushes => pending' = pending
    BY <1>6 DEF WriteFails, Failed
  <2>. QED  BY <2>1, <2>2, <2>3
<1>. QED  BY <1>2, <1>3, <1>4, <1>5, <1>6 DEF WriteStep

\* and when a writer does.
LEMMA FlagWrites ==
  ASSUME JobsInv, FlagInv, NEW p \in Processes, WriteStep(p)
  PROVE  FlagInv'
<1>. USE HarnessAssumption DEF Processes
<1>1. PICK j : /\ IsJob(j) /\ Becomes(p, j)
               /\ j.at = job[p].at \/ (j.at \in After(job[p].at) /\ j.entry = <<>>)
  BY Writes
<1>2. job'[p] = j
  BY <1>1, JobMoves
<1>3. /\ UNCHANGED <<running, flagLeft>> /\ (stuck => stuck')
      /\ pending' # <<>> => pending # <<>> \/ stuck'
      /\ job[p].at \in Flushes /\ j.at # job[p].at => pending' = <<>> \/ stuck'
  BY <1>2, FlagFlushes
<1>4. p \in Callers /\ job[p].at \in Raised => j.at \in Raised
  BY <1>1 DEF Raised, After
<1>5. p = Run /\ job[p].at \in InTurn => j.at \in InTurn
  BY <1>1 DEF InTurn, After
<1>. QED  BY <1>1, <1>3, <1>4, <1>5, FlagMoves

\* No deferred write outlives the run or the compaction it waited for
\* (flush_pending_session_writes), unless its write failed or a refused call left
\* the flag up: for any callers whatever, settings and bounds.
THEOREM NoneStrandedHolds == HarnessSpec => []NoneStranded
<1>1. Init => FlagInv
  BY DEF Init, FlagInv
<1>2. JobsInv /\ FlagInv /\ [Next]_vars => FlagInv'
  <2>1. ASSUME FlagInv, UNCHANGED vars PROVE FlagInv'
    BY <2>1 DEF vars, innerVars, seenVars, FlagInv
  <2>. QED  BY <2>1, FlagCalls, FlagSteps, FlagRuns, FlagWrites DEF Next
<1>3. FlagInv => NoneStranded
  <2>. SUFFICES ASSUME FlagInv, Quiet, pending # <<>> PROVE stuck \/ (running /\ flagLeft)
    BY DEF NoneStranded
  <2>1. \A p \in Processes : job[p].at = "idle"
    BY DEF Quiet
  <2>. QED  BY <2>1 DEF FlagInv, Raised, InTurn, Flushes, Processes
<1>. QED  BY <1>1, <1>2, <1>3, JobsInit, JobsNext, PTL DEF HarnessSpec

\* An entry keeps its kind when it gets its id and parent.
LEMMA Kept ==
  ASSUME NEW id, NEW l, NEW e, "kind" \in DOMAIN e
  PROVE  Placed(id, l, e).kind = e.kind
BY DEF Placed

-----------------------------------------------------------------------------
(***************************************************************************)
(* Steps, by what they do to the settings that are held and deferred       *)
(***************************************************************************)

\* The entries stored for a setting when the tree grows.
LEMMA Grows ==
  ASSUME IsQueue(tree), NEW e, tree' = Append(tree, e)
  PROVE  /\ IsQueue(tree') /\ Len(tree) \in Nat
         /\ \A i \in DOMAIN tree' : tree'[i] = e \/ (i \in DOMAIN tree /\ tree'[i] = tree[i])
         /\ \A s : e.kind = "setting" /\ e.value = s.value =>
                     Recorded(s)' = Recorded(s) \cup {Len(tree) + 1}
         /\ \A s : ~(e.kind = "setting" /\ e.value = s.value) => Recorded(s)' = Recorded(s)
<1>1. PICK t : t = tree'
  OBVIOUS
<1>2. /\ IsQueue(t) /\ Len(tree) \in Nat /\ DOMAIN tree = 1..Len(tree) /\ DOMAIN t = 1..(Len(tree) + 1)
      /\ \A i \in 1..Len(tree) : t[i] = tree[i]
      /\ t[Len(tree) + 1] = e
  BY <1>1, Queued
<1>3. \A i \in DOMAIN t : i = Len(tree) + 1 \/ i \in DOMAIN tree
  BY <1>2
<1>4. Len(tree) + 1 \notin DOMAIN tree
  BY <1>2
<1>5. ASSUME NEW s
      PROVE  Recorded(s)' = {i \in DOMAIN t : t[i].kind = "setting" /\ t[i].value = s.value}
  BY <1>1 DEF Recorded
<1>6. ASSUME NEW s, e.kind = "setting" /\ e.value = s.value
      PROVE  Recorded(s)' = Recorded(s) \cup {Len(tree) + 1}
  BY <1>2, <1>3, <1>5, <1>6 DEF Recorded
<1>7. ASSUME NEW s, ~(e.kind = "setting" /\ e.value = s.value)
      PROVE  Recorded(s)' = Recorded(s)
  BY <1>2, <1>3, <1>4, <1>5, <1>7 DEF Recorded
<1>. QED  BY <1>1, <1>2, <1>3, <1>6, <1>7

\* The job of one process changes.
LEMMA HandMoves ==
  ASSUME HandsInv, NEW p \in Processes, NEW j, IsJob(j), Carries(j), Becomes(p, j),
         chosen' \in Nat, IsQueue(tree'), IsQueue(pending'),
         active' = active, p = Run /\ j.at # "idle" => job[Run].at # "idle"
  PROVE  /\ HandsInv' /\ job'[p] = j /\ Held(p)' = Hand(j)
         /\ \A q \in Processes : q # p => job'[q] = job[q] /\ Held(q)' = Held(q)
<1>1. DOMAIN job = Processes
  BY DEF HandsInv
<1>2. job' = [q \in Processes |-> IF q = p THEN j ELSE job[q]]
  BY <1>1 DEF Becomes
<1>3. job'[p] = j /\ \A q \in Processes : q # p => job'[q] = job[q]
  BY <1>2
<1>4. job'[Run].at # "idle" => active'
  BY <1>3 DEF HandsInv, Processes
<1>5. HandsInv'
  BY <1>2, <1>3, <1>4 DEF HandsInv
<1>. QED  BY <1>3, <1>5 DEF Held

\* Nobody takes, leaves or stores a setting.
LEMMA NothingMoves ==
  ASSUME SettingsInv, HandsInv', \A p \in Processes : Held(p)' = Held(p),
         \A p \in Processes : job'[p].at \in {"check", "set"} => job'[p].arg \notin accepted,
         pending' = pending, accepted' = accepted, halfWritten' = halfWritten, chosen' = chosen,
         tree' = tree \/ \E e : tree' = Append(tree, e) /\ e.kind # "setting"
  PROVE  SettingsInv'
<1>1. Live' = Live
  BY DEF Live
<1>2. \A s : Recorded(s)' = Recorded(s)
  BY Grows DEF SettingsInv, HandsInv, Recorded
<1>3. \A i \in DOMAIN tree' : tree'[i].kind = "setting" => i \in DOMAIN tree /\ tree'[i] = tree[i]
  BY Grows DEF SettingsInv, HandsInv
<1>4. OnceInv'
  BY DEF SettingsInv, OnceInv
<1>5. ValuesInv'
  BY <1>1, <1>3 DEF SettingsInv, ValuesInv, IsSetting
<1>6. PlacesInv'
  BY <1>1, <1>2 DEF SettingsInv, PlacesInv
<1>. QED  BY <1>4, <1>5, <1>6 DEF SettingsInv

\* A new setting comes into a hand.
LEMMA HandTakesNew ==
  ASSUME SettingsInv, HandsInv', NEW p \in Processes, NEW s,
         Held(p) = {}, Held(p)' = {s},
         \A q \in Processes : q # p => job'[q] = job[q] /\ Held(q)' = Held(q),
         chosen' = chosen + 1, s = Setting(s.of, s.value), s.value = chosen',
         UNCHANGED <<tree, pending, accepted, halfWritten>>, job'[p].arg = s
  PROVE  SettingsInv'
<1>. USE DEF SettingsInv
<1>1. chosen \in Nat /\ IsSetting(s)'
  BY DEF HandsInv, IsSetting
<1>2. \A x \in Live \cup accepted : IsSetting(x) /\ IsSetting(x)' /\ x.value # s.value
  BY <1>1 DEF ValuesInv, IsSetting
<1>3. \A x : x \in Live' <=> x \in Live \/ x = s
  BY DEF Live
<1>4. s \notin Live /\ s \notin accepted
  BY <1>2
<1>5. \A x : Recorded(x)' = Recorded(x)
  BY DEF Recorded
<1>6. Recorded(s) = {}
  BY <1>1 DEF ValuesInv, Recorded
<1>7. OnceInv'
  <2>1. \A q \in Processes : q # p => s \notin Held(q)
    BY <1>4 DEF Live
  <2>2. \A i \in DOMAIN pending : pending[i] # s
    BY <1>4 DEF Live
  <2>. QED  BY <2>1, <2>2 DEF OnceInv
<1>8. ValuesInv'
  BY <1>1, <1>2, <1>3 DEF ValuesInv
<1>9. PlacesInv'
  BY <1>3, <1>4, <1>5, <1>6 DEF PlacesInv
<1>. QED  BY <1>7, <1>8, <1>9

\* A setting is deferred, and accepted.
LEMMA HandDefers ==
  ASSUME SettingsInv, HandsInv', NEW p \in Processes, NEW s,
         Held(p) = {s}, Held(p)' = {}, job'[p].at \notin {"check", "set"},
         \A q \in Processes : q # p => job'[q] = job[q] /\ Held(q)' = Held(q),
         pending' = Append(pending, s), accepted' = accepted \cup {s},
         UNCHANGED <<tree, halfWritten, chosen>>
  PROVE  SettingsInv'
<1>. USE DEF SettingsInv
<1>1. s \in Live /\ \A i \in DOMAIN pending : pending[i] # s
  BY DEF Live, OnceInv
<1>2. PICK t : t = pending'
  OBVIOUS
<1>3. /\ Len(pending) \in Nat /\ DOMAIN pending = 1..Len(pending) /\ DOMAIN t = 1..(Len(pending) + 1)
      /\ \A i \in 1..Len(pending) : t[i] = pending[i]
      /\ t[Len(pending) + 1] = s
  BY <1>2, Queued DEF HandsInv
<1>4. \A x : (\E i \in DOMAIN t : t[i] = x) <=> x = s \/ \E i \in DOMAIN pending : pending[i] = x
  BY <1>3
<1>5. \A x : x \in Live' <=> x \in Live
  BY <1>2, <1>4 DEF Live
<1>6. \A x : Recorded(x)' = Recorded(x)
  BY DEF Recorded
<1>7. OnceInv'
  <2>1. ASSUME NEW i \in DOMAIN t, NEW j \in DOMAIN t, t[i] = t[j]
        PROVE  i = j
    <3>1. (i \in DOMAIN pending \/ i = Len(pending) + 1) /\ (j \in DOMAIN pending \/ j = Len(pending) + 1)
      BY <1>3
    <3>. QED  BY <1>1, <1>3, <2>1, <3>1 DEF OnceInv
  <2>2. ASSUME NEW q \in Processes, NEW i \in DOMAIN t
        PROVE  t[i] \notin Held(q)'
    <3>1. t[i] = s \/ \E j \in DOMAIN pending : pending[j] = t[i]
      BY <1>4
    <3>2. q # p => s \notin Held(q)
      BY DEF OnceInv
    <3>. QED  BY <3>1, <3>2 DEF OnceInv
  <2>. QED  BY <1>2, <2>1, <2>2 DEF OnceInv
<1>8. ValuesInv'
  BY <1>1, <1>5 DEF ValuesInv, IsSetting
<1>9. ASSUME NEW q \in Processes, job'[q].at \in {"check", "set"}
      PROVE  job'[q].arg \notin accepted'
  <2>1. q # p /\ job'[q] = job[q] /\ job[q].arg \in Held(q)
    BY <1>9 DEF HandsInv, Carries, Held, Hand, StoresSettings
  <2>2. job[q].arg # s
    BY <2>1 DEF OnceInv
  <2>. QED  BY <1>9, <2>1, <2>2 DEF PlacesInv
<1>10. PlacesInv'
  BY <1>1, <1>5, <1>6, <1>9 DEF PlacesInv
<1>. QED  BY <1>7, <1>8, <1>10

\* A flush takes the first deferred setting.
LEMMA HandFlushes ==
  ASSUME SettingsInv, HandsInv', NEW p \in Processes,
         pending # <<>>, Held(p) = {}, Held(p)' = {Head(pending)}, job'[p].at \notin {"check", "set"},
         \A q \in Processes : q # p => job'[q] = job[q] /\ Held(q)' = Held(q),
         pending' = Tail(pending), UNCHANGED <<tree, accepted, halfWritten, chosen>>
  PROVE  SettingsInv'
<1>. USE DEF SettingsInv
<1>1. PICK t, s : t = pending' /\ s = Head(pending)
  OBVIOUS
<1>2. /\ Len(pending) \in Nat /\ Len(pending) >= 1 /\ DOMAIN pending = 1..Len(pending)
      /\ DOMAIN t = 1..(Len(pending) - 1)
      /\ \A i \in 1..(Len(pending) - 1) : t[i] = pending[i + 1]
      /\ s = pending[1]
  BY <1>1, Taken DEF HandsInv
<1>3. \A i \in DOMAIN t : i + 1 \in DOMAIN pending /\ t[i] = pending[i + 1]
  BY <1>2
<1>4. \A x : (\E i \in DOMAIN pending : pending[i] = x) => x = s \/ \E i \in DOMAIN t : t[i] = x
  <2>. SUFFICES ASSUME NEW i \in DOMAIN pending, i # 1
                PROVE  i - 1 \in DOMAIN t /\ t[i - 1] = pending[i]
    BY <1>2
  <2>1. i - 1 \in 1..(Len(pending) - 1) /\ (i - 1) + 1 = i
    BY <1>2
  <2>. QED  BY <1>2, <2>1
<1>5. 1 \in DOMAIN pending /\ \A i \in DOMAIN t : t[i] # s
  BY <1>2, <1>3 DEF OnceInv
<1>6. \A x : x \in Live' <=> x \in Live
  BY <1>1, <1>2, <1>3, <1>4, <1>5 DEF Live
<1>7. \A x : Recorded(x)' = Recorded(x)
  BY DEF Recorded
<1>8. OnceInv'
  <2>1. ASSUME NEW i \in DOMAIN t, NEW j \in DOMAIN t, t[i] = t[j]
        PROVE  i = j
    <3>1. i + 1 = j + 1
      BY <1>3, <2>1 DEF OnceInv
    <3>. QED  BY <1>2, <3>1
  <2>2. \A q \in Processes, i \in DOMAIN t : t[i] \notin Held(q)'
    BY <1>1, <1>3, <1>5 DEF OnceInv
  <2>3. \A q \in Processes : q # p => s \notin Held(q)
    BY <1>2, <1>5 DEF OnceInv
  <2>. QED  BY <1>1, <2>1, <2>2, <2>3 DEF OnceInv
<1>9. ValuesInv'
  BY <1>6 DEF ValuesInv, IsSetting
<1>10. PlacesInv'
  BY <1>6, <1>7 DEF PlacesInv
<1>. QED  BY <1>8, <1>9, <1>10

\* Another process that is about to accept a setting holds another one.
LEMMA OthersHold ==
  ASSUME SettingsInv, NEW p \in Processes, NEW s, Held(p) = {s},
         NEW q \in Processes, q # p, job[q].at \in {"check", "set"}
  PROVE  job[q].arg # s /\ job[q].arg \notin accepted
BY DEF SettingsInv, HandsInv, OnceInv, PlacesInv, Carries, Held, Hand, StoresSettings

\* A write ends well: the setting is stored, and accepted if it was not.
LEMMA HandStores ==
  ASSUME SettingsInv, HandsInv', NEW p \in Processes, NEW s, NEW e,
         Held(p) = {s}, Held(p)' = {}, job'[p].at \notin {"check", "set"},
         \A q \in Processes : q # p => job'[q] = job[q] /\ Held(q)' = Held(q),
         tree' = Append(tree, e), e.kind = "setting", e.value = s.value,
         accepted' = accepted \/ accepted' = accepted \cup {s},
         UNCHANGED <<pending, halfWritten, chosen>>
  PROVE  SettingsInv'
<1>. USE DEF SettingsInv
<1>1. s \in Live /\ IsSetting(s)
  BY DEF Live, ValuesInv
<1>2. \A x \in Live \cup accepted : x.value = s.value => x = s
  BY <1>1 DEF ValuesInv
<1>3. \A x : x \in Live' <=> x \in Live /\ x # s
  BY DEF Live, OnceInv
<1>4. /\ \A x : x.value = s.value => Recorded(x)' = Recorded(x) \cup {Len(tree) + 1}
      /\ \A x : x.value # s.value => Recorded(x)' = Recorded(x)
      /\ \A i \in DOMAIN tree' : tree'[i] = e \/ (i \in DOMAIN tree /\ tree'[i] = tree[i])
  BY Grows DEF HandsInv
<1>5. OnceInv'
  BY DEF OnceInv
<1>6. ValuesInv'
  BY <1>1, <1>3, <1>4 DEF ValuesInv, IsSetting
<1>7. ASSUME NEW q \in Processes, job'[q].at \in {"check", "set"}
      PROVE  job'[q].arg \notin accepted'
  <2>1. q # p /\ job'[q] = job[q]
    BY <1>7
  <2>2. job[q].arg # s /\ job[q].arg \notin accepted
    BY <1>7, <2>1, OthersHold
  <2>. QED  BY <2>1, <2>2
<1>8. s \notin halfWritten => Recorded(s)' = {Len(tree) + 1}
  BY <1>1, <1>4 DEF PlacesInv
<1>9. \A x \in Live \cup accepted : x # s => Recorded(x)' = Recorded(x)
  BY <1>2, <1>4
<1>10. Recorded(s)' # {}
  BY <1>4
<1>11. PlacesInv'
  BY <1>3, <1>7, <1>8, <1>9, <1>10 DEF PlacesInv
<1>. QED  BY <1>5, <1>6, <1>11

\* A write fails, and may have stored the setting: a flush puts it back, a
\* setter, who has not accepted it, gives it up.
LEMMA HandFails ==
  ASSUME SettingsInv, HandsInv', NEW p \in Processes, NEW s,
         Held(p) = {s}, Held(p)' = {}, job'[p].at \notin {"check", "set"},
         \A q \in Processes : q # p => job'[q] = job[q] /\ Held(q)' = Held(q),
         \/ tree' = tree /\ halfWritten' = halfWritten
         \/ /\ \E e : tree' = Append(tree, e) /\ e.kind = "setting" /\ e.value = s.value
            /\ halfWritten' = halfWritten \cup {s},
         \/ pending' = pending /\ s \notin accepted
         \/ pending' = <<s>> \o pending,
         UNCHANGED <<accepted, chosen>>
  PROVE  SettingsInv'
<1>. USE DEF SettingsInv
<1>1. s \in Live /\ IsSetting(s) /\ \A i \in DOMAIN pending : pending[i] # s
  BY DEF Live, ValuesInv, OnceInv
<1>2. \A x \in Live \cup accepted : x.value = s.value => x = s
  BY <1>1 DEF ValuesInv
<1>3. /\ \A x \in Live \cup accepted : x # s => Recorded(x)' = Recorded(x)
      /\ \A x : Recorded(x) \subseteq Recorded(x)'
      /\ s \in halfWritten' \/ Recorded(s)' = Recorded(s)
      /\ halfWritten \subseteq halfWritten'
      /\ \A i \in DOMAIN tree' : \/ tree'[i].kind = "setting" => tree'[i].value = s.value
                                 \/ i \in DOMAIN tree /\ tree'[i] = tree[i]
  <2>1. CASE tree' = tree /\ halfWritten' = halfWritten
    BY <2>1 DEF Recorded
  <2>2. ASSUME NEW e, tree' = Append(tree, e), e.kind = "setting", e.value = s.value,
               halfWritten' = halfWritten \cup {s}
        PROVE  <1>3!:
    <3>1. /\ \A x : x.value = s.value => Recorded(x)' = Recorded(x) \cup {Len(tree) + 1}
          /\ \A x : x.value # s.value => Recorded(x)' = Recorded(x)
          /\ \A i \in DOMAIN tree' : tree'[i] = e \/ (i \in DOMAIN tree /\ tree'[i] = tree[i])
      BY <2>2, Grows DEF HandsInv
    <3>. QED  BY <1>2, <2>2, <3>1
  <2>. QED  BY <2>1, <2>2
<1>4. CASE pending' = pending /\ s \notin accepted
  <2>1. \A x : x \in Live' <=> x \in Live /\ x # s
    BY <1>4 DEF Live, OnceInv
  <2>2. OnceInv'
    BY <1>4 DEF OnceInv
  <2>3. ValuesInv'
    BY <1>1, <1>3, <2>1 DEF ValuesInv, IsSetting
  <2>4. \A q \in Processes : job'[q].at \in {"check", "set"} => job'[q].arg \notin accepted'
    BY OthersHold
  <2>5. PlacesInv'
    BY <1>3, <1>4, <2>1, <2>4 DEF PlacesInv
  <2>. QED  BY <2>2, <2>3, <2>5
<1>5. CASE pending' = <<s>> \o pending
  <2>1. PICK t : t = pending'
    OBVIOUS
  <2>2. /\ Len(pending) \in Nat /\ DOMAIN pending = 1..Len(pending) /\ DOMAIN t = 1..(1 + Len(pending))
        /\ t[1] = s
        /\ \A i \in 1..Len(pending) : t[1 + i] = pending[i]
    <3>1. Joins(<<s>>, pending, t)
      BY <1>5, <2>1, One, Joined DEF HandsInv
    <3>2. Len(<<s>>) = 1 /\ <<s>>[1] = s
      OBVIOUS
    <3>. QED  BY <3>1, <3>2 DEF Joins
  <2>3. \A i \in DOMAIN t : i = 1 \/ (i - 1 \in DOMAIN pending /\ t[i] = pending[i - 1])
    <3>. SUFFICES ASSUME NEW i \in DOMAIN t, i # 1
                  PROVE  i - 1 \in DOMAIN pending /\ t[i] = pending[i - 1]
      OBVIOUS
    <3>1. i - 1 \in 1..Len(pending) /\ 1 + (i - 1) = i
      BY <2>2
    <3>. QED  BY <2>2, <3>1
  <2>4. \A x : (\E i \in DOMAIN t : t[i] = x) <=> x = s \/ \E i \in DOMAIN pending : pending[i] = x
    <3>1. 1 \in DOMAIN t /\ \A i \in DOMAIN pending : 1 + i \in DOMAIN t
      BY <2>2
    <3>. QED  BY <2>2, <2>3, <3>1
  <2>5. \A x : x \in Live' <=> x \in Live
    <3>1. \A x : x \in Live' <=> \/ \E i \in DOMAIN t : t[i] = x
                                \/ \E q \in Processes : x \in Held(q)'
      BY <2>1 DEF Live
    <3>2. \A x : x \in Live <=> \/ \E i \in DOMAIN pending : pending[i] = x
                               \/ \E q \in Processes : x \in Held(q)
      BY DEF Live
    <3>. QED  BY <2>4, <3>1, <3>2
  <2>6. OnceInv'
    <3>1. ASSUME NEW i \in DOMAIN t, NEW j \in DOMAIN t, t[i] = t[j]
          PROVE  i = j
      <4>1. CASE i = 1 \/ j = 1
        BY <1>1, <2>2, <2>3, <3>1, <4>1
      <4>2. CASE i # 1 /\ j # 1
        <5>1. i - 1 = j - 1
          BY <2>3, <3>1, <4>2 DEF OnceInv
        <5>. QED  BY <2>2, <5>1
      <4>. QED  BY <4>1, <4>2
    <3>2. ASSUME NEW q \in Processes, NEW i \in DOMAIN t
          PROVE  t[i] \notin Held(q)'
      <4>1. q # p => s \notin Held(q)
        BY DEF OnceInv
      <4>2. t[i] = s \/ \E k \in DOMAIN pending : pending[k] = t[i]
        BY <2>4
      <4>3. q # p => t[i] \notin Held(q)
        BY <4>1, <4>2 DEF OnceInv
      <4>. QED  BY <4>3
    <3>. QED  BY <2>1, <3>1, <3>2 DEF OnceInv
  <2>7. ValuesInv'
    BY <1>1, <1>3, <2>5 DEF ValuesInv, IsSetting
  <2>8. \A q \in Processes : job'[q].at \in {"check", "set"} => job'[q].arg \notin accepted'
    BY OthersHold
  <2>9. \A x \in Live \ halfWritten' : Recorded(x)' = {}
    BY <1>3 DEF PlacesInv
  <2>10. \A x \in accepted \ halfWritten' : \A i, j \in Recorded(x)' : i = j
    BY <1>3 DEF PlacesInv
  <2>11. PlacesInv'
    BY <1>3, <2>5, <2>8, <2>9, <2>10 DEF PlacesInv
  <2>. QED  BY <2>6, <2>7, <2>11
<1>. QED  BY <1>4, <1>5

-----------------------------------------------------------------------------
(***************************************************************************)
(* The steps                                                               *)
(***************************************************************************)

\* A process goes on without a setting to record or to write.
LEMMA HandFree ==
  ASSUME NEW j, j.at \notin {"check", "set"}, j.at = "idle" => j.entry = <<>>,
         j.entry = <<>> \/ (j.at \notin StoresSettings /\ "kind" \in DOMAIN j.entry[1]
                            /\ j.entry[1].kind # "setting")
  PROVE  Carries(j) /\ Hand(j) = {}
BY DEF Carries, Hand

LEMMA JobFree ==
  ASSUME NEW at, NEW arg, at \notin {"check", "set"}
  PROVE  /\ IsJob(Job(at, arg)) /\ Carries(Job(at, arg)) /\ Hand(Job(at, arg)) = {}
         /\ Job(at, arg).at = at
BY JobIsJob, HandFree

\* A process whose hand is empty goes on, and its hand stays empty.
LEMMA FreeMoves ==
  ASSUME SettingsInv, NEW p \in Processes, Held(p) = {}, NEW j, IsJob(j), Carries(j), Becomes(p, j),
         Hand(j) = {}, j.at \notin {"check", "set"},
         active' = active, p = Run /\ j.at # "idle" => job[Run].at # "idle",
         pending' = pending, accepted' = accepted, halfWritten' = halfWritten, chosen' = chosen,
         tree' = tree \/ \E e : tree' = Append(tree, e) /\ e.kind # "setting"
  PROVE  SettingsInv'
<1>1. chosen' \in Nat /\ IsQueue(tree') /\ IsQueue(pending') /\ HandsInv
  BY Grows DEF SettingsInv, HandsInv
<1>2. /\ HandsInv' /\ job'[p] = j /\ Held(p)' = Hand(j)
      /\ \A q \in Processes : q # p => job'[q] = job[q] /\ Held(q)' = Held(q)
  BY <1>1, HandMoves
<1>3. \A q \in Processes : Held(q)' = Held(q)
  BY <1>2
<1>4. \A q \in Processes : job'[q].at \in {"check", "set"} => job'[q].arg \notin accepted
  BY <1>2 DEF SettingsInv, PlacesInv
<1>. QED  BY <1>2, <1>3, <1>4, NothingMoves

\* SettingsInv is kept when a call begins,
LEMMA SettingsCalls ==
  ASSUME SettingsInv, NEW c \in Callers, CallNext(c)
  PROVE  SettingsInv'
<1>. USE HarnessAssumption DEF Processes
<1>0. active' = active /\ c # Run
  BY DEF CallNext, CallPrompt, CallContinue, CallSet, CallNextTurn, CallSteer, CallAbort,
         CallAppendEntry, CallNavigate, CallCompact, agentVars
<1>1. ASSUME At(c, "idle") PROVE Held(c) = {}
  BY <1>1 DEF At, Held, Hand, StoresSettings, Flushes
<1>2. ASSUME NEW call, NEW at, NEW arg, Start(c, call, Job(at, arg)), at \notin {"check", "set"},
             UNCHANGED <<tree, pending, accepted, halfWritten, chosen>>
      PROVE  SettingsInv'
  <2>1. At(c, "idle") /\ Becomes(c, Job(at, arg))
    BY <1>2 DEF Start
  <2>. QED  BY <1>0, <1>1, <1>2, <2>1, JobFree, FreeMoves
<1>3. CASE CallPrompt(c) \/ CallContinue(c) \/ CallNextTurn(c) \/ CallSteer(c) \/ CallAbort(c)
           \/ CallNavigate(c) \/ CallCompact(c)
  <2>1. CASE CallPrompt(c)
    BY <1>2, <2>1 DEF CallPrompt, sessionVars, innerVars, seenVars
  <2>2. CASE CallContinue(c) \/ CallCompact(c)
    BY <1>2, <2>2 DEF CallContinue, CallCompact, sessionVars, innerVars, seenVars
  <2>3. CASE CallNextTurn(c) \/ CallSteer(c) \/ CallAbort(c)
    BY <1>2, <2>3 DEF CallNextTurn, CallSteer, CallAbort, Idle, sessionVars, innerVars, seenVars
  <2>4. CASE CallNavigate(c)
    BY <1>2, <2>4 DEF CallNavigate, innerVars
  <2>. QED  BY <1>3, <2>1, <2>2, <2>3, <2>4
<1>4. CASE CallAppendEntry(c)
  <2>1. PICK j : j = Writing("custom", <<>>, [kind |-> "custom"])
    OBVIOUS
  <2>2. At(c, "idle") /\ Becomes(c, j)
    BY <1>4, <2>1 DEF CallAppendEntry, Start
  <2>3. IsJob(j) /\ Carries(j) /\ Hand(j) = {} /\ j.at = "custom"
    BY <2>1 DEF Writing, IsJob, Carries, Hand, StoresSettings, Flushes
  <2>. QED  BY <1>0, <1>1, <1>4, <2>2, <2>3, FreeMoves
            DEF CallAppendEntry, sessionVars, innerVars, seenVars
<1>5. CASE CallSet(c)
  <2>1. PICK k \in Kinds : At(c, "idle") /\ Becomes(c, Job("check", Setting(k, chosen')))
    BY <1>5 DEF CallSet, Start
  <2>2. chosen' = chosen + 1 /\ UNCHANGED <<tree, pending, accepted, halfWritten>>
    BY <1>5 DEF CallSet, sessionVars, seenVars
  <2>3. PICK s : s = Setting(k, chosen')
    OBVIOUS
  <2>4. s = Setting(s.of, s.value) /\ s.value = chosen'
    BY <2>3 DEF Setting
  <2>5. PICK j : j = Job("check", s) /\ IsJob(j) /\ Carries(j) /\ Hand(j) = {s} /\ j.arg = s /\ j.at = "check"
    <3>1. PICK j : j = Job("check", s) /\ IsJob(j)
      BY JobIsJob
    <3>2. j.at = "check" /\ j.arg = s /\ j.entry = <<>>
      BY <3>1 DEF Job
    <3>3. Carries(j) /\ Hand(j) = {s}
      BY <3>2 DEF Carries, Hand
    <3>. QED  BY <3>1, <3>2, <3>3
  <2>6. HandsInv /\ chosen' \in Nat /\ IsQueue(tree') /\ IsQueue(pending')
    <3>1. HandsInv /\ chosen \in Nat /\ IsQueue(tree) /\ IsQueue(pending)
      BY DEF SettingsInv, HandsInv
    <3>2. chosen' \in Nat /\ tree' = tree /\ pending' = pending
      BY <2>2, <3>1
    <3>. QED  BY <3>1, <3>2 DEF IsQueue
  <2>7. /\ HandsInv' /\ job'[c] = j /\ Held(c)' = Hand(j)
        /\ \A q \in Processes : q # c => job'[q] = job[q] /\ Held(q)' = Held(q)
    BY <1>0, <2>1, <2>3, <2>5, <2>6, HandMoves
  <2>. QED  BY <1>1, <2>1, <2>2, <2>4, <2>5, <2>7, HandTakesNew
<1>. QED  BY <1>3, <1>4, <1>5 DEF CallNext

\* when it goes on,
LEMMA SettingsSteps ==
  ASSUME SettingsInv, NEW c \in Callers, CallStep(c)
  PROVE  SettingsInv'
<1>. USE HarnessAssumption DEF Processes
<1>1. ASSUME NEW at, NEW arg, Becomes(c, Job(at, arg)), at \notin {"check", "set"}, Held(c) = {},
             UNCHANGED <<tree, pending, accepted, halfWritten, chosen, active>>
      PROVE  SettingsInv'
  BY <1>1, JobFree, FreeMoves
<1>2. ASSUME job[c].entry = <<>>, job[c].at # "check" PROVE Held(c) = {}
  BY <1>2 DEF Held, Hand
<1>3. CASE TakeNextTurn(c) \/ MarkRunning(c) \/ RunRefused(c) \/ AssignSetting(c) \/ CancelRun(c)
           \/ AbortSettles(c)
  <2>1. job[c].entry = <<>> /\ job[c].at # "check"
    BY <1>3 DEF TakeNextTurn, MarkRunning, RunRefused, AssignSetting, CancelRun, AbortSettles, At
  <2>2. \E at, arg : Becomes(c, Job(at, arg)) /\ at \notin {"check", "set"}
    BY <1>3 DEF TakeNextTurn, MarkRunning, RunRefused, AssignSetting, CancelRun, AbortSettles, Goes, Idle
  <2>3. UNCHANGED <<tree, pending, accepted, halfWritten, chosen, active>>
    BY <1>3 DEF TakeNextTurn, MarkRunning, RunRefused, AssignSetting, CancelRun, AbortSettles,
                sessionVars, innerVars, agentVars, seenVars, boundVars
  <2>. QED  BY <1>1, <1>2, <2>1, <2>2, <2>3
<1>4. CASE BuildContext(c) \/ InstallMessages(c) \/ CompactSnapshot(c) \/ SummaryFails(c) \/ CompactEnds(c)
  <2>1. job[c].entry = <<>> /\ job[c].at # "check"
    BY <1>4 DEF BuildContext, InstallMessages, CompactSnapshot, SummaryFails, CompactEnds, At
  <2>2. \E at, arg : Becomes(c, Job(at, arg)) /\ at \notin {"check", "set"}
    BY <1>4 DEF BuildContext, InstallMessages, CompactSnapshot, SummaryFails, CompactEnds, Goes, Idle
  <2>3. UNCHANGED <<tree, pending, accepted, halfWritten, chosen, active>>
    BY <1>4 DEF BuildContext, InstallMessages, CompactSnapshot, SummaryFails, CompactEnds,
                sessionVars, innerVars, agentVars, seenVars, boundVars
  <2>. QED  BY <1>1, <1>2, <2>1, <2>2, <2>3
<1>5. CASE SummaryArrives(c)
  <2>1. PICK arg, e : Becomes(c, Writing("compact", arg, e)) /\ "kind" \in DOMAIN e /\ e.kind = "compaction"
    BY <1>5 DEF SummaryArrives
  <2>2. PICK j : j = Writing("compact", arg, e)
    OBVIOUS
  <2>3. IsJob(j) /\ Carries(j) /\ Hand(j) = {} /\ j.at = "compact"
    BY <2>1, <2>2 DEF Writing, IsJob, Carries, Hand, StoresSettings, Flushes
  <2>4. Held(c) = {}
    BY <1>2, <1>5 DEF SummaryArrives, At
  <2>. QED  BY <1>5, <2>1, <2>2, <2>3, <2>4, FreeMoves
            DEF SummaryArrives, sessionVars, innerVars, agentVars, seenVars
<1>6. CASE BeginRun(c)
  <2>1. PICK a, b : a = Job("await", <<>>) /\ b = Job("say", <<>>)
    OBVIOUS
  <2>2. /\ job' = [job EXCEPT ![c] = a, ![Run] = b] /\ job[c].at = "begin" /\ job[c].entry = <<>>
        /\ ~active /\ active'
    BY <1>6, <2>1 DEF BeginRun, At
  <2>3. UNCHANGED <<tree, pending, accepted, halfWritten, chosen>>
    BY <1>6 DEF BeginRun, sessionVars, innerVars, seenVars, boundVars
  <2>4. /\ IsJob(a) /\ Carries(a) /\ Hand(a) = {} /\ a.at = "await"
        /\ IsJob(b) /\ Carries(b) /\ Hand(b) = {} /\ b.at = "say"
    BY <2>1, JobFree
  <2>5. job' = [q \in Processes |-> IF q = Run THEN b ELSE IF q = c THEN a ELSE job[q]]
    BY <2>2 DEF SettingsInv, HandsInv
  <2>6. HandsInv'
    BY <2>2, <2>3, <2>4, <2>5 DEF SettingsInv, HandsInv
  <2>7. Held(c) = {} /\ Held(Run) = {}
    BY <1>2, <2>2 DEF SettingsInv, HandsInv, Held, Hand, StoresSettings, Flushes
  <2>8. \A q \in Processes : Held(q)' = Held(q)
    BY <2>4, <2>5, <2>7 DEF Held
  <2>9. \A q \in Processes : job'[q].at \in {"check", "set"} => job'[q].arg \notin accepted
    BY <2>4, <2>5 DEF SettingsInv, PlacesInv
  <2>. QED  BY <2>3, <2>6, <2>8, <2>9, NothingMoves
<1>7. CASE RecordSetting(c)
  <2>1. PICK s : s = job[c].arg
    OBVIOUS
  <2>2. job[c].at = "check" /\ Held(c) = {s} /\ active' = active
        /\ UNCHANGED <<tree, halfWritten, chosen>>
    BY <1>7, <2>1 DEF RecordSetting, At, Held, Hand, sessionVars, agentVars, boundVars
  <2>3. HandsInv /\ IsSetting(s) /\ s \notin accepted
    BY <2>1, <2>2 DEF SettingsInv, ValuesInv, Live, PlacesInv
  <2>4. CASE running
    <3>1. PICK j : j = Job("assign", s) /\ IsJob(j) /\ Carries(j) /\ Hand(j) = {} /\ j.at = "assign"
      BY JobFree
    <3>2. pending' = Append(pending, s) /\ accepted' = accepted \cup {s} /\ Becomes(c, j)
      BY <1>7, <2>1, <2>4, <3>1 DEF RecordSetting, Defer, Goes
    <3>3. IsQueue(pending') /\ IsQueue(tree') /\ chosen' \in Nat
      BY <2>2, <2>3, <3>2, Queued DEF HandsInv
    <3>4. /\ HandsInv' /\ job'[c] = j /\ Held(c)' = Hand(j)
          /\ \A q \in Processes : q # c => job'[q] = job[q] /\ Held(q)' = Held(q)
      BY <2>2, <2>3, <3>1, <3>2, <3>3, HandMoves
    <3>. QED  BY <2>2, <3>1, <3>2, <3>4, HandDefers
  <2>5. CASE ~running
    <3>1. PICK j : j = Writing("set", s, s) /\ IsJob(j)
      BY JobIsJob
    <3>2. Carries(j) /\ Hand(j) = {s} /\ j.at = "set" /\ j.arg = s
      BY <3>1 DEF Writing, Carries, Hand, StoresSettings
    <3>3. UNCHANGED <<pending, accepted>> /\ Becomes(c, j)
      BY <1>7, <2>1, <2>5, <3>1 DEF RecordSetting, WriteThrough
    <3>4. IsQueue(pending') /\ IsQueue(tree') /\ chosen' \in Nat
      BY <2>2, <2>3, <3>3 DEF HandsInv
    <3>5. /\ HandsInv' /\ job'[c] = j /\ Held(c)' = Hand(j)
          /\ \A q \in Processes : q # c => job'[q] = job[q] /\ Held(q)' = Held(q)
      BY <2>2, <2>3, <3>1, <3>2, <3>3, <3>4, HandMoves
    <3>6. \A q \in Processes : Held(q)' = Held(q)
      BY <2>2, <3>2, <3>5
    <3>7. \A q \in Processes : job'[q].at \in {"check", "set"} => job'[q].arg \notin accepted
      BY <2>3, <3>2, <3>5 DEF SettingsInv, PlacesInv
    <3>. QED  BY <2>2, <3>3, <3>5, <3>6, <3>7, NothingMoves
  <2>. QED  BY <2>4, <2>5
<1>. QED  BY <1>3, <1>4, <1>5, <1>6, <1>7 DEF CallStep

\* when the run does,
LEMMA SettingsRuns ==
  ASSUME SettingsInv, RunStep
  PROVE  SettingsInv'
<1>. USE HarnessAssumption DEF Processes
<1>1. ASSUME job[Run].entry = <<>>, job[Run].at # "check" PROVE Held(Run) = {}
  BY <1>1 DEF Held, Hand
<1>2. ASSUME NEW at, NEW arg, Becomes(Run, Job(at, arg)), at \notin {"check", "set"},
             job[Run].entry = <<>>, job[Run].at \notin {"check", "idle"},
             UNCHANGED <<tree, pending, accepted, halfWritten, chosen, active>>
      PROVE  SettingsInv'
  BY <1>1, <1>2, JobFree, FreeMoves
<1>3. CASE SayNext \/ ModelReplies
  <2>1. PICK m, at : Becomes(Run, Writing(at, <<>>, MessageEntry(m))) /\ at \in {"say", "turnEnd"}
    BY <1>3 DEF SayNext, ModelReplies, Say
  <2>2. PICK j, e : e = MessageEntry(m) /\ j = Writing(at, <<>>, e)
    OBVIOUS
  <2>3. e.kind = "message" /\ "kind" \in DOMAIN e
    BY <2>2 DEF MessageEntry
  <2>4. IsJob(j) /\ Carries(j) /\ Hand(j) = {} /\ j.at \notin {"check", "set"}
    BY <2>1, <2>2, <2>3 DEF Writing, IsJob, Carries, Hand, StoresSettings, Flushes
  <2>5. job[Run].entry = <<>> /\ job[Run].at = "say"
    BY <1>3 DEF SayNext, ModelReplies, At
  <2>6. UNCHANGED <<tree, pending, accepted, halfWritten, chosen, active>>
    BY <1>3 DEF SayNext, ModelReplies, sessionVars, innerVars, boundVars, seenVars
  <2>. QED  BY <1>1, <2>1, <2>2, <2>4, <2>5, <2>6, FreeMoves
<1>4. CASE TurnEnd \/ PollQueues \/ AgentEnd
  <2>1. job[Run].entry = <<>> /\ job[Run].at \in {"turnEnd", "poll", "agentEnd"}
    BY <1>4 DEF TurnEnd, PollQueues, AgentEnd, At
  <2>2. \E at, arg : Becomes(Run, Job(at, arg)) /\ at \notin {"check", "set"}
    BY <1>4 DEF TurnEnd, PollQueues, AgentEnd, Goes
  <2>3. UNCHANGED <<tree, pending, accepted, halfWritten, chosen, active>>
    BY <1>4 DEF TurnEnd, PollQueues, AgentEnd, sessionVars, innerVars, agentVars, boundVars, seenVars
  <2>. QED  BY <1>2, <2>1, <2>2, <2>3
<1>5. CASE FinishRun
  <2>1. PICK a : a = Idle /\ IsJob(a) /\ Carries(a) /\ Hand(a) = {} /\ a.at = "idle"
    BY JobFree DEF Idle
  <2>2. /\ job' = [q \in Processes |-> IF q = Run \/ job[q].at = "await" THEN a ELSE job[q]]
        /\ job[Run].at = "finish" /\ job[Run].entry = <<>>
    BY <1>5, <2>1 DEF FinishRun, At
  <2>3. UNCHANGED <<tree, pending, accepted, halfWritten, chosen>>
    BY <1>5 DEF FinishRun, sessionVars, innerVars, boundVars, seenVars
  <2>4. HandsInv'
    BY <2>1, <2>2, <2>3 DEF SettingsInv, HandsInv
  <2>5. \A q \in Processes : q = Run \/ job[q].at = "await" => Held(q) = {}
    BY <2>2 DEF Held, Hand, StoresSettings, Flushes
  <2>6. \A q \in Processes : Held(q)' = Held(q)
    BY <2>1, <2>2, <2>5 DEF Held
  <2>7. \A q \in Processes : job'[q].at \in {"check", "set"} => job'[q].arg \notin accepted
    BY <2>1, <2>2 DEF SettingsInv, PlacesInv
  <2>. QED  BY <2>3, <2>4, <2>6, <2>7, NothingMoves
<1>. QED  BY <1>3, <1>4, <1>5 DEF RunStep

\* What is stored for an entry is the entry, under an id and a leaf.
LEMMA StoredEntry ==
  ASSUME NEW p, Stored(p), "kind" \in DOMAIN job[p].entry[1]
  PROVE  \E f : /\ tree' = Append(tree, f) /\ f.kind = job[p].entry[1].kind
                /\ "value" \in DOMAIN job[p].entry[1] => f.value = job[p].entry[1].value
<1>1. PICK e : e = job[p].entry[1]
  OBVIOUS
<1>2. PICK parent, f : f = Placed(Len(tree) + 1, parent, e) /\ tree' = Append(tree, f)
  BY <1>1 DEF Stored
<1>3. f.kind = e.kind /\ ("value" \in DOMAIN e => f.value = e.value)
  BY <1>1, <1>2 DEF Placed
<1>. QED  BY <1>1, <1>2, <1>3

\* A process that has ended a write has nothing in hand.
LEMMA WriteEnds ==
  ASSUME SettingsInv, NEW p \in Processes, job[p].base # {}, AppendEntry(p) \/ WriteFails(p)
  PROVE  /\ \E j : /\ IsJob(j) /\ Carries(j) /\ Hand(j) = {} /\ Becomes(p, j)
                   /\ j.at \notin {"check", "set"} /\ (p = Run /\ j.at # "idle" => job[Run].at # "idle")
         /\ UNCHANGED <<chosen, active>>
         /\ job[p].entry # <<>> /\ job[p].at \notin {"idle", "check"}
<1>1. job[p].entry # <<>> /\ job[p].at \notin {"idle", "check"}
  BY DEF SettingsInv, HandsInv, IsJob, Carries
<1>2. PICK at, arg : Becomes(p, Job(at, arg)) /\ at \notin {"check", "set"}
  BY <1>1 DEF AppendEntry, WriteFails, Done, Failed, Flushes, AfterFlush, Idle
<1>3. UNCHANGED <<chosen, active>>
  BY DEF AppendEntry, WriteFails, agentVars, boundVars
<1>. QED  BY <1>1, <1>2, <1>3, JobFree

\* and when a writer does.
LEMMA SettingsWrites ==
  ASSUME SettingsInv, NEW p \in Processes, WriteStep(p)
  PROVE  SettingsInv'
<1>. USE HarnessAssumption DEF Processes
<1>1. HandsInv
  BY DEF SettingsInv
<1>2. CASE FlushNext(p)
  <2>1. PICK s, j : s = Head(pending) /\ j = Writing(job[p].at, s, s)
    OBVIOUS
  <2>2. /\ job[p].at \in Flushes /\ job[p].entry = <<>> /\ pending # <<>> /\ pending' = Tail(pending)
        /\ Becomes(p, j) /\ UNCHANGED <<tree, accepted, halfWritten, chosen, active>>
    BY <1>2, <2>1 DEF FlushNext, sessionVars, agentVars, boundVars, seenVars
  <2>3. IsJob(j) /\ Carries(j) /\ Hand(j) = {s} /\ j.at = job[p].at
    BY <2>1, <2>2 DEF Writing, IsJob, Carries, Hand, StoresSettings, Flushes
  <2>4. Held(p) = {} /\ job[p].at \notin {"check", "set", "idle"}
    BY <2>2 DEF Held, Hand, Flushes
  <2>5. IsQueue(pending') /\ IsQueue(tree') /\ chosen' \in Nat
    BY <1>1, <2>2, Taken DEF HandsInv
  <2>6. /\ HandsInv' /\ job'[p] = j /\ Held(p)' = Hand(j)
        /\ \A q \in Processes : q # p => job'[q] = job[q] /\ Held(q)' = Held(q)
    BY <1>1, <2>2, <2>3, <2>4, <2>5, HandMoves
  <2>. QED  BY <2>1, <2>2, <2>3, <2>4, <2>6, HandFlushes
<1>3. CASE FlushEnds(p)
  <2>1. /\ job[p].at \in Flushes /\ job[p].entry = <<>> /\ Becomes(p, Job(AfterFlush[job[p].at], <<>>))
        /\ UNCHANGED <<tree, pending, accepted, halfWritten, chosen, active>>
    BY <1>3 DEF FlushEnds, sessionVars, innerVars, agentVars, boundVars, seenVars
  <2>2. Held(p) = {} /\ job[p].at # "idle" /\ AfterFlush[job[p].at] \notin {"check", "set"}
    BY <2>1 DEF Held, Hand, Flushes, AfterFlush
  <2>. QED  BY <2>1, <2>2, JobFree, FreeMoves
<1>4. CASE ReadLeaf(p)
  <2>1. PICK r, b, j : r = job[p] /\ b = {leaf} /\ j = [r EXCEPT !.base = b]
    OBVIOUS
  <2>2. Becomes(p, j) /\ r.entry # <<>>
    BY <1>4, <2>1, Zenon DEF ReadLeaf, Becomes
  <2>3. IsJob(r) /\ Carries(r)
    BY <1>1, <2>1 DEF HandsInv
  <2>4. IsJob(j) /\ j.at = r.at /\ j.arg = r.arg /\ j.entry = r.entry
    BY <2>1, <2>2, <2>3 DEF IsJob
  <2>5. Carries(j) /\ Hand(j) = Hand(r)
    BY <2>3, <2>4 DEF Carries, Hand
  <2>6. UNCHANGED <<tree, pending, accepted, halfWritten, chosen, active>>
    BY <1>4 DEF ReadLeaf, sessionVars, innerVars, agentVars, boundVars, seenVars
  <2>7. IsQueue(pending') /\ IsQueue(tree') /\ chosen' \in Nat
    BY <1>1, <2>6 DEF HandsInv
  <2>8. /\ HandsInv' /\ job'[p] = j /\ Held(p)' = Hand(j)
        /\ \A q \in Processes : q # p => job'[q] = job[q] /\ Held(q)' = Held(q)
    <3>1. p = Run /\ j.at # "idle" => job[Run].at # "idle"
      BY <2>1, <2>4
    <3>2. IsJob(j) /\ Carries(j) /\ Becomes(p, j) /\ active' = active
      BY <2>2, <2>4, <2>5, <2>6
    <3>. QED  BY ONLY <1>1, <2>7, <3>1, <3>2, p \in Processes, HandMoves
  <2>9. \A q \in Processes : Held(q)' = Held(q)
    BY <2>1, <2>5, <2>8 DEF Held
  <2>10. \A q \in Processes : job'[q].at \in {"check", "set"} => job'[q].arg \notin accepted
    BY <2>1, <2>4, <2>8 DEF SettingsInv, PlacesInv
  <2>. QED  BY <2>6, <2>8, <2>9, <2>10, NothingMoves
<1>5. CASE AppendEntry(p) \/ WriteFails(p)
  <2>0. job[p].base # {}
    BY <1>5 DEF AppendEntry, WriteFails
  <2>1. PICK j : /\ IsJob(j) /\ Carries(j) /\ Hand(j) = {} /\ Becomes(p, j)
                 /\ j.at \notin {"check", "set"} /\ (p = Run /\ j.at # "idle" => job[Run].at # "idle")
    BY <1>5, <2>0, WriteEnds
  <2>2. UNCHANGED <<chosen, active>> /\ job[p].entry # <<>> /\ job[p].at \notin {"idle", "check"}
    BY <1>5, <2>0, WriteEnds
  <2>3. PICK s, e : s = job[p].arg /\ e = job[p].entry[1]
    OBVIOUS
  <2>4. Carries(job[p])
    BY <1>1 DEF HandsInv
  <2>5. CASE job[p].at \in StoresSettings
    <3>1. Held(p) = {s} /\ e = s /\ IsSetting(s)
      <4>1. job[p].entry = <<s>>
        BY <2>2, <2>3, <2>4, <2>5 DEF Carries
      <4>2. Held(p) = {s} /\ e = s
        BY <2>2, <2>3, <2>5, <4>1 DEF Held, Hand
      <4>. QED  BY <4>2 DEF SettingsInv, ValuesInv, Live
    <3>2. s.kind = "setting" /\ "kind" \in DOMAIN s /\ "value" \in DOMAIN s
      BY <3>1 DEF IsSetting, Setting
    <3>3. ASSUME Stored(p)
          PROVE  \E f : tree' = Append(tree, f) /\ f.kind = "setting" /\ f.value = s.value
      <4>1. job[p].entry[1] = s
        BY <2>3, <3>1
      <4>2. \E f : /\ tree' = Append(tree, f) /\ f.kind = job[p].entry[1].kind
                   /\ "value" \in DOMAIN job[p].entry[1] => f.value = job[p].entry[1].value
        BY <3>2, <3>3, <4>1, StoredEntry
      <4>. QED  BY <3>2, <4>1, <4>2
    <3>4. CASE AppendEntry(p)
      <4>1. Stored(p) /\ UNCHANGED <<pending, halfWritten>>
            /\ (accepted' = accepted \/ accepted' = accepted \cup {s})
        BY <2>3, <3>4 DEF AppendEntry, Done
      <4>2. IsQueue(pending') /\ IsQueue(tree') /\ chosen' \in Nat
        BY <1>1, <2>2, <3>3, <4>1, Grows DEF HandsInv
      <4>3. /\ HandsInv' /\ job'[p] = j /\ Held(p)' = Hand(j)
            /\ \A q \in Processes : q # p => job'[q] = job[q] /\ Held(q)' = Held(q)
        BY <1>1, <2>1, <2>2, <4>2, HandMoves
      <4>. QED  BY <2>1, <2>2, <3>1, <3>3, <4>1, <4>3, HandStores
    <3>5. CASE WriteFails(p)
      <4>1. accepted' = accepted /\ (pending' = pending \/ pending' = <<s>> \o pending)
            /\ (job[p].at \in Flushes => pending' = <<s>> \o pending)
        BY <2>3, <3>5 DEF WriteFails, Failed
      <4>2. \/ tree' = tree /\ halfWritten' = halfWritten
            \/ /\ \E f : tree' = Append(tree, f) /\ f.kind = "setting" /\ f.value = s.value
               /\ halfWritten' = halfWritten \cup {s}
        BY <2>3, <3>1, <3>2, <3>3, <3>5 DEF WriteFails, sessionVars
      <4>3. (pending' = pending /\ s \notin accepted) \/ pending' = <<s>> \o pending
        BY <2>3, <2>5, <4>1 DEF StoresSettings, SettingsInv, PlacesInv
      <4>4. IsQueue(tree') /\ chosen' \in Nat
        BY <1>1, <2>2, <4>2, Grows DEF HandsInv
      <4>5. IsQueue(pending')
        <5>1. PICK t : t = pending'
          OBVIOUS
        <5>2. t = <<s>> \o pending => Joins(<<s>>, pending, t)
          BY <1>1, One, Joined DEF HandsInv
        <5>. QED  BY <1>1, <4>1, <5>1, <5>2 DEF Joins, HandsInv
      <4>6. /\ HandsInv' /\ job'[p] = j /\ Held(p)' = Hand(j)
            /\ \A q \in Processes : q # p => job'[q] = job[q] /\ Held(q)' = Held(q)
        BY <1>1, <2>1, <2>2, <4>4, <4>5, HandMoves
      <4>. QED  BY <2>1, <2>2, <3>1, <4>1, <4>2, <4>3, <4>6, HandFails
    <3>. QED  BY <1>5, <3>4, <3>5
  <2>6. CASE job[p].at \notin StoresSettings
    <3>1. Held(p) = {} /\ "kind" \in DOMAIN e /\ e.kind # "setting"
      BY <2>2, <2>3, <2>4, <2>6 DEF Carries, Held, Hand
    <3>2. ASSUME Stored(p)
          PROVE  \E f : tree' = Append(tree, f) /\ f.kind # "setting"
      <4>1. "kind" \in DOMAIN job[p].entry[1] /\ job[p].entry[1].kind # "setting"
        BY <2>3, <3>1
      <4>2. \E f : tree' = Append(tree, f) /\ f.kind = job[p].entry[1].kind
        BY <3>2, <4>1, StoredEntry
      <4>. QED  BY <4>1, <4>2
    <3>3. UNCHANGED <<pending, accepted, halfWritten>>
          /\ (tree' = tree \/ \E f : tree' = Append(tree, f) /\ f.kind # "setting")
      BY <1>5, <2>3, <2>6, <3>1, <3>2
         DEF AppendEntry, WriteFails, Done, Failed, sessionVars, StoresSettings
    <3>. QED  BY <2>1, <2>2, <3>1, <3>3, FreeMoves
  <2>. QED  BY <2>5, <2>6
<1>. QED  BY <1>2, <1>3, <1>4, <1>5 DEF WriteStep

LEMMA SettingsInit == Init => SettingsInv
<1>. SUFFICES ASSUME Init PROVE SettingsInv
  OBVIOUS
<1>1. PICK a : a = Idle /\ IsJob(a) /\ Carries(a) /\ Hand(a) = {} /\ a.at = "idle"
  BY JobFree DEF Idle
<1>2. /\ job = [p \in Processes |-> a] /\ tree = <<>> /\ pending = <<>> /\ chosen = 0
      /\ accepted = {} /\ active = FALSE
  BY <1>1 DEF Init
<1>3. IsQueue(<<>>)
  BY DEF IsQueue
<1>4. Live = {} /\ \A p \in Processes : Held(p) = {} /\ job[p] = a
  BY <1>1, <1>2 DEF Live, Held
<1>5. HandsInv
  BY <1>1, <1>2, <1>3, HarnessAssumption DEF HandsInv, Processes
<1>6. OnceInv /\ ValuesInv /\ PlacesInv
  BY <1>1, <1>2, <1>4 DEF OnceInv, ValuesInv, PlacesInv
<1>. QED  BY <1>5, <1>6 DEF SettingsInv

LEMMA SettingsNext == SettingsInv /\ [Next]_vars => SettingsInv'
<1>1. ASSUME SettingsInv, UNCHANGED vars PROVE SettingsInv'
  BY <1>1 DEF vars, sessionVars, innerVars, agentVars, runVars, boundVars, seenVars, SettingsInv,
     HandsInv, OnceInv, ValuesInv, PlacesInv, Live, Held, Recorded, IsSetting
<1>. QED  BY <1>1, SettingsCalls, SettingsSteps, SettingsRuns, SettingsWrites DEF Next

-----------------------------------------------------------------------------
(***************************************************************************)
(* What it comes to                                                        *)
(***************************************************************************)

LEMMA AtMostOne ==
  ASSUME NEW S, \A x, y \in S : x = y
  PROVE  /\ Cardinality(S) \in {0, 1} /\ IsFiniteSet(S)
         /\ S # {} => Cardinality(S) = 1
<1>1. CASE S = {}
  BY <1>1, FS_EmptySet
<1>2. CASE S # {}
  <2>1. PICK x : S = {x}
    BY <1>2
  <2>. QED  BY <2>1, FS_Singleton
<1>. QED  BY <1>1, <1>2

\* An accepted setting is somewhere, and in two places only if a write that
\* answered Err stored it.
LEMMA Conserved == SettingsInv => SettingsConserved
<1>. SUFFICES ASSUME SettingsInv, NEW s \in accepted
              PROVE  LET n == Cardinality(Recorded(s)) + Cardinality(Deferred(s)) + Cardinality(InHand(s))
                     IN n >= 1 /\ (n > 1 => s \in halfWritten)
  BY DEF SettingsConserved
<1>. USE DEF SettingsInv
<1>1. IsSetting(s)
  BY DEF ValuesInv
<1>2. \A p \in Processes : job[p].entry = <<s>> <=> s \in Held(p)
  <2>. TAKE p \in Processes
  <2>1. Carries(job[p])
    BY DEF HandsInv
  <2>2. ASSUME job[p].entry = <<s>> PROVE s \in Held(p)
    <3>1. job[p].entry # <<>> /\ job[p].entry[1] = s /\ s.kind = "setting"
      BY <1>1, <2>2 DEF IsSetting, Setting
    <3>2. job[p].at \in StoresSettings /\ job[p].arg = s
      BY <2>1, <2>2, <3>1 DEF Carries
    <3>. QED  BY <3>1, <3>2 DEF Held, Hand
  <2>3. ASSUME s \in Held(p) PROVE job[p].entry = <<s>>
    <3>1. job[p].arg = s
      BY <2>3 DEF Held, Hand
    <3>2. job[p].at # "check"
      BY <3>1 DEF PlacesInv
    <3>. QED  BY <2>1, <2>3, <3>1, <3>2 DEF Carries, Held, Hand
  <2>. QED  BY <2>2, <2>3
<1>3. InHand(s) = {p \in Processes : s \in Held(p)}
  BY <1>2 DEF InHand
<1>4. /\ \A p, q \in InHand(s) : p = q
      /\ \A i, j \in Deferred(s) : i = j
      /\ InHand(s) = {} \/ Deferred(s) = {}
      /\ s \in Live <=> InHand(s) # {} \/ Deferred(s) # {}
  BY <1>3 DEF OnceInv, Deferred, Live
<1>5. PICK h, d : h = Cardinality(InHand(s)) /\ d = Cardinality(Deferred(s))
  OBVIOUS
<1>6. /\ h \in {0, 1} /\ d \in {0, 1} /\ h + d \in {0, 1}
      /\ s \in Live => h + d = 1
      /\ s \notin Live => h + d = 0
  BY <1>4, <1>5, AtMostOne, FS_EmptySet
<1>7. IsFiniteSet(Recorded(s))
  <2>1. Len(tree) \in Nat /\ DOMAIN tree = 1..Len(tree)
    BY Queued DEF HandsInv
  <2>2. IsFiniteSet(1..Len(tree)) /\ Recorded(s) \subseteq 1..Len(tree)
    BY <2>1, FS_Interval DEF Recorded
  <2>. QED  BY <2>2, FS_Subset
<1>8. PICK r : r = Cardinality(Recorded(s))
  OBVIOUS
<1>9. /\ r \in Nat /\ (Recorded(s) = {} <=> r = 0)
      /\ s \notin halfWritten => r \in {0, 1} /\ (s \in Live => r = 0)
  <2>1. r \in Nat /\ (Recorded(s) = {} <=> r = 0)
    BY <1>7, <1>8, FS_CardinalityType, FS_EmptySet
  <2>2. s \notin halfWritten => r \in {0, 1}
    BY <1>8, AtMostOne DEF PlacesInv
  <2>3. s \notin halfWritten /\ s \in Live => r = 0
    BY <2>1 DEF PlacesInv
  <2>. QED  BY <2>1, <2>2, <2>3
<1>10. s \in Live \/ r # 0
  BY <1>9 DEF PlacesInv
<1>11. r + d + h >= 1 /\ (r + d + h > 1 => s \in halfWritten)
  BY <1>6, <1>9, <1>10
<1>. QED  BY <1>5, <1>8, <1>11

\* No setting whose caller was told that it was recorded is ever lost, and none
\* is there twice but by a write that answered Err after it stored the entry
\* (record_session_write, flush_pending_session_writes): whoever calls, taking
\* turns or not, whichever writes fail, for any settings and bounds.
THEOREM SettingsConservedHolds == HarnessSpec => []SettingsConserved
BY SettingsInit, SettingsNext, Conserved, PTL DEF HarnessSpec

=============================================================================

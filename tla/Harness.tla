------------------------------- MODULE Harness -------------------------------
(***************************************************************************)
(* AgentHarness (grain-agent-harness, agent_harness.rs): an Agent, the     *)
(* session that records what it says, and the calls that change either.    *)
(*                                                                         *)
(* Callers call the harness from tasks of their own; the run is a process  *)
(* too, as its listeners write to the session.  A step of a process is     *)
(* what it does between two awaits.  The Agent is what module Agent shows  *)
(* of it: one run at a time, on a copy that finish_run writes back.        *)
(* Messages and settings are numbered in the order they are created.       *)
(***************************************************************************)
EXTENDS SessionContext, Queue

CONSTANTS
  Callers,
  Run,            \* the run's process
  Kinds,          \* settings there are: "model", "thinking", "tools"
  Calls,          \* calls the callers make
  Batches,        \* how many messages a prompt has
  Keeps,          \* how many recent messages a compaction is asked to keep
  WritesFail,     \* a write to the session may fail, after it stored the entry too
  MaxMessages,    \* bound: messages created
  MaxSettings,    \* bound: settings chosen
  MaxCalls,       \* bound: calls made
  MaxEntries      \* bound: entries of the session

ASSUME HarnessAssumption ==
  /\ Run \notin Callers
  /\ {MaxMessages, MaxSettings, MaxCalls, MaxEntries} \subseteq Nat
  /\ Batches \subseteq Nat \ {0} /\ Keeps \subseteq Nat /\ WritesFail \in BOOLEAN

Processes == Callers \cup {Run}

VARIABLES
  tree,           \* the session's entries
  leaf,           \* the id of its leaf, 0 for none
  running,        \* HarnessInner.running
  pending,        \* HarnessInner.pending_session_writes
  nextTurn,       \* HarnessInner.next_turn_queue
  names,          \* HarnessInner.active_tool_names
  active,         \* the Agent has a run
  messages,       \* the Agent's transcript
  settings,       \* the Agent's settings
  steered,        \* its steering and follow-up queues
  runMessages,    \* the run's copy of the transcript
  runSettings,    \*   and of the settings
  toSay,          \* messages the run injects before its next request
  cancelled,      \* the run's token
  job,            \* what each process is doing
  created,        \* messages created so far
  chosen,         \* settings chosen so far
  made,           \* calls made so far
  accepted,       \* settings whose caller was told they were recorded
  flagLeft,       \* a refused call left running up, for nobody to lower
  halfWritten,    \* settings stored by a write that answered Err
  parted,         \* session and transcript may have parted: a write failed, was
                  \*   overtaken or counted again, or rewriters overlapped
  stuck           \* the last flush met a write that failed

sessionVars == <<tree, leaf>>
innerVars == <<running, pending, nextTurn, names>>
agentVars == <<active, messages, settings, steered>>
runVars == <<runMessages, runSettings, toSay, cancelled>>
boundVars == <<created, chosen, made>>
seenVars == <<accepted, flagLeft, halfWritten, parted, stuck>>
vars == <<sessionVars, innerVars, agentVars, runVars, job, boundVars, seenVars>>

\* A job: where the process stands, what it carries, the entry it appends if
\* any, and the leaf it read for it.
Job(at, arg) == [at |-> at, arg |-> arg, entry |-> <<>>, base |-> {}]
Idle == Job("idle", <<>>)
Writing(at, arg, entry) == [at |-> at, arg |-> arg, entry |-> <<entry>>, base |-> {}]

At(p, at) == job[p].at = at /\ job[p].entry = <<>>
Becomes(p, j) == job' = [job EXCEPT ![p] = j]
Goes(p, at) == Becomes(p, Job(at, job[p].arg))

User(n) == [role |-> "user", id |-> n]
Reply(n) == [role |-> "assistant", id |-> n, calls |-> {}, model |-> runSettings["model"]]
Summary(n) == [role |-> "custom", id |-> n]
Setting(k, n) == [kind |-> "setting", of |-> k, value |-> n]
MessageEntry(m) == [kind |-> "message", msg |-> m]

\* The entries from the root to l, and to the leaf.
BranchAt(entries, l) ==
  LET path == PathsToRoot([e \in DOMAIN entries |-> entries[e].parent], DOMAIN entries)[l]
  IN [i \in DOMAIN path |-> entries[path[i]]]
Branch == BranchAt(tree, leaf)

Init ==
  /\ tree = <<>> /\ leaf = 0
  /\ running = FALSE /\ pending = <<>> /\ nextTurn = <<>> /\ names = 0
  /\ active = FALSE /\ messages = <<>> /\ steered = <<>>
  /\ settings = [k \in Kinds |-> 0] /\ runSettings = settings
  /\ runMessages = <<>> /\ toSay = <<>> /\ cancelled = FALSE
  /\ job = [p \in Processes |-> Idle]
  /\ created = 0 /\ chosen = 0 /\ made = 0
  /\ accepted = {} /\ halfWritten = {} /\ flagLeft = FALSE /\ parted = FALSE /\ stuck = FALSE

-----------------------------------------------------------------------------
(***************************************************************************)
(* Calls                                                                   *)
(***************************************************************************)

Quiet == ~active /\ \A p \in Processes : job[p].at = "idle"
EndsInReply == messages # <<>> /\ messages[Len(messages)].role = "assistant"
CanContinue == messages # <<>> /\ (EndsInReply => steered # <<>>)

\* Nothing keeps callers apart: a call comes whatever else is going on.
Start(c, call, j) ==
  /\ At(c, "idle") /\ call \in Calls
  /\ made < MaxCalls /\ made' = made + 1
  /\ Becomes(c, j)

\* A caller that is about to replace the transcript: beside a run, or beside
\* another such caller, one of the two is lost.
Installs == {"build", "navigated", "compacted"}
Rewrites == Installs \cup {"compact"}
Rewriting(callers) == \E c \in callers : job[c].at \in Rewrites

Create == created < MaxMessages /\ created' = created + 1

CallPrompt(c) ==
  /\ \E n \in Batches :
       /\ created + n <= MaxMessages /\ created' = created + n
       /\ Start(c, "prompt", Job("take", [i \in 1..n |-> User(created + i)]))
  /\ UNCHANGED <<sessionVars, innerVars, agentVars, runVars, chosen, seenVars>>

\* The next-turn messages lead the prompt.
TakeNextTurn(c) ==
  /\ At(c, "take")
  /\ Becomes(c, Job("mark", nextTurn \o job[c].arg))
  /\ nextTurn' = <<>>
  /\ UNCHANGED <<sessionVars, running, pending, names, agentVars, runVars, boundVars, seenVars>>

CallContinue(c) ==
  /\ Start(c, "continue", Job("mark", <<>>))
  /\ UNCHANGED <<sessionVars, innerVars, agentVars, runVars, created, chosen, seenVars>>

MarkRunning(c) ==
  /\ \/ At(c, "mark") /\ Goes(c, "begin")
     \/ At(c, "markCompact") /\ Goes(c, "snapshot")
  /\ running' = TRUE
  /\ UNCHANGED <<sessionVars, pending, nextTurn, names, agentVars, runVars, boundVars, seenVars>>

\* The Agent takes the messages, or what was steered when there are none and
\* the transcript ends in a reply.
BeginRun(c) ==
  LET said == IF job[c].arg = <<>> /\ EndsInReply THEN steered ELSE job[c].arg
  IN /\ At(c, "begin")
     /\ ~active /\ (job[c].arg = <<>> => CanContinue)
     /\ active' = TRUE
     /\ steered' = IF job[c].arg = <<>> /\ EndsInReply THEN <<>> ELSE steered
     /\ runMessages' = messages /\ runSettings' = settings
     /\ toSay' = said /\ cancelled' = FALSE
     /\ job' = [job EXCEPT ![c] = Job("await", <<>>), ![Run] = Job("say", <<>>)]
     /\ parted' = (parted \/ Rewriting(Callers))
     /\ UNCHANGED <<sessionVars, innerVars, messages, settings, boundVars, accepted,
                    flagLeft, halfWritten, stuck>>

\* It refuses: a run is active, or there is nothing to answer.  The flag stays,
\* unless the active run is to lower it, and so does the loss of the next-turn
\* messages.
InTurn == {"say", "turnEnd", "flushTurn", "poll", "agentEnd"}
RunRefused(c) ==
  /\ At(c, "begin")
  /\ active \/ (job[c].arg = <<>> /\ ~CanContinue)
  /\ Becomes(c, Idle)
  /\ flagLeft' = (flagLeft \/ job[Run].at \notin InTurn)
  /\ UNCHANGED <<sessionVars, innerVars, agentVars, runVars, boundVars, accepted, halfWritten, parted, stuck>>

\* The three setters; the tool names change before the write.
CallSet(c) ==
  /\ chosen < MaxSettings /\ chosen' = chosen + 1
  /\ \E k \in Kinds :
       /\ Start(c, "set", Job("check", Setting(k, chosen')))
       /\ names' = IF k = "tools" THEN chosen' ELSE names
  /\ UNCHANGED <<sessionVars, running, pending, nextTurn, agentVars, runVars, created, seenVars>>

\* record_session_write: deferred during a run, written through otherwise.
Defer(c) ==
  /\ pending' = Append(pending, job[c].arg)
  /\ accepted' = accepted \cup {job[c].arg}
  /\ Goes(c, "assign")

WriteThrough(c) ==
  /\ Becomes(c, Writing("set", job[c].arg, job[c].arg))
  /\ UNCHANGED <<pending, accepted>>

RecordSetting(c) ==
  /\ At(c, "check")
  /\ IF running THEN Defer(c) ELSE WriteThrough(c)
  /\ UNCHANGED <<sessionVars, running, nextTurn, names, agentVars, runVars, boundVars,
                 flagLeft, halfWritten, parted, stuck>>

AssignSetting(c) ==
  /\ At(c, "assign")
  /\ settings' = [settings EXCEPT ![job[c].arg.of] = job[c].arg.value]
  /\ Becomes(c, Idle)
  /\ UNCHANGED <<sessionVars, innerVars, active, messages, steered, runVars, boundVars, seenVars>>

CallNextTurn(c) ==
  /\ Create
  /\ Start(c, "nextTurn", Idle)
  /\ nextTurn' = Append(nextTurn, User(created + 1))
  /\ UNCHANGED <<sessionVars, running, pending, names, agentVars, runVars, chosen, seenVars>>

CallSteer(c) ==
  /\ Create
  /\ Start(c, "steer", Idle)
  /\ steered' = Append(steered, User(created + 1))
  /\ UNCHANGED <<sessionVars, innerVars, active, messages, settings, runVars, chosen, seenVars>>

\* Faulty: the third queue is cleared as well.
CallAbortAll(c) ==
  /\ Start(c, "abort", Job("cancel", <<>>))
  /\ steered' = <<>> /\ nextTurn' = <<>>
  /\ UNCHANGED <<sessionVars, running, pending, names, active, messages, settings, runVars,
                 created, chosen, seenVars>>

\* abort: clear the queues, cancel, and wait for the run to settle.
CallAbort(c) ==
  /\ Start(c, "abort", Job("cancel", <<>>))
  /\ steered' = <<>>
  /\ UNCHANGED <<sessionVars, innerVars, active, messages, settings, runVars, created, chosen, seenVars>>

CancelRun(c) ==
  /\ At(c, "cancel")
  /\ cancelled' = (cancelled \/ active)
  /\ Goes(c, "settle")
  /\ UNCHANGED <<sessionVars, innerVars, agentVars, runMessages, runSettings, toSay,
                 boundVars, seenVars>>

AbortSettles(c) ==
  /\ At(c, "settle") /\ ~active
  /\ Becomes(c, Idle)
  /\ UNCHANGED <<sessionVars, innerVars, agentVars, runVars, boundVars, seenVars>>

CallAppendEntry(c) ==
  /\ Start(c, "append", Writing("custom", <<>>, [kind |-> "custom"]))
  /\ UNCHANGED <<sessionVars, innerVars, agentVars, runVars, created, chosen, seenVars>>

\* navigate_tree: the cursor, then the context, then the transcript.
CallNavigate(c) ==
  /\ \E target \in 0..Len(tree) :
       /\ Start(c, "navigate", Job("build", <<>>))
       /\ leaf' = target
  /\ parted' = (parted \/ active \/ Rewriting(Callers))
  /\ UNCHANGED <<tree, innerVars, agentVars, runVars, created, chosen, accepted,
                 flagLeft, halfWritten, stuck>>

BuildContext(c) ==
  /\ At(c, "build")
  /\ Becomes(c, Job("navigated", ContextMessages(Branch)))
  /\ parted' = (active \/ Rewriting(Callers \ {c}))
  /\ UNCHANGED <<sessionVars, innerVars, agentVars, runVars, boundVars, accepted,
                 flagLeft, halfWritten, stuck>>

InstallMessages(c) ==
  /\ \/ At(c, "navigated") /\ Becomes(c, Idle)
     \/ At(c, "compacted") /\ Becomes(c, Job("unmark", <<>>))
  /\ messages' = job[c].arg
  /\ UNCHANGED <<sessionVars, innerVars, active, settings, steered, runVars, boundVars, seenVars>>

CallCompact(c) ==
  /\ \E keep \in Keeps : Start(c, "compact", Job("markCompact", keep))
  /\ UNCHANGED <<sessionVars, innerVars, agentVars, runVars, created, chosen, seenVars>>

\* compact_inner keeps one recent message at least, and cuts at a safe place.
CompactSnapshot(c) ==
  LET keep == Min({Max({job[c].arg, 1}), Len(messages)})
      n == Snap(messages, Len(messages) - keep)
  IN /\ At(c, "snapshot")
     /\ IF messages = <<>> \/ n < 2 THEN Becomes(c, Job("unmark", <<>>))
        ELSE Becomes(c, Job("summarise", [fold |-> n, of |-> messages]))
     /\ UNCHANGED <<sessionVars, innerVars, agentVars, runVars, boundVars, seenVars>>

SummaryArrives(c) ==
  LET cut == job[c].arg
  IN /\ At(c, "summarise")
     /\ Create
     /\ Becomes(c, Writing("compact",
          <<Summary(created + 1)>> \o SubSeq(cut.of, cut.fold + 1, Len(cut.of)),
          [kind |-> "compaction", msg |-> Summary(created + 1),
           first |-> FirstKept(Branch, cut.fold)]))
     /\ parted' = (parted \/ active \/ cut.of # messages \/ Rewriting(Callers))
     /\ UNCHANGED <<sessionVars, innerVars, agentVars, runVars, chosen, made, accepted,
                    flagLeft, halfWritten, stuck>>

SummaryFails(c) ==
  /\ At(c, "summarise")
  /\ Becomes(c, Job("unmark", <<>>))
  /\ UNCHANGED <<sessionVars, innerVars, agentVars, runVars, boundVars, seenVars>>

CompactEnds(c) ==
  /\ At(c, "unmark")
  /\ running' = FALSE
  /\ Becomes(c, Job("flushCompact", <<>>))
  /\ stuck' = FALSE /\ flagLeft' = FALSE
  /\ UNCHANGED <<sessionVars, pending, nextTurn, names, agentVars, runVars, boundVars,
                 accepted, halfWritten, parted>>

-----------------------------------------------------------------------------
(***************************************************************************)
(* The run and its listeners                                               *)
(***************************************************************************)

\* A message is final: it enters the transcripts and the mirror writes it.
Say(m, at) ==
  /\ runMessages' = Append(runMessages, m)
  /\ messages' = Append(messages, m)
  /\ Becomes(Run, Writing(at, <<>>, MessageEntry(m)))

SayNext ==
  /\ At(Run, "say") /\ toSay # <<>>
  /\ Say(Head(toSay), "say")
  /\ toSay' = Tail(toSay)
  /\ UNCHANGED <<sessionVars, innerVars, active, settings, steered, runSettings, cancelled,
                 boundVars, seenVars>>

ModelReplies ==
  /\ At(Run, "say") /\ toSay = <<>>
  /\ Create
  /\ Say(Reply(created + 1), "turnEnd")
  /\ UNCHANGED <<sessionVars, innerVars, active, settings, steered, runSettings, toSay,
                 cancelled, chosen, made, seenVars>>

TurnEnd ==
  /\ At(Run, "turnEnd")
  /\ Goes(Run, "flushTurn")
  /\ stuck' = FALSE
  /\ UNCHANGED <<sessionVars, innerVars, agentVars, runVars, boundVars, accepted,
                 flagLeft, halfWritten, parted>>

\* A cancelled run asks for no more messages.
PollQueues ==
  /\ At(Run, "poll")
  /\ IF steered # <<>> /\ ~cancelled
     THEN toSay' = steered /\ steered' = <<>> /\ Goes(Run, "say")
     ELSE UNCHANGED <<toSay, steered>> /\ Goes(Run, "agentEnd")
  /\ UNCHANGED <<sessionVars, innerVars, active, messages, settings, runMessages, runSettings,
                 cancelled, boundVars, seenVars>>

\* Faulty: the flag drops without a flush.
AgentEndUnflushed ==
  /\ At(Run, "agentEnd")
  /\ running' = FALSE
  /\ Goes(Run, "finish")
  /\ UNCHANGED <<sessionVars, pending, nextTurn, names, agentVars, runVars, boundVars, seenVars>>

AgentEnd ==
  /\ At(Run, "agentEnd")
  /\ running' = FALSE
  /\ Goes(Run, "flushEnd")
  /\ stuck' = FALSE /\ flagLeft' = FALSE
  /\ UNCHANGED <<sessionVars, pending, nextTurn, names, agentVars, runVars, boundVars,
                 accepted, halfWritten, parted>>

\* finish_run: the run's copies become the Agent's state; the caller returns.
FinishRun ==
  /\ At(Run, "finish")
  /\ active' = FALSE
  /\ messages' = runMessages /\ settings' = runSettings
  /\ job' = [p \in Processes |-> IF p = Run \/ job[p].at = "await" THEN Idle ELSE job[p]]
  /\ UNCHANGED <<sessionVars, innerVars, steered, runVars, boundVars, seenVars>>

-----------------------------------------------------------------------------
(***************************************************************************)
(* Writing to the session                                                  *)
(***************************************************************************)

Flushes == {"flushTurn", "flushEnd", "flushCompact"}
AfterFlush == [flushTurn |-> "poll", flushEnd |-> "finish", flushCompact |-> "idle"]

\* flush_pending_session_writes takes the head and writes it without the lock.
FlushNext(p) ==
  /\ job[p].at \in Flushes /\ job[p].entry = <<>> /\ pending # <<>>
  /\ pending' = Tail(pending)
  /\ Becomes(p, Writing(job[p].at, Head(pending), Head(pending)))
  /\ UNCHANGED <<sessionVars, running, nextTurn, names, agentVars, runVars, boundVars, seenVars>>

FlushEnds(p) ==
  /\ job[p].at \in Flushes /\ job[p].entry = <<>> /\ pending = <<>>
  /\ Becomes(p, Job(AfterFlush[job[p].at], <<>>))
  /\ UNCHANGED <<sessionVars, innerVars, agentVars, runVars, boundVars, seenVars>>

\* next_entry reads the leaf, and appends under it in a second step.
ReadLeaf(p) ==
  /\ job[p].entry # <<>> /\ job[p].base = {}
  /\ job' = [job EXCEPT ![p].base = {leaf}]
  /\ UNCHANGED <<sessionVars, innerVars, agentVars, runVars, boundVars, seenVars>>

\* The write answered Ok.
Done(p) ==
  LET at == job[p].at
      to == CASE at = "set" -> "assign" [] at = "compact" -> "compacted"
              [] at = "custom" -> "idle" [] OTHER -> at
  IN /\ Becomes(p, IF to = "idle" THEN Idle ELSE Job(to, job[p].arg))
     /\ accepted' = IF at = "set" THEN accepted \cup {job[p].arg} ELSE accepted
     /\ UNCHANGED <<pending, stuck>>

\* It answered Err: a setter gives up, a compaction goes no further, the mirror
\* goes on, and a flush puts the write back and stops.  Faulty: it drops it.
FailedAndDropped(p) ==
  LET at == job[p].at
  IN /\ Becomes(p, CASE at \in {"set", "custom"} -> Idle
                     [] at = "compact" -> Job("unmark", <<>>)
                     [] at \in Flushes -> Job(AfterFlush[at], <<>>)
                     [] OTHER -> Job(at, <<>>))
     /\ stuck' = (stuck \/ at \in Flushes)
     /\ UNCHANGED <<pending, accepted>>

Failed(p) ==
  LET at == job[p].at
  IN /\ Becomes(p, CASE at \in {"set", "custom"} -> Idle
                     [] at = "compact" -> Job("unmark", <<>>)
                     [] at \in Flushes -> Job(AfterFlush[at], <<>>)
                     [] OTHER -> Job(at, <<>>))
     /\ pending' = IF at \in Flushes THEN <<job[p].arg>> \o pending ELSE pending
     /\ stuck' = (stuck \/ at \in Flushes)
     /\ UNCHANGED accepted

\* An entry with its id and the leaf it was created under.
Placed(id, parent, e) ==
  [f \in {"id", "parent"} \cup DOMAIN e |->
     CASE f = "id" -> id [] f = "parent" -> parent [] OTHER -> e[f]]

Stored(p) ==
  /\ Len(tree) < MaxEntries
  /\ \E parent \in job[p].base : tree' = Append(tree, Placed(Len(tree) + 1, parent, job[p].entry[1]))
  /\ leaf' = Len(tree) + 1

\* The entries of the transcript on the branch at an entry.
Said(l) ==
  LET branch == BranchAt(tree, l)
  IN {branch[i].id : i \in {i \in DOMAIN branch : Contributes(branch[i])}}

\* The leaf that a write was created under has other messages by now.
Overtaken(p) == \E parent \in job[p].base : Said(parent) # Said(leaf)

\* A second compaction counts its first kept entry among entries that the first
\* one took out of the transcript.
Recounts(e) == e.kind = "compaction" /\ CompactionsOf(Branch) # {}

AppendEntry(p) ==
  /\ job[p].base # {}
  /\ Stored(p) /\ Done(p)
  /\ parted' = (parted \/ Overtaken(p) \/ Recounts(job[p].entry[1]))
  /\ UNCHANGED <<running, nextTurn, names, agentVars, runVars, boundVars, flagLeft, halfWritten>>

\* The JSONL storage answers Err before it stored the entry, or after, when only
\* state.json could not be written.
WriteFails(p) ==
  LET kind == job[p].entry[1].kind
  IN /\ WritesFail
     /\ job[p].base # {}
     /\ Failed(p)
     /\ \/ UNCHANGED <<sessionVars, halfWritten>> /\ parted' = (parted \/ kind = "message")
        \/ /\ Stored(p)
           /\ parted' = (parted \/ Overtaken(p) \/ kind = "compaction")
           /\ halfWritten' = IF kind = "setting" THEN halfWritten \cup {job[p].entry[1]}
                             ELSE halfWritten
     /\ UNCHANGED <<running, nextTurn, names, agentVars, runVars, boundVars, flagLeft>>

-----------------------------------------------------------------------------
CallNext(c) ==
  \/ CallPrompt(c) \/ CallContinue(c) \/ CallSet(c) \/ CallNextTurn(c) \/ CallSteer(c)
  \/ CallAbort(c) \/ CallAppendEntry(c) \/ CallNavigate(c) \/ CallCompact(c)

CallStep(c) ==
  \/ TakeNextTurn(c) \/ MarkRunning(c) \/ BeginRun(c) \/ RunRefused(c)
  \/ RecordSetting(c) \/ AssignSetting(c) \/ CancelRun(c) \/ AbortSettles(c)
  \/ BuildContext(c) \/ InstallMessages(c)
  \/ CompactSnapshot(c) \/ SummaryArrives(c) \/ SummaryFails(c) \/ CompactEnds(c)

RunStep == SayNext \/ ModelReplies \/ TurnEnd \/ PollQueues \/ AgentEnd \/ FinishRun

WriteStep(p) == FlushNext(p) \/ FlushEnds(p) \/ ReadLeaf(p) \/ AppendEntry(p)
                \/ WriteFails(p)

Next ==
  \/ \E c \in Callers : CallNext(c) \/ CallStep(c)
  \/ RunStep
  \/ \E p \in Processes : WriteStep(p)

HarnessSpec == Init /\ [][Next]_vars

-----------------------------------------------------------------------------
(***************************************************************************)
(* Properties                                                              *)
(***************************************************************************)

\* Whoever calls, and whatever a run is doing, the session holds what the agent
\* remembers, but for the message just said and what a caller is about to
\* install: reopening it at the leaf rebuilds the transcript message for message,
\* between settings deferred or written through, refused prompts, cancelled runs,
\* compactions and navigation.  It does until a message or a compaction fails to
\* be written, a write is overtaken by another message, a branch is compacted
\* again, or a caller replaces the transcript beside a run or another such
\* caller; and again once the transcript is rebuilt with nothing beside.
Unwritten ==
  IF job[Run].at \in {"say", "turnEnd"} /\ job[Run].entry # <<>>
  THEN <<job[Run].entry[1].msg>> ELSE <<>>
SessionMirrorsAgent ==
  ~parted /\ (\A c \in Callers : job[c].at \notin Installs)
    => messages = ContextMessages(Branch) \o Unwritten

\* A setting whose caller was told it was recorded is not lost, however often
\* its write fails: it is in the session, in the queue or in the hands of one
\* flush.  It is there twice only after a write that answered Err stored it.
Recorded(s) == {i \in DOMAIN tree : tree[i].kind = "setting" /\ tree[i].value = s.value}
Deferred(s) == {i \in DOMAIN pending : pending[i] = s}
InHand(s) == {p \in Processes : job[p].entry = <<s>>}
SettingsConserved ==
  \A s \in accepted :
    LET n == Cardinality(Recorded(s)) + Cardinality(Deferred(s)) + Cardinality(InHand(s))
    IN n >= 1 /\ (n > 1 => s \in halfWritten)

\* A deferred write is not stranded, whoever raises and lowers the flag around
\* it: when all is quiet the queue is empty, unless the last flush met a write
\* that failed, or a call that was refused left the flag up and the next run will
\* flush it.
NoneStranded == Quiet /\ pending # <<>> => stuck \/ (running /\ flagLeft)

\* A next-turn message survives whatever happens before the next prompt, aborts
\* too: it leaves the queue only to lead that prompt, in the order it came.
NextTurnKept ==
  [][nextTurn # <<>> =>
       \/ IsPrefix(nextTurn, nextTurn')
       \/ \E c \in Callers : At(c, "take") /\ job'[c].arg = nextTurn \o job[c].arg]_vars

-----------------------------------------------------------------------------
(***************************************************************************)
(* What comments of the source say and the code does not keep              *)
(***************************************************************************)

\* The flag is up from a prompt's entry to the end of its run, not longer: a
\* refused call leaves it up.
RunningIsHonest == Quiet => ~running

\* Nor shorter: a compaction lowers it during a run, and so does the end of the
\* run before, between a prompt's mark and its beginning.
RunIsMarked == active => running \/ job[Run].at \in {"flushEnd", "finish"}

\* No setting is stored between the first message of a turn and its end: one is
\* once the flag was lowered, or when its call looked at it before the prompt.
TurnsUnbroken ==
  [][job[Run].at \in {"say", "turnEnd"} =>
       \A i \in DOMAIN tree' \ DOMAIN tree : tree'[i].kind # "setting"]_vars

\* Session and agent stay in sync: they part where SessionMirrorsAgent says.
InSync == Quiet => ContextMessages(Branch) = messages

\* Between calls a reopened session has the settings the agent has.
SettingsAgree ==
  Quiet /\ ~stuck => \A k \in Kinds : ContextSetting(Branch, k, 0) = settings[k]

-----------------------------------------------------------------------------
(***************************************************************************)
(* The inductive invariants, for callers of any kind: the jobs             *)
(***************************************************************************)

IsJob(j) ==
  /\ j = [at |-> j.at, arg |-> j.arg, entry |-> j.entry, base |-> j.base]
  /\ j.base # {} => j.entry # <<>>

CallerStages == {"idle", "take", "mark", "begin", "await", "check", "set", "assign", "cancel",
                 "settle", "custom", "build", "navigated", "markCompact", "snapshot",
                 "summarise", "compact", "compacted", "unmark", "flushCompact"}
CallerWrites == {"set", "custom", "compact", "flushCompact"}

Ending == {"flushEnd", "finish"}
RunWrites == {"say", "turnEnd", "flushTurn", "flushEnd"}

JobsInv ==
  /\ job = [p \in Processes |-> job[p]] /\ \A p \in Processes : IsJob(job[p])
  /\ \A c \in Callers : /\ job[c].at \in CallerStages
                        /\ job[c].entry # <<>> => job[c].at \in CallerWrites
  /\ job[Run].at \in {"idle"} \cup InTurn \cup Ending
  /\ job[Run].entry # <<>> => job[Run].at \in RunWrites
  /\ active <=> job[Run].at # "idle"

\* What is queued for the next turn is a sequence.
NextTurnInv == IsQueue(nextTurn) /\ DOMAIN job = Processes

\* The flag is up for somebody who will lower it, or was left up; what is
\* deferred waits for the flag to drop, for a flush, or for a better write.
Raised == {"begin", "snapshot", "summarise", "compact", "compacted", "unmark"}
FlagInv ==
  /\ running => flagLeft \/ job[Run].at \in InTurn \/ \E c \in Callers : job[c].at \in Raised
  /\ pending # <<>> => running \/ stuck \/ \E p \in Processes : job[p].at \in Flushes

-----------------------------------------------------------------------------
(***************************************************************************)
(* Where a recorded setting is, for callers of any kind                    *)
(***************************************************************************)

IsSetting(s) == s = Setting(s.of, s.value) /\ s.value \in 1..chosen

\* Who stores a setting carries it as its argument too; others store no setting.
StoresSettings == {"set"} \cup Flushes
Carries(j) ==
  /\ j.at \in {"idle", "check"} => j.entry = <<>>
  /\ j.at = "set" => j.entry # <<>>
  /\ j.entry # <<>> =>
       IF j.at \in StoresSettings THEN j.entry = <<j.arg>>
       ELSE "kind" \in DOMAIN j.entry[1] /\ j.entry[1].kind # "setting"

\* What a process has in hand: a setting it is about to record, or writes.
Hand(j) ==
  IF j.at = "check" \/ (j.at \in StoresSettings /\ j.entry # <<>>) THEN {j.arg} ELSE {}
Held(p) == Hand(job[p])

HandsInv ==
  /\ chosen \in Nat /\ IsQueue(tree) /\ IsQueue(pending)
  /\ job = [p \in Processes |-> job[p]]
  /\ \A p \in Processes : IsJob(job[p]) /\ Carries(job[p])
  /\ job[Run].at # "idle" => active

\* Nobody holds what is deferred, and nothing is held or deferred twice.
OnceInv ==
  /\ \A p, q \in Processes : Held(p) \cap Held(q) # {} => p = q
  /\ \A i, j \in DOMAIN pending : pending[i] = pending[j] => i = j
  /\ \A p \in Processes, i \in DOMAIN pending : pending[i] \notin Held(p)

Live == {pending[i] : i \in DOMAIN pending} \cup UNION {Held(p) : p \in Processes}

\* Settings are told apart by their values.
ValuesInv ==
  /\ \A s \in Live \cup accepted : IsSetting(s)
  /\ \A s, t \in Live \cup accepted : s.value = t.value => s = t
  /\ \A i \in DOMAIN tree : tree[i].kind = "setting" => tree[i].value \in 1..chosen

\* What is accepted is live or stored, what is not yet accepted is live in one
\* hand, and only a write that answered Err stores what stays live.
PlacesInv ==
  /\ \A s \in accepted : s \in Live \/ Recorded(s) # {}
  /\ \A p \in Processes : job[p].at \in {"check", "set"} => job[p].arg \notin accepted
  /\ \A s \in Live \ halfWritten : Recorded(s) = {}
  /\ \A s \in accepted \ halfWritten : \A i, j \in Recorded(s) : i = j

SettingsInv == HandsInv /\ OnceInv /\ ValuesInv /\ PlacesInv

-----------------------------------------------------------------------------
(***************************************************************************)
(* What the session and the transcript hold                                *)
(***************************************************************************)

\* Replies call no tools here, so that any cut is safe.
IsPlain(m) == m.role \in {"user", "custom"} \/ (m.role = "assistant" /\ m.calls = {})
Plain(s) == IsQueue(s) /\ \A i \in DOMAIN s : IsPlain(s[i])

HasMessage(e) == e.kind \in {"message", "compaction"}
IsEntry(e) ==
  /\ "kind" \in DOMAIN e /\ e.kind \in {"message", "setting", "custom", "compaction"}
  /\ HasMessage(e) => "msg" \in DOMAIN e /\ IsPlain(e.msg)
  /\ e.kind = "compaction" => "first" \in DOMAIN e

\* An entry is found under its place, and after its parent.
IsTree(entries) ==
  /\ IsQueue(entries)
  /\ \A i \in DOMAIN entries : /\ IsEntry(entries[i]) /\ entries[i].id = i
                               /\ entries[i].parent \in 0..(i - 1)

\* What a process carries: transcripts or parts of one are plain, a compaction
\* folds n messages and not all, and what is written has its place, under an
\* entry that there is.
CarriesPlain == {"take", "mark", "begin", "navigated", "compact", "compacted"}
Folds(n, s) == n \in Nat /\ n < Len(s)
IsSound(j) ==
  /\ j.at \in CarriesPlain => Plain(j.arg)
  /\ j.at \in {"markCompact", "snapshot"} => j.arg \in Nat
  /\ j.at = "summarise" => Plain(j.arg.of) /\ Folds(j.arg.fold, j.arg.of)
  /\ j.entry # <<>> =>
       /\ IsEntry(j.entry[1])
       /\ j.entry[1].kind = "message" <=> j.at \in {"say", "turnEnd"}
       /\ j.entry[1].kind = "compaction" <=> j.at = "compact"
       /\ j.base \subseteq 0..Len(tree)
AllPlain == \A s \in {messages, runMessages, toSay, steered, nextTurn} : Plain(s)
SoundInv ==
  /\ IsTree(tree) /\ leaf \in 0..Len(tree)
  /\ AllPlain
  /\ \A p \in Processes : IsSound(job[p])

\* Two entries with the same messages on their branches show the same context,
\* and a compaction under one keeps what it would keep under the other.
ContextAt(l) == ContextMessages(BranchAt(tree, l))
KeptIds(branch, n) == {branch[k].id : k \in Positions(branch, n)}
Alike(x, y) ==
  /\ ContextMessages(x) = ContextMessages(y)
  /\ CompactionsOf(x) = {} <=> CompactionsOf(y) = {}
  /\ \A n \in Nat : KeptIds(x, n) = KeptIds(y, n)
AlikeInv ==
  \A l, k \in 0..Len(tree) :
    Said(l) = Said(k) => Alike(BranchAt(tree, l), BranchAt(tree, k))

\* The cut of a compaction that is being written.
CompactsWell(j) ==
  j.at = "compact" =>
    /\ j.entry # <<>>
    /\ \E n \in Nat :
         /\ Folds(n, messages)
         /\ CompactionsOf(Branch) = {} => KeptIds(Branch, n) = {j.entry[1].first}
         /\ j.arg = <<j.entry[1].msg>> \o SubSeq(messages, n + 1, Len(messages))

\* While the two have not parted, rewriting excludes runs and other rewriting,
\* the run's copy is the transcript, what is compacted or installed is what the
\* session shows, and so is the transcript but for the message being written.
AloneInv ==
  \A c \in Callers : job[c].at \in Rewrites => ~active /\ ~Rewriting(Callers \ {c})
MirrorsInv ==
  ~parted =>
    /\ AloneInv
    /\ active => runMessages = messages
    /\ (\A c \in Callers : job[c].at \notin Installs) => messages = ContextAt(leaf) \o Unwritten
    /\ \A c \in Callers : /\ CompactsWell(job[c])
                          /\ job[c].at \in {"navigated", "compacted"} => job[c].arg = ContextAt(leaf)

MirrorInv == SoundInv /\ AlikeInv /\ MirrorsInv
=============================================================================

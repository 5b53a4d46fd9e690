# A verification of the grain agent in TLA+

This directory models the parts of the grain agent that decide whether a conversation
survives: the loop that talks to the model and runs tools, the `Agent` several tasks call at
once, the harness that records it, the session on disk, what is done to keep a transcript inside
a context window, the two routes by which a provider's answer becomes events, the terminal's
screen, worker and pickers, and the thread that runs scripts. TLC checks the models on small
instances; TLAPS proves the invariants that matter most for every value of their constants.

| Module | Source | What it is |
|---|---|---|
| `AgentLoop` | `grain-agent-core/src/agent_loop.rs` | one run of the loop, its tools, queues and event sink |
| `Conversation` | (abstract) | what such a run promises about the transcript |
| `Agent` | `grain-agent-core/src/agent.rs` | callers that race to run, steer, await and reset; extends `AgentLoop` |
| `JsonlSession` | `grain-agent-harness/src/session_jsonl.rs`, `session.rs` | a session on disk, the tasks that append to it, stops and restarts |
| `SessionTree` | (abstract) | what session storage promises its users |
| `SessionContext` | `session.rs`, `compaction.rs` | operators: from a branch of the tree to messages, cut points |
| `ContextWindow` | `compaction.rs`, `context_guard.rs`, `retry_overflow.rs`, `escalation.rs`, `session.rs` | a session kept inside a model's window |
| `Harness` | `agent_harness.rs` | prompts, settings, deferred writes, navigation and compaction around runs |
| `Terminal` | `grain-ai-agent-tui/src/app.rs`, `agent_worker.rs`, `grain-ai-agent-headless/src/session_discovery.rs` | screen, worker, prompt tasks and runs while sessions are replaced |
| `Pickers` | `app.rs`, `agent_worker.rs`, `grain-llm-genai/src/oauth.rs` | overlays that ask the worker for something, and logins |
| `InputLine` | `app.rs` | the line being edited, with its history and palette |
| `ProjectMemory` | `grain-ai-agent-headless/src/memory.rs` | a refresh of the project's memory, with stops and sessions that change meanwhile |
| `StreamProtocol` | (abstract) | what a stream of a provider promises the loop |
| `StreamEvents` | `grain-llm-genai/src/anthropic/state.rs`, `mapping/inbound.rs` | what the two assemblers share |
| `AnthropicTransport` | `anthropic/wire.rs`, `state.rs`, `stream.rs` | bytes to frames to events |
| `InboundStream` | `mapping/inbound.rs`, `stream.rs` | genai's events to loop events |
| `ProviderStream` | `stream.rs` | the choice of the route; composes the two |
| `ScriptWorker` | `grain-script-boa/src/worker.rs`, `extension.rs` | the thread scripts run on, and who calls it |
| `Queue` | (shared) | what a queue between two tasks is, for the proofs |
| `AgentProofs`, `StreamProofs`, `ContextProofs`, `HarnessProofs`, `TerminalProofs`, `ScreenProofs`, `ProjectMemoryProofs` | | theorems and their lemmas |
| `Lemmas` | (shared) | lemmas about queues, numbers, induction and what a branch shows, which the proofs share |
| `MC...` | | instances and symmetry for the runs |

## Inventory

**Agent loop** (`agent_loop.rs`). State: the context sent to the model, the messages of this run,
the pending messages taken from the queues, the reply being assembled. It asks the model, runs
the tools of the reply one after the other or concurrently, polls the steering queue between
turns and the follow-up queue when it would stop, and calls hooks. It talks to its surroundings
through an event sink, a cancellation token and callbacks. Hard: parallel tools with update
callbacks, cancellation at any await, truncated and failed replies, contexts replaced by a hook.
Correct when calls and results stay paired and ordered, the context, the reported messages and
the transcript kept from events agree, messages are neither lost nor repeated, and a run ends.

**Agent** (`agent.rs`). State behind one mutex: transcript, settings, both queues, the active run
with its token and its done channel. Any task may call it. Hard: a run is begun, its context and
its configuration are read and its end is recorded under separate acquisitions of the mutex.
Correct when there is one run at a time, nothing submitted is lost, waiters return after the end
of their run is recorded, and changes made during a run survive it.

**Session** (`session.rs`, `session_jsonl.rs`). A tree of entries with a cursor, kept in an
append-only file and a small state file; `Session` clones share one storage. Hard: stops in the
middle of a write or between the two files, tasks that append concurrently, navigation, forks.
Correct when what was acknowledged is found again, every entry can be traced to the root, and
memory and disk tell the same story.

**Harness** (`agent_harness.rs`). Owns an `Agent` and a `Session`: mirrors finished messages into
the session, defers settings while a run is in flight, keeps a next-turn queue, compacts and
navigates. Hard: its `running` flag and the agent's active run are two truths; a deferred write may
fail after its entry was stored, two flushes may work at once, and nothing keeps a compaction or a
navigation away from a run. Correct when session and agent tell the same conversation and no recorded
setting is lost.

**Compaction and the stream decorators** (`compaction.rs`, `context_guard.rs`,
`retry_overflow.rs`, `escalation.rs`). Functions from one transcript to another, chained around each
request and after each turn, with counters that decide when to act; the session records a
compaction as an entry that names the first entry it keeps. Hard: indices into three different
lists (the branch, the transcript, the request), repeated compactions, failed writes, reopening.
Correct when no call is parted from its result and nothing remembered is forgotten by reopening.

**Provider clients** (`grain-llm-genai`). The native Anthropic transport decodes bytes, assembles
blocks and decides how a message ends; the bridge does the same from genai's events. Hard: chunks
cut anywhere, interleaved blocks, arguments that grow after their block was closed, signatures
that arrive early or late, cut connections and cancellation. Correct when the loop sees a
well-formed stream whose message is what the provider said.

**Terminal** (`grain-ai-agent-tui`). The screen turns keys into commands and events into state; the
worker serves the commands one after the other and replaces the harness on clear, resume and
delete; prompts run in tasks of their own; lists, widgets and logins come back whenever they are
ready. Hard: everything the screen knows is as old as the queue is long. Correct when spinners
stop, confirmations hit what was confirmed, and the screen shows what the worker uses.

**Script engines** (`grain-script-boa`, with `grain-pi-compat` above it). One thread owns the
JavaScript context and serves one queue; a modal blocks it until the host answers. Hard: calls,
answers and the shutdown queued behind a blocked thread. Correct when every call returns.

**OAuth tokens** (`oauth.rs`). A login opens a browser and waits for a redirect; tokens are kept in a
file per profile and refreshed on demand. The login is part of `Pickers`.

**Project memory** (`memory.rs`). A refresh reads its own files, then every session directory, and rewrites
four files, each under a temporary name first; it runs when the terminal boots and on a command. Hard:
four files that belong together, records reused for sessions taken for unchanged, refreshes that overlap.
Correct when the files tell the same, and what was said and is not superseded is found in them.

**The rest**: configuration and start-up of the headless shell, hooks and dynamic tools, built-in
tools, plugins, Rhai and WASM hosts, model catalogue, DeepSeek pack. `PROJECT.json` says of each why
it is left out.

How they interact: the terminal's worker calls the harness, the harness the agent; the loop runs
in the task that called the agent, calls the stream, the tools and the hooks, and emits events that
the agent applies to its state under its mutex and passes to listeners: the harness's mirror of the
session, and the terminal's queue to the screen.

## The models

### AgentLoop and Conversation

`pc` names the await point the loop task has reached. One action is what the task does between
two such points, together with what the event sink does to the agent's state (`transcript`,
`streaming`, `pendingCalls`) for the events emitted there. Tool futures and update callbacks are
processes of their own: `slot[c]` is where call `c` stands, `accepting[c]` and `inflight[c]` are
the update latch (`UpdateEventState`) and the update events that were accepted but not delivered.

| Code | Actions |
|---|---|
| `run_agent_loop`, `run_agent_loop_continue` | `Start` (`StartPrompt`, `StartContinue`) |
| polling and injecting in `run_loop` | `PollSteering`, `Inject`, `PollFollowUp` |
| `stream_assistant_response` | `Request`, `StreamStart`, `StreamDone` |
| the reply's fate in `run_loop` | `ErrorEnd`, `NoCalls`, `StartBatch`, `CommitBatch`, `PrepareNextTurn`, `ShouldStop` |
| `execute_sequential`, `execute_parallel`, `fail_truncated` | `StartCall`, `FailCall`, `Prepare`, `CheckCancel`, `CollectBatch`, `EmitNext`, `EmitEnd` |
| `execute_prepared` and its update callback | `Execute`, `OnUpdate`, `DeliverUpdate`, `Settle`, `FinishCall` |
| `Agent::steer`, `follow_up`, `abort` | `Steer`, `FollowUp`, `Abort` |

A message is reduced to its role and what pairs it: a user message to its identity, a reply to
its turn, stop reason and number of calls, a result to its turn, call and error flag. Whether
arguments validate, a tool exists, a hook blocks or a tool fails is a choice. `tool_use` takes the
path of `stop` and `aborted` that of `error`, as in the code.

`PrepareNextTurn` is the chain of hooks as `agent_worker.rs:532` builds it: `Shortened` takes the middle out of
results that are too long (which ones are is a constant, `Long`), `Foldings` puts a summary in the place of what
a compaction policy chooses (`Cuts`; sizes are left out, so that it may choose any number of messages), and
`Additions` appends a remark, the user message of a configured rule, script or plugin. Each may do nothing, and a
cancelled run is not compacted. A remark is in the context only: no event announces it, so that neither the
session nor `AgentEnd` has it, and `finish_run` makes it part of the agent's transcript. `ContextWindow`, which
counts the entries of the session, does not model remarks.

Both `PairedAtRequest` and `Conversation` except runs that were cancelled: a cancellation breaks out of a batch
and leaves its calls unanswered, as the code does (`agent_loop.rs:931`).

`Conversation` is the abstract protocol: the transcript grows by user messages, replies and
results; a reply with calls *owes* their results in order; nothing else is said while something is
owed; and what is owed may be abandoned only when the run was cancelled or the reply failed.
`AgentLoop` maps `owed` to the calls of the current reply whose result has not been announced.

### Agent

Extends `AgentLoop` and drives its state over many runs. `call[c]` is where caller `c` stands
between the acquisitions of the mutex: `continue_` decides and drains (`Continue`), `begin_run`
(`BeginRun`, or `Refuse` when another run is active), `snapshot_context`, `build_loop_config`,
the loop, `finish_run` (`FailRun`, `FinishRun`) and its done channel (`SettleRun`). Other tasks
set, reset, rewrite, drain and abort at any time. One `setting` stands for the model and the
thinking level. Messages handed back by a refused `prompt` or by `take_*_queue` may be submitted
again, so that conservation of messages can be stated over unbounded behaviours.

### SessionTree and JsonlSession

`JsonlSession` keeps the file line by line, the flag `torn` for bytes without a newline, the
state file's cursor and the memory of the process. `append_entry` writes the line, then updates
the memory, then writes the state file, under one mutex; creating the entry (`next_entry`) reads
the cursor under an earlier acquisition. `Stop` may happen anywhere and may leave part of a line;
`AppendFails` and `PersistFails` are the two writes that may fail, the first one part of the way
when `ShortWrites`. `Open` truncates at the last newline, reads the lines and recovers the cursor,
as `open_or_init` does. `Fork` computes the entries to copy and copies them one by one.

`SessionTree` is what users of a session may rely on: a tree that only grows, entries that keep
their parents, a cursor in the tree, acknowledged entries stored. The refinement maps the tree to
the readable lines of the file. What is written is taken to survive: the model stops processes,
not machines, since the code never asks the operating system to flush.

### SessionContext and ContextWindow

`SessionContext` has no state: `ContextMessages` is `build_session_context`, `SafeCut` and `Snap` are
the cut points of `compaction.rs`, `FirstKept` is `first_kept_context_entry_id` with its count of the
entries that contribute a message. `Harness`, `ContextWindow` and `JsonlSession` use them.

`ContextWindow` is one session: `branch` (what is stored), `messages` (what the agent remembers),
`request` (what is sent), and the phase of the turn. A message is worth its size in tokens. `Guarded`
is the guard's trimming, after which the results whose call was trimmed go too (`PairedUpTo`);
`RetryOnOverflow` drops the oldest message, a reply with the results that follow it, and tries again,
down to `MinMessages`; `ToolAnswers`, the truncation of results, `Escalates` and the two halves of a
compaction (`StartCompaction` takes its snapshot and asks for a summary, `SummaryArrives` rebuilds
transcript and session) run in the order in which `agent_worker.rs` chains the hooks. `Resume` opens
the session again.

### Harness

`job[p]` is what process `p`, a caller or the run, does next: each step is what happens between two
awaits. The agent is reduced to what `Agent` shows of it: a run works on a copy of transcript and
settings and writes it back at its end. Every write to the session goes through `ReadLeaf` and
`AppendEntry`, may fail (`WriteFails`), and may have stored its entry when it does. `FlushNext`,
`AfterFlush` and `FlushEnds` are `flush_pending_session_writes`, which a run's end, a turn's end and the
end of a `compact` may run at the same time.

Nothing keeps the callers apart, as nothing does in the code: the terminal spawns a prompt in a task of its
own whatever is running (`agent_worker.rs:2304`), serves `/compact` during a run (`:2828`), and sets the
model between the spawn of a prompt and its mark (`:3024`). A prompt, a setter, a navigation or a compaction
may therefore come between any two steps of another, or of a run. `parted` remembers, until the transcript is
rebuilt from the session with nothing beside, what makes session and agent part: a message or a compaction
was not written; a write was *overtaken*, its leaf read before another message was appended; a branch was
compacted a second time (`Recounts`: the second compaction counts its first kept entry among entries that the
first one took out of the transcript); or a caller replaced the transcript beside a run or beside another such
caller. `flagLeft` remembers that a refused call left the flag up. The last two are what the code does, not what
its comments say (see *Found*).

`begin_run` and the run's snapshot, two acquisitions in `Agent`, are one step here. A prompt has at least one
message. The harness's own part of `prepare_next_turn` (`agent_harness.rs:672`) renders the system prompt and
touches neither transcript nor session; the hooks it calls are the subject of `AgentLoop` and `ContextWindow`.

### Terminal

Two queues, `commands` and `events`, between the screen (keys and events: `app.rs`), and the worker
(`run_command_loop`), which waits inside a command for a run, a prompt task or a summary to end
(`ReplacesUnchecked`, `Settle`). `run[h]` is the run of harness `h`; a prompt task may begin late
(`PromptBegins`) and on a harness that was replaced since. `dirs` are the session directories; the
picker's rows are a listing of an earlier moment, with the focus that `Refill` puts back and the armed
row that a second Delete fires on.

### Pickers

The overlays that ask the worker for something and show what comes back. One action per overlay key,
per event that opens, fills or leaves an overlay alone, and per command of the worker; fetched lists
of models and plugin widgets are tasks of their own, and the worker awaits a login step by step: a
port, a redirect, the request, the exchange of the code. A model is named by the profile that offers
it.

### InputLine

One action per key. The cursor and the two ends of an injected skill are byte offsets into the text, as in
the code, with characters of one and two bytes; `ShiftAfterInsert`, `ShiftAfterDelete` and `DeleteToken` are
the functions that keep a skill where its label is; the skills, a list in the code of which there is never more
than one (`TokenHoldsLabel`), are a set. `recall` is the place in the history, `draft` the line
put aside. The palette (`Matches`) takes keys from the history while it is shown; its focus is on any item.
`written`, which the code does not have, is the line as the user wrote it last. Home and End never reach the
line: they scroll the transcript before (`app.rs:2851`).

### ProjectMemory

`job[r]` is a refresh between two accesses to the disk: the state, the records, for each session its entries
and then its leaf, and for each of the four files its creation, its text and its renaming. Files are inodes,
because what one refresh writes under the temporary name another may have renamed meanwhile
(`Overlaid`, `Rename`). A session is its leaf and the entries made so far; it may grow, go to another branch
or be deleted between any two reads, and its files may not be readable (`SkipSession`). Whether an entry
holds something worth a record, and what, is a choice. `Summarised` is what `memory_summary.md` takes of the
records: the youngest of each category up to its cap (12, 12 and 10 in the code), category after category
until its room (8 KiB) ends. Every record takes a line of the same length, and the line that is cut in
half counts as gone.

### The provider's stream

`AnthropicTransport` sends frames as bytes - an event line, a data line with one character of two
bytes, an empty line, in any newline style. The frames and the style determine which byte is number `p`
(`Layout`, `Byte`), so `net` keeps only how many bytes there are (`bytes`) and how many came (`came`);
`Receive` takes any number of them as one chunk, and a body that is cut (`ServerCloses`) has fewer.
`PushBytes` is the decoder: `DecodeAvailable` keeps the head of a cut character, `Absorb` remembers a CR at the
end of a chunk, `TakeFrames` cuts at the empty lines. They go over their input as the loops of the code
do, as recursive functions of how far they got. `OnFrame` is the assembler; `BodyEnds`, `ReceiveFails` and `CancelNative` are the ways a message ends.
`InboundStream` delivers genai's events; `OnToolCall` refreshes a closed block, `AttachSignature` puts a
signature where the code does, `FlushPending` keeps one that nothing followed. Both assemblers fill
`out`, which `YieldEvent` hands to the consumer one by one. `StreamProtocol` is the contract: one start,
blocks opened, extended while open and closed, one terminal event; a failing stream of the *lenient*
bridge may end with a block open. The specification is `StreamSpec` (of `StreamInit` and `StreamNext`),
because `StreamProofs` extends `JsonlSession` as well.

### ScriptWorker

`queue` holds the commands, `worker` what the thread does. The extension is built (`Load`, `Open`), lends
itself to callers, and is dropped (`Drop`, `Joined`); tools keep a sender of their own. A script that
asks (`Ask`) waits in `modal` until an answer with its request arrives (`Fits`, `Hear`); the host drains
the requests and answers them, at most once, late, or with another request's number. What a script
computes is left out.

## The runs

| Run | Shows |
|---|---|
| `loop` | batches in every mode, updates, cancellation, truncated replies, a context that hooks shorten, fold and add to: updates stay inside their call, nothing outlives its turn, requests are paired, the transcript, the reported messages and the context agree but for what a summary replaced, queued messages are conserved; the loop implements `Conversation` |
| `agent_runs` | one run at a time; no end of a run forgets what it or an earlier one said; waiters leave after the recorded end, calls that got their run and waiters return, with resets and replaced transcripts under way |
| `agent_lost` | *violation*: `continue_` loses drained messages to a racing caller |
| `jsonl_safety` | durability and rooted forks under stops anywhere; the files implement `SessionTree` |
| `context` | reopening forgets nothing the agent remembers, cuts and trims keep calls with their results, the newest prompt is sent |
| `harness` | callers that take no turns: reopening the session rebuilds what the agent remembers, unless something has parted the two since the transcript was last rebuilt; settings recorded during runs are neither lost nor stranded, whichever writes fail; next-turn messages survive aborts |
| `terminal` | the spinner has a run behind it, a confirmed deletion hits the session that was confirmed and never the one in use, the worker gets to every command |
| `provider` | both routes implement `StreamProtocol`; what the loop is told is what was sent, whatever the cuts; arguments and signatures are complete |
| `script` | every call of a script returns, unless the thread waits for an answer nobody can give any more |
| `pickers` | a login shown as running has one behind it and ends, header and guard follow the worker's model |
| `input_line` | cursor and skill stay on their characters through every edit, recall and completion; the text put aside for the history comes back |
| `memory` | records are reused only for sessions that are where they were extracted, whatever sessions do meanwhile; a complete refresh settles what stopped ones left; while sessions only grow, nothing said is missing from `project_memory.md`, nor from `memory_summary.md` unless that is full, or full of the category |

**Bounds** (the constants of each `.cfg`; every bound is a guard of the actions it limits).

* `loop`: two calls per reply are enough for tools to finish out of order, for a cancellation to fall
  between them and for one to be refused while the other runs; one undelivered update per call is
  enough for it to race the end of the call; three replies allow a batch, a turn after it and an end;
  three messages give a queue with something left behind under either drain policy (steering drains
  all, follow-ups one at a time). One context is replaced per run; of each batch the first result is too long to
  stay, and a summary folds any two or more messages up to a safe boundary. The last reply a model is asked for is an error, so that a run can
  end within the bound.
* `agent_*`: two callers are enough for every race of two critical sections; a third one waits while
  two race. `agent_runs` has one message, which may be prompted, steered or continued with, one call in
  either mode and resets: the message of a run that was aborted is what the next run starts from. How
  several messages share the queues is the subject of `loop`. `agent_lost` needs two messages and no calls.
* `jsonl_safety`: four entries of two tasks, with stops anywhere, allow an entry created before a stop,
  one torn by it and one appended after a recovery, each from either side of a navigation. `ShortWrites` is
  off: what a failed write leaves behind breaks durability (see *Found*).
* `context`: a window of eight tokens with results of one and of four makes the guard trim, the
  truncation bite and the compaction trigger at its threshold of half a window; eight messages allow a
  second compaction after the first, both of which may fail to be written. Two calls per reply put a
  cut between two results of one reply.
* `harness`: three calls by two callers allow a prompt, a setting during its run and a compaction beside
  either, or a call that is refused and two that meet what it left behind; five messages are a prompt of one
  or two with its turns and a summary, of which a compaction is asked to keep none or two; two settings give two
  deferred writes, of which either may fail, and two flushes that hold one each.
* `terminal`: three commands allow a prompt, something that replaces its harness, and a command that is
  queued behind it; four sessions leave a listing in which one was deleted and one created since.
* `provider`: six frames are two blocks and their end, or one block that grows beside another; genai's
  five events are a call that is refreshed after another one came in between, with a signature; chunks
  have any length, and the one byte of earlier frames that may be under way when the next frame is sent lets
  a chunk hold the end of one frame and any part of the next. CR and CR LF are the two styles in which a cut can make or hide an empty line; LF alone is
  a part of the second.
* `script`: two callers are one that is served and one queued behind; two modals and one answer leave a
  modal without its answer, and an answer to the modal before.
* `pickers`: one vendor with a login, two profiles that share the compatible protocol; three commands
  give a login or a fetch that is superseded twice.
* `input_line`: two characters besides a skill's label put one on either side of it or of the cursor, and give a
  file reference, a prefix of a command and a word; a history of two, refilled with three prompts, is at its
  limit; one submission on top drops the oldest.
* `memory`: two sessions can hide each other's texts; three entries give a session that changed and one that
  did not, and two branches of the same length; of two refreshes one fills the files or is stopped, and one
  believes what it finds. The summary takes one of the two texts. Neither a summary out of room nor the limit
  on records is reached in the run: what they leave out is proved (`LeftOut`, `Capped`).

Callers, writers and messages are interchangeable in the runs that declare `SYMMETRY`; no run with a
liveness property declares it. Deadlock is checked except in `harness`, `terminal`, `provider`, `script`,
`pickers` and `memory`, where the system stops: a bound is reached or a stream has ended, and nothing is left
to do.

**Fairness.**

* `agent_runs`: the runtime polls a task that can make progress, so the loop's own steps, each tool
  future, each accepted update and the steps of a call that was begun are weakly fair. Streams and
  tools are assumed to answer: the loop has no timeout of its own. Nothing is assumed of callers, of
  steering or of cancellation.
* `terminal`: the worker's command loop, the screen's event loop and the steps of each run. Keys are
  not fair: nobody has to press one.
* `script`: the construction of the extension, the worker thread, the join, and the host: while it holds
  the extension it drains the requests and answers the modal it shows. The `Orphaned` case of
  `CallsReturn` is where the code itself leaves nobody to answer.
* `pickers`: the screen and the worker. A user may never follow the login's link, and the five minutes of
  the code are a step of the worker; but whoever connects to the local port sends a line, and the
  vendor answers.

## What is proved

Each theorem holds for every value of the constants their assumptions allow; those named below are
listed in `PROJECT.json`.

**`AgentProofs`, about `AgentLoop`**, for any number of messages, calls, turns, updates and rewrites:

* `InvHolds`: `Inv` is inductive. Beyond the types it says, for every call, which of its slots are
  possible at each `pc` and mode (`SlotInv`), how many results have been announced (`EmitInv`),
  and that `accepting` and `inflight` follow from the slots (`CallsInv`). Types alone
  are not inductive: that a tool's end finds a batch in the mode that started it, and that an index
  stays within the reply's calls, needs all of these. That `pendingCalls` follows from the slots too
  (`ShownInv`) is a lemma of its own, since a reset of the agent clears it in the middle of a batch.
* `TypeCorrect`, `UpdatesScopedHolds` and `TurnsAreClosedHolds` follow from these.
* `LoopImplementsConversation`: each action maps to a step of `Conversation` or leaves it alone. The
  argument is about `Owed`: announcing a result removes its head, and a batch ends with something
  owed only if it was cancelled and not truncated (`BatchInv`).
* `MessagesConservedHolds`: each step takes a message from one place and puts it in one other, which the
  lemmas about `Occurrences` count. It needs `PendingInv`: a run that begins finds nothing drained and
  not yet injected, or it would be dropped.
* `AccountsAgreeHolds`: with `AccountsInv`, the transcript always ends with what the run has said, and the
  context recalls it: cleared of summary and remarks, its messages are the transcript's from the end on, each in
  its place and but for its length the same, and they are all of it unless a summary is in front. A reply still
  streaming is left out of the context, and the results that are announced and not yet committed are added to
  both; between turns nothing is left out or added. That shortening, folding and adding keep this, one upon
  the other and upon earlier summaries, is a count of what was said behind each message (`Behind`).
* `PairedAtRequestHolds`, for `TokenBudgetPolicy`, which moves its cuts to safe places; `MessageCountPolicy` does
  not (see *Found*). With `PairInv`, the context is paired without its last message while that is a
  reply still streaming or not yet answered. That a commit pairs it rests on `BatchInv` and `EmitInv`: only a
  cancelled batch ends before its last call, and all its results are announced.
* `TruncatedIsAnsweredHolds`: with `ReplyInv`, the reply of the turn is the last message of the context until
  its results are committed, and a truncated batch has no outcome but failures.

**`AgentProofs`, about `Agent`**, for any number of callers, runs, messages and settings:

* `RunInvHolds`: `RunInv` is inductive. `SingleRun` alone is not: that a caller who begins a run finds
  no other driver needs the caller's stage to determine whether it drives; that the loop moves away
  from `idle` only for the driver needs that no tool call outlives its batch (a settling call moves
  `pc` whatever it is); and that a waiter's run is not the active one once it is in `settled` needs
  `SettleRun` to come after `FinishRun`, which `BoundTo` says.
* `SingleRunHolds` and `WaitersSeeTheEndHolds` follow.
* `LoopInvInRuns`: `Inv` holds in every run of an agent, not only in a loop that runs alone, whatever
  callers do to the queues, the transcript and the cancellation meanwhile.
* `MessagesKeptHolds`, an action property, under the hypothesis `MaxRewrites = 0` that its run has too: when
  a hook has cut the context of a run, the end of that run makes the cut context the transcript. `Count` is
  not inductive, because `finish_run` replaces the transcript by the loop's context. `OnceInv` therefore
  also counts, where a caller stands between its snapshot and the end of its run, the log that is going to
  be the transcript: the snapshot while the configuration is read, and then the context without a reply
  that is streaming. Each of these has whatever the transcript has (a reset may have taken something from the
  transcript, never from them), and none of it is anywhere else. That a run which sets up finds no other
  in the loop is `SingleRun`; that what a caller holds belongs to no run yet is `HoldInv`.

**`StreamProofs`, about `JsonlSession`**, for any number of tasks and entries, under the hypothesis that a write that fails
leaves no bytes behind (`~ShortWrites`; it cannot be dropped, see *Found*):

* `SessionInvHolds`: each task's entry is followed from its creation to its line. An entry about to be
  appended is new, differs from every other task's, and hangs from a stored one; the lock's holder
  is the task that has yet to write the state file; while a process lives the file has no torn end.
* `DurableHolds`, `MemoryIsFileHolds`, `RootedHolds` follow; `SessionImplementsTree` maps each step to
  a step of `SessionTree`.
* `ForkRootedHolds`: whatever entry a fork begins at, the copy it makes has the root and every ancestor. With
  `BranchInv`, an entry is created after its parent and stands behind it in the file and in the copy; the walk
  to the root and the reading of the lines are recursive functions, and what they return follows by
  induction over numbers (`Induction` of `Lemmas`).

**`StreamProofs`, about `ProviderStream`**, for any number of frames, blocks, chunks, calls and snapshots, any
newline style, any cuts and any end of a stream:

* `ImplementsProtocolHolds`: what the consumer may be told next depends on what it was told, but the assemblers
  run ahead of it. `Legal` says of a list of events that each may come after those before it, and is an
  invariant of `told \o out`, the told events with those still to be told. Going on, the list is a `Story` of
  the message: as many blocks were opened as it has, and those it holds for open are open in the list
  (`Tells`). Only `Yield` is a step of the protocol, and a legal one because its event stands in a legal list.
* `ArgumentsCompleteHolds` and `SignaturesKeptHolds`: with `InboundInv`. A block of a call belongs to one call
  (`WellBuilt`); each call's block has the last arguments delivered (`Arguments`); each signature has one place
  (`Kept`), and is pending only while the message goes on. The equality of the *set* of signatures would
  not be inductive without the places being apart, since a flush moves several at once.
* `DeliversTheWireHolds`: with `WireInv`. `DecodedTo` says what the decoder holds once `p` bytes came, and
  chunks do not occur in it: that is what makes the cuts harmless. The text of `p` bytes are its first
  `LettersIn(p)` letters, a CR LF being one letter, of which `Text(5 * FramesIn(p), LettersIn(p))` is still
  in the buffer. That `Absorb` and `TakeFrames` lead from `DecodedTo(p)` to `DecodedTo(p + n)`, for any `n`,
  unfolds their recursive functions by induction over numbers (`AbsorbRuns`, `TakeRuns`), as does what
  the assembler makes of the frames of one chunk (`FramesRun`) and of blocks left open (`DanglingRuns`).
  `SentInv` says what a server sends (`FrameOk`); `Live` and `Finished` say what the message is after the first
  `n` of the frames, going on and over, block by block and piece by piece (`Spelled`). The two numbers that
  `n` may be, the frames cut off by their empty line (`Heard`) and those whose text is whole (`Read`), differ
  by one at most, which is the frame the property excepts: `BodyEnds` flushes it, an error or a
  cancellation loses it.

**`ContextProofs`**, for any window, sizes, thresholds, settings and number of messages:

* `WindowInvHolds`: `WindowInv` is inductive. `TranscriptInv` says of the transcript, and of the branch
  read as a line of messages, that a reply's results follow it without a gap (`Together`), that no two replies
  make the same call (`Apart`), and that later calls are new (`Numbered`); `TurnInv` that what is owed was asked
  for by the last reply, and that a compaction under way cuts where it is safe. None of the properties is
  inductive without these: a cut between two messages parts a call from its result unless nothing stands
  between a reply and its results, and a safe cut looks only at the two messages next to it.
* `PairsKeptHolds`: what the guard, a retry, a summary or a reopening leaves is a part of a sequence, in its
  order (`PartOf`), which keeps all three (`PartPaired`); and no pair crosses a cut that is safe
  (`SafeCutUncrossed`), or that `drop_oldest_safe` makes (`Drops`).
* `NothingForgottenHolds`: with `PlacesInv`, each message of the transcript has its place in the branch, at or
  behind the entry a rebuilt context begins with, and *no fewer* contributing entries in front of it than it has
  messages in front of it in the transcript. Equality fails as soon as an entry of a compaction could not be
  written, or after a second compaction, and that is why a reopened session may repeat messages; but the
  inequality is inductive, and it is what `first_kept_context_entry_id` needs: the entry with `n` contributing
  ones in front of it is never behind the first message that was kept.
* `NewestPromptSentHolds`, if `MinMessages > 0` (the default is 2): with a floor of zero a retry may drop the
  prompt itself. The other theorems hold for any floor.

**`HarnessProofs`**, for callers of any kind, which take no turns, and any settings, messages, entries and failing
writes:

* `NextTurnKeptHolds`: `take` moves the whole queue into the prompt's
  argument, and no other step shortens it.
* `NoneStrandedHolds`: with `FlagInv`, while the flag is up somebody will lower it (or it was left up by a refused
  call), and what is deferred waits for that, for a flush under way, or for a write that failed. It does not need
  that callers take turns: a compaction that lowers the flag of a run flushes as well, and a setter that
  reads the flag before somebody lowers it has deferred its write before that one flushes.
* `SettingsConservedHolds`: with `SettingsInv`, every setting that is live is deferred once or in one hand,
  never both; what is accepted is live or stored; what is live is stored only when a write that answered
  Err stored it (`halfWritten`). A count alone is not inductive: a flush stores what it carries as its
  argument, a failed write puts back the argument and not the entry, and a setter that gives up drops a
  setting, which is no loss only because nobody was yet told that it was recorded.

* `SessionMirrorsAgentHolds`, for `Polite` callers: with `MirrorInv`, the transcript is the context of the
  branch at the leaf (`ContextAt`) and the message that the run has said but not yet written (`RemembersInv`).
  That is not inductive: an entry is created under a leaf that was read at an earlier step, so that whatever
  leaf a writer holds must show the same context as the current one, and a compaction's must be the current one
  (`WritersInv`); what a compaction is about to install is made from a snapshot of the transcript, and its
  first kept entry was counted on a branch (`CompactsInv`); a navigation holds a context that must still be
  the leaf's. That nothing comes between those steps is the turn-taking of `TurnInv`. The lemmas underneath
  are about the operators of `SessionContext`, recursive functions of a branch: what an appended entry adds to
  a context (`ContextGrows`), and that a compaction of the first `n` messages of a branch without compactions
  keeps the others, wherever settings stand between them (`ContextCompacts`), by induction over the branch.

**`TerminalProofs`**, for any number of commands, sessions, harnesses and turns:

* `SpinnerIsBackedHolds`: the screen knows only what the queue has brought, so `SpinnerInv` is about the
  queue: behind every start in it there is an end, or a run goes on.
* `ArmedRowStaysHolds`: whatever lists arrive and wherever the focus goes in between, the second Delete
  meets the session that the first one armed.
* `SessionInUseIsThereHolds`: no deletion removes the directory of the session in use.

**`ScreenProofs`, about `Pickers`**, for any profiles and any number of commands:

* `ScreenFollowsWorkerHolds`: with `HeaderInv`, the *last* announcement of a model in the queue is the
  current one. Announcements of models used before may still be in front of it.
* `LoginIsBackedHolds`: with `LoginInv`, behind every sign of a login's progress in the queue comes its
  end, or the worker is still at it.

**`ScreenProofs`, about `InputLine`**, for any characters, any length of a line, any limit of the history
and any session resumed. The module extends both, which model parts of the one `AppState`: `InputLine`'s
initial states, steps and specification are therefore named `LineInit`, `LineNext` and `LineSpec`:

* `OffsetsFitHolds`: byte offsets are not inductive, places in the text are. `Holds` says that the cursor
  is the offset of a place and that the skill's label stands behind `p` characters, with its two offsets
  those of `p` and `p + 2`. An edit replaces the characters between two places (`Replaces`); what is behind
  them moves by the bytes that come in less those that go out, since stretches of the same characters have as
  many bytes (`SameBytes`, by induction over the text), and `ShiftAfterInsert` and `ShiftAfterDelete` move the
  skill by as much. That offsets rise with places (`OffsetsRise`) decides which side of the skill an edit is on.
* `TextIsKeptHolds`: with `WalkInv`, a walk is at a prompt of the history, or there is none.

**`ProjectMemoryProofs`**, for any sessions, texts, branches, stops and refreshes, under the hypothesis
that one refresh is over before the next begins (`OneAtATime`, a single refresher; it cannot be dropped, see
*Found*). `MemoryInvHolds`: `MemoryInv` is inductive. It says of the sessions that they are trees apart
(`Trees`); of the files that no two names stand for one inode and that a file's own name stands for a whole
one (`Names`); of a refresh what it has in its hands, and which files are already its own (`Hands`, `Written`);
and, while nothing was stopped, that records are of the snapshots next to them (`Agrees`).

* `ReusesUnchangedHolds`, `SettledAgreeHolds` and `FilesAreWholeHolds` follow.
* `RemembersHolds` is the hardest: records are dropped as duplicates *across* sessions and to keep the limit,
  and sessions that have not changed are not read again. `Grows` says that the records are full to the limit
  or tell every text on the way to the snapshots (`Complete`), and in the middle of a refresh that a record
  of last time is told again once its session has been looked at (`Retold`). It needs that dropping the
  surplus leaves exactly as many records as the limit, which rests on a ranking: of records of different
  entries, those with fewer than `n` younger ones are `n` (`FirstOfMany`, of any order). What the summary leaves
  out is counted the same way: by age within a category, and by category and age within the summary (`LeftOut`).

`Lemmas` has what several of these rest on: what `Append`, `Tail` and a pair of `Append`s leave at each index
of a queue, that a set of numbers has a least one, induction over numbers in a form the provers can
use, and what a stretch of a branch shows.

Only model-checked:

* liveness (`CallsReturn` of `Agent` and of `ScriptWorker`, `CommandsServed`, `LoginEnds`): out of the prover's reach.

Every safety property of the passing runs is stated by a theorem. What a recursive *function* computes
can be proved by induction over numbers, and `ForkRooted`, `DeliversTheWire`, `Remembers`,
`SessionMirrorsAgent`, `PairsKept` and `TextIsKept` are; what a fold computes cannot, since its theorems take an
operator as a parameter. `ContextWindow` sums its tokens by a fold, and its theorems hold whatever the sums are.

No run lists a type invariant, nor what the proofs have as a lemma of something stronger: types are part of
the inductive invariants (`Inv`, `RunInv`, `SessionInv` and those of the other proof modules), and
`TypeCorrect`, `MemoryIsFileHolds` and `RootedHolds` are proved.

## Found

One statement of the repository is refuted by a run and quoted in `PROJECT.json`: the atomicity claimed for
`continue_` (`agent_lost`).

The following are stated in the modules and have no run of their own. Put in the place of the
properties of the module's `.cfg`, each one is violated; where other constants are needed they are named.

| Definition | What is claimed | What the code does |
|---|---|---|
| `FollowUpAfterSteering` (`AgentLoop`) | `docs/core-agent.md:127`: follow-ups are consumed only when the steering queue is empty | `agent_loop.rs:549` polls them although a steering message came since the poll of that queue |
| `SettersLast` (`Agent`, two settings) | `docs/core-agent.md:110`: a setter during a run takes effect at the next snapshot | `agent.rs:737` writes the run's copies back at its end |
| `SettingsAgree` (`Harness`) | `agent_harness.rs:883`: the order of record and assignment never leaves "the agent running one model while the session records another" | `agent_harness.rs:896` records and assigns; at the end of the run `agent.rs:737` writes the run's own copy back over it |
| `RunningIsHonest` (`Harness`) | `agent_harness.rs:517`: the flag is up between a prompt entrypoint and the end of its run | `agent_harness.rs:860` leaves it up when `continue_` is refused |
| `RunIsMarked` (`Harness`) | the same line | `agent_harness.rs:1127` lowers the flag at the end of a compaction, also when a run goes on, as the terminal's `/compact` may find (`agent_worker.rs:2828`); and the end of a run lowers it for a prompt that was marked before it and begins after it |
| `TurnsUnbroken` (`Harness`) | `agent_harness.rs:931`: batching keeps setting changes "out of the middle of a turn's entry chain" | once the flag was lowered so (`:1127`), and for a setter that looked at it before the prompt marked it (`:936`), settings are written into a turn |
| `InSync` (`Harness`) | `agent_harness.rs:575`: the mirror keeps session and agent in sync | a compaction or a navigation beside a run (`:1103`, `:1201`) installs a transcript that `agent.rs:737` overwrites when the run ends; an entry appended beside a message becomes its sibling, and the branch goes on without the message (`session.rs:384`); a message that could not be written is only logged (`:720`) |
| `PairedAtRequest` (`AgentLoop`, `Policy = "MessageCountPolicy"`) | `compaction.rs:139`: a cut never separates a call from its results | `compaction.rs:132` cuts by count alone; only `TokenBudgetPolicy`, which the shells use, moves its cuts. `docs/compaction.md:43` calls the other one the default |
| `PersistedFirst` (`JsonlSession`) | `session_jsonl.rs:18`: writes are persisted before memory is updated | `set_leaf_id`, `session_jsonl.rs:333`, moves the cursor first |
| `SummarisedStaysAway` (`ContextWindow`) | `compaction.rs:770`: a resumed session begins with the summary and does not replay what it replaced | `compaction.rs:836` counts the first kept entry in the full branch, which an earlier compaction did not shorten, so that summarised messages are replayed as well; for the same reason `SessionMirrorsAgent` of `Harness` would fail from seven messages and five calls on without its exception for a second compaction on a branch (`Recounts`) |
| `RequestNotEmpty` (`ContextWindow`) | `context_guard.rs:43`: at least one message is always kept; `retry_overflow.rs:45`: a floor of messages | leading results are dropped after the trim, so a request may come out empty |
| `PinnedKept` (`ContextWindow`) | `compaction.rs:298`: the summary never loses a pinned message | the cut that was pulled back to a pinned message is then snapped forward to a safe boundary (`:343`), past it |
| `CtrlCAborts` (`Terminal`) | `app.rs:2625`, `docs/headless-tui.md:48`: while the agent is at work Ctrl-C aborts the turn and does not quit | `app.rs:2245` resets the streaming state when a compaction of the session is announced, also in the middle of a run; Ctrl-C then quits |
| `NoLateEvents` (`Terminal`) | `agent_worker.rs:2736`: the old harness is settled first, so that no late events leak into the new session | `agent_worker.rs:2311` starts prompts in tasks; one that begins between abort and replacement runs on |
| `ModelFitsProvider` (`Pickers`, four commands) | `app.rs:81`: the picker offers models of the provider in use | `app.rs:2553` takes the list of the provider before, whose model is then set with the new provider (`agent_worker.rs:3016`) |
| `DropReturns` (`ScriptWorker`) | `worker.rs:77`: dropping the handle joins the thread cleanly | `worker.rs:98` joins a thread that may wait for a modal (`:447`) whose answers come through that handle |
| `FilesAreWhole` (`ProjectMemory`, two refreshers) | `memory.rs:927`, `:953`: the writes are called atomic | two refreshes share a temporary name; one renames the file the other has just emptied or is writing, and a state file that cannot be parsed then fails every later refresh (`:335`); proved for one refresher |
| `RemembersAfterMoves` (`ProjectMemory`) | `memory.rs:4`: a refresh regenerates the files from the sessions; `app.rs:810`: it rebuilds the memory | what is reused are the records after duplicates and surplus were dropped (`memory.rs:287`): a text is not regained when the session that hid it leaves its branch or is deleted |
| `ReusesUnchangedAfterStops` (`ProjectMemory`, three refreshes) | `memory.rs:216`: records are reused for unchanged sessions | `memory.rs:300` renames the state into place before the records; after a stop between the two, records from before a session's last change are taken for current, and what it said since is missing until it changes again |
| `Durable` (`JsonlSession`, `ShortWrites`) | `docs/session-jsonl.md:17`: appends are atomic lines | `session_jsonl.rs:302` appends without looking for bytes an earlier failed write left: the next acknowledged entry is fused with them and skipped as corrupt on reopening |
| `DraftIsRestored` (`InputLine`) | `app.rs:998`: Down past the newest entry restores the unsent draft | `history_up`, `app.rs:1683`, saves the text and drops the skill in it; the line shows its label again, and Enter no longer sends its body |
| `RecalledIsUnedited` (`InputLine`) | `app.rs:1717`: an edit of a recalled entry ends the recall | Tab over a command, `app.rs:2825`, does not: Down over the help overlay then replaces what was completed |

Seen while reading, outside the models:

* *Runs.* A reset during a run is undone at the run's end. `set_active_tools` changes the names before a
  write that may fail (`agent_harness.rs:995`). The saved cursor is a cache: a navigation without an
  append is forgotten on reopening (`session_jsonl.rs:261`). `escalation.rs` never returns to the
  cheaper model within a session.
* *Provider.* No time limit ends a request, and the token is not looked at until its head arrives
  (`anthropic/stream.rs:237`). The bridge's error without a start leaves a block open. A signature that
  belongs to the part after an open thinking block is appended to that block's own (`inbound.rs:324`).
* *Tokens.* Two refreshes share one temporary file (`oauth.rs:261`), and may publish a mixture of the two;
  a token asked for in the course of a request blocks on the runtime its task runs on (`oauth.rs:555`), which
  tokio answers with a panic; when the exchange for an OpenAI key fails, the rotated refresh token is not
  saved (`oauth.rs:461`);
  `load_tokens` says it returns none for a file that cannot be parsed (`oauth.rs:236`) and returns an
  error. The browser reads that the login succeeded before state and error are looked at (`oauth.rs:722`).
* *Terminal.* A login is awaited in the command loop, so that an abort waits behind it. A compaction does
  so too. Delete on a locked row of the picker is refused by nobody. A prompt typed while a reply streams
  repeats the text shown so far (`app.rs:4211`). A failed fetch of models sends an empty list, which the
  screen shows as loading (`agent_worker.rs:2963`, `ui.rs:3534`). Reloading scripts does not announce their
  slash commands again.
* *Scripts.* A script that asks for a modal while it is loaded waits for a host that waits for it.
* *Project memory.* A session's leaf is read after its entries (`memory.rs:454`): when an entry comes in between,
  the leaf is unknown and the session counts as empty until the next refresh.
* *Line.* A recalled command opens the palette, which takes Up and Down: older prompts and the draft are out of
  reach until the line is edited, which drops the draft. A submitted skill is recalled as its label alone, and
  sent as an unknown command.

## Not modelled

* *Inside modelled components.* In the provider: usage, response ids, the thought signatures that come with
  a chunk of a tool call, the repair of broken JSON; genai and the Messages API are external, modelled by
  what the code takes from them, and the server is looked at only while the client waits for it. In the
  session: labels, names and the repository's listing. In the harness: skills, templates, queue modes, and replies that call tools. In
  compaction: the policy that counts messages (in `AgentLoop` only), and the summariser's prompt. In the terminal:
  drawing, the transcript's folding and selection, the header sink of WASM plugins, the commands that install
  plugins or reload scripts. In the project's memory: scores (a record with a higher one comes before younger ones), the limit on sessions,
  and how long the lines of the summary are.
* *Token file* (`oauth.rs`): two refreshes at once are a gap the repository names itself
  (`docs/oauth-claude-subscription-spec.md:231`), and a request does not get as far as refreshing (see *Found*).
* *Start-up, configuration, hooks, dynamic tools, plugins*: sequential code over file formats, whose state does
  not outlive a call.
* *Built-in tools*: I/O; to the loop a tool is a choice of outcomes. *Model catalogue*: a generated table.
  *DeepSeek pack, message conversion, prompts, argument validation*: transformations of text and JSON
  without state. *Rhai and WASM hosts, the pi compatibility layer*: adapters without state towards the agent;
  their calls are among those `ScriptWorker` takes from any caller.

Much of the source is of these kinds: drawing, formats, tools and tables. A module for them would only
repeat them, and the models stop there.

## Plan

1. `AgentLoop`, `Agent`, `JsonlSession`, their abstract specifications and proofs: done.
2. `SessionContext`, `ContextWindow`, `Harness` and their proofs: done.
3. `Terminal`, `Pickers`, `InputLine` and their proofs: done. To add: the transcript with its folding.
4. `StreamProtocol`, the two transports, their composition and their proofs: done.
5. `ScriptWorker`: checked. To prove: that each call is answered at most once.
6. `ProjectMemory` and its proofs: done.

---------------------------- MODULE ContextWindow ----------------------------
(***************************************************************************)
(* How a session keeps inside a model's context window: the guard that     *)
(* trims each request (context_guard.rs), the wrapper that trims again     *)
(* when the provider still calls it too long (retry_overflow.rs), the      *)
(* hooks that run after each turn - truncation and compaction              *)
(* (compaction.rs), escalation (escalation.rs) - in the order              *)
(* agent_worker.rs chains them, and the rebuilding of the transcript from  *)
(* the session when it is opened again (session.rs).                       *)
(*                                                                         *)
(* A message is worth its size in tokens.  Errors in tool results pin them *)
(* for compaction, as a mention of a recent file would.                    *)
(***************************************************************************)
EXTENDS SessionContext, Queue

CONSTANTS
  Window,             \* the model's context window
  Headroom,           \* tokens the guard keeps for the answer and the prompt
  ThresholdTokens,    \* CompactionSettings; 0 when not set
  ThresholdPercent,
  ReserveTokens,
  KeepRecent,
  ResultSizes,        \* sizes of tool results
  ResultCap,          \* what truncation leaves of a tool result
  MinMessages,        \* RetryOnOverflowConfig
  MaxRetries,
  EscalateAfter,      \* EscalationConfig.threshold
  WritesFail,         \* the entry of a compaction may not be written
  MaxCalls,           \* bound: tool calls of one reply
  MaxMessages         \* bound: messages and summaries created

ASSUME WindowAssumption ==
  /\ {Window, Headroom, ThresholdTokens, ThresholdPercent, ReserveTokens, KeepRecent,
      ResultCap, MinMessages, MaxRetries, EscalateAfter, MaxCalls, MaxMessages} \subseteq Nat
  /\ ResultSizes \subseteq Nat /\ EscalateAfter > 0
  /\ WritesFail \in BOOLEAN

VARIABLES
  branch,         \* the session's active branch
  messages,       \* the agent's transcript
  request,        \* the messages of the request in flight
  attempt,        \* its retries so far
  phase,          \* where the run stands
  owed,           \* calls of the last reply that have no result yet
  prefix,         \* messages a compaction in progress folds
  escalation,     \* EscalationState
  model,          \* the model of the next request
  created,        \* messages created so far
  adopted         \* orphans the transcript was rebuilt with

windowVars == <<branch, messages, request, attempt, phase, owed, prefix,
                escalation, model, created, adopted>>

Init ==
  /\ branch = <<>> /\ messages = <<>> /\ request = <<>>
  /\ attempt = 0 /\ phase = "idle" /\ owed = <<>> /\ prefix = 0
  /\ escalation = [failures |-> 0, escalated |-> FALSE]
  /\ model = "base" /\ created = 0 /\ adopted = {}

User(id) == [role |-> "user", id |-> id, size |-> 1]
Reply(id, n) == [role |-> "assistant", id |-> id, size |-> 1,
                 calls |-> {<<id, k>> : k \in 1..n}]
Result(id, c, s, e) == [role |-> "toolResult", id |-> id, size |-> s, call |-> c, error |-> e]
Summary(id) == [role |-> "custom", id |-> id, size |-> 1]

Tokens(ms) == FoldSeq(LAMBDA m, t : m.size + t, 0, ms)
From(ms, i) == SubSeq(ms, i, Len(ms))

Entry(kind, m) == [id |-> Len(branch) + 1, kind |-> kind, msg |-> m]

\* A message enters the transcript, and the session through the listener.
Say(m) ==
  /\ created < MaxMessages
  /\ created' = created + 1
  /\ messages' = Append(messages, m)
  /\ branch' = Append(branch, Entry("message", m))

Prompt ==
  /\ phase = "idle"
  /\ Say(User(created + 1))
  /\ phase' = "request"
  /\ UNCHANGED <<request, attempt, owed, prefix, escalation, model, adopted>>

\* A changed setting is an entry too.
RecordSetting ==
  /\ phase = "idle"
  /\ Len(branch) < MaxMessages
  /\ branch' = Append(branch, [id |-> Len(branch) + 1, kind |-> "setting"])
  /\ UNCHANGED <<messages, request, attempt, phase, owed, prefix, escalation, model,
                 created, adopted>>

\* The session is opened again: what the process held is rebuilt.
Resume ==
  /\ phase = "idle"
  /\ messages' = ContextMessages(branch)
  /\ adopted' = Orphans(messages')
  /\ UNCHANGED <<branch, request, attempt, phase, owed, prefix, escalation, model, created>>

-----------------------------------------------------------------------------
(***************************************************************************)
(* The request: the guard, then the retries                                *)
(***************************************************************************)

\* Faulty: the results whose call was dropped stay.
GuardedCarelessly(ms) ==
  IF Tokens(ms) <= Window - Headroom THEN ms
  ELSE From(ms, Min({h \in DOMAIN ms : \/ h = Len(ms)
                                       \/ Tokens(From(ms, h)) <= Window - Headroom}))

\* remove_orphan_tool_results, of the first k messages.
PairedUpTo(ms) ==
  LET left[k \in 0..Len(ms)] ==
        CASE k = 0 -> <<>>
          [] k > 0 /\ OrphanAt(ms, k) -> left[k - 1]
          [] OTHER -> Append(left[k - 1], ms[k])
  IN left

\* apply_policy with DropOldest: nothing is touched while it fits.
Guarded(ms) ==
  IF Tokens(ms) <= Window - Headroom THEN ms
  ELSE LET kept == From(ms, Min({h \in DOMAIN ms :
                                   \/ h = Len(ms)
                                   \/ Tokens(From(ms, h)) <= Window - Headroom}))
       IN PairedUpTo(kept)[Len(kept)]

SendRequest ==
  /\ phase = "request"
  /\ request' = Guarded(messages)
  /\ attempt' = 0
  /\ phase' = "sent"
  /\ UNCHANGED <<branch, messages, owed, prefix, escalation, model, created, adopted>>

\* drop_oldest_safe: a reply goes with the results that follow it.
DropOldest(ms) ==
  LET answers(i) == i = 1 \/ (IsResult(ms[i]) /\ ms[i].call \in Head(ms).calls)
  IN IF HasCalls(Head(ms))
     THEN From(ms, 1 + Max({k \in DOMAIN ms : \A i \in 1..k : answers(i)}))
     ELSE Tail(ms)

\* Faulty: the floor is forgotten.
RetryBelowFloor ==
  /\ phase = "sent"
  /\ attempt < MaxRetries /\ request # <<>>
  /\ request' = DropOldest(request)
  /\ attempt' = attempt + 1
  /\ UNCHANGED <<branch, messages, phase, owed, prefix, escalation, model, created, adopted>>

\* The provider counts tokens its own way: any request may be too long for it.
RetryOnOverflow ==
  /\ phase = "sent"
  /\ Len(request) > MinMessages /\ attempt < MaxRetries
  /\ request' = DropOldest(request)
  /\ attempt' = attempt + 1
  /\ UNCHANGED <<branch, messages, phase, owed, prefix, escalation, model, created, adopted>>

\* Any other error, or the last overflow, is the reply, and ends the run.
ProviderFails ==
  /\ phase = "sent"
  /\ Say(Reply(created + 1, 0))
  /\ phase' = "idle" /\ request' = <<>>
  /\ UNCHANGED <<attempt, owed, prefix, escalation, model, adopted>>

ProviderReplies ==
  /\ phase = "sent"
  /\ \E n \in 0..MaxCalls :
       /\ created + n < MaxMessages
       /\ Say(Reply(created + 1, n))
       /\ owed' = [k \in 1..n |-> <<created + 1, k>>]
  /\ phase' = "tools" /\ request' = <<>>
  /\ UNCHANGED <<attempt, prefix, escalation, model, adopted>>

ToolAnswers ==
  /\ phase = "tools" /\ owed # <<>>
  /\ \E s \in ResultSizes, e \in BOOLEAN : Say(Result(created + 1, Head(owed), s, e))
  /\ owed' = Tail(owed)
  /\ UNCHANGED <<request, attempt, phase, prefix, escalation, model, adopted>>

-----------------------------------------------------------------------------
(***************************************************************************)
(* The hooks after a turn                                                  *)
(***************************************************************************)

AtLeast(a, b) == IF a < b THEN b ELSE a
AtMost(a, b) == IF a < b THEN a ELSE b

\* resolve_threshold_tokens
Threshold ==
  CASE ThresholdTokens > 0 -> AtMost(ThresholdTokens, AtLeast(Window - 1, 1))
    [] ThresholdTokens = 0 /\ ThresholdPercent \in 1..99 ->
         AtMost(AtLeast((Window * ThresholdPercent) \div 100, AtLeast(Window \div 100, 1)),
                AtLeast((Window * 99) \div 100, 1))
    [] OTHER -> AtLeast(Window - AtLeast((Window * 15) \div 100, ReserveTokens), 0)

\* should_compact
ShouldCompact(tokens) == Window > 0 /\ tokens > Threshold

\* should_pin_message
Pinned(m) == IsResult(m) /\ m.error

\* TokenBudgetPolicy.evaluate: how many messages to fold, 0 for None.  The
\* tail grows until it is long enough and does not start at a pinned message,
\* then back to the first pinned message, then forward to a safe cut.
Evaluate(ms) ==
  LET long == {i \in DOMAIN ms : Tokens(From(ms, i)) >= KeepRecent /\ ~Pinned(ms[i])}
      start == Max(long \cup {1})
      pulled == Min({i \in 1..start : i = start \/ Pinned(ms[i])})
      n == Snap(ms, pulled - 1)
  IN IF ShouldCompact(Tokens(ms)) /\ n >= 2 THEN n ELSE 0

\* tool_result_truncation_hook
Truncated(ms) ==
  [i \in DOMAIN ms |-> IF IsResult(ms[i]) THEN [ms[i] EXCEPT !.size = AtMost(@, ResultCap)]
                                          ELSE ms[i]]

\* count_failures: the turn is the last reply and what follows it.
LastReply(ms) == Max({0} \cup {i \in DOMAIN ms : ms[i].role = "assistant"})
Failures ==
  Cardinality({i \in LastReply(messages)..Len(messages) :
                 i > 0 /\ IsResult(messages[i]) /\ messages[i].error})

\* decide_escalation
Counted ==
  CASE Failures > 0 -> [escalation EXCEPT !.failures = @ + Failures]
    [] Failures = 0 /\ escalation.escalated -> [failures |-> 0, escalated |-> FALSE]
    [] OTHER -> escalation
Escalates == Counted.failures >= EscalateAfter /\ ~Counted.escalated

\* The loop goes on while the model calls tools.
Calling(ms) == LET r == LastReply(ms) IN r > 0 /\ HasCalls(ms[r])

EscalateAndGoOn ==
  /\ escalation' = [Counted EXCEPT !.escalated = @ \/ Escalates]
  /\ model' = IF Escalates THEN "target" ELSE model
  /\ phase' = IF Calling(messages) THEN "request" ELSE "idle"

\* The turn ended, and the policy leaves the transcript as it is.
SkipCompaction ==
  /\ phase = "tools" /\ owed = <<>>
  /\ messages' = Truncated(messages)
  /\ Evaluate(messages') = 0
  /\ EscalateAndGoOn
  /\ UNCHANGED <<branch, request, attempt, owed, prefix, created, adopted>>

StartCompaction ==
  /\ phase = "tools" /\ owed = <<>>
  /\ messages' = Truncated(messages)
  /\ prefix' = Evaluate(messages')
  /\ prefix' > 0
  /\ phase' = "summarising"
  /\ UNCHANGED <<branch, request, attempt, owed, escalation, model, created, adopted>>

\* The summary takes the prefix's place, whether or not its entry could be
\* written.  The last reply may be part of the prefix.
SummaryArrives ==
  /\ phase = "summarising"
  /\ created < MaxMessages
  /\ created' = created + 1
  /\ \E persisted \in {TRUE, ~WritesFail} :
       branch' = IF persisted
                 THEN Append(branch, [id |-> Len(branch) + 1, kind |-> "compaction",
                                      msg |-> Summary(created + 1),
                                      first |-> FirstKept(branch, prefix)])
                 ELSE branch
  /\ messages' = <<Summary(created + 1)>> \o From(messages, prefix + 1)
  /\ prefix' = 0
  /\ EscalateAndGoOn
  /\ UNCHANGED <<request, attempt, owed, adopted>>

\* An empty summary, a failed stream or a cancelled run.
SummaryFails ==
  /\ phase = "summarising"
  /\ prefix' = 0
  /\ EscalateAndGoOn
  /\ UNCHANGED <<branch, messages, request, attempt, owed, created, adopted>>

\* Every message the bound allows was created.
Exhausted == created = MaxMessages /\ UNCHANGED windowVars

Next ==
  \/ Prompt \/ RecordSetting \/ Resume
  \/ SendRequest \/ RetryOnOverflow \/ ProviderFails \/ ProviderReplies \/ ToolAnswers
  \/ SkipCompaction \/ StartCompaction \/ SummaryArrives \/ SummaryFails
  \/ Exhausted

WindowSpec == Init /\ [][Next]_windowVars

-----------------------------------------------------------------------------
(***************************************************************************)
(* Properties                                                              *)
(***************************************************************************)

Ids(ms) == {ms[i].id : i \in DOMAIN ms}

\* What the agent still remembers is there when the session is opened again:
\* an entry that a compaction records as the first kept one is never later than
\* the first message the agent kept (first_kept_context_entry_id), however many
\* compactions and reopenings came before.
NothingForgotten ==
  \A i \in DOMAIN messages :
    messages[i].role # "custom" => messages[i].id \in Ids(ContextMessages(branch))

\* Truncation, compaction and a running turn never leave a tool result in the
\* transcript without the call it answers: only a reopened session brings one.
CutsKeepPairs == Orphans(messages) \subseteq {Truncated(<<m>>)[1] : m \in adopted} \cup adopted

\* Trimming a request orphans nothing either (Anthropic answers an orphan with
\* 400): neither the guard nor any number of retries.
TrimsKeepPairs == Orphans(request) \subseteq Orphans(messages)

\* So no step of a compaction, a resumed session, the guard or a retry makes a
\* request the provider refuses: what was paired stays paired or goes together.
PairsKept == CutsKeepPairs /\ TrimsKeepPairs

\* However often a request is trimmed, it still ends with what the user just said.
NewestPromptSent ==
  phase = "sent" /\ messages[Len(messages)].role = "user" =>
    request # <<>> /\ request[Len(request)] = messages[Len(messages)]

\* A request always carries a message: the guard promises to "always keep at
\* least one message", the retries a floor of MinMessages.
RequestNotEmpty == phase = "sent" => request # <<>>

\* Reopening a session does not replay what summaries replaced, but for the one
\* message that stands in when a compaction folded the whole transcript.
SummarisedStaysAway ==
  Cardinality(Ids(ContextMessages(branch)) \ Ids(messages)) <= 1

\* A summary loses no pinned message: what a compaction is about to fold has none.
PinnedKept == \A i \in 1..prefix : ~Pinned(messages[i])

-----------------------------------------------------------------------------
(***************************************************************************)
(* What transcript, branch and request are like                            *)
(***************************************************************************)

\* s[i] is a result of a call of s[j].
Answers(s, j, i) == /\ j < i /\ HasCalls(s[j])
                    /\ IsResult(s[i]) /\ s[i].call \in s[j].calls

\* A reply's results follow it without a gap.
Together(s) ==
  \A j, i \in DOMAIN s : Answers(s, j, i) => \A k \in (j + 1)..i : Answers(s, j, k)

\* No two replies make the same call, and calls are numbered by their reply.
Apart(s) ==
  \A i, j \in DOMAIN s :
    HasCalls(s[i]) /\ HasCalls(s[j]) /\ i # j => s[i].calls \cap s[j].calls = {}
Numbered(s, n) == \A i \in DOMAIN s : HasCalls(s[i]) => \A c \in s[i].calls : c[1] \in 1..n
Paired(s, n) == IsQueue(s) /\ Together(s) /\ Apart(s) /\ Numbered(s, n)

\* What is owed was asked for by the last reply, and only its results follow it.
Unanswered(s, q) ==
  \E r \in DOMAIN s : /\ HasCalls(s[r])
                      /\ \A k \in DOMAIN q : q[k] \in s[r].calls
                      /\ \A k \in (r + 1)..Len(s) : Answers(s, r, k)

\* The branch as a sequence of messages: an entry of another kind is a gap.
Gap == [role |-> "none"]
Line(b) == [k \in DOMAIN b |-> IF b[k].kind = "message" THEN b[k].msg ELSE Gap]

IsMessage(m) ==
  /\ {"role", "id"} \subseteq DOMAIN m
  /\ IsResult(m) => {"call", "size"} \subseteq DOMAIN m

\* An entry is found under its place; a summary is not a message of a turn.
IsEntry(e, k) ==
  /\ e.id = k /\ e.kind \in {"message", "setting", "compaction"}
  /\ e.kind # "setting" => IsMessage(e.msg)
  /\ e.kind = "compaction" => e.msg.role = "custom"
IsBranch(b) == IsQueue(b) /\ \A k \in DOMAIN b : IsEntry(b[k], k)

TranscriptInv ==
  /\ IsBranch(branch) /\ created \in Nat
  /\ Paired(messages, created) /\ Paired(Line(branch), created)
  /\ \A i \in DOMAIN messages : IsMessage(messages[i])
  /\ \A m \in adopted : IsMessage(m)
  /\ CutsKeepPairs

TurnInv ==
  /\ IsQueue(owed)
  /\ phase = "tools" /\ owed # <<>> => Unanswered(messages, owed) /\ Unanswered(Line(branch), owed)
  /\ phase = "summarising" => SafeCut(messages, prefix) /\ prefix \in 2..Len(messages)

\* A request is a part of the transcript, in its order.
RequestInv ==
  /\ phase \in {"request", "sent"} => messages # <<>>
  /\ phase # "sent" => request = <<>>
  /\ IsQueue(request) /\ Together(request)
  /\ TrimsKeepPairs /\ (MinMessages > 0 => NewestPromptSent)

\* How many entries before k contribute a message, of those of a branch.
Contributing(b) == {i \in DOMAIN b : Contributes(b[i])}
Before(b, k) == Cardinality({i \in Contributing(b) : i < k})

\* Where a context begins that is rebuilt from the branch, but for its summary.
Kept(b) == LET c == LastCompaction(b) IN IF c = 0 THEN 1 ELSE KeptFrom(b, c)

\* Each message of a transcript is found in the branch, late enough to be part of
\* the context, and with no fewer messages in front of it.
PlaceOf(s, i, b, p) ==
  b[p].kind = "message" /\ b[p].msg.id = s[i].id /\ i <= Before(b, p) + 1
Placed(s, b) ==
  /\ \A i \in DOMAIN s :
       s[i].role # "custom" => \E p \in Kept(b)..Len(b) : PlaceOf(s, i, b, p)
  /\ Len(s) <= Before(b, Len(b) + 1)
  /\ LastCompaction(b) > 0 => Before(b, Kept(b)) > 0

PlacesInv == Placed(messages, branch)

WindowInv == TranscriptInv /\ TurnInv /\ RequestInv /\ PlacesInv
=============================================================================

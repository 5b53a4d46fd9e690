--------------------------- MODULE SessionContext ---------------------------
(***************************************************************************)
(* How grain-agent-harness turns a branch of a session tree into the       *)
(* messages of a run (session.rs) and cuts a transcript for compaction     *)
(* (compaction.rs).                                                        *)
(*                                                                         *)
(* A branch is a sequence of entries, root first; an entry is              *)
(*   [id, kind, msg]         a message of some kind, or a branch summary   *)
(*   [id, kind, msg, first]  a compaction: its summary and the first entry *)
(*                           it keeps                                      *)
(*   [id, kind, value]       a recorded setting                            *)
(* A message is a record with a role; an assistant message has calls, the  *)
(* set of its tool calls, and a tool result has the call it answers.       *)
(***************************************************************************)
EXTENDS Naturals, Sequences, FiniteSets, SequencesExt

\* The branch that ends in each entry; it stops at an id nobody stored.
PathsToRoot(parent, stored) ==
  LET path[e \in DOMAIN parent \cup {0}] ==
        IF e \in stored THEN Append(path[parent[e]], e) ELSE <<>>
  IN path

-----------------------------------------------------------------------------
(***************************************************************************)
(* build_session_context                                                   *)
(***************************************************************************)

\* An empty branch summary is an entry that shows nothing.
IsShown(entry) ==
  \/ entry.kind \in {"message", "customMessage"}
  \/ entry.kind = "branchSummary" /\ entry.msg.role # "empty"

\* The messages that the entries from i to j show, in their order.
MessagesOf(entry) == IF IsShown(entry) THEN <<entry.msg>> ELSE <<>>
Shown(branch, i, j) ==
  LET shown[k \in 0..Len(branch)] ==
        IF k < i THEN <<>> ELSE shown[k - 1] \o MessagesOf(branch[k])
  IN shown[j]

\* The last compaction counts; the entries it keeps run up to it.
CompactionsOf(branch) == {i \in DOMAIN branch : branch[i].kind = "compaction"}
LastCompaction(branch) == Max(CompactionsOf(branch) \cup {0})

\* Faulty: it keeps none.
KeepsNone(branch, c) == c
KeptFrom(branch, c) ==
  Min({i \in 1..(c - 1) : branch[i].id = branch[c].first} \cup {c})

ContextMessages(branch) ==
  LET c == LastCompaction(branch)
  IN IF c = 0 THEN Shown(branch, 1, Len(branch))
     ELSE <<branch[c].msg>> \o Shown(branch, KeptFrom(branch, c), c - 1)
                            \o Shown(branch, c + 1, Len(branch))

\* The settings of a context: the last word on each; a reply names its model.
Says(entry, k) ==
  \/ entry.kind = "setting" /\ entry.of = k
  \/ k = "model" /\ entry.kind = "message" /\ entry.msg.role = "assistant"

ContextSetting(branch, k, default) ==
  LET last == Max({0} \cup {i \in DOMAIN branch : Says(branch[i], k)})
  IN CASE last = 0 -> default
       [] last > 0 /\ branch[last].kind = "setting" -> branch[last].value
       [] OTHER -> branch[last].msg.model

-----------------------------------------------------------------------------
(***************************************************************************)
(* Cutting a transcript                                                    *)
(***************************************************************************)

IsResult(m) == m.role = "toolResult"
HasCalls(m) == m.role = "assistant" /\ m.calls # {}

\* A cut after n messages that splits no call from its results.
SafeCut(messages, n) ==
  \/ n = Len(messages)
  \/ /\ ~IsResult(messages[n + 1])
     /\ n > 0 => ~HasCalls(messages[n])

\* snap_to_safe_boundary
Snap(messages, n) == Min({k \in n..Len(messages) : SafeCut(messages, k)})

\* entry_contributes_context_message
Contributes(entry) ==
  entry.kind \in {"message", "customMessage", "branchSummary", "compaction"}

\* Faulty: one too far.
OneTooFar(branch, n) ==
  LET contributing == {i \in DOMAIN branch : Contributes(branch[i])}
  IN {k \in contributing : Cardinality({i \in contributing : i < k}) = n + 1}
\* The position that n contributing entries come before, if any.
Positions(branch, n) ==
  LET contributing == {i \in DOMAIN branch : Contributes(branch[i])}
  IN {k \in contributing : Cardinality({i \in contributing : i < k}) = n}

\* first_kept_context_entry_id, and what its callers fall back on: the leaf.
FirstKept(branch, n) ==
  LET found == Positions(branch, n)
  IN CASE found # {} -> branch[Min(found)].id
       [] found = {} /\ branch # <<>> -> branch[Len(branch)].id
       [] OTHER -> 0

\* The results in a sequence of messages whose call is not before them.
OrphanAt(messages, k) ==
  /\ IsResult(messages[k])
  /\ \A j \in 1..(k - 1) : ~(HasCalls(messages[j]) /\ messages[k].call \in messages[j].calls)
Orphans(messages) == {messages[k] : k \in {k \in DOMAIN messages : OrphanAt(messages, k)}}
=============================================================================

---------------------------- MODULE JsonlSession ----------------------------
(***************************************************************************)
(* A session on disk (grain-agent-harness, session_jsonl.rs) and the tasks *)
(* that append to it and move its cursor through the Session handle        *)
(* (session.rs).  The process may stop at any point, in the middle of a    *)
(* write too, and is started again.                                        *)
(*                                                                         *)
(* Entries are the numbers 1, 2, ... in the order their ids are created;   *)
(* 0 is None.  A line of entries.jsonl is the entry it holds or Corrupt;   *)
(* bytes that no newline ends yet are the flag torn.  What is written is   *)
(* there after a restart: the model stops processes, not machines.         *)
(***************************************************************************)
EXTENDS Naturals, Sequences, FiniteSets

CONSTANTS
  Writers,        \* tasks holding a clone of the Session
  MaxEntries,     \* bound: entries created
  ShortWrites,    \* a write that fails may leave part of its bytes
  Moves           \* tasks also move the cursor

ASSUME JsonlAssumption ==
  /\ MaxEntries \in Nat
  /\ ShortWrites \in BOOLEAN /\ Moves \in BOOLEAN

Ids == 1..MaxEntries
Corrupt == MaxEntries + 1

VARIABLES
  file,           \* entries.jsonl: its complete lines
  torn,           \* it ends with bytes of an unfinished line
  stateLeaf,      \* state.json, 0 also when there is none
  open,           \* a process holds the session and its lock file
  entries,        \* the ids of JsonlInner.entries (its index)
  leaf,           \* JsonlInner.leaf_id
  holder,         \* {} or the task that holds the storage's mutex over an await
  created,        \* ids created so far
  parent,         \* the parent_id each entry was created with
  task,           \* where each task stands
  item,           \* the entry a task appends, or the target it moves to
  acked,          \* entries whose append returned Ok
  forking,        \* entries a fork still has to copy
  forked          \* entries.jsonl of the fork

diskVars == <<file, torn, stateLeaf>>
memVars  == <<open, entries, leaf, holder>>
taskVars == <<created, parent, task, item, acked>>
forkVars == <<forking, forked>>
sessionVars == <<diskVars, memVars, taskVars, forkVars>>

SetOf(s) == {s[i] : i \in 1..Len(s)}

Init ==
  /\ file = <<>> /\ torn = FALSE /\ stateLeaf = 0
  /\ open = TRUE /\ entries = {} /\ leaf = 0 /\ holder = {}
  /\ created = 0 /\ parent = [e \in Ids |-> 0]
  /\ task = [w \in Writers |-> "idle"] /\ item = [w \in Writers |-> 0]
  /\ acked = {}
  /\ forking = <<>> /\ forked = <<>>

-----------------------------------------------------------------------------
(***************************************************************************)
(* Appending                                                               *)
(***************************************************************************)

Goto(w, stage, i) ==
  /\ task' = [task EXCEPT ![w] = stage]
  /\ item' = [item EXCEPT ![w] = i]

\* A new id under the given parent.
Create(w, p) ==
  /\ created < MaxEntries
  /\ created' = created + 1
  /\ parent' = [parent EXCEPT ![created + 1] = p]
  /\ Goto(w, "append", created + 1)

\* Session::next_entry reads the cursor and lets the lock go.
NextEntry(w) ==
  /\ open /\ task[w] = "idle" /\ holder = {}
  /\ Create(w, leaf)
  /\ UNCHANGED <<diskVars, memVars, acked, forkVars>>

\* What a finished line holds: written behind torn bytes, it cannot be read.
Line(e) == IF torn THEN Corrupt ELSE e

\* append_entry: the line is written, then the memory follows; the mutex stays
\* with the task.
AppendLine(w) ==
  /\ open /\ task[w] = "append" /\ holder = {}
  /\ file' = Append(file, Line(item[w]))
  /\ torn' = FALSE
  /\ entries' = entries \cup {item[w]}
  /\ leaf' = item[w]
  /\ holder' = {w}
  /\ Goto(w, "persist", item[w])
  /\ UNCHANGED <<stateLeaf, open, created, parent, acked, forkVars>>

\* The write failed, and the append with it.
AppendFails(w) ==
  /\ open /\ task[w] = "append" /\ holder = {}
  /\ torn' \in {torn, torn \/ ShortWrites}
  /\ Goto(w, "idle", 0)
  /\ UNCHANGED <<file, stateLeaf, memVars, created, parent, acked, forkVars>>

\* persist_state writes another file and renames it.
PersistState(w) ==
  /\ open /\ task[w] \in {"persist", "move", "moveThenAppend"} /\ w \in holder
  /\ stateLeaf' = leaf
  /\ holder' = {}
  /\ \/ /\ task[w] = "persist"
        /\ acked' = acked \cup {item[w]}
        /\ Goto(w, "idle", 0)
        /\ UNCHANGED <<created, parent>>
     \/ /\ task[w] = "move"
        /\ Goto(w, "idle", 0)
        /\ UNCHANGED <<created, parent, acked>>
     \/ /\ task[w] = "moveThenAppend"   \* a branch summary under the target
        /\ Create(w, item[w])
        /\ UNCHANGED acked
  /\ UNCHANGED <<file, torn, open, entries, leaf, forkVars>>

\* The call fails with what it did to the memory and the file in place.
PersistFails(w) ==
  /\ open /\ w \in holder
  /\ holder' = {}
  /\ Goto(w, "idle", 0)
  /\ UNCHANGED <<diskVars, open, entries, leaf, created, parent, acked, forkVars>>

\* Faulty: the target is not looked up.
MoveToUnchecked(w, t) ==
  /\ Moves
  /\ open /\ task[w] = "idle" /\ holder = {}
  /\ leaf' = t
  /\ holder' = {w}
  /\ \/ Goto(w, "move", t)
     \/ created < MaxEntries /\ Goto(w, "moveThenAppend", t)
  /\ UNCHANGED <<diskVars, open, entries, created, parent, acked, forkVars>>

\* Session::move_to checks the target; set_leaf_id moves the cursor in memory.
MoveTo(w, t) ==
  /\ Moves
  /\ open /\ task[w] = "idle" /\ holder = {}
  /\ t \in entries \cup {0}
  /\ leaf' = t
  /\ holder' = {w}
  /\ \/ Goto(w, "move", t)
     \/ created < MaxEntries /\ Goto(w, "moveThenAppend", t)
  /\ UNCHANGED <<diskVars, open, entries, created, parent, acked, forkVars>>

-----------------------------------------------------------------------------
(***************************************************************************)
(* Stopping, opening again, forking                                        *)
(***************************************************************************)

\* The process stops; if it was writing a line, part of it may be in the file.
Stop ==
  /\ open
  /\ open' = FALSE /\ entries' = {} /\ leaf' = 0 /\ holder' = {}
  /\ torn' \in {torn} \cup {TRUE : w \in {x \in Writers : task[x] = "append" /\ holder = {}}}
  /\ task' = [w \in Writers |-> "idle"] /\ item' = [w \in Writers |-> 0]
  /\ UNCHANGED <<file, stateLeaf, created, parent, acked, forkVars>>

\* Every line that holds an entry; the others are skipped.
Readable == {i \in 1..Len(file) : file[i] # Corrupt}
Stored == {file[i] : i \in Readable}

\* The cursor after opening: the last entry of the file, if it has one.
Recovered ==
  IF Readable = {}
  THEN stateLeaf
  ELSE file[CHOOSE i \in Readable : \A j \in Readable : j <= i]

\* Faulty: the torn bytes are skipped, not cut off.
OpenUnrepaired ==
  /\ ~open /\ forking = <<>>
  /\ open' = TRUE
  /\ entries' = Stored
  /\ leaf' = Recovered
  /\ UNCHANGED <<diskVars, holder, taskVars, forkVars>>

\* open_or_init cuts the file at its last newline and reads what is left.
Open ==
  /\ ~open /\ forking = <<>>
  /\ open' = TRUE
  /\ torn' = FALSE
  /\ entries' = Stored
  /\ leaf' = Recovered
  /\ UNCHANGED <<file, stateLeaf, holder, taskVars, forkVars>>

\* Faulty: the entries come in the order they were walked.
PathToRootUnreversed(stored, l) ==
  LET up[e \in 0..MaxEntries] ==
        IF e \in stored THEN <<e>> \o up[parent[e]] ELSE <<>>
  IN  up[l]

\* get_path_to_root: from the root to the entry, as far as it can be followed.
PathToRoot(stored, l) ==
  LET down[e \in 0..MaxEntries] ==
        IF e \in stored THEN Append(down[parent[e]], e) ELSE <<>>
  IN  down[l]

\* The entries of the file, one line after another.
Everything ==
  LET read[n \in 0..Len(file)] ==
        IF n = 0 THEN <<>>
        ELSE IF file[n] = Corrupt THEN read[n - 1] ELSE Append(read[n - 1], file[n])
  IN  read[Len(file)]

\* compute_fork_entries: everything, the branch at an entry or the branch before
\* one.  Opening the source takes its lock and repairs it.
ForkEntries ==
  {Everything}
    \cup {PathToRoot(Stored, e) : e \in Stored}
    \cup {PathToRoot(Stored, parent[e]) : e \in Stored}

Fork ==
  /\ ~open /\ forking = <<>> /\ forked = <<>>
  /\ torn' = FALSE
  /\ forking' \in ForkEntries
  /\ UNCHANGED <<file, stateLeaf, memVars, taskVars, forked>>

\* The entries are appended to the new session one by one; an error or a stop
\* leaves it with those copied so far.
ForkAppend ==
  /\ forking # <<>>
  /\ \/ forked' = Append(forked, Head(forking)) /\ forking' = Tail(forking)
     \/ forking' = <<>> /\ UNCHANGED forked
  /\ UNCHANGED <<diskVars, memVars, taskVars>>

Next ==
  \/ \E w \in Writers :
       \/ NextEntry(w) \/ AppendLine(w) \/ AppendFails(w)
       \/ PersistState(w) \/ PersistFails(w)
       \/ \E t \in 0..MaxEntries : MoveTo(w, t)
  \/ Stop \/ Open \/ Fork \/ ForkAppend

Spec == Init /\ [][Next]_sessionVars

-----------------------------------------------------------------------------
(***************************************************************************)
(* Properties                                                              *)
(***************************************************************************)

ScalarTypeOK ==
  /\ torn \in BOOLEAN /\ open \in BOOLEAN
  /\ holder \in {{}} \cup {{w} : w \in Writers}
  /\ created \in 0..MaxEntries /\ parent \in [Ids -> 0..MaxEntries]
  /\ task \in [Writers -> {"idle", "append", "persist", "move", "moveThenAppend"}]
  /\ item \in [Writers -> 0..MaxEntries]

\* An append that was acknowledged is found again after any restart, however the
\* process was stopped while it or another task was writing.
Durable == acked \subseteq Stored

\* The memory of the process and the file tell the same story.
MemoryIsFile == open => entries = Stored

\* What keeps them together while failed writes leave nothing: the file ends with a whole line
\* as long as the process lives, every stored entry and every entry about to be
\* stored hangs from a stored one, and no two tasks store the same entry.
DiskInv ==
  /\ file \in Seq(Ids) /\ stateLeaf \in Stored \cup {0}
  /\ \A e \in Stored : e <= created /\ parent[e] \in Stored \cup {0}
  /\ acked \subseteq Stored

MemoryInv ==
  /\ open => /\ ~torn
             /\ entries = Stored
             /\ leaf \in Stored \cup {0}
  /\ ~open => holder = {} /\ \A w \in Writers : task[w] = "idle"

TaskInv ==
  \A w \in Writers :
    /\ task[w] = "append" =>
         /\ item[w] \in 1..created /\ item[w] \notin Stored
         /\ parent[item[w]] \in Stored \cup {0}
         /\ \A v \in Writers \ {w} : task[v] = "append" => item[v] # item[w]
    /\ task[w] = "persist" => item[w] \in Stored
    /\ task[w] \in {"move", "moveThenAppend"} => item[w] \in Stored \cup {0}
    /\ w \in holder <=> task[w] \in {"persist", "move", "moveThenAppend"}

SessionInv == ScalarTypeOK /\ DiskInv /\ MemoryInv /\ TaskInv

\* No history is cut short: the branch of every entry can be followed to the
\* root, in memory and in the file, and the cursor stands in the tree.
Rooted ==
  /\ \A e \in Stored : parent[e] \in Stored \cup {0}
  /\ open => leaf \in Stored \cup {0}

\* A fork, complete or cut short, is a session of its own: every entry follows
\* its parent.
ForkRooted ==
  \A i \in 1..Len(forked) :
    parent[forked[i]] = 0 \/ \E j \in 1..(i - 1) : forked[j] = parent[forked[i]]

Tree == INSTANCE SessionTree WITH
          Root <- 0,
          tree <- Stored,
          parentOf <- parent,
          cursor <- IF open THEN leaf ELSE 0,
          promised <- acked

\* The files implement the tree the session's users see.
ImplementsTree == Tree!Spec

\* session_jsonl.rs: all writes are persisted before the in-memory state is
\* updated.
PersistedFirst ==
  [][open /\ open' /\ leaf' # leaf => leaf' \in {stateLeaf'} \cup SetOf(file')]_sessionVars
=============================================================================

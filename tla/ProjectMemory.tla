--------------------------- MODULE ProjectMemory ---------------------------
(***************************************************************************)
(* The project's memory (grain-ai-agent-headless, memory.rs): a refresh    *)
(* reads its own files of last time and every session, and writes four     *)
(* files, each one under a temporary name first.  Refreshes run in threads *)
(* of their own, one when a terminal boots and more on command; nothing    *)
(* keeps two of them, or those of two terminals, apart, and sessions are   *)
(* written meanwhile.                                                      *)
(*                                                                         *)
(* Entries are numbered in the order they are made, which is also their    *)
(* age.  An entry has one durable text, or none; all have one score and    *)
(* take one line of the summary.  A file is an inode, since it can be      *)
(* written under one name and found under another.                         *)
(***************************************************************************)
EXTENDS Naturals, Sequences, FiniteSetsExt

CONSTANTS
  Sessions,       \* directories of sessions
  Texts,          \* texts worth remembering
  Categories,     \* of these, numbered by rank
  CategoryOf,     \* the category of each text
  Unreadable,     \* sessions whose files may happen not to be readable
  Refreshers,     \* threads that may run a refresh
  MaxRecords,     \* max_records, 160 in the code
  Caps,           \* records of each category in the summary: 12, 12 and 10
  Room,           \* records there is room for in the summary, in its 8 KiB
  MaxEntries,     \* bound: entries of all sessions
  MaxRefreshes,   \* bound: refreshes begun
  MaxStops        \* bound: refreshes that are stopped, their process being killed

ASSUME ProjectMemoryAssumption ==
  /\ Categories \subseteq Nat /\ CategoryOf \in [Texts -> Categories]
  /\ Unreadable \subseteq Sessions
  /\ MaxRecords \in Nat \ {0} /\ Caps \in [Categories -> Nat] /\ Room \in Nat
  /\ {MaxEntries, MaxRefreshes, MaxStops} \subseteq Nat

VARIABLES
  entries,        \* the entries of all sessions: session, text and path from the root
  leaf,           \* each session's current entry, 0 before the first
  gone,           \* sessions deleted
  final,          \* each file's inode, 0 for none
  tmp,            \* that of its temporary name
  content,        \* what each inode holds
  job,            \* what each refresher does
  begun, stops,   \* refreshes begun and stopped
  fresh,          \* the last step that mattered was the end of a refresh: no variable of the code
  grown           \* sessions only grew so far, not during a refresh, and all could be read:
                  \* no variable of the code

sessionVars == <<entries, leaf, gone>>
diskVars == <<final, tmp, content>>
notes == <<fresh, grown>>
vars == <<sessionVars, diskVars, job, begun, stops, notes>>

\* state.json, raw_memories.jsonl, project_memory.md and memory_summary.md, in
\* the order they are written.
Files == 1 .. 4
State == 1
Raw == 2
Project == 3
Summary == 4

\* Named and open files, and one to be created.
Inodes == 1 .. 2 * Cardinality(Files) + Cardinality(Refreshers) + 1
Free == Min(Inodes \ ({final[f] : f \in Files} \cup {tmp[f] : f \in Files}
                        \cup {job[r].fd : r \in Refreshers}))

NoText == ""
Nothing == [at |-> "empty", data |-> {}]
Whole(data) == [at |-> "whole", data |-> data]

Idle == [at |-> "idle", file |-> 1, fd |-> 0, old |-> {}, before |-> {}, left |-> {},
         known |-> {}, after |-> {}, records |-> {}]
AllIdle == \A r \in Refreshers : job[r] = Idle

-----------------------------------------------------------------------------
(***************************************************************************)
(* Sessions                                                                *)
(***************************************************************************)

Of(s) == {i \in DOMAIN entries : entries[i].session = s}
PathTo(i) == IF i = 0 THEN <<>> ELSE entries[i].path

Changes(grows) == fresh' = FALSE /\ grown' = (grown /\ grows /\ AllIdle)

AppendEntry(s) ==
  /\ Changes(TRUE) /\ s \notin gone /\ Len(entries) < MaxEntries
  /\ LET new == Len(entries) + 1
     IN /\ \E text \in Texts \cup {NoText} :
             entries' = Append(entries, [session |-> s, text |-> text,
                                         path |-> Append(PathTo(leaf[s]), new)])
        /\ leaf' = [leaf EXCEPT ![s] = new]
  /\ UNCHANGED <<gone, diskVars, job, begun, stops>>

Navigate(s) ==
  /\ Changes(FALSE) /\ s \notin gone
  /\ \E i \in Of(s) : leaf' = [leaf EXCEPT ![s] = i]
  /\ UNCHANGED <<entries, gone, diskVars, job, begun, stops>>

DeleteSession(s) ==
  /\ Changes(FALSE) /\ s \notin gone
  /\ gone' = gone \cup {s}
  /\ UNCHANGED <<entries, leaf, diskVars, job, begun, stops>>

-----------------------------------------------------------------------------
(***************************************************************************)
(* A refresh, from one access to the disk to the next                      *)
(***************************************************************************)

\* What a session's snapshot records in the state, and the records it yields.
\* "from" is no field of the code: the entry the session was at.
Processed(s, at, path) == [session |-> s, leaf |-> at, length |-> Len(path)]
Extracted(s, at, path) ==
  {[session |-> s, entry |-> i, text |-> entries[i].text, from |-> at] :
     i \in {j \in {path[k] : k \in DOMAIN path} : entries[j].text # NoText}}

\* One record for each text, the youngest; of these the youngest MaxRecords.
Younger(p, q) == p.entry > q.entry
DedupeAndCap(records) ==
  LET best == {q \in records : ~\E p \in records : p.text = q.text /\ Younger(p, q)}
  IN {q \in best : Cardinality({p \in best : Younger(p, q)}) < MaxRecords}

\* The summary goes through the categories and takes the youngest of each, as
\* many as its cap allows; it is cut off where its room ends.
Category(q) == CategoryOf[q.text]
Before(p, q) ==
  Category(p) < Category(q) \/ (Category(p) = Category(q) /\ Younger(p, q))

Kept(records) ==
  {q \in records :
     Cardinality({p \in records : Category(p) = Category(q) /\ Younger(p, q)}) < Caps[Category(q)]}
Summarised(records) ==
  LET kept == Kept(records)
  IN {q \in kept : Cardinality({p \in kept : Before(p, q)}) < Room}

\* A state that cannot be parsed ends the refresh.
Begin(r) ==
  /\ job[r] = Idle /\ begun < MaxRefreshes
  /\ begun' = begun + 1 /\ fresh' = FALSE /\ UNCHANGED grown
  /\ LET file == IF final[State] = 0 THEN Whole({}) ELSE content[final[State]]
     IN job' = IF file.at = "whole"
               THEN [job EXCEPT ![r].at = "raw", ![r].before = file.data] ELSE job
  /\ UNCHANGED <<sessionVars, diskVars, stops>>

ReadRaw(r) ==
  /\ job[r].at = "raw"
  /\ job' = [job EXCEPT ![r].at = "scan",
                        ![r].old = IF final[Raw] = 0 THEN {} ELSE content[final[Raw]].data,
                        ![r].left = {s \in Sessions \ gone : Of(s) # {}}]
  /\ UNCHANGED <<sessionVars, diskVars, begun, stops, notes>>

\* The entries of the next session; one that is gone by now is passed over.
ReadEntries(r) ==
  /\ job[r].at = "scan"
  /\ \E s \in job[r].left :
       job' = [job EXCEPT ![r].at = IF s \in gone THEN "scan" ELSE "leaf",
                          ![r].left = IF s \in gone THEN @ \ {s} ELSE @,
                          ![r].known = IF s \in gone THEN {} ELSE Of(s)]
  /\ UNCHANGED <<sessionVars, diskVars, begun, stops, notes>>

\* One that cannot be read is passed over with a warning.
SkipSession(r) ==
  /\ job[r].at = "scan" /\ grown' = FALSE
  /\ \E s \in job[r].left \cap Unreadable : job' = [job EXCEPT ![r].left = @ \ {s}]
  /\ UNCHANGED <<sessionVars, diskVars, begun, stops, fresh>>

\* Its leaf, read after its entries; and what becomes of its records.
\* Faulty: a branch of the same length is taken for the same branch.
ReusesByLength(r, s, at, path) ==
  /\ \E p \in job[r].before : p.session = s /\ p.length = Len(path)
  /\ \E q \in job[r].old : q.session = s

\* Faulty: a session seen before is taken for unchanged.
ReusesKnown(r, s, at, path) == \E q \in job[r].old : q.session = s

Reuses(r, s, at, path) ==
  /\ Processed(s, at, path) \in job[r].before
  /\ \E q \in job[r].old : q.session = s

ReadLeaf(r) ==
  /\ job[r].at = "leaf"
  /\ LET s == entries[Min(job[r].known)].session
         at == IF s \in gone THEN Max(job[r].known) ELSE leaf[s]
         path == IF at \in job[r].known THEN PathTo(at) ELSE <<>>
         records == IF Reuses(r, s, at, path) THEN {q \in job[r].old : q.session = s}
                    ELSE Extracted(s, at, path)
     IN job' = [job EXCEPT ![r].at = "scan", ![r].left = @ \ {s}, ![r].known = {},
                           ![r].after = @ \cup {Processed(s, at, path)},
                           ![r].records = @ \cup records]
  /\ UNCHANGED <<sessionVars, diskVars, begun, stops, notes>>

\* Faulty: when no session has changed the files are left as they are.
ConcludeUnchanged(r) ==
  /\ job[r].at = "scan" /\ job[r].left = {}
  /\ IF job[r].before = job[r].after
     THEN job' = [job EXCEPT ![r] = Idle] /\ fresh' = TRUE
     ELSE /\ job' = [job EXCEPT ![r].at = "create", ![r].before = {}, ![r].old = {},
                                ![r].records = DedupeAndCap(@)]
          /\ UNCHANGED fresh
  /\ UNCHANGED <<sessionVars, diskVars, begun, stops, grown>>

Conclude(r) ==
  /\ job[r].at = "scan" /\ job[r].left = {}
  /\ job' = [job EXCEPT ![r].at = "create", ![r].before = {}, ![r].old = {},
                        ![r].records = DedupeAndCap(@)]
  /\ UNCHANGED <<sessionVars, diskVars, begun, stops, notes>>

\* The temporary file, emptied if there is one already.
CreateTmp(r) ==
  /\ job[r].at = "create"
  /\ LET f == job[r].file
         inode == IF tmp[f] = 0 THEN Free ELSE tmp[f]
     IN /\ tmp' = [tmp EXCEPT ![f] = inode]
        /\ content' = [content EXCEPT ![inode] = Nothing]
        /\ job' = [job EXCEPT ![r].at = "write", ![r].fd = inode]
  /\ UNCHANGED <<sessionVars, final, begun, stops, notes>>

\* What another refresh wrote there since shows behind a shorter text; lines
\* of records are read one by one.
Overlaid(f, new, old) ==
  IF old.at = "empty" THEN {Whole(new)}
  ELSE {Whole(new)} \cup
       {[at |-> "torn", data |-> new \cup rest] : rest \in IF f = Raw THEN SUBSET old.data ELSE {{}}}

WriteTmp(r) ==
  /\ job[r].at = "write"
  /\ LET f == job[r].file
         new == CASE f = State -> job[r].after
                  [] f \in {Raw, Project} -> job[r].records
                  [] f = Summary -> Summarised(job[r].records)
     IN \E c \in Overlaid(f, new, content[job[r].fd]) :
          content' = [content EXCEPT ![job[r].fd] = c]
  /\ job' = [job EXCEPT ![r].at = "rename", ![r].fd = 0]
  /\ UNCHANGED <<sessionVars, final, tmp, begun, stops, notes>>

\* What the temporary name stands for takes the file's place; if another
\* refresh has moved it away, this one fails.
Rename(r) ==
  /\ job[r].at = "rename"
  /\ LET f == job[r].file
     IN IF tmp[f] = 0
        THEN job' = [job EXCEPT ![r] = Idle] /\ UNCHANGED <<final, tmp, fresh>>
        ELSE /\ final' = [final EXCEPT ![f] = tmp[f]] /\ tmp' = [tmp EXCEPT ![f] = 0]
             /\ job' = [job EXCEPT ![r] = IF f = Summary THEN Idle
                                          ELSE [@ EXCEPT !.at = "create", !.file = f + 1]]
             /\ fresh' = (f = Summary)
  /\ UNCHANGED <<sessionVars, content, begun, stops, grown>>

\* Killed with its process, or ended by an access to the disk that fails.
Stop(r) ==
  /\ job[r] # Idle /\ stops < MaxStops
  /\ stops' = stops + 1
  /\ job' = [job EXCEPT ![r] = Idle]
  /\ UNCHANGED <<sessionVars, diskVars, begun, notes>>

-----------------------------------------------------------------------------
Init ==
  /\ entries = <<>> /\ leaf = [s \in Sessions |-> 0] /\ gone = {}
  /\ final = [f \in Files |-> 0] /\ tmp = [f \in Files |-> 0]
  /\ content = [i \in Inodes |-> Nothing]
  /\ job = [r \in Refreshers |-> Idle]
  /\ begun = 0 /\ stops = 0 /\ fresh = FALSE /\ grown = TRUE

Refresh(r) ==
  \/ Begin(r) \/ ReadRaw(r) \/ ReadEntries(r) \/ SkipSession(r) \/ ReadLeaf(r)
  \/ Conclude(r) \/ CreateTmp(r) \/ WriteTmp(r) \/ Rename(r) \/ Stop(r)

Next ==
  \/ \E s \in Sessions : AppendEntry(s) \/ Navigate(s) \/ DeleteSession(s)
  \/ \E r \in Refreshers : Refresh(r)

Spec == Init /\ [][Next]_vars

-----------------------------------------------------------------------------
(***************************************************************************)
(* Properties                                                              *)
(***************************************************************************)

Held(f) == IF final[f] = 0 THEN Nothing ELSE content[final[f]]

\* The comment on refresh_project_memory (memory.rs:216): "Existing raw records
\* are reused for unchanged sessions".  The records a refresh is about to write
\* for a session were extracted where the session now is.
RecordsAreCurrent(r) ==
  job[r].at = "create" =>
    \A q \in job[r].records : \E p \in job[r].after : p.session = q.session /\ p.leaf = q.from

\* So it is as long as no refresh was stopped, whatever sessions do meanwhile.
ReusesUnchanged == stops = 0 => \A r \in Refreshers : RecordsAreCurrent(r)

\* A refresh stopped between two renames leaves a state that is ahead of the
\* records; what the comment says would be true after that, too.
ReusesUnchangedAfterStops == \A r \in Refreshers : RecordsAreCurrent(r)

\* Wherever a refresh is stopped, no file is found empty or half written: a
\* state that cannot be parsed would end every later refresh.
FilesAreWhole == \A f \in Files : final[f] # 0 => Held(f).at = "whole"

\* However many refreshes were stopped before, and whatever could not be read,
\* a completed one leaves two files that tell the same and a third that is
\* their summary, and a state that knows each session with records.
SettledAgree ==
  fresh =>
    /\ Held(Project) = Held(Raw) /\ Held(Summary) = Whole(Summarised(Held(Raw).data))
    /\ \A q \in Held(Raw).data : \E p \in Held(State).data : p.session = q.session

\* What the two files for readers make of a text: project_memory.md tells it, and
\* memory_summary.md does unless it is full, or has all it takes of its category.
Tell(f, text) == \E q \in Held(f).data : q.text = text
SummaryIsFull == Cardinality(Held(Summary).data) = Room
CategoryIsFull(c) == Cardinality({q \in Held(Summary).data : Category(q) = c}) = Caps[c]
IsRemembered(text) ==
  /\ Tell(Project, text)
  /\ Tell(Summary, text) \/ SummaryIsFull \/ CategoryIsFull(CategoryOf[text])

\* While sessions only grow, and not during a refresh, and all are read and none
\* is stopped, a refresh remembers every text on every session's branch up to
\* the limits, although it looks at changed sessions only.
Remembers ==
  fresh /\ grown /\ stops = 0 =>
    \/ Cardinality(Held(Raw).data) = MaxRecords
    \/ \A s \in Sessions : \A k \in DOMAIN PathTo(leaf[s]) :
         LET text == entries[PathTo(leaf[s])[k]].text
         IN text # NoText => IsRemembered(text)

\* memory.rs:4: a refresh regenerates the files from the sessions, of whatever
\* shape they are; from those, at least, that are as the refresh found them.
RemembersAfterMoves ==
  fresh /\ stops = 0 =>
    \/ Cardinality(Held(Raw).data) = MaxRecords
    \/ \A s \in Sessions : \A k \in DOMAIN PathTo(leaf[s]) :
         LET text == entries[PathTo(leaf[s])[k]].text
         IN Processed(s, leaf[s], PathTo(leaf[s])) \in Held(State).data /\ text # NoText
              => IsRemembered(text)
=============================================================================

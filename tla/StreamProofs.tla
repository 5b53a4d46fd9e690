---------------------------- MODULE StreamProofs ----------------------------
(***************************************************************************)
(* Two streams that may be cut anywhere, and what is read back from them.  *)
(*                                                                         *)
(* JsonlSession, for any number of tasks and entries, as long as a write   *)
(* that fails leaves no bytes behind: stopping the process anywhere loses  *)
(* nothing that was acknowledged and cuts no history short.  SessionInv    *)
(* follows the entry of each task from its creation to its line.           *)
(* BranchInv adds the order of the entries, which makes every list a fork  *)
(* copies one in which entries follow their parents; the walk to the root  *)
(* and the reading of the lines are recursive, and proved by induction.    *)
(*                                                                         *)
(* ProviderStream, for any number of frames, blocks, chunks and calls.  A  *)
(* list of events is Legal if each may follow those before it: what either *)
(* assembler has told and will tell is Legal, which is the contract of     *)
(* stream.rs.  InboundInv follows genai's calls and signatures from the    *)
(* chunk to the block.  WireInv says what the decoder holds after p bytes  *)
(* (DecodedTo) and what the message is after n frames (Live, Finished): it *)
(* depends on how many bytes came, not on the chunks they came in.         *)
(***************************************************************************)
EXTENDS JsonlSession, ProviderStream, Lemmas

-----------------------------------------------------------------------------
(***************************************************************************)
(* What the file holds                                                     *)
(***************************************************************************)

\* A file of entries stores each of them.
LEMMA StoredLines ==
  ASSUME file \in Seq(Ids)
  PROVE  /\ Readable = 1..Len(file)
         /\ Stored = {file[i] : i \in 1..Len(file)}
         /\ Stored \subseteq Ids
<1>1. Len(file) \in Nat /\ \A i \in 1..Len(file) : file[i] \in Ids
  BY LenProperties, ElementOfSeq
<1>2. \A i \in 1..Len(file) : file[i] # Corrupt
  BY <1>1, JsonlAssumption DEF Ids, Corrupt
<1>. QED  BY <1>1, <1>2 DEF Readable, Stored

\* The first lines of a file store nothing.
LEMMA NothingStored == file = <<>> => Stored = {}
  BY DEF Stored, Readable

\* Appending a line adds its entry.
LEMMA StoredAppend ==
  ASSUME file \in Seq(Ids), NEW e \in Ids, file' = Append(file, e)
  PROVE  file' \in Seq(Ids) /\ Stored' = Stored \cup {e}
<1>1. /\ file' \in Seq(Ids) /\ Len(file') = Len(file) + 1 /\ Len(file) \in Nat
      /\ \A i \in 1..Len(file) : file'[i] = file[i]
      /\ file'[Len(file) + 1] = e
  BY AppendProperties, LenProperties
<1>2. \A i \in 1..Len(file) : file[i] # Corrupt
  BY ElementOfSeq, JsonlAssumption DEF Ids, Corrupt
<1>3. e # Corrupt
  BY JsonlAssumption DEF Ids, Corrupt
<1>4. Stored = {file[i] : i \in 1..Len(file)}
  BY StoredLines
<1>5. Readable' = 1..(Len(file) + 1)
  BY <1>1, <1>2, <1>3 DEF Readable, Corrupt
<1>6. Stored' = {file'[i] : i \in 1..(Len(file) + 1)}
  BY <1>5 DEF Stored
<1>7. 1..(Len(file) + 1) = 1..Len(file) \cup {Len(file) + 1}
  BY <1>1
<1>. QED  BY <1>1, <1>4, <1>6, <1>7

\* An unchanged file stores what it stored.
LEMMA StoredSame == file' = file => Stored' = Stored /\ Readable' = Readable
  BY DEF Stored, Readable, Corrupt

\* The cursor found in a file is one of its entries, or the saved one.
LEMMA RecoveredStored ==
  ASSUME file \in Seq(Ids), stateLeaf \in Stored \cup {0}
  PROVE  Recovered \in Stored \cup {0}
<1>1. CASE Readable = {}
  BY <1>1 DEF Recovered
<1>2. CASE Readable # {}
  <2>1. Readable = 1..Len(file) /\ Len(file) \in Nat
    BY StoredLines, LenProperties
  <2>2. Len(file) \in Readable /\ \A j \in Readable : j <= Len(file)
    BY <1>2, <2>1
  <2>3. (CHOOSE i \in Readable : \A j \in Readable : j <= i) \in Readable
    BY <2>2
  <2>. QED  BY <1>2, <2>3 DEF Recovered, Stored
<1>. QED  BY <1>1, <1>2

-----------------------------------------------------------------------------
(***************************************************************************)
(* The invariant                                                           *)
(***************************************************************************)

\* A new session satisfies the invariant.
LEMMA InitInv == Init => SessionInv
<1>. SUFFICES ASSUME Init PROVE SessionInv
  OBVIOUS
<1>. USE JsonlAssumption DEF Init
<1>1. Stored = {}
  BY NothingStored
<1>2. ScalarTypeOK
  <2>1. holder \in {{}} \cup {{w} : w \in Writers}
    OBVIOUS
  <2>2. 0 \in 0..MaxEntries
    OBVIOUS
  <2>3. torn \in BOOLEAN /\ open \in BOOLEAN
    OBVIOUS
  <2>. QED  BY <2>1, <2>2, <2>3 DEF ScalarTypeOK
<1>3. DiskInv
  BY <1>1, EmptySeq DEF DiskInv
<1>4. MemoryInv
  BY <1>1 DEF MemoryInv
<1>5. TaskInv
  BY <1>1 DEF TaskInv
<1>. QED  BY <1>2, <1>3, <1>4, <1>5 DEF SessionInv

\* What creating an entry under a stored one does to the tasks.
LEMMA CreateInv ==
  ASSUME SessionInv, NEW w \in Writers, NEW p \in Stored \cup {0}, Create(w, p),
         file' = file
  PROVE  /\ created' \in 0..MaxEntries /\ parent' \in [Ids -> 0..MaxEntries]
         /\ task' \in [Writers -> {"idle", "append", "persist", "move", "moveThenAppend"}]
         /\ item' \in [Writers -> 0..MaxEntries]
         /\ \A e \in Stored : e <= created' /\ parent'[e] = parent[e]
         /\ \A v \in Writers \ {w} : /\ task'[v] = task[v] /\ item'[v] = item[v]
                                     /\ task[v] = "append" =>
                                          /\ item[v] \in 1..created
                                          /\ parent'[item[v]] = parent[item[v]]
         /\ task'[w] = "append" /\ item'[w] = created' /\ created' = created + 1
         /\ parent'[created'] = p
         /\ created' \notin Stored
<1>. USE JsonlAssumption DEF SessionInv, ScalarTypeOK, Create, Goto, Ids
<1>1. Stored \subseteq Ids
  BY StoredLines DEF DiskInv
<1>2. created + 1 \in Ids /\ p \in 0..MaxEntries
  BY <1>1
<1>3. \A e \in Stored : e <= created
  BY DEF DiskInv
<1>4. \A v \in Writers : task[v] = "append" => item[v] \in 1..created
  BY DEF TaskInv
<1>5. \A e \in Stored : e # created + 1 /\ e \in Ids
  BY <1>1, <1>3
<1>. QED  BY <1>2, <1>3, <1>4, <1>5

\* Reading the cursor keeps the invariant.
LEMMA NextEntryInv ==
  ASSUME SessionInv, NEW w \in Writers, NextEntry(w)
  PROVE  SessionInv'
<1>. USE JsonlAssumption DEF NextEntry, SessionInv, ScalarTypeOK, diskVars, memVars, forkVars
<1>1. Stored' = Stored /\ leaf \in Stored \cup {0}
  BY StoredSame DEF MemoryInv
<1>2. Create(w, leaf)
  OBVIOUS
<1>. HIDE DEF NextEntry
<1>3. /\ created' \in 0..MaxEntries /\ parent' \in [Ids -> 0..MaxEntries]
      /\ task' \in [Writers -> {"idle", "append", "persist", "move", "moveThenAppend"}]
      /\ item' \in [Writers -> 0..MaxEntries]
      /\ \A e \in Stored : e <= created' /\ parent'[e] = parent[e]
      /\ \A v \in Writers \ {w} : /\ task'[v] = task[v] /\ item'[v] = item[v]
                                  /\ task[v] = "append" =>
                                       /\ item[v] \in 1..created
                                       /\ parent'[item[v]] = parent[item[v]]
      /\ task'[w] = "append" /\ item'[w] = created' /\ created' = created + 1
      /\ parent'[created'] = leaf
      /\ created' \notin Stored
  BY <1>1, <1>2, CreateInv DEF NextEntry
<1>4. ScalarTypeOK'
  BY <1>3 DEF NextEntry
<1>5. DiskInv'
  BY <1>1, <1>3 DEF DiskInv, NextEntry
<1>6. MemoryInv'
  BY <1>1, <1>3 DEF MemoryInv, NextEntry
<1>7. TaskInv'
  BY <1>1, <1>3 DEF TaskInv, NextEntry
<1>. QED  BY <1>4, <1>5, <1>6, <1>7

\* Writing a line keeps the invariant: it is whole, for the file ended with one.
LEMMA AppendLineInv ==
  ASSUME SessionInv, NEW w \in Writers, AppendLine(w)
  PROVE  SessionInv' /\ item[w] \in Ids \ Stored /\ Stored' = Stored \cup {item[w]}
<1>. USE JsonlAssumption DEF AppendLine, Goto, SessionInv, ScalarTypeOK, forkVars
<1>1. item[w] \in Ids \ Stored /\ parent[item[w]] \in Stored \cup {0} /\ item[w] <= created
  BY DEF TaskInv, Ids
<1>2. file \in Seq(Ids) /\ file' = Append(file, item[w])
  BY DEF DiskInv, MemoryInv, Line
<1>3. file' \in Seq(Ids) /\ Stored' = Stored \cup {item[w]}
  BY <1>1, <1>2, StoredAppend
<1>4. ScalarTypeOK'
  OBVIOUS
<1>5. DiskInv'
  BY <1>1, <1>3 DEF DiskInv
<1>6. MemoryInv'
  BY <1>1, <1>3 DEF MemoryInv
<1>7. TaskInv'
  BY <1>1, <1>3 DEF TaskInv
<1>. QED  BY <1>1, <1>3, <1>4, <1>5, <1>6, <1>7

\* Saving the cursor keeps the invariant, whatever the task does next.
LEMMA PersistStateInv ==
  ASSUME SessionInv, NEW w \in Writers, PersistState(w)
  PROVE  SessionInv'
<1>. USE JsonlAssumption DEF SessionInv, ScalarTypeOK, forkVars
<1>1. Stored' = Stored /\ file' = file /\ leaf \in Stored \cup {0} /\ holder = {w}
  BY StoredSame DEF MemoryInv, PersistState
<1>2. \A v \in Writers \ {w} : task[v] \in {"idle", "append"}
  BY <1>1 DEF TaskInv
<1>3. CASE task[w] \in {"persist", "move"}
  <2>1. /\ task' = [task EXCEPT ![w] = "idle"] /\ item' = [item EXCEPT ![w] = 0]
        /\ created' = created /\ parent' = parent
    BY <1>3 DEF PersistState, Goto
  <2>2. acked' \subseteq Stored
    BY <1>3 DEF PersistState, DiskInv, TaskInv
  <2>3. ScalarTypeOK'
    BY <2>1 DEF PersistState
  <2>4. DiskInv'
    BY <1>1, <2>1, <2>2 DEF DiskInv, PersistState
  <2>5. MemoryInv'
    BY <1>1, <2>1 DEF MemoryInv, PersistState
  <2>6. TaskInv'
    BY <1>1, <1>2, <2>1 DEF TaskInv, PersistState
  <2>. QED  BY <2>3, <2>4, <2>5, <2>6
<1>4. CASE task[w] = "moveThenAppend"
  <2>1. Create(w, item[w]) /\ item[w] \in Stored \cup {0} /\ acked' = acked
    BY <1>4 DEF PersistState, TaskInv
  <2>2. /\ created' \in 0..MaxEntries /\ parent' \in [Ids -> 0..MaxEntries]
        /\ task' \in [Writers -> {"idle", "append", "persist", "move", "moveThenAppend"}]
        /\ item' \in [Writers -> 0..MaxEntries]
        /\ \A e \in Stored : e <= created' /\ parent'[e] = parent[e]
        /\ \A v \in Writers \ {w} : /\ task'[v] = task[v] /\ item'[v] = item[v]
                                    /\ task[v] = "append" =>
                                         /\ item[v] \in 1..created
                                         /\ parent'[item[v]] = parent[item[v]]
        /\ task'[w] = "append" /\ item'[w] = created' /\ created' = created + 1
        /\ parent'[created'] = item[w]
        /\ created' \notin Stored
    BY <1>1, <2>1, CreateInv
  <2>3. ScalarTypeOK'
    BY <2>2 DEF PersistState
  <2>4. DiskInv'
    BY <1>1, <2>1, <2>2 DEF DiskInv, PersistState
  <2>5. MemoryInv'
    BY <1>1, <2>2 DEF MemoryInv, PersistState
  <2>6. TaskInv'
    BY <1>1, <1>2, <2>1, <2>2 DEF TaskInv, PersistState
  <2>. QED  BY <2>3, <2>4, <2>5, <2>6
<1>. QED  BY <1>3, <1>4 DEF PersistState

\* Moving the cursor keeps the invariant.
LEMMA MoveToInv ==
  ASSUME SessionInv, NEW w \in Writers, NEW t \in 0..MaxEntries, MoveTo(w, t)
  PROVE  SessionInv'
<1>. USE JsonlAssumption DEF MoveTo, Goto, SessionInv, ScalarTypeOK, forkVars, diskVars
<1>1. Stored' = Stored /\ t \in Stored \cup {0}
  BY StoredSame DEF MemoryInv
<1>2. ScalarTypeOK'
  OBVIOUS
<1>3. DiskInv'
  BY <1>1 DEF DiskInv
<1>4. MemoryInv'
  BY <1>1 DEF MemoryInv
<1>5. TaskInv'
  BY <1>1 DEF TaskInv
<1>. QED  BY <1>2, <1>3, <1>4, <1>5

\* Stopping keeps the invariant: what tore the file does not touch its lines.
LEMMA StopInv ==
  ASSUME SessionInv, Stop
  PROVE  SessionInv'
<1>. USE JsonlAssumption DEF Stop, SessionInv, ScalarTypeOK, forkVars
<1>1. Stored' = Stored
  BY StoredSame
<1>2. ScalarTypeOK'
  <2>1. torn' \in BOOLEAN /\ open' \in BOOLEAN /\ holder' = {}
    OBVIOUS
  <2>2. task' = [x \in Writers |-> "idle"] /\ item' = [x \in Writers |-> 0] /\ 0 \in 0..MaxEntries
    OBVIOUS
  <2>3. created' \in 0..MaxEntries /\ parent' \in [Ids -> 0..MaxEntries]
    BY DEF taskVars
  <2>. QED  BY <2>1, <2>2, <2>3 DEF ScalarTypeOK
<1>3. DiskInv'
  BY <1>1 DEF DiskInv
<1>4. MemoryInv' /\ TaskInv'
  BY <1>1 DEF MemoryInv, TaskInv
<1>. QED  BY <1>2, <1>3, <1>4

\* Opening keeps the invariant: the file ends with a whole line again.
LEMMA OpenInv ==
  ASSUME SessionInv, Open
  PROVE  SessionInv'
<1>. USE JsonlAssumption DEF Open, SessionInv, ScalarTypeOK, forkVars, taskVars
<1>1. Stored' = Stored /\ Recovered \in Stored \cup {0}
  BY StoredSame, RecoveredStored DEF DiskInv
<1>2. ScalarTypeOK'
  OBVIOUS
<1>3. DiskInv'
  BY <1>1 DEF DiskInv
<1>4. MemoryInv' /\ TaskInv'
  BY <1>1 DEF MemoryInv, TaskInv
<1>. QED  BY <1>2, <1>3, <1>4

\* Forks read the session and leave it alone, but for the repair.
LEMMA ForkInv ==
  ASSUME SessionInv, Fork \/ ForkAppend \/ UNCHANGED sessionVars
  PROVE  SessionInv'
<1>. USE JsonlAssumption DEF Fork, ForkAppend, SessionInv, ScalarTypeOK, diskVars,
      memVars, taskVars, sessionVars
<1>1. Stored' = Stored
  BY StoredSame
<1>2. ScalarTypeOK'
  OBVIOUS
<1>3. DiskInv'
  BY <1>1 DEF DiskInv
<1>4. MemoryInv' /\ TaskInv'
  BY <1>1 DEF MemoryInv, TaskInv
<1>. QED  BY <1>2, <1>3, <1>4

\* A write that failed and left nothing keeps the invariant: an entry whose state
\* file was not written stays stored, and is not acknowledged.
LEMMA FailInv ==
  ASSUME ~ShortWrites, SessionInv, NEW w \in Writers, AppendFails(w) \/ PersistFails(w)
  PROVE  SessionInv' /\ file' = file /\ torn' = torn
<1>. USE JsonlAssumption DEF Goto, SessionInv, ScalarTypeOK, forkVars
<1>1. /\ UNCHANGED <<file, torn, stateLeaf, open, entries, leaf, created, parent, acked>>
      /\ task' = [task EXCEPT ![w] = "idle"] /\ item' = [item EXCEPT ![w] = 0]
      /\ holder' = {}
      /\ holder \subseteq {w}
  BY DEF AppendFails, PersistFails, diskVars, memVars
<1>. HIDE DEF Goto
<1>2. Stored' = Stored
  BY <1>1, StoredSame
<1>3. ScalarTypeOK'
  BY <1>1
<1>4. DiskInv'
  BY <1>1, <1>2 DEF DiskInv
<1>5. MemoryInv'
  BY <1>1, <1>2 DEF MemoryInv
<1>6. TaskInv'
  BY <1>1, <1>2 DEF TaskInv
<1>. QED  BY <1>1, <1>3, <1>4, <1>5, <1>6

\* While failed writes leave nothing, every step keeps the invariant.
LEMMA StepInv ==
  ASSUME ~ShortWrites, SessionInv, [Next]_sessionVars
  PROVE  SessionInv'
BY NextEntryInv, AppendLineInv, PersistStateInv, MoveToInv, FailInv, StopInv, OpenInv, ForkInv
   DEF Next

-----------------------------------------------------------------------------
(***************************************************************************)
(* Theorems                                                                *)
(***************************************************************************)

\* The invariant holds in every reachable state.
THEOREM SessionInvHolds == ~ShortWrites => (Spec => []SessionInv)
<1>. SUFFICES ASSUME ~ShortWrites PROVE Spec => []SessionInv
  OBVIOUS
<1>1. Init => SessionInv
  BY InitInv
<1>2. SessionInv /\ [Next]_sessionVars => SessionInv'
  BY StepInv
<1>. QED  BY <1>1, <1>2, PTL DEF Spec

\* An append that returned Ok is in the file for good.
THEOREM DurableHolds == ~ShortWrites => (Spec => []Durable)
<1>1. SessionInv => Durable
  BY DEF SessionInv, DiskInv, Durable
<1>. QED  BY <1>1, SessionInvHolds, PTL

\* A process's memory is what the file says.
THEOREM MemoryIsFileHolds == ~ShortWrites => (Spec => []MemoryIsFile)
<1>1. SessionInv => MemoryIsFile
  BY DEF SessionInv, MemoryInv, MemoryIsFile
<1>. QED  BY <1>1, SessionInvHolds, PTL

\* Every branch can be followed to the root.
THEOREM RootedHolds == ~ShortWrites => (Spec => []Rooted)
<1>1. SessionInv => Rooted
  BY DEF SessionInv, DiskInv, MemoryInv, Rooted
<1>. QED  BY <1>1, SessionInvHolds, PTL

-----------------------------------------------------------------------------
(***************************************************************************)
(* The files implement the tree                                            *)
(***************************************************************************)

\* A new session is an empty tree.
LEMMA InitRefines == Init => Tree!Init
<1>. SUFFICES ASSUME Init PROVE Tree!Init
  OBVIOUS
<1>1. Stored = {}
  BY NothingStored DEF Init
<1>. QED  BY <1>1 DEF Init, Tree!Init

\* Creating an entry changes the parent of no stored one.
LEMMA CreateRefines ==
  ASSUME SessionInv, NEW w \in Writers, NEW p \in Stored \cup {0}, Create(w, p),
         file' = file
  PROVE  \A e \in Stored : parent'[e] = parent[e]
BY CreateInv

\* Every step is a step of the tree or leaves it alone.
LEMMA StepRefines ==
  ASSUME ~ShortWrites, SessionInv, SessionInv', [Next]_sessionVars
  PROVE  [Tree!Next]_Tree!treeVars
<1>. DEFINE cur == IF open THEN leaf ELSE 0
<1>1. /\ open => leaf \in Stored \cup {0}
      /\ open' => leaf' \in Stored' \cup {0}
      /\ cur' \in Stored' \cup {0}
  BY DEF SessionInv, MemoryInv
<1>2. ASSUME file' = file, acked' = acked, \A e \in Stored : parent'[e] = parent[e]
      PROVE  Tree!Next
  <2>1. Stored' = Stored
    BY <1>2, StoredSame
  <2>. QED  BY <1>1, <1>2, <2>1 DEF Tree!Next, Tree!Move, Tree!KeepsParents
<1>3. ASSUME NEW w \in Writers, NextEntry(w)
      PROVE  Tree!Next
  BY <1>1, <1>2, <1>3, CreateRefines DEF NextEntry, diskVars
<1>4. ASSUME NEW w \in Writers, AppendLine(w)
      PROVE  Tree!Next
  <2>1. item[w] \in Ids \ Stored /\ Stored' = Stored \cup {item[w]}
    BY <1>4, AppendLineInv
  <2>2. /\ parent' = parent /\ acked' = acked /\ cur' = item[w]
        /\ parent[item[w]] \in Stored \cup {0}
    BY <1>4 DEF AppendLine, SessionInv, TaskInv
  <2>3. Tree!Store(item[w])
    BY <2>1, <2>2 DEF Tree!Store, Tree!KeepsParents
  <2>. QED  BY <2>1, <2>3 DEF Tree!Next
<1>5. ASSUME NEW w \in Writers, PersistState(w)
      PROVE  Tree!Next
  <2>1. file' = file /\ leaf' = leaf /\ open' = open
    BY <1>5 DEF PersistState
  <2>2. CASE task[w] = "persist"
    <3>1. item[w] \in Stored /\ parent' = parent /\ acked' = acked \cup {item[w]}
      BY <1>5, <2>2 DEF PersistState, SessionInv, TaskInv
    <3>2. Stored' = Stored /\ Stored \subseteq Ids
      BY <2>1, StoredSame, StoredLines DEF SessionInv, DiskInv
    <3>3. Tree!Acknowledge(item[w])
      BY <2>1, <3>1, <3>2 DEF Tree!Acknowledge
    <3>. QED  BY <3>1, <3>2, <3>3 DEF Tree!Next
  <2>3. CASE task[w] = "move"
    BY <1>2, <1>5, <2>1, <2>3 DEF PersistState
  <2>4. CASE task[w] = "moveThenAppend"
    <3>1. item[w] \in Stored \cup {0} /\ Create(w, item[w]) /\ acked' = acked
      BY <1>5, <2>4 DEF PersistState, SessionInv, TaskInv
    <3>. QED  BY <1>2, <2>1, <3>1, CreateRefines
  <2>. QED  BY <1>5, <2>2, <2>3, <2>4 DEF PersistState
<1>6. ASSUME NEW w \in Writers, NEW t \in 0..MaxEntries, MoveTo(w, t)
      PROVE  Tree!Next
  BY <1>2, <1>6 DEF MoveTo, diskVars
<1>7. ASSUME NEW w \in Writers, AppendFails(w) \/ PersistFails(w)
      PROVE  Tree!Next
  BY <1>2, <1>7, FailInv DEF AppendFails, PersistFails, diskVars
<1>8. ASSUME Stop \/ Open \/ Fork \/ ForkAppend
      PROVE  Tree!Next
  BY <1>2, <1>8 DEF Stop, Open, Fork, ForkAppend, taskVars, diskVars
<1>9. ASSUME UNCHANGED sessionVars
      PROVE  UNCHANGED Tree!treeVars
  BY <1>9, StoredSame DEF sessionVars, diskVars, memVars, taskVars, Tree!treeVars
<1>. QED  BY <1>3, <1>4, <1>5, <1>6, <1>8, <1>9, <1>7 DEF Next

\* The files and their recovery implement the session tree.
THEOREM SessionImplementsTree == ~ShortWrites => (Spec => ImplementsTree)
<1>. SUFFICES ASSUME ~ShortWrites PROVE Spec => ImplementsTree
  OBVIOUS
<1>1. SessionInv /\ SessionInv' /\ [Next]_sessionVars => [Tree!Next]_Tree!treeVars
  BY StepRefines
<1>2. Spec => []SessionInv
  BY SessionInvHolds
<1>3. Spec => Init /\ [][Next]_sessionVars
  BY DEF Spec
<1>. QED  BY <1>1, <1>2, <1>3, InitRefines, PTL DEF ImplementsTree, Tree!Spec

-----------------------------------------------------------------------------
(***************************************************************************)
(* Forks                                                                   *)
(***************************************************************************)

\* Every entry of the list comes behind its parent, if it has one.
Follows(s, up) ==
  \A i \in 1..Len(s) : up[s[i]] = 0 \/ \E j \in 1..(i - 1) : s[j] = up[s[i]]

\* Entries are younger than their parents; the file holds every entry behind its
\* parent, and so does a fork with what it still has to copy, which is stored.
BranchInv ==
  /\ \A e \in 1..created : parent[e] < e
  /\ Follows(file, parent)
  /\ forked \in Seq(Stored) /\ forking \in Seq(Stored)
  /\ Follows(forked \o forking, parent)

\* An entry whose parent is in the list may follow.
LEMMA FollowsAppend ==
  ASSUME NEW S, NEW s \in Seq(S), NEW e \in S, NEW up, Follows(s, up),
         up[e] = 0 \/ \E j \in 1..Len(s) : s[j] = up[e]
  PROVE  Follows(Append(s, e), up)
<1>. DEFINE n == Len(s)  a == Append(s, e)
<1>1. /\ n \in Nat /\ Len(a) = n + 1 /\ a[n + 1] = e
      /\ \A i \in 1..n : a[i] = s[i]
  BY LenProperties, AppendProperties
<1>. HIDE DEF a
<1>2. ASSUME NEW i \in 1..n PROVE up[a[i]] = 0 \/ \E j \in 1..(i - 1) : a[j] = up[a[i]]
  <2>1. up[s[i]] = 0 \/ \E j \in 1..(i - 1) : s[j] = up[s[i]]
    BY DEF Follows
  <2>2. \A j \in 1..(i - 1) : j \in 1..n
    BY <1>1
  <2>. QED  BY <1>1, <2>1, <2>2
<1>3. up[a[n + 1]] = 0 \/ \E j \in 1..(n + 1 - 1) : a[j] = up[a[n + 1]]
  <2>1. n + 1 - 1 = n
    BY <1>1
  <2>. QED  BY <1>1, <2>1
<1>4. \A i \in 1..(n + 1) : i \in 1..n \/ i = n + 1
  BY <1>1
<1>. QED  BY <1>1, <1>2, <1>3, <1>4 DEF Follows, a

\* What a list begins with is such a list.
LEMMA FollowsPrefix ==
  ASSUME NEW S, NEW s \in Seq(S), NEW t \in Seq(S), NEW up, Follows(s \o t, up)
  PROVE  Follows(s, up)
<1>. DEFINE n == Len(s)  m == Len(t)  a == s \o t
<1>1. n \in Nat /\ m \in Nat
  BY LenProperties
<1>2. Len(a) = n + m /\ \A i \in 1..(n + m) : a[i] = IF i <= n THEN s[i] ELSE t[i - n]
  BY ConcatProperties
<1>. HIDE DEF a, n, m
<1>3. ASSUME NEW i \in 1..n PROVE a[i] = s[i] /\ i \in 1..(n + m) /\ \A j \in 1..(i - 1) : j \in 1..n
  <2>1. i \in 1..(n + m) /\ i <= n /\ \A j \in 1..(i - 1) : j \in 1..n
    BY <1>1
  <2>. QED  BY <1>2, <2>1
<1>4. ASSUME NEW i \in 1..n PROVE up[s[i]] = 0 \/ \E j \in 1..(i - 1) : s[j] = up[s[i]]
  <2>1. up[a[i]] = 0 \/ \E j \in 1..(i - 1) : a[j] = up[a[i]]
    BY <1>2, <1>3 DEF Follows, a
  <2>2. \A j \in 1..(i - 1) : a[j] = s[j]
    BY <1>3
  <2>. QED  BY <1>3, <2>1, <2>2
<1>. QED  BY <1>4 DEF Follows, n

\* The order of a list depends on the parents of its entries only.
LEMMA FollowsSame ==
  ASSUME NEW S, NEW s \in Seq(S), NEW up, NEW down, \A e \in S : down[e] = up[e],
         Follows(s, up)
  PROVE  Follows(s, down)
<1>1. \A i \in 1..Len(s) : s[i] \in S
  BY ElementOfSeq
<1>. QED  BY <1>1 DEF Follows

\* A file of entries is read line by line.
LEMMA EverythingIsTheFile ==
  ASSUME file \in Seq(Ids)
  PROVE  Everything = file
<1>. DEFINE n == Len(file)
            Step(f, i) == IF i = 0 THEN <<>>
                          ELSE IF file[i] = Corrupt THEN f[i - 1] ELSE Append(f[i - 1], file[i])
            read == CHOOSE f : f = [i \in 0..n |-> Step(f, i)]
            first == [i \in 0..n |-> SubSeq(file, 1, i)]
<1>1. n \in Nat /\ \A i \in 1..n : file[i] \in Ids /\ file[i] # Corrupt
  <2>1. n \in Nat /\ \A i \in 1..n : file[i] \in Ids
    BY LenProperties, ElementOfSeq
  <2>. QED  BY <2>1, JsonlAssumption DEF Ids, Corrupt
<1>2. Everything = read[n]
  BY DEF Everything
<1>3. ASSUME NEW i \in 1..n
      PROVE  SubSeq(file, 1, i) = Append(SubSeq(file, 1, i - 1), file[i])
  <2>1. 1 \in 1..Len(file) /\ i \in 1..Len(file) /\ i - 1 \in 0..n
    BY <1>1
  <2>2. SubSeq(file, 1, i) = SubSeq(file, 1, i - 1) \o <<file[i]>>
    BY <2>1, SubSeqRecursiveSecond
  <2>3. SubSeq(file, 1, i - 1) \in Seq(Ids)
    <3>1. 1 \in Int /\ i - 1 \in Int /\ \A j \in 1..(i - 1) : file[j] \in Ids
      BY <1>1
    <3>. QED  BY <3>1, SubSeqProperties
  <2>. QED  BY <1>1, <2>2, <2>3, AppendIsConcat
<1>4. first = [i \in 0..n |-> Step(first, i)]
  <2>1. ASSUME NEW i \in 0..n PROVE first[i] = Step(first, i)
    <3>1. CASE i = 0
      <4>1. SubSeq(file, 1, 0) = <<>>
        BY SubSeqEmpty
      <4>. QED  BY <3>1, <4>1
    <3>2. CASE i # 0
      <4>1. i \in 1..n /\ i - 1 \in 0..n
        BY <1>1, <3>2
      <4>. QED  BY <1>1, <1>3, <3>2, <4>1
    <3>. QED  BY <3>1, <3>2
  <2>. QED  BY <2>1
<1>5. read = [i \in 0..n |-> Step(read, i)]
  <2>. HIDE DEF first, Step
  <2>. QED  BY <1>4
<1>. HIDE DEF read
<1>. DEFINE Read == {i \in Nat : i <= n => read[i] = SubSeq(file, 1, i)}
<1>6. Nat \subseteq Read
  <2>1. 0 \in Read
    <3>1. read[0] = <<>> /\ SubSeq(file, 1, 0) = <<>>
      BY <1>1, <1>5, SubSeqEmpty
    <3>. QED  BY <3>1
  <2>2. ASSUME NEW i \in Nat, i \in Read PROVE i + 1 \in Read
    <3>. SUFFICES ASSUME i + 1 <= n PROVE read[i + 1] = SubSeq(file, 1, i + 1)
      OBVIOUS
    <3>1. /\ i + 1 \in 1..n /\ i + 1 \in 0..n /\ i + 1 # 0 /\ (i + 1) - 1 = i
          /\ read[i] = SubSeq(file, 1, i)
      BY <1>1, <2>2
    <3>2. read[i + 1] = Append(read[i], file[i + 1])
      BY <1>1, <1>5, <3>1
    <3>3. SubSeq(file, 1, i + 1) = Append(SubSeq(file, 1, i), file[i + 1])
      BY <1>3, <3>1
    <3>. QED  BY <3>1, <3>2, <3>3
  <2>. HIDE DEF Read
  <2>. QED  BY <2>1, <2>2, Induction
<1>7. read[n] = SubSeq(file, 1, n)
  BY <1>1, <1>6
<1>. QED  BY <1>2, <1>7, SubSeqFull

\* A branch is walked from an entry, parent by parent, and comes out with the
\* root first.
LEMMA PathFollows ==
  ASSUME NEW stored \in SUBSET Ids, NEW l \in 0..MaxEntries,
         \A e \in stored : parent[e] \in stored \cup {0} /\ parent[e] < e
  PROVE  PathToRoot(stored, l) \in Seq(stored) /\ Follows(PathToRoot(stored, l), parent)
<1>. USE JsonlAssumption
<1>. DEFINE Step(f, e) == IF e \in stored THEN Append(f[parent[e]], e) ELSE <<>>
            Down(f, n) == f = [e \in 0..n |-> Step(f, e)]
            down == CHOOSE f : f = [e \in 0..MaxEntries |-> Step(f, e)]
            Defined == {n \in Nat : \E f : Down(f, n)}
<1>1. PathToRoot(stored, l) = down[l]
  BY DEF PathToRoot
<1>2. 0 \notin stored /\ \A e \in stored : e \in Nat /\ parent[e] \in Nat /\ parent[e] < e
  <2>1. \A e \in stored : e \in Nat \ {0}
    BY DEF Ids
  <2>2. 0 \notin stored
    BY <2>1
  <2>3. ASSUME NEW e \in stored PROVE e \in Nat /\ parent[e] \in Nat /\ parent[e] < e
    <3>1. parent[e] \in stored \/ parent[e] = 0
      OBVIOUS
    <3>. QED  BY <2>1, <3>1
  <2>. QED  BY <2>2, <2>3
<1>3. Nat \subseteq Defined
  <2>1. 0 \in Defined
    <3>1. Down([e \in 0..0 |-> <<>>], 0)
      <4>1. \A e \in 0..0 : e = 0
        OBVIOUS
      <4>. QED  BY <1>2, <4>1
    <3>. HIDE DEF Down
    <3>. QED  BY <3>1
  <2>2. ASSUME NEW n \in Nat, n \in Defined PROVE n + 1 \in Defined
    <3>1. PICK g : Down(g, n)
      BY <2>2
    <3>. DEFINE h == [e \in 0..(n + 1) |-> IF e <= n THEN g[e] ELSE Step(g, n + 1)]
    <3>2. ASSUME NEW e \in 0..(n + 1) PROVE h[e] = Step(h, e)
      <4>1. e \in stored => parent[e] \in 0..n /\ parent[e] \in 0..(n + 1) /\ parent[e] <= n
        BY <1>2
      <4>2. e \in stored => h[parent[e]] = g[parent[e]]
        BY <4>1
      <4>3. CASE e <= n
        <5>1. e \in 0..n
          BY <4>3
        <5>2. g[e] = Step(g, e)
          BY <3>1, <5>1
        <5>. QED  BY <4>2, <4>3, <5>2
      <4>4. CASE ~(e <= n)
        <5>1. e = n + 1
          BY <4>4
        <5>. QED  BY <4>2, <4>4, <5>1
      <4>. QED  BY <4>3, <4>4
    <3>3. Down(h, n + 1)
      <4>. HIDE DEF Step
      <4>. QED  BY <3>2
    <3>. HIDE DEF Down
    <3>. QED  BY <3>3
  <2>. HIDE DEF Defined
  <2>. QED  BY <2>1, <2>2, Induction
<1>4. down = [e \in 0..MaxEntries |-> Step(down, e)]
  <2>1. \E f : Down(f, MaxEntries)
    <3>1. MaxEntries \in Defined
      BY <1>3
    <3>. HIDE DEF Down
    <3>. QED  BY <3>1
  <2>. HIDE DEF Step
  <2>. QED  BY <2>1
<1>. HIDE DEF down
<1>. DEFINE Good(e) == /\ down[e] \in Seq(stored) /\ Follows(down[e], parent)
                       /\ e \in stored => \E j \in 1..Len(down[e]) : down[e][j] = e
            Walked == {n \in Nat : \A e \in 0..MaxEntries : e <= n => Good(e)}
<1>5. ASSUME NEW e \in 0..MaxEntries, e \in stored => Good(parent[e]) PROVE Good(e)
  <2>1. CASE e \notin stored
    <3>1. down[e] = <<>>
      BY <1>4, <2>1
    <3>. QED  BY <2>1, <3>1, EmptySeq DEF Follows
  <2>2. CASE e \in stored
    <3>. DEFINE p == parent[e]  s == down[parent[e]]
    <3>1. down[e] = Append(s, e)
      BY <1>4, <2>2
    <3>2. /\ s \in Seq(stored) /\ Follows(s, parent)
          /\ p \in stored \cup {0} /\ (p \in stored => \E j \in 1..Len(s) : s[j] = p)
      BY <1>5, <2>2
    <3>. HIDE DEF s
    <3>3. Follows(Append(s, e), parent)
      BY <2>2, <3>2, FollowsAppend
    <3>4. /\ Append(s, e) \in Seq(stored) /\ Len(s) \in Nat
          /\ Len(Append(s, e)) = Len(s) + 1 /\ Append(s, e)[Len(s) + 1] = e
      BY <2>2, <3>2, AppendProperties, LenProperties
    <3>5. Len(s) + 1 \in 1..Len(Append(s, e))
      BY <3>4
    <3>. QED  BY <3>1, <3>3, <3>4, <3>5
  <2>. QED  BY <2>1, <2>2
<1>6. Nat \subseteq Walked
  <2>1. 0 \in Walked
    <3>1. ASSUME NEW e \in 0..MaxEntries, e <= 0 PROVE Good(e)
      <4>1. e \notin stored
        BY <1>2, <3>1
      <4>. HIDE DEF Good
      <4>. QED  BY <1>5, <4>1
    <3>. HIDE DEF Good
    <3>. QED  BY <3>1
  <2>2. ASSUME NEW n \in Nat, n \in Walked PROVE n + 1 \in Walked
    <3>1. ASSUME NEW e \in 0..MaxEntries, e <= n + 1 PROVE Good(e)
      <4>1. e \in stored => parent[e] \in 0..MaxEntries /\ parent[e] <= n
        BY <1>2, <3>1
      <4>. HIDE DEF Good
      <4>. QED  BY <1>5, <2>2, <4>1
    <3>. HIDE DEF Good
    <3>. QED  BY <3>1
  <2>. HIDE DEF Walked
  <2>. QED  BY <2>1, <2>2, Induction
<1>7. l \in Walked /\ l <= l
  BY <1>6
<1>. QED  BY <1>1, <1>7

\* Once stored, an entry keeps its parent, and no entry is older than its parent.
LEMMA ParentsStay ==
  ASSUME ~ShortWrites, SessionInv, BranchInv, [Next]_sessionVars
  PROVE  /\ \A e \in Stored : e \in 1..created /\ parent'[e] = parent[e]
         /\ \A e \in 1..created' : parent'[e] < e
         /\ Stored \subseteq Stored'
<1>. USE JsonlAssumption
<1>0. /\ Stored \subseteq Ids /\ created \in 0..MaxEntries
      /\ \A e \in Stored : e \in 1..created
      /\ \A e \in 1..created : parent[e] < e
  <2>1. Stored \subseteq Ids
    BY StoredLines DEF SessionInv, DiskInv
  <2>. QED  BY <2>1 DEF SessionInv, DiskInv, ScalarTypeOK, BranchInv, Ids
<1>1. ASSUME NEW w \in Writers, NEW p \in Stored \cup {0}, Create(w, p), file' = file
      PROVE  /\ \A e \in Stored : parent'[e] = parent[e]
             /\ \A e \in 1..created' : parent'[e] < e
             /\ Stored' = Stored
  <2>1. /\ created' = created + 1 /\ parent' = [parent EXCEPT ![created + 1] = p]
        /\ parent \in [Ids -> 0..MaxEntries] /\ created < MaxEntries
    BY <1>1 DEF Create, SessionInv, ScalarTypeOK
  <2>2. p < created + 1
    BY <1>0
  <2>3. Stored' = Stored
    BY <1>1, StoredSame
  <2>. QED  BY <1>0, <2>1, <2>2, <2>3 DEF Ids
<1>2. ASSUME file' = file, UNCHANGED <<created, parent>>
      PROVE  /\ \A e \in Stored : parent'[e] = parent[e]
             /\ \A e \in 1..created' : parent'[e] < e
             /\ Stored' = Stored
  BY <1>0, <1>2, StoredSame
<1>3. ASSUME NEW w \in Writers, NextEntry(w) \/ PersistState(w) PROVE
             /\ \A e \in Stored : parent'[e] = parent[e]
             /\ \A e \in 1..created' : parent'[e] < e
             /\ Stored' = Stored
  <2>1. file' = file
    BY <1>3 DEF NextEntry, PersistState, diskVars
  <2>2. CASE UNCHANGED <<created, parent>>
    BY <1>2, <2>1, <2>2
  <2>3. CASE \E p \in Stored \cup {0} : Create(w, p)
    BY <1>1, <2>1, <2>3
  <2>4. leaf \in Stored \cup {0} /\ (task[w] = "moveThenAppend" => item[w] \in Stored \cup {0})
    BY <1>3 DEF NextEntry, PersistState, SessionInv, MemoryInv, TaskInv
  <2>. QED  BY <1>3, <2>2, <2>3, <2>4 DEF NextEntry, PersistState
<1>4. ASSUME NEW w \in Writers, AppendLine(w) PROVE
             /\ \A e \in Stored : parent'[e] = parent[e]
             /\ \A e \in 1..created' : parent'[e] < e
             /\ Stored \subseteq Stored'
  <2>1. Stored' = Stored \cup {item[w]} /\ UNCHANGED <<created, parent>>
    BY <1>4, AppendLineInv DEF AppendLine
  <2>. QED  BY <1>0, <2>1
<1>5. ASSUME NEW w \in Writers, NEW t \in 0..MaxEntries, AppendFails(w) \/ PersistFails(w) \/ MoveTo(w, t)
      PROVE  file' = file /\ UNCHANGED <<created, parent>>
  BY <1>5 DEF AppendFails, PersistFails, MoveTo, diskVars
<1>6. ASSUME Stop \/ Open \/ Fork \/ ForkAppend \/ UNCHANGED sessionVars
      PROVE  file' = file /\ UNCHANGED <<created, parent>>
  BY <1>6 DEF Stop, Open, Fork, ForkAppend, sessionVars, diskVars, taskVars
<1>7. ASSUME NEW w \in Writers, AppendFails(w) \/ PersistFails(w)
      PROVE  file' = file /\ UNCHANGED <<created, parent>>
  BY <1>7 DEF AppendFails, PersistFails, diskVars
<1>8. /\ \A e \in Stored : parent'[e] = parent[e]
      /\ \A e \in 1..created' : parent'[e] < e
      /\ Stored \subseteq Stored'
  BY <1>2, <1>3, <1>4, <1>5, <1>6, <1>7 DEF Next
<1>. QED  BY <1>0, <1>8

\* A fork copies entries that follow their parents.
LEMMA ForkEntriesFollow ==
  ASSUME SessionInv, BranchInv, NEW s \in ForkEntries
  PROVE  s \in Seq(Stored) /\ Follows(s, parent)
<1>. USE JsonlAssumption
<1>0. /\ file \in Seq(Ids) /\ Stored \in SUBSET Ids /\ Ids \subseteq 0..MaxEntries
      /\ \A e \in Stored : parent[e] \in Stored \cup {0} /\ parent[e] < e
  <2>1. file \in Seq(Ids) /\ Stored \subseteq Ids /\ \A e \in Stored : e <= created
    BY StoredLines DEF SessionInv, DiskInv
  <2>2. ASSUME NEW e \in Stored PROVE parent[e] \in Stored \cup {0} /\ parent[e] < e
    <3>1. e \in 1..created
      BY <2>1 DEF Ids, SessionInv, ScalarTypeOK
    <3>. QED  BY <3>1 DEF BranchInv, SessionInv, DiskInv
  <2>. QED  BY <2>1, <2>2 DEF Ids
<1>1. CASE s = Everything
  <2>1. s = file
    BY <1>0, <1>1, EverythingIsTheFile
  <2>2. file \in Seq(Stored)
    <3>1. /\ Len(file) \in Nat /\ DOMAIN file = 1..Len(file)
          /\ Stored = {file[i] : i \in 1..Len(file)} /\ file \in [1..Len(file) -> Ids]
      BY <1>0, StoredLines, LenProperties
    <3>2. file \in [1..Len(file) -> Stored]
      BY <3>1
    <3>. QED  BY <3>1, <3>2, SeqDef
  <2>. QED  BY <2>1, <2>2 DEF BranchInv
<1>2. ASSUME NEW l \in 0..MaxEntries, s = PathToRoot(Stored, l)
      PROVE  s \in Seq(Stored) /\ Follows(s, parent)
  BY <1>0, <1>2, PathFollows
<1>3. ASSUME NEW e \in Stored PROVE e \in 0..MaxEntries /\ parent[e] \in 0..MaxEntries
  <2>1. Stored \subseteq 0..MaxEntries /\ 0 \in 0..MaxEntries
    BY <1>0
  <2>2. parent[e] \in Stored \cup {0}
    BY <1>0
  <2>. QED  BY <2>1, <2>2
<1>. QED  BY <1>1, <1>2, <1>3 DEF ForkEntries

\* A new session has no branches.
LEMMA BranchInit == Init => BranchInv
<1>. SUFFICES ASSUME Init PROVE BranchInv
  OBVIOUS
<1>1. <<>> \in Seq(Stored) /\ <<>> \o <<>> = <<>> /\ Len(<<>>) = 0
  BY EmptySeq, ConcatEmptySeq
<1>2. Follows(<<>>, parent)
  BY <1>1 DEF Follows
<1>. QED  BY <1>1, <1>2 DEF Init, BranchInv

\* Every step keeps entries behind their parents.
LEMMA BranchStep ==
  ASSUME ~ShortWrites, SessionInv, BranchInv, [Next]_sessionVars
  PROVE  BranchInv'
<1>0. /\ \A e \in Stored : e \in 1..created /\ parent'[e] = parent[e]
      /\ \A e \in 1..created' : parent'[e] < e
      /\ Stored \subseteq Stored'
  BY ParentsStay
<1>1. /\ file \in Seq(Ids) /\ Stored \subseteq Ids /\ Stored = {file[i] : i \in 1..Len(file)}
      /\ file \in Seq(Stored)
  <2>1. file \in Seq(Ids) /\ Stored \subseteq Ids /\ Stored = {file[i] : i \in 1..Len(file)}
    BY StoredLines DEF SessionInv, DiskInv
  <2>2. Len(file) \in Nat /\ DOMAIN file = 1..Len(file) /\ file \in [1..Len(file) -> Ids]
    BY <2>1, LenProperties
  <2>3. file \in [1..Len(file) -> Stored]
    BY <2>1, <2>2
  <2>. QED  BY <2>1, <2>2, <2>3, SeqDef, SMTT(30), ZenonT(30)
<1>2. Follows(file', parent')
  <2>1. Follows(file, parent')
    <3>1. Follows(file, parent) /\ \A e \in Stored : parent'[e] = parent[e]
      BY <1>0 DEF BranchInv
    <3>2. file \in Seq(Stored)
      BY <1>1
    <3>. QED  BY <3>1, <3>2, FollowsSame
  <2>2. ASSUME NEW w \in Writers, AppendLine(w) PROVE Follows(file', parent')
    <3>1. item[w] \in Ids /\ parent[item[w]] \in Stored \cup {0} /\ parent' = parent
      BY <2>2, AppendLineInv DEF AppendLine, SessionInv, TaskInv
    <3>2. file' = Append(file, item[w])
      BY <2>2 DEF AppendLine, Line, SessionInv, MemoryInv
    <3>3. parent'[item[w]] = 0 \/ \E j \in 1..Len(file) : file[j] = parent'[item[w]]
      BY <1>1, <3>1
    <3>. QED  BY <1>1, <2>1, <3>1, <3>2, <3>3, FollowsAppend
  <2>3. file' = file \/ \E w \in Writers : AppendLine(w)
    BY DEF Next, NextEntry, AppendFails, PersistState, PersistFails, MoveTo, Stop, Open, Fork,
           ForkAppend, sessionVars, diskVars
  <2>. QED  BY <2>1, <2>2, <2>3
<1>3. /\ forked' \in Seq(Stored) /\ forking' \in Seq(Stored)
      /\ Follows(forked' \o forking', parent)
  <2>1. CASE Fork
    <3>1. forked' = <<>> /\ forking' \in ForkEntries
      BY <2>1 DEF Fork
    <3>2. forking' \in Seq(Stored) /\ Follows(forking', parent)
      BY <3>1, ForkEntriesFollow
    <3>. QED  BY <3>1, <3>2, EmptySeq, ConcatEmptySeq
  <2>2. CASE ForkAppend
    <3>0. forked \in Seq(Stored) /\ forking \in Seq(Stored) /\ Follows(forked \o forking, parent)
      BY DEF BranchInv
    <3>1. CASE forking' = <<>> /\ forked' = forked
      <4>1. Follows(forked, parent)
        BY <3>0, FollowsPrefix
      <4>. QED  BY <3>0, <3>1, <4>1, EmptySeq, ConcatEmptySeq
    <3>2. CASE forked' = Append(forked, Head(forking)) /\ forking' = Tail(forking)
      <4>0. forking # <<>>
        BY <2>2 DEF ForkAppend
      <4>1. Head(forking) \in Stored /\ Tail(forking) \in Seq(Stored)
        BY <3>0, <4>0, HeadTailProperties
      <4>2. forking = <<Head(forking)>> \o Tail(forking)
        <5>1. Len(forking) \in Nat \ {0}
          BY <3>0, <4>0, EmptySeq, LenProperties
        <5>2. 1 \in 1..Len(forking) /\ Len(forking) \in 1..Len(forking)
          BY <5>1
        <5>3. SubSeq(forking, 1, Len(forking)) = <<forking[1]>> \o SubSeq(forking, 1 + 1, Len(forking))
          BY <3>0, <5>2, SubSeqRecursiveFirst
        <5>4. SubSeq(forking, 1, Len(forking)) = forking /\ Tail(forking) = SubSeq(forking, 2, Len(forking))
          BY <3>0, <4>0, SubSeqFull, TailIsSubSeq
        <5>5. Head(forking) = forking[1]
          BY <3>0, <4>0
        <5>. QED  BY <5>3, <5>4, <5>5
      <4>3. forked' = forked \o <<Head(forking)>>
        BY <3>0, <3>2, <4>1, AppendIsConcat
      <4>4. <<Head(forking)>> \in Seq(Stored)
        BY <4>1
      <4>5. forked' \o forking' = forked \o forking
        BY <3>0, <3>2, <4>1, <4>2, <4>3, <4>4, ConcatAssociative
      <4>. QED  BY <3>0, <3>2, <4>1, <4>5, AppendProperties
    <3>. QED  BY <2>2, <3>1, <3>2 DEF ForkAppend
  <2>3. CASE UNCHANGED forkVars
    BY <2>3 DEF forkVars, BranchInv
  <2>4. Fork \/ ForkAppend \/ UNCHANGED forkVars
    BY DEF Next, NextEntry, AppendLine, AppendFails, PersistState, PersistFails, MoveTo, Stop, Open, sessionVars
  <2>. QED  BY <2>1, <2>2, <2>3, <2>4
<1>4. forked' \in Seq(Stored') /\ forking' \in Seq(Stored')
  BY <1>0, <1>3, SeqMonotonic
<1>5. Follows(forked' \o forking', parent')
  <2>. DEFINE s == forked' \o forking'
  <2>1. s \in Seq(Stored) /\ Follows(s, parent)
    BY <1>3, ConcatProperties
  <2>2. \A e \in Stored : parent'[e] = parent[e]
    BY <1>0
  <2>. HIDE DEF s
  <2>3. Follows(s, parent')
    BY <2>1, <2>2, FollowsSame
  <2>. QED  BY <2>3 DEF s
<1>. QED  BY <1>0, <1>2, <1>4, <1>5 DEF BranchInv

\* Every entry of a fork, complete or cut short, follows its parent
\* (compute_fork_entries, fork).
THEOREM ForkRootedHolds == ~ShortWrites => (Spec => []ForkRooted)
<1>. SUFFICES ASSUME ~ShortWrites PROVE Spec => []ForkRooted
  OBVIOUS
<1>1. BranchInv => ForkRooted
  <2>. SUFFICES ASSUME BranchInv PROVE ForkRooted
    OBVIOUS
  <2>1. Follows(forked, parent)
    BY FollowsPrefix DEF BranchInv
  <2>. QED  BY <2>1 DEF Follows, ForkRooted
<1>2. Init => BranchInv
  BY BranchInit
<1>3. SessionInv /\ BranchInv /\ [Next]_sessionVars => BranchInv'
  BY BranchStep
<1>4. Spec => []SessionInv
  BY SessionInvHolds
<1>. QED  BY <1>1, <1>2, <1>3, <1>4, PTL DEF Spec

-----------------------------------------------------------------------------
(***************************************************************************)
(* What the consumer is told                                               *)
(***************************************************************************)

\* Of the first n events of s: the blocks that those of a kind are about, how many
\* opened one, and which blocks they leave open.
AtIn(s, n, kind) == {s[i].at : i \in {j \in 1..n : s[j].kind = kind}}
OpenedIn(s, n) == Cardinality({j \in 1..n : s[j].kind = "open"})
OpenIn(s, n) == AtIn(s, n, "open") \ AtIn(s, n, "close")

\* The n-th event may come after those before it.
MayFollow(s, n, lenient) ==
  /\ n > 1 => s[n - 1].kind \notin {"done", "error"}
  /\ \/ n = 1 /\ s[n] = Ev("start", 0)
     \/ n > 1 /\ s[n] = Ev("open", OpenedIn(s, n - 1) + 1) /\ s[n].at \notin AtIn(s, n - 1, "close")
     \/ n > 1 /\ \E i \in OpenIn(s, n - 1) : s[n] \in {Ev("delta", i), Ev("close", i)}
     \/ n > 1 /\ OpenIn(s, n - 1) = {} /\ s[n] \in {Ev("done", 0), Ev("error", 0)}
     \/ lenient /\ s[n] = Ev("error", 0)

Legal(s, lenient) == IsQueue(s) /\ \A n \in 1..Len(s) : MayFollow(s, n, lenient)

\* The events s may go on: k blocks were opened, and those in O are open still.
Story(s, k, O, lenient) ==
  /\ Legal(s, lenient)
  /\ k \in Nat /\ O \subseteq 1..k
  /\ OpenedIn(s, Len(s)) = k
  /\ AtIn(s, Len(s), "open") = 1..k /\ AtIn(s, Len(s), "close") = (1..k) \ O
  /\ \A i \in 1..Len(s) : s[i].kind \notin {"done", "error"}

\* What an event may follow are the events before it.
LEMMA SameBefore ==
  ASSUME NEW s, NEW t, NEW n \in Nat, \A i \in 1..n : t[i] = s[i]
  PROVE  /\ \A kind : AtIn(t, n, kind) = AtIn(s, n, kind)
         /\ OpenedIn(t, n) = OpenedIn(s, n)
         /\ OpenIn(t, n) = OpenIn(s, n)
<1>1. ASSUME NEW kind
      PROVE  /\ {j \in 1..n : t[j].kind = kind} = {j \in 1..n : s[j].kind = kind}
             /\ AtIn(t, n, kind) = AtIn(s, n, kind)
  BY DEF AtIn
<1>2. {j \in 1..n : t[j].kind = "open"} = {j \in 1..n : s[j].kind = "open"}
  OBVIOUS
<1>. QED  BY <1>1, <1>2, Zenon DEF OpenedIn, OpenIn

\* An event may follow the same events in a longer list.
LEMMA SameFollows ==
  ASSUME NEW s, NEW t, NEW n \in Nat \ {0}, \A i \in 1..n : t[i] = s[i], NEW lenient
  PROVE  MayFollow(t, n, lenient) <=> MayFollow(s, n, lenient)
<1>1. n - 1 \in Nat /\ \A i \in 1..(n - 1) : t[i] = s[i]
  OBVIOUS
<1>2. /\ AtIn(t, n - 1, "close") = AtIn(s, n - 1, "close")
      /\ OpenedIn(t, n - 1) = OpenedIn(s, n - 1)
      /\ OpenIn(t, n - 1) = OpenIn(s, n - 1)
  BY <1>1, SameBefore
<1>3. t[n] = s[n] /\ (n > 1 => t[n - 1] = s[n - 1])
  OBVIOUS
<1>. QED  BY <1>2, <1>3 DEF MayFollow

\* What one more event changes.
Continues(s, e, t, lenient) ==
  /\ IsQueue(t) /\ Len(s) \in Nat /\ Len(t) = Len(s) + 1 /\ t[Len(t)] = e
  /\ \A i \in 1..Len(s) : t[i] = s[i]
  /\ \A kind : AtIn(t, Len(t), kind) = AtIn(s, Len(s), kind) \cup IF e.kind = kind THEN {e.at} ELSE {}
  /\ OpenedIn(t, Len(t)) = OpenedIn(s, Len(s)) + IF e.kind = "open" THEN 1 ELSE 0
  /\ Legal(s, lenient) /\ MayFollow(t, Len(t), lenient) => Legal(t, lenient)

\* The events of a kind, with one event more.
LEMMA OneMore ==
  ASSUME NEW s, IsQueue(s), NEW e, NEW t, t = Append(s, e), NEW lenient
  PROVE  Continues(s, e, t, lenient)
<1>1. /\ IsQueue(t) /\ Len(s) \in Nat /\ Len(t) = Len(s) + 1 /\ t[Len(t)] = e
      /\ \A i \in 1..Len(s) : t[i] = s[i]
  BY Queued
<1>2. ASSUME NEW kind
      PROVE  AtIn(t, Len(t), kind) = AtIn(s, Len(s), kind) \cup IF e.kind = kind THEN {e.at} ELSE {}
  BY <1>1 DEF AtIn
<1>3. OpenedIn(t, Len(t)) = OpenedIn(s, Len(s)) + IF e.kind = "open" THEN 1 ELSE 0
  <2>. DEFINE S == {j \in 1..Len(s) : s[j].kind = "open"}
              T == {j \in 1..Len(t) : t[j].kind = "open"}
  <2>1. IsFiniteSet(S)
    <3>1. IsFiniteSet(1..Len(s)) /\ S \subseteq 1..Len(s)
      BY <1>1, FS_Interval
    <3>. QED  BY <3>1, FS_Subset
  <2>2. T = IF e.kind = "open" THEN S \cup {Len(t)} ELSE S
    BY <1>1
  <2>3. Len(t) \notin S
    BY <1>1
  <2>. HIDE DEF S, T
  <2>4. Cardinality(S) \in Nat /\ Cardinality(S \cup {Len(t)}) = Cardinality(S) + 1
    BY <2>1, <2>3, FS_AddElement, FS_CardinalityType
  <2>5. Cardinality(T) = Cardinality(S) + IF e.kind = "open" THEN 1 ELSE 0
    BY <2>2, <2>4
  <2>. QED  BY <2>5 DEF S, T, OpenedIn
<1>4. Legal(s, lenient) /\ MayFollow(t, Len(t), lenient) => Legal(t, lenient)
  <2>1. \A n \in 1..Len(s) : MayFollow(t, n, lenient) <=> MayFollow(s, n, lenient)
    <3>. TAKE n \in 1..Len(s)
    <3>1. n \in Nat \ {0} /\ \A i \in 1..n : t[i] = s[i]
      BY <1>1
    <3>. QED  BY <3>1, SameFollows
  <2>. QED  BY <1>1, <2>1 DEF Legal
<1>. QED  BY <1>1, <1>2, <1>3, <1>4, Zenon DEF Continues

\* The stories begin, go on and end.
LEMMA StoryNone == \A lenient : Story(<<>>, 0, {}, lenient)
<1>1. AtIn(<<>>, 0, "open") = {} /\ AtIn(<<>>, 0, "close") = {}
  BY DEF AtIn
<1>2. OpenedIn(<<>>, 0) = 0
  <2>1. {j \in 1..0 : <<>>[j].kind = "open"} = {}
    OBVIOUS
  <2>. QED  BY <2>1, FS_EmptySet DEF OpenedIn
<1>. QED  BY <1>1, <1>2, EmptyQueue DEF Story, Legal

\* The first event is the start.
LEMMA StoryStarts ==
  ASSUME NEW s, NEW lenient, s = <<>>
  PROVE  Story(Append(s, Ev("start", 0)), 0, {}, lenient) /\ Append(s, Ev("start", 0)) # <<>>
<1>1. PICK t : t = Append(s, Ev("start", 0))
  OBVIOUS
<1>2. Story(s, 0, {}, lenient) /\ Len(s) = 0
  BY StoryNone, EmptyQueue
<1>3. Ev("start", 0).kind = "start"
  BY DEF Ev
<1>4. /\ IsQueue(t) /\ Len(t) = 1 /\ t[1] = Ev("start", 0)
      /\ AtIn(t, Len(t), "open") = {} /\ AtIn(t, Len(t), "close") = {}
      /\ OpenedIn(t, Len(t)) = 0
      /\ (MayFollow(t, 1, lenient) => Legal(t, lenient))
  <2>1. Continues(s, Ev("start", 0), t, lenient)
    BY <1>1, <1>2, OneMore DEF Story, Legal
  <2>. QED  BY <1>2, <1>3, <2>1 DEF Continues, Story
<1>5. MayFollow(t, 1, lenient)
  BY <1>4 DEF MayFollow
<1>6. t # <<>>
  BY <1>4, EmptyQueue
<1>. QED  BY <1>1, <1>3, <1>4, <1>5, <1>6 DEF Story

\* A block is opened.
LEMMA StoryOpens ==
  ASSUME NEW s, s # <<>>, NEW k, NEW O, NEW lenient, Story(s, k, O, lenient)
  PROVE  Story(Append(s, Ev("open", k + 1)), k + 1, O \cup {k + 1}, lenient)
<1>1. PICK t : t = Append(s, Ev("open", k + 1))
  OBVIOUS
<1>2. Ev("open", k + 1).kind = "open" /\ Ev("open", k + 1).at = k + 1
  BY DEF Ev
<1>3. IsQueue(s) /\ Len(s) \in Nat /\ Len(s) >= 1 /\ k \in Nat
  BY Taken DEF Story, Legal
<1>4. /\ IsQueue(t) /\ Len(t) = Len(s) + 1 /\ t[Len(t)] = Ev("open", k + 1)
      /\ \A i \in 1..Len(s) : t[i] = s[i]
      /\ AtIn(t, Len(t), "open") = (1..k) \cup {k + 1} /\ AtIn(t, Len(t), "close") = (1..k) \ O
      /\ OpenedIn(t, Len(t)) = k + 1
      /\ (MayFollow(t, Len(t), lenient) => Legal(t, lenient))
  <2>1. Continues(s, Ev("open", k + 1), t, lenient)
    BY <1>1, <1>3, OneMore
  <2>. QED  BY <1>2, <1>3, <2>1 DEF Continues, Story
<1>5. OpenedIn(t, Len(s)) = k /\ AtIn(t, Len(s), "close") = (1..k) \ O
  BY <1>3, <1>4, SameBefore DEF Story
<1>6. MayFollow(t, Len(t), lenient)
  <2>1. Len(t) - 1 = Len(s) /\ Len(t) > 1 /\ t[Len(s)] = s[Len(s)]
    BY <1>3, <1>4
  <2>2. t[Len(t) - 1].kind \notin {"done", "error"}
    BY <1>3, <2>1 DEF Story
  <2>3. k + 1 \notin 1..k
    BY <1>3
  <2>. QED  BY <1>2, <1>4, <1>5, <2>1, <2>2, <2>3 DEF MayFollow
<1>7. (1..k) \cup {k + 1} = 1..(k + 1) /\ (1..(k + 1)) \ (O \cup {k + 1}) = (1..k) \ O
  BY <1>3 DEF Story
<1>8. \A i \in 1..Len(t) : t[i].kind \notin {"done", "error"}
  BY <1>2, <1>3, <1>4 DEF Story
<1>9. k + 1 \in Nat /\ O \cup {k + 1} \subseteq 1..(k + 1)
  <2>1. O \subseteq 1..k
    BY DEF Story
  <2>. QED  BY <1>3, <2>1
<1>. QED  BY <1>1, <1>4, <1>6, <1>7, <1>8, <1>9 DEF Story

\* An open block is extended or closed.
LEMMA StoryGoesOn ==
  ASSUME NEW s, NEW k, NEW O, NEW lenient, Story(s, k, O, lenient), NEW i \in O, NEW kind \in {"delta", "close"}
  PROVE  Story(Append(s, Ev(kind, i)), k, IF kind = "close" THEN O \ {i} ELSE O, lenient)
<1>1. PICK t : t = Append(s, Ev(kind, i))
  OBVIOUS
<1>2. Ev(kind, i).kind = kind /\ Ev(kind, i).at = i
  BY DEF Ev
<1>3. IsQueue(s) /\ Len(s) \in Nat /\ k \in Nat /\ i \in 1..k
  BY Queued DEF Story, Legal
<1>4. Len(s) >= 1
  <2>1. i \in AtIn(s, Len(s), "open")
    BY <1>3 DEF Story
  <2>. QED  BY <1>3, <2>1 DEF AtIn
<1>5. /\ IsQueue(t) /\ Len(t) = Len(s) + 1 /\ t[Len(t)] = Ev(kind, i)
      /\ \A j \in 1..Len(s) : t[j] = s[j]
      /\ AtIn(t, Len(t), "open") = 1..k
      /\ AtIn(t, Len(t), "close") = ((1..k) \ O) \cup (IF kind = "close" THEN {i} ELSE {})
      /\ OpenedIn(t, Len(t)) = k
      /\ (MayFollow(t, Len(t), lenient) => Legal(t, lenient))
  <2>1. Continues(s, Ev(kind, i), t, lenient)
    BY <1>1, <1>3, OneMore
  <2>2. /\ IsQueue(t) /\ Len(t) = Len(s) + 1 /\ t[Len(t)] = Ev(kind, i)
        /\ \A j \in 1..Len(s) : t[j] = s[j]
        /\ (MayFollow(t, Len(t), lenient) => Legal(t, lenient))
    BY <2>1, Zenon DEF Continues, Story
  <2>3. AtIn(t, Len(t), "open") = 1..k
    BY <1>2, <2>1 DEF Continues, Story
  <2>4. AtIn(t, Len(t), "close") = ((1..k) \ O) \cup (IF kind = "close" THEN {i} ELSE {})
    BY <1>2, <2>1 DEF Continues, Story
  <2>5. OpenedIn(t, Len(t)) = k
    BY <1>2, <1>3, <2>1 DEF Continues, Story
  <2>. QED  BY <2>2, <2>3, <2>4, <2>5
<1>6. OpenIn(t, Len(s)) = O
  <2>1. OpenIn(t, Len(s)) = OpenIn(s, Len(s))
    BY <1>3, <1>5, SameBefore
  <2>. QED  BY <2>1 DEF Story, OpenIn
<1>7. MayFollow(t, Len(t), lenient)
  <2>1. Len(t) - 1 = Len(s) /\ Len(t) > 1 /\ t[Len(s)] = s[Len(s)]
    BY <1>3, <1>4, <1>5
  <2>2. t[Len(t) - 1].kind \notin {"done", "error"}
    BY <1>3, <1>4, <2>1 DEF Story
  <2>. QED  BY <1>5, <1>6, <2>1, <2>2 DEF MayFollow
<1>8. \A j \in 1..Len(t) : t[j].kind \notin {"done", "error"}
  BY <1>2, <1>3, <1>5 DEF Story
<1>9. AtIn(t, Len(t), "close") = (1..k) \ (IF kind = "close" THEN O \ {i} ELSE O)
  BY <1>3, <1>5
<1>. QED  BY <1>1, <1>3, <1>5, <1>7, <1>8, <1>9 DEF Story

\* With no block open, or of a lenient stream, the end may follow.
LEMMA StoryEnds ==
  ASSUME NEW s, NEW k, NEW O, NEW lenient, Story(s, k, O, lenient), NEW kind \in {"done", "error"},
         \/ s # <<>> /\ O = {}
         \/ lenient /\ kind = "error"
  PROVE  Legal(Append(s, Ev(kind, 0)), lenient)
<1>1. PICK t : t = Append(s, Ev(kind, 0))
  OBVIOUS
<1>2. IsQueue(s) /\ Len(s) \in Nat /\ (s # <<>> => Len(s) >= 1)
  BY Queued, Taken DEF Story, Legal
<1>3. /\ IsQueue(t) /\ Len(t) = Len(s) + 1 /\ t[Len(t)] = Ev(kind, 0)
      /\ \A j \in 1..Len(s) : t[j] = s[j]
      /\ (MayFollow(t, Len(t), lenient) => Legal(t, lenient))
  <2>1. Continues(s, Ev(kind, 0), t, lenient)
    BY <1>1, <1>2, OneMore
  <2>. QED  BY <1>2, <2>1 DEF Continues, Story
<1>4. OpenIn(t, Len(s)) = O
  <2>1. OpenIn(t, Len(s)) = OpenIn(s, Len(s))
    BY <1>2, <1>3, SameBefore
  <2>. QED  BY <2>1 DEF Story, OpenIn
<1>5. Len(t) - 1 = Len(s) /\ (Len(t) > 1 => t[Len(s)].kind \notin {"done", "error"})
  BY <1>2, <1>3 DEF Story
<1>6. MayFollow(t, Len(t), lenient)
  BY <1>2, <1>3, <1>4, <1>5 DEF MayFollow
<1>. QED  BY <1>1, <1>3, <1>6

\* What the loop is told next is a step of the protocol.
LEMMA YieldsStep ==
  ASSUME NEW out, IsQueue(told), IsQueue(out), out # <<>>, Legal(told \o out, route = "genai"),
         told' = Append(told, Head(out)), route' = route
  PROVE  Protocol!Next
<1>1. PICK s, n : s = told \o out /\ n = Len(told)
  OBVIOUS
<1>2. Joins(told, out, s)
  BY <1>1, Joined
<1>3. /\ n \in Nat /\ n + 1 \in 1..Len(s) /\ s[n + 1] = Head(out) /\ \A i \in 1..n : told[i] = s[i]
  BY <1>1, <1>2, Taken, Concats DEF Joins
<1>4. MayFollow(s, n + 1, route = "genai")
  BY <1>1, <1>3 DEF Legal
<1>5. PICK e : e = s[n + 1]
  OBVIOUS
<1>6. /\ IsQueue(told') /\ Len(told') = n + 1 /\ told'[n + 1] = e /\ \A i \in 1..n : told'[i] = told[i]
      /\ DOMAIN told = 1..n /\ DOMAIN told' = 1..(n + 1)
  BY <1>1, <1>3, <1>5, Queued
<1>7. PICK O, c : O = At("open") \ At("close") /\ c = Cardinality(Told("open"))
  OBVIOUS
<1>8. /\ \A kind : At(kind) = AtIn(s, n, kind)
      /\ O = OpenIn(s, n) /\ c = OpenedIn(s, n)
  <2>1. /\ \A kind : AtIn(told, n, kind) = AtIn(s, n, kind)
        /\ OpenedIn(told, n) = OpenedIn(s, n) /\ OpenIn(told, n) = OpenIn(s, n)
    BY <1>3, SameBefore
  <2>2. \A kind : At(kind) = AtIn(told, n, kind)
    BY <1>6 DEF At, Told, AtIn
  <2>3. Cardinality(Told("open")) = OpenedIn(told, n)
    BY <1>6, Zenon DEF Told, OpenedIn
  <2>. QED  BY <1>7, <2>1, <2>2, <2>3, Zenon DEF OpenIn
<1>9. /\ \A kind : At(kind)' = At(kind) \cup (IF e.kind = kind THEN {e.at} ELSE {})
      /\ Cardinality(Told("open"))' = c + IF e.kind = "open" THEN 1 ELSE 0
  <2>1. PICK t : t = told'
    OBVIOUS
  <2>2. t = Append(told, e)
    BY <1>3, <1>5, <2>1
  <2>3. /\ \A kind : AtIn(t, n + 1, kind) = AtIn(told, n, kind) \cup (IF e.kind = kind THEN {e.at} ELSE {})
        /\ OpenedIn(t, n + 1) = OpenedIn(told, n) + IF e.kind = "open" THEN 1 ELSE 0
    <3>1. Continues(told, e, t, FALSE) /\ Len(t) = n + 1
      BY <1>6, <2>1, <2>2, OneMore
    <3>. QED  BY <1>1, <3>1 DEF Continues
  <2>4. \A kind : At(kind) = AtIn(told, n, kind) /\ At(kind)' = AtIn(t, n + 1, kind)
    BY <1>6, <2>1 DEF At, Told, AtIn
  <2>5. Cardinality(Told("open")) = OpenedIn(told, n) /\ Cardinality(Told("open"))' = OpenedIn(t, n + 1)
    BY <1>6, <2>1, Zenon DEF Told, OpenedIn
  <2>. QED  BY <1>7, <2>3, <2>4, <2>5
<1>10. At("open") \ At("close") = O /\ Cardinality(Told("open")) = c
  BY <1>7
<1>11. CASE n = 0
  <2>1. told = <<>> /\ told' # <<>> /\ Last(told') = e
    BY <1>1, <1>6, <1>11, EmptyQueue DEF Last
  <2>2. e = Ev("start", 0) \/ (route = "genai" /\ e = Ev("error", 0))
    <3>1. n + 1 = 1 /\ ~(1 > 1)
      BY <1>11
    <3>. QED  BY <1>4, <1>5, <3>1, Zenon DEF MayFollow
  <2>3. e.kind \in {"start", "error"}
    BY <2>2 DEF Ev
  <2>4. (At("open") \ At("close"))' = O /\ Cardinality(Told("open"))' = c
    <3>1. At("open")' = At("open") /\ At("close")' = At("close")
      BY <1>9, <2>3
    <3>2. c \in Nat
      BY <1>7, <1>8, <1>11, FS_EmptySet DEF OpenedIn
    <3>. QED  BY <1>7, <1>9, <2>3, <3>1, <3>2
  <2>5. CASE e = Ev("start", 0)
    <3>1. Protocol!Start
      BY <1>10, <2>1, <2>3, <2>4, <2>5 DEF Protocol!Start, Protocol!Ev, Ev
    <3>. QED  BY <3>1 DEF Protocol!Next
  <2>6. CASE route = "genai" /\ e = Ev("error", 0)
    <3>1. Protocol!Fail
      BY <1>10, <2>1, <2>3, <2>4, <2>6 DEF Protocol!Fail, Protocol!Ev, Ev
    <3>. QED  BY <3>1 DEF Protocol!Next
  <2>. QED  BY <2>2, <2>5, <2>6
<1>12. CASE n > 0
  <2>1. told # <<>> /\ told' # <<>> /\ Last(told') = e /\ Last(told) = s[n]
    BY <1>1, <1>3, <1>6, <1>12, EmptyQueue DEF Last
  <2>2. s[n].kind \notin {"done", "error"} /\ n + 1 > 1 /\ (n + 1) - 1 = n
    BY <1>3, <1>4, <1>12 DEF MayFollow
  <2>3. \/ e = Ev("open", c + 1) /\ e.at \notin At("close")
        \/ \E i \in O : e \in {Ev("delta", i), Ev("close", i)}
        \/ O = {} /\ e \in {Ev("done", 0), Ev("error", 0)}
        \/ route = "genai" /\ e = Ev("error", 0)
    <3>1. n + 1 # 1 /\ (n + 1) - 1 = n
      BY <1>3, <1>12
    <3>. QED  BY <1>4, <1>5, <1>8, <3>1, Zenon DEF MayFollow
  <2>4. \/ e.kind = "open" /\ e = Ev("open", c + 1) /\ c + 1 \notin At("close")
        \/ e.kind = "delta" /\ e = Ev("delta", e.at) /\ e.at \in O
        \/ e.kind = "close" /\ e = Ev("close", e.at) /\ e.at \in O
        \/ O = {} /\ e \in {Ev("done", 0), Ev("error", 0)} /\ e.kind \in {"done", "error"}
        \/ route = "genai" /\ e = Ev("error", 0) /\ e.kind = "error"
    BY <2>3 DEF Ev
  <2>9. c \in Nat
    <3>1. IsFiniteSet(Told("open"))
      <4>1. IsFiniteSet(1..n) /\ Told("open") \subseteq 1..n
        BY <1>3, <1>6, FS_Interval DEF Told
      <4>. QED  BY <4>1, FS_Subset
    <3>. QED  BY <1>7, <3>1, FS_CardinalityType
  <2>5. CASE e.kind = "open" /\ e = Ev("open", c + 1) /\ c + 1 \notin At("close")
    <3>1. (At("open") \ At("close"))' = O \cup {c + 1} /\ Cardinality(Told("open"))' = c + 1
      BY <1>7, <1>9, <2>5 DEF Ev
    <3>2. Protocol!OpenBlock
      BY <1>10, <2>1, <2>2, <2>5, <3>1 DEF Protocol!OpenBlock, Protocol!Ev, Ev
    <3>. QED  BY <3>2 DEF Protocol!Next
  <2>6. CASE e.kind = "delta" /\ e = Ev("delta", e.at) /\ e.at \in O
    <3>1. (At("open") \ At("close"))' = O /\ Cardinality(Told("open"))' = c
      BY <1>7, <1>9, <2>9, <2>6
    <3>2. Protocol!Extend(e.at)
      BY <1>10, <2>1, <2>2, <2>6, <3>1 DEF Protocol!Extend, Protocol!Ev, Ev
    <3>. QED  BY <1>10, <2>6, <3>2 DEF Protocol!Next
  <2>7. CASE e.kind = "close" /\ e = Ev("close", e.at) /\ e.at \in O
    <3>1. (At("open") \ At("close"))' = O \ {e.at} /\ Cardinality(Told("open"))' = c
      BY <1>7, <1>9, <2>9, <2>7
    <3>2. Protocol!CloseBlock(e.at)
      BY <1>10, <2>1, <2>2, <2>7, <3>1 DEF Protocol!CloseBlock, Protocol!Ev, Ev
    <3>. QED  BY <1>10, <2>7, <3>2 DEF Protocol!Next
  <2>8. CASE \/ O = {} /\ e \in {Ev("done", 0), Ev("error", 0)} /\ e.kind \in {"done", "error"}
             \/ route = "genai" /\ e = Ev("error", 0) /\ e.kind = "error"
    <3>1. (At("open") \ At("close"))' = O /\ Cardinality(Told("open"))' = c
      BY <1>7, <1>9, <2>9, <2>8
    <3>2. Protocol!Done \/ Protocol!Fail
      BY <1>10, <2>1, <2>2, <2>8, <3>1 DEF Protocol!Done, Protocol!Fail, Protocol!Ev, Ev
    <3>. QED  BY <3>2 DEF Protocol!Next
  <2>. QED  BY <2>4, <2>5, <2>6, <2>7, <2>8
<1>. QED  BY <1>3, <1>11, <1>12

\* What m has told, together with what it will tell, is a story of its blocks.
Tells(m, O, lenient) ==
  /\ IsQueue(m.out)
  /\ Story(told \o m.out, Len(m.blocks), O, lenient)
  /\ m.started <=> told \o m.out # <<>>

\* One event more to tell.
LEMMA TellsMore ==
  ASSUME IsQueue(told), NEW out, IsQueue(out), NEW e
  PROVE  IsQueue(Append(out, e)) /\ told \o Append(out, e) = Append(told \o out, e)
<1>1. IsQueue(told \o out) /\ IsQueue(<<e>>)
  BY Concats, One
<1>2. Append(told \o out, e) = (told \o out) \o <<e>> /\ Append(out, e) = out \o <<e>>
  BY <1>1, Appended
<1>3. (told \o out) \o <<e>> = told \o (out \o <<e>>)
  BY <1>1, Assoc
<1>. QED  BY <1>2, <1>3, Queued

\* A message that tells its start.
LEMMA TellsStart ==
  ASSUME IsQueue(told), NEW m, NEW O, NEW lenient, Tells(m, O, lenient), ~m.started,
         NEW r, r.out = Append(m.out, Ev("start", 0)), r.started, Len(r.blocks) = Len(m.blocks)
  PROVE  Tells(r, O, lenient)
<1>1. told \o m.out = <<>>
  BY DEF Tells
<1>2. Len(m.blocks) = 0 /\ O = {}
  <2>1. Story(<<>>, Len(m.blocks), O, lenient) /\ Story(<<>>, 0, {}, lenient)
    BY <1>1, StoryNone DEF Tells
  <2>. QED  BY <2>1 DEF Story
<1>3. IsQueue(r.out) /\ told \o r.out = Append(told \o m.out, Ev("start", 0))
  BY TellsMore DEF Tells
<1>4. Story(told \o r.out, 0, {}, lenient) /\ told \o r.out # <<>>
  BY <1>1, <1>3, StoryStarts
<1>. QED  BY <1>2, <1>3, <1>4 DEF Tells

\* A message that tells of a new block.
LEMMA TellsOpen ==
  ASSUME IsQueue(told), NEW m, NEW O, NEW lenient, Tells(m, O, lenient), m.started,
         NEW r, r.out = Append(m.out, Ev("open", Len(m.blocks) + 1)), r.started,
         Len(r.blocks) = Len(m.blocks) + 1
  PROVE  Tells(r, O \cup {Len(r.blocks)}, lenient)
<1>1. told \o m.out # <<>> /\ IsQueue(told \o m.out)
  BY Concats DEF Tells
<1>2. IsQueue(r.out) /\ told \o r.out = Append(told \o m.out, Ev("open", Len(m.blocks) + 1))
  BY TellsMore DEF Tells
<1>3. Story(told \o r.out, Len(m.blocks) + 1, O \cup {Len(m.blocks) + 1}, lenient)
  BY <1>1, <1>2, StoryOpens DEF Tells
<1>4. told \o r.out # <<>>
  BY <1>1, <1>2, Queued, EmptyQueue
<1>. QED  BY <1>2, <1>3, <1>4 DEF Tells

\* A message that tells that a block goes on or is closed.
LEMMA TellsOn ==
  ASSUME IsQueue(told), NEW m, NEW O, NEW lenient, Tells(m, O, lenient),
         NEW i \in O, NEW kind \in {"delta", "close"},
         NEW r, r.out = Append(m.out, Ev(kind, i)), r.started <=> m.started, Len(r.blocks) = Len(m.blocks)
  PROVE  Tells(r, IF kind = "close" THEN O \ {i} ELSE O, lenient)
<1>1. IsQueue(told \o m.out) /\ IsQueue(m.out)
  BY Concats DEF Tells
<1>2. IsQueue(r.out) /\ told \o r.out = Append(told \o m.out, Ev(kind, i))
  BY <1>1, TellsMore
<1>3. Story(told \o r.out, Len(m.blocks), IF kind = "close" THEN O \ {i} ELSE O, lenient)
  <2>1. Story(told \o m.out, Len(m.blocks), O, lenient)
    BY DEF Tells
  <2>2. Story(Append(told \o m.out, Ev(kind, i)), Len(m.blocks), IF kind = "close" THEN O \ {i} ELSE O, lenient)
    BY <2>1, StoryGoesOn
  <2>. QED  BY <1>2, <2>2, Zenon
<1>4. told \o r.out # <<>> /\ told \o m.out # <<>>
  <2>1. i \in AtIn(told \o m.out, Len(told \o m.out), "open")
    BY DEF Tells, Story
  <2>. QED  BY SMTT(30), <1>1, <1>2, <2>1, Queued, EmptyQueue DEF AtIn
<1>. QED  BY <1>2, <1>3, <1>4 DEF Tells

\* A message that tells its end.
LEMMA TellsEnd ==
  ASSUME IsQueue(told), NEW m, NEW O, NEW lenient, Tells(m, O, lenient), NEW kind \in {"done", "error"},
         \/ m.started /\ O = {}
         \/ lenient /\ kind = "error",
         NEW r, r.out = Append(m.out, Ev(kind, 0))
  PROVE  IsQueue(r.out) /\ Legal(told \o r.out, lenient)
<1>1. IsQueue(r.out) /\ told \o r.out = Append(told \o m.out, Ev(kind, 0))
  BY TellsMore DEF Tells
<1>2. \/ told \o m.out # <<>> /\ O = {}
      \/ lenient /\ kind = "error"
  BY Zenon DEF Tells
<1>3. Story(told \o m.out, Len(m.blocks), O, lenient)
  BY DEF Tells
<1>. QED  BY <1>1, <1>2, <1>3, StoryEnds

-----------------------------------------------------------------------------
(***************************************************************************)
(* genai's events                                                          *)
(***************************************************************************)

IsInbound(m) ==
  m = [blocks |-> m.blocks, open |-> m.open, calls |-> m.calls, pending |-> m.pending,
       started |-> m.started, out |-> m.out, final |-> m.final]

OpenOf(m) == IF m.open = 0 THEN {} ELSE {m.open}

\* The message is still being told.
Going(m) == IsInbound(m) /\ IsQueue(m.blocks) /\ m.open \in 0..Len(m.blocks) /\ Tells(m, OpenOf(m), TRUE)

\* The start of genai's message.
LEMMA GoingStarted ==
  ASSUME IsQueue(told), NEW m, Going(m), NEW r, r = EnsureStarted(m)
  PROVE  /\ Going(r) /\ r.started
         /\ r.blocks = m.blocks /\ r.open = m.open /\ r.calls = m.calls
         /\ r.pending = m.pending /\ r.final = m.final
<1>1. CASE m.started
  BY <1>1 DEF EnsureStarted
<1>2. CASE ~m.started
  <2>1. /\ IsInbound(r) /\ r.started /\ r.out = Append(m.out, Ev("start", 0))
        /\ r.blocks = m.blocks /\ r.open = m.open /\ r.calls = m.calls
        /\ r.pending = m.pending /\ r.final = m.final
    BY <1>2 DEF EnsureStarted, Emit, Going, IsInbound
  <2>2. Tells(r, OpenOf(m), TRUE)
    BY <1>2, <2>1, TellsStart DEF Going
  <2>. QED  BY <2>1, <2>2 DEF Going, OpenOf
<1>. QED  BY <1>1, <1>2

\* Its open block is closed.
LEMMA GoingClosed ==
  ASSUME IsQueue(told), NEW m, Going(m), NEW r, r = CloseOpen(m)
  PROVE  /\ Going(r) /\ r.open = 0 /\ (r.started <=> m.started)
         /\ r.blocks = m.blocks /\ r.calls = m.calls /\ r.pending = m.pending /\ r.final = m.final
<1>1. CASE m.open = 0
  BY <1>1 DEF CloseOpen
<1>2. CASE m.open # 0
  <2>1. /\ IsInbound(r) /\ r.open = 0 /\ (r.started <=> m.started) /\ r.out = Append(m.out, Ev("close", m.open))
        /\ r.blocks = m.blocks /\ r.calls = m.calls /\ r.pending = m.pending /\ r.final = m.final
    BY <1>2 DEF CloseOpen, Emit, Going, IsInbound
  <2>2. m.open \in OpenOf(m) /\ OpenOf(m) \ {m.open} = {}
    BY <1>2 DEF OpenOf
  <2>3. Tells(r, IF "close" = "close" THEN OpenOf(m) \ {m.open} ELSE OpenOf(m), TRUE)
    BY <2>1, <2>2, TellsOn DEF Going
  <2>4. Tells(r, {}, TRUE)
    BY <2>2, <2>3
  <2>5. r.open \in 0..Len(r.blocks) /\ IsQueue(r.blocks)
    BY <2>1, Queued DEF Going
  <2>6. Tells(r, OpenOf(r), TRUE)
    BY <2>1, <2>4, Zenon DEF OpenOf
  <2>. QED  BY <2>1, <2>5, <2>6 DEF Going
<1>. QED  BY <1>1, <1>2

\* A block is pushed and is the open one.
LEMMA GoingPushed ==
  ASSUME IsQueue(told), NEW m, Going(m), m.started, m.open = 0, NEW b, NEW p, p = PushBlock(m, b),
         NEW r, IsInbound(r), r.out = p.out, r.blocks = p.blocks, r.open = Len(p.blocks), r.started
  PROVE  Going(r) /\ r.blocks = Append(m.blocks, b) /\ r.open = Len(m.blocks) + 1
<1>1. p.blocks = Append(m.blocks, b) /\ p.out = Append(m.out, Ev("open", Len(m.blocks) + 1))
  BY DEF PushBlock, Emit, Going, IsInbound
<1>2. Len(m.blocks) \in Nat /\ IsQueue(p.blocks) /\ Len(p.blocks) = Len(m.blocks) + 1
  BY <1>1, Queued DEF Going
<1>3. Tells(r, {} \cup {Len(r.blocks)}, TRUE)
  <2>1. Tells(m, {}, TRUE)
    BY DEF Going, OpenOf
  <2>. QED  BY <1>1, <1>2, <2>1, TellsOpen
<1>4. OpenOf(r) = {} \cup {Len(r.blocks)}
  BY <1>2 DEF OpenOf
<1>5. r.blocks = p.blocks /\ r.open = Len(m.blocks) + 1 /\ r.open \in 0..Len(r.blocks)
  BY <1>2
<1>6. Tells(r, OpenOf(r), TRUE)
  BY <1>3, <1>4, Zenon
<1>. QED  BY <1>1, <1>2, <1>5, <1>6 DEF Going

\* The open block is gone on with.
LEMMA GoingOn ==
  ASSUME IsQueue(told), NEW m, Going(m), m.open # 0,
         NEW r, IsInbound(r), r.out = Append(m.out, Ev("delta", m.open)), r.open = m.open,
         r.started <=> m.started, IsQueue(r.blocks), Len(r.blocks) = Len(m.blocks)
  PROVE  Going(r)
<1>1. m.open \in OpenOf(m) /\ OpenOf(r) = OpenOf(m)
  BY DEF OpenOf
<1>2. Tells(r, IF "delta" = "close" THEN OpenOf(m) \ {m.open} ELSE OpenOf(m), TRUE)
  BY <1>1, TellsOn DEF Going
<1>3. Tells(r, OpenOf(m), TRUE)
  BY <1>2
<1>. QED  BY <1>1, <1>3 DEF Going

-----------------------------------------------------------------------------
(***************************************************************************)
(* Where the thought signatures are                                        *)
(***************************************************************************)

\* All of a sequence but its end.
LEMMA FrontOf ==
  ASSUME NEW q, IsQueue(q), q # <<>>, NEW f, f = Front(q)
  PROVE  /\ IsQueue(f) /\ Len(q) \in Nat /\ Len(q) >= 1 /\ Len(f) = Len(q) - 1
         /\ DOMAIN f = 1..(Len(q) - 1) /\ DOMAIN q = 1..Len(q)
         /\ \A i \in 1..(Len(q) - 1) : f[i] = q[i]
         /\ Last(q) = q[Len(q)]
<1>1. Len(q) \in Nat /\ Len(q) >= 1 /\ DOMAIN q = 1..Len(q)
  BY Taken
<1>0. PICK l \in Nat : l = Len(q)
  BY <1>1
<1>2. PICK c \in Int, d \in Int : c = 1 /\ d = l - 1
  OBVIOUS
<1>. DEFINE T == {q[i] : i \in DOMAIN q}
<1>3. \A i \in c..d : q[i] \in T
  BY <1>0, <1>1, <1>2
<1>. HIDE DEF T
<1>4. f = SubSeq(q, c, d)
  BY <1>0, <1>2 DEF Front
<1>5. /\ SubSeq(q, c, d) \in Seq(T) /\ Len(SubSeq(q, c, d)) = IF c <= d THEN d - c + 1 ELSE 0
      /\ \A i \in 1..(d - c + 1) : SubSeq(q, c, d)[i] = q[c + i - 1]
  BY ONLY <1>3, c \in Int, d \in Int, SubSeqProperties
<1>6. IsQueue(f) /\ Len(f) = Len(q) - 1
  <2>1. f \in Seq(T) /\ Len(f) = IF c <= d THEN d - c + 1 ELSE 0
    BY <1>4, <1>5
  <2>2. Len(f) = Len(q) - 1
    BY <1>0, <1>1, <1>2, <2>1
  <2>. QED  BY <2>1, <2>2, SeqIsQueue
<1>7. \A i \in 1..(Len(q) - 1) : f[i] = q[i]
  <2>. TAKE i \in 1..(Len(q) - 1)
  <2>1. i \in 1..(d - c + 1) /\ c + i - 1 = i
    BY <1>0, <1>1, <1>2
  <2>. QED  BY <1>4, <1>5, <2>1
<1>. QED  BY <1>1, <1>6, <1>7, Queued DEF Last

\* The signatures that wait (at 0), and those of each block.
SigAt(m, i) == IF i = 0 THEN m.pending ELSE m.blocks[i].sig

\* Each of S is in one place, and nothing else is.
Kept(m, S) ==
  /\ \A i \in 0..Len(m.blocks) : \A j \in DOMAIN SigAt(m, i) : SigAt(m, i)[j] \in S
  /\ \A k \in S : \E i \in 0..Len(m.blocks) : \E j \in DOMAIN SigAt(m, i) : SigAt(m, i)[j] = k
  /\ \A i, a \in 0..Len(m.blocks) : \A j \in DOMAIN SigAt(m, i), b \in DOMAIN SigAt(m, a) :
       SigAt(m, i)[j] = SigAt(m, a)[b] => i = a /\ j = b

\* Signatures stay where they were.
LEMMA KeptSame ==
  ASSUME NEW m, NEW S, Kept(m, S), Len(m.blocks) \in Nat,
         NEW r, Len(r.blocks) \in Nat, Len(r.blocks) >= Len(m.blocks),
         \A i \in 0..Len(m.blocks) : SigAt(r, i) = SigAt(m, i),
         \A i \in 0..Len(r.blocks) : i > Len(m.blocks) => SigAt(r, i) = <<>>
  PROVE  Kept(r, S)
<1>1. 0..Len(m.blocks) \subseteq 0..Len(r.blocks)
  OBVIOUS
<1>2. \A i \in 0..Len(r.blocks) : \A j \in DOMAIN SigAt(r, i) :
        i \in 0..Len(m.blocks) /\ SigAt(r, i) = SigAt(m, i)
  <2>. TAKE i \in 0..Len(r.blocks)
  <2>1. CASE i \in 0..Len(m.blocks)
    BY <2>1
  <2>2. CASE i \notin 0..Len(m.blocks)
    <3>1. i > Len(m.blocks)
      BY <2>2
    <3>. QED  BY <3>1, EmptyQueue
  <2>. QED  BY <2>1, <2>2
<1>3. \A i \in 0..Len(r.blocks) : \A j \in DOMAIN SigAt(r, i) : SigAt(r, i)[j] \in S
  BY <1>2 DEF Kept
<1>4. \A k \in S : \E i \in 0..Len(r.blocks) : \E j \in DOMAIN SigAt(r, i) : SigAt(r, i)[j] = k
  BY <1>1 DEF Kept
<1>5. \A i, a \in 0..Len(r.blocks) : \A j \in DOMAIN SigAt(r, i), b \in DOMAIN SigAt(r, a) :
         SigAt(r, i)[j] = SigAt(r, a)[b] => i = a /\ j = b
  <2>. SUFFICES ASSUME NEW i \in 0..Len(r.blocks), NEW a \in 0..Len(r.blocks),
                       NEW j \in DOMAIN SigAt(r, i), NEW b \in DOMAIN SigAt(r, a),
                       SigAt(r, i)[j] = SigAt(r, a)[b]
                PROVE  i = a /\ j = b
    OBVIOUS
  <2>1. \A c0, d0 \in 0..Len(m.blocks) : \A e \in DOMAIN SigAt(m, c0), f \in DOMAIN SigAt(m, d0) :
          SigAt(m, c0)[e] = SigAt(m, d0)[f] => c0 = d0 /\ e = f
    BY Zenon DEF Kept
  <2>. QED  BY <1>2, <2>1
<1>. QED  BY <1>3, <1>4, <1>5 DEF Kept

\* A signature is put at the end of one place.
LEMMA KeptAdded ==
  ASSUME NEW m, NEW S, Kept(m, S), Len(m.blocks) \in Nat, NEW k, k \notin S,
         NEW c \in 0..Len(m.blocks), IsQueue(SigAt(m, c)),
         NEW r, Len(r.blocks) = Len(m.blocks), SigAt(r, c) = Append(SigAt(m, c), k),
         \A i \in 0..Len(m.blocks) : i # c => SigAt(r, i) = SigAt(m, i)
  PROVE  Kept(r, S \cup {k})
<1>1. PICK l \in Nat : /\ DOMAIN SigAt(m, c) = 1..l /\ DOMAIN SigAt(r, c) = 1..(l + 1)
                       /\ \A j \in 1..l : SigAt(r, c)[j] = SigAt(m, c)[j]
                       /\ SigAt(r, c)[l + 1] = k
  BY Queued
<1>2. \A i \in 0..Len(m.blocks) : \A j \in DOMAIN SigAt(r, i) :
        \/ j \in DOMAIN SigAt(m, i) /\ SigAt(r, i)[j] = SigAt(m, i)[j]
        \/ i = c /\ j = l + 1 /\ SigAt(r, i)[j] = k
  <2>. TAKE i \in 0..Len(m.blocks)
  <2>. TAKE j \in DOMAIN SigAt(r, i)
  <2>1. CASE i # c
    BY <2>1
  <2>2. CASE i = c
    <3>1. j \in 1..l \/ j = l + 1
      BY <1>1, <2>2
    <3>. QED  BY <1>1, <2>2, <3>1
  <2>. QED  BY <2>1, <2>2
<1>3. \A i \in 0..Len(m.blocks) : \A j \in DOMAIN SigAt(m, i) :
        j \in DOMAIN SigAt(r, i) /\ SigAt(r, i)[j] = SigAt(m, i)[j]
  <2>. TAKE i \in 0..Len(m.blocks)
  <2>. TAKE j \in DOMAIN SigAt(m, i)
  <2>1. CASE i # c
    BY <2>1
  <2>2. CASE i = c
    <3>1. j \in 1..l /\ j \in 1..(l + 1)
      BY <1>1, <2>2
    <3>. QED  BY <1>1, <2>2, <3>1
  <2>. QED  BY <2>1, <2>2
<1>4. l + 1 \in DOMAIN SigAt(r, c) /\ SigAt(r, c)[l + 1] = k
  BY <1>1
<1>5. \A i \in 0..Len(m.blocks) : \A j \in DOMAIN SigAt(m, i) : SigAt(m, i)[j] \in S
  BY DEF Kept
<1>6. \A i \in 0..Len(m.blocks) : \A j \in DOMAIN SigAt(r, i) : SigAt(r, i)[j] \in S \cup {k}
  BY <1>2, <1>5
<1>7. \A x \in S \cup {k} : \E i \in 0..Len(m.blocks) : \E j \in DOMAIN SigAt(r, i) : SigAt(r, i)[j] = x
  <2>1. \A x \in S : \E i \in 0..Len(m.blocks) : \E j \in DOMAIN SigAt(m, i) : SigAt(m, i)[j] = x
    BY DEF Kept
  <2>. QED  BY <1>3, <1>4, <2>1
<1>8. \A i, a \in 0..Len(m.blocks) : \A j \in DOMAIN SigAt(r, i), b \in DOMAIN SigAt(r, a) :
         SigAt(r, i)[j] = SigAt(r, a)[b] => i = a /\ j = b
  <2>. SUFFICES ASSUME NEW i \in 0..Len(m.blocks), NEW a \in 0..Len(m.blocks),
                       NEW j \in DOMAIN SigAt(r, i), NEW b \in DOMAIN SigAt(r, a),
                       SigAt(r, i)[j] = SigAt(r, a)[b]
                PROVE  i = a /\ j = b
    OBVIOUS
  <2>1. \A c0, d0 \in 0..Len(m.blocks) : \A e \in DOMAIN SigAt(m, c0), f \in DOMAIN SigAt(m, d0) :
          SigAt(m, c0)[e] = SigAt(m, d0)[f] => c0 = d0 /\ e = f
    BY Zenon DEF Kept
  <2>. QED  BY <1>2, <1>5, <2>1
<1>. QED  BY <1>6, <1>7, <1>8 DEF Kept

\* The newest one that waits goes to a new block.
LEMMA KeptTaken ==
  ASSUME NEW m, NEW S, Kept(m, S), Len(m.blocks) \in Nat, IsQueue(m.pending), m.pending # <<>>,
         NEW r, Len(r.blocks) = Len(m.blocks) + 1, r.pending = Front(m.pending),
         SigAt(r, Len(m.blocks) + 1) = <<Last(m.pending)>>,
         \A i \in 1..Len(m.blocks) : SigAt(r, i) = SigAt(m, i)
  PROVE  Kept(r, S)
<1>1. PICK l \in Nat : /\ l >= 1 /\ DOMAIN SigAt(m, 0) = 1..l /\ DOMAIN SigAt(r, 0) = 1..(l - 1)
                       /\ \A j \in 1..(l - 1) : SigAt(r, 0)[j] = SigAt(m, 0)[j]
                       /\ Last(m.pending) = SigAt(m, 0)[l]
  <2>1. PICK l \in Nat : l = Len(m.pending)
    BY Taken
  <2>2. SigAt(m, 0) = m.pending /\ SigAt(r, 0) = Front(m.pending)
    BY DEF SigAt
  <2>3. PICK f : f = Front(m.pending)
    OBVIOUS
  <2>4. /\ l >= 1 /\ DOMAIN m.pending = 1..l /\ DOMAIN f = 1..(l - 1)
        /\ \A i \in 1..(l - 1) : f[i] = m.pending[i]
        /\ Last(m.pending) = m.pending[l]
    BY <2>1, <2>3, FrontOf
  <2>. QED  BY <2>2, <2>3, <2>4
<1>2. PICK n \in Nat : n = Len(m.blocks)
  OBVIOUS
<1>3. DOMAIN SigAt(r, n + 1) = 1..1 /\ SigAt(r, n + 1)[1] = SigAt(m, 0)[l]
  BY <1>1, <1>2, One
<1>4. \A i \in 0..(n + 1) : \A j \in DOMAIN SigAt(r, i) :
        \/ i \in 0..n /\ j \in DOMAIN SigAt(m, i) /\ SigAt(r, i)[j] = SigAt(m, i)[j] /\ ~(i = 0 /\ j = l)
        \/ i = n + 1 /\ j = 1 /\ SigAt(r, i)[j] = SigAt(m, 0)[l]
  <2>. TAKE i \in 0..(n + 1)
  <2>. TAKE j \in DOMAIN SigAt(r, i)
  <2>1. CASE i \in 1..n
    BY <1>2, <2>1
  <2>2. CASE i = 0
    BY <1>1, <2>2
  <2>3. CASE i = n + 1
    BY <1>3, <2>3
  <2>. QED  BY <2>1, <2>2, <2>3
<1>5. \A i \in 0..n : \A j \in DOMAIN SigAt(m, i) :
        \/ i = 0 /\ j = l
        \/ i \in 0..(n + 1) /\ j \in DOMAIN SigAt(r, i) /\ SigAt(r, i)[j] = SigAt(m, i)[j]
  <2>. TAKE i \in 0..n
  <2>. TAKE j \in DOMAIN SigAt(m, i)
  <2>1. CASE i \in 1..n
    BY <1>2, <2>1
  <2>2. CASE i = 0
    BY <1>1, <2>2
  <2>. QED  BY <2>1, <2>2
<1>6. 0 \in 0..n /\ l \in DOMAIN SigAt(m, 0) /\ n + 1 \in 0..(n + 1) /\ 1 \in DOMAIN SigAt(r, n + 1)
  BY <1>1, <1>3
<1>7. Len(m.blocks) = n /\ Len(r.blocks) = n + 1
  BY <1>2
<1>8. SigAt(r, n + 1)[1] = SigAt(m, 0)[l]
  BY <1>3
<1>9. \A i \in 0..n : \A j \in DOMAIN SigAt(m, i) : SigAt(m, i)[j] \in S
  BY <1>7 DEF Kept
<1>10. \A i \in 0..(n + 1) : \A j \in DOMAIN SigAt(r, i) : SigAt(r, i)[j] \in S
  BY <1>4, <1>6, <1>9
<1>11. \A k \in S : \E i \in 0..(n + 1) : \E j \in DOMAIN SigAt(r, i) : SigAt(r, i)[j] = k
  <2>1. \A k \in S : \E i \in 0..n : \E j \in DOMAIN SigAt(m, i) : SigAt(m, i)[j] = k
    BY <1>7 DEF Kept
  <2>. QED  BY <1>5, <1>6, <1>8, <2>1
<1>12. \A i, a \in 0..(n + 1) : \A j \in DOMAIN SigAt(r, i), b \in DOMAIN SigAt(r, a) :
         SigAt(r, i)[j] = SigAt(r, a)[b] => i = a /\ j = b
  <2>. SUFFICES ASSUME NEW i \in 0..(n + 1), NEW a \in 0..(n + 1),
                       NEW j \in DOMAIN SigAt(r, i), NEW b \in DOMAIN SigAt(r, a),
                       SigAt(r, i)[j] = SigAt(r, a)[b]
                PROVE  i = a /\ j = b
    OBVIOUS
  <2>1. \A c0, d0 \in 0..n : \A e \in DOMAIN SigAt(m, c0), f \in DOMAIN SigAt(m, d0) :
          SigAt(m, c0)[e] = SigAt(m, d0)[f] => c0 = d0 /\ e = f
    BY <1>7, Zenon DEF Kept
  <2>. QED  BY <1>4, <1>6, <2>1
<1>. QED  BY <1>7, <1>10, <1>11, <1>12 DEF Kept

\* All that wait go to blocks of their own.
LEMMA KeptFlushed ==
  ASSUME NEW m, NEW S, Kept(m, S), Len(m.blocks) \in Nat, IsQueue(m.pending),
         NEW r, Len(r.blocks) = Len(m.blocks) + Len(m.pending), r.pending = <<>>,
         \A j \in 1..Len(m.pending) : SigAt(r, Len(m.blocks) + j) = <<m.pending[j]>>,
         \A i \in 1..Len(m.blocks) : SigAt(r, i) = SigAt(m, i)
  PROVE  Kept(r, S)
<1>1. PICK n \in Nat, l \in Nat : n = Len(m.blocks) /\ l = Len(m.pending)
  BY Queued
<1>2. DOMAIN SigAt(m, 0) = 1..l /\ DOMAIN SigAt(r, 0) = {} /\ SigAt(m, 0) = m.pending
  BY <1>1, Queued, EmptyQueue DEF SigAt
<1>3. \A c \in 1..l : DOMAIN SigAt(r, n + c) = 1..1 /\ SigAt(r, n + c)[1] = SigAt(m, 0)[c]
  BY <1>1, <1>2, One
<1>4. \A i \in 0..(n + l) : \A j \in DOMAIN SigAt(r, i) :
        \/ i \in 1..n /\ j \in DOMAIN SigAt(m, i) /\ SigAt(r, i)[j] = SigAt(m, i)[j]
        \/ i \notin 1..n /\ j = 1 /\ i - n \in DOMAIN SigAt(m, 0) /\ SigAt(r, i)[j] = SigAt(m, 0)[i - n]
  <2>. TAKE i \in 0..(n + l)
  <2>. TAKE j \in DOMAIN SigAt(r, i)
  <2>1. CASE i \in 1..n
    BY <1>1, <2>1
  <2>2. CASE i = 0
    BY <1>2, <2>2
  <2>3. CASE i > n
    <3>1. i - n \in 1..l /\ n + (i - n) = i
      BY <2>3
    <3>. QED  BY <1>2, <1>3, <2>3, <3>1
  <2>. QED  BY <2>1, <2>2, <2>3
<1>5. \A i \in 1..n : \A j \in DOMAIN SigAt(m, i) :
        i \in 0..(n + l) /\ j \in DOMAIN SigAt(r, i) /\ SigAt(r, i)[j] = SigAt(m, i)[j]
  <2>. TAKE i \in 1..n
  <2>1. i \in 0..(n + l)
    OBVIOUS
  <2>2. SigAt(r, i) = SigAt(m, i)
    BY <1>1
  <2>. QED  BY <2>1, <2>2
<1>6. \A j \in DOMAIN SigAt(m, 0) :
        n + j \in 0..(n + l) /\ 1 \in DOMAIN SigAt(r, n + j) /\ SigAt(r, n + j)[1] = SigAt(m, 0)[j]
  BY <1>2, <1>3
<1>7. Len(m.blocks) = n /\ Len(r.blocks) = n + l
  BY <1>1
<1>8. \A i \in 0..(n + l) : \A j \in DOMAIN SigAt(r, i) : SigAt(r, i)[j] \in S
  <2>1. \A i \in 1..n : i \in 0..n
    OBVIOUS
  <2>2. \A i \in 0..n : \A j \in DOMAIN SigAt(m, i) : SigAt(m, i)[j] \in S
    BY <1>7 DEF Kept
  <2>. QED  BY <1>4, <2>1, <2>2, 0 \in 0..n
<1>9. \A k \in S : \E i \in 0..(n + l) : \E j \in DOMAIN SigAt(r, i) : SigAt(r, i)[j] = k
  <2>. TAKE k \in S
  <2>1. PICK i \in 0..n : \E j \in DOMAIN SigAt(m, i) : SigAt(m, i)[j] = k
    BY <1>7 DEF Kept
  <2>2. PICK j \in DOMAIN SigAt(m, i) : SigAt(m, i)[j] = k
    BY <2>1
  <2>3. CASE i = 0
    BY <1>6, <2>2, <2>3
  <2>4. CASE i \in 1..n
    BY <1>5, <2>2, <2>4
  <2>. QED  BY <2>3, <2>4
<1>10. \A i, a \in 0..(n + l) : \A j \in DOMAIN SigAt(r, i), b \in DOMAIN SigAt(r, a) :
         SigAt(r, i)[j] = SigAt(r, a)[b] => i = a /\ j = b
  <2>. SUFFICES ASSUME NEW i \in 0..(n + l), NEW a \in 0..(n + l),
                       NEW j \in DOMAIN SigAt(r, i), NEW b \in DOMAIN SigAt(r, a),
                       SigAt(r, i)[j] = SigAt(r, a)[b]
                PROVE  i = a /\ j = b
    OBVIOUS
  <2>1. \A c, d \in 0..n : \A e \in DOMAIN SigAt(m, c), f \in DOMAIN SigAt(m, d) :
          SigAt(m, c)[e] = SigAt(m, d)[f] => c = d /\ e = f
    BY <1>7, Zenon DEF Kept
  <2>2. CASE i \in 1..n /\ a \in 1..n
    BY <1>4, <2>1, <2>2
  <2>3. CASE i \in 1..n /\ a \notin 1..n
    BY <1>4, <2>1, <2>3
  <2>4. CASE i \notin 1..n /\ a \in 1..n
    BY <1>4, <2>1, <2>4
  <2>5. CASE i \notin 1..n /\ a \notin 1..n
    <3>1. i - n = a - n /\ j = b
      BY <1>4, <2>1, <2>5, 0 \in 0..n
    <3>. QED  BY <3>1
  <2>. QED  BY <2>2, <2>3, <2>4, <2>5
<1>. QED  BY <1>7, <1>8, <1>9, <1>10 DEF Kept

-----------------------------------------------------------------------------
(***************************************************************************)
(* The blocks of a message, and the calls among them                       *)
(***************************************************************************)

\* What is defined where a queue is, is a queue.
LEMMA Replaced ==
  ASSUME NEW q, IsQueue(q), NEW r, r = [j \in DOMAIN q |-> r[j]]
  PROVE  IsQueue(r) /\ Len(q) \in Nat /\ Len(r) = Len(q) /\ DOMAIN q = 1..Len(q)
<1>1. Len(q) \in Nat /\ DOMAIN q = 1..Len(q)
  BY Queued
<1>. DEFINE T == {r[j] : j \in DOMAIN q}
<1>2. r \in [1..Len(q) -> T]
  BY <1>1
<1>. HIDE DEF T
<1>3. r \in Seq(T)
  BY <1>1, <1>2, SeqDef
<1>4. IsQueue(r) /\ Len(r) \in Nat /\ DOMAIN r = 1..Len(r)
  BY <1>3, SeqIsQueue, LenProperties
<1>5. 1..Len(r) = 1..Len(q)
  BY <1>1, <1>2, <1>4
<1>6. Len(r) = Len(q)
  BY <1>1, <1>4, <1>5
<1>. QED  BY <1>1, <1>4, <1>6

IsBlock(b) ==
  /\ b = [kind |-> b.kind, parts |-> b.parts, sig |-> b.sig]
  /\ b.kind \in {"text", "thinking", "tool"}
  /\ IsQueue(b.parts) /\ IsQueue(b.sig)

\* Each call has a block of its own, and each block of a tool is that of a call.
WellBuilt(m) ==
  /\ IsQueue(m.pending)
  /\ \A i \in 1..Len(m.blocks) : IsBlock(m.blocks[i])
  /\ \A id \in DOMAIN m.calls : id \in CallIds /\ m.calls[id] \in 1..Len(m.blocks)
  /\ \A i \in 1..Len(m.blocks) : m.blocks[i].kind = "tool" <=> \E id \in DOMAIN m.calls : m.calls[id] = i
  /\ \A id, other \in DOMAIN m.calls : m.calls[id] = m.calls[other] => id = other

\* What r has besides, no call has part in: blocks of another kind may have grown, and
\* others may have come.
Besides(m, r) ==
  /\ r.calls = m.calls
  /\ Len(r.blocks) \in Nat /\ Len(r.blocks) >= Len(m.blocks) /\ Len(m.blocks) \in Nat
  /\ \A i \in 1..Len(m.blocks) :
       /\ r.blocks[i].kind = m.blocks[i].kind
       /\ m.blocks[i].kind = "tool" => r.blocks[i].parts = m.blocks[i].parts
  /\ \A i \in 1..Len(r.blocks) : i > Len(m.blocks) => r.blocks[i].kind # "tool"

\* A step beside the calls leaves the message well built.
LEMMA BesidesBuilt ==
  ASSUME NEW m, WellBuilt(m), NEW r, Besides(m, r), IsQueue(r.pending),
         \A i \in 1..Len(r.blocks) : IsBlock(r.blocks[i])
  PROVE  WellBuilt(r) /\ \A id \in DOMAIN m.calls : r.blocks[m.calls[id]].parts = m.blocks[m.calls[id]].parts
<1>1. 1..Len(m.blocks) \subseteq 1..Len(r.blocks)
  BY DEF Besides
<1>2. \A i \in 1..Len(r.blocks) : r.blocks[i].kind = "tool" <=> \E id \in DOMAIN m.calls : m.calls[id] = i
  <2>. TAKE i \in 1..Len(r.blocks)
  <2>1. CASE i \in 1..Len(m.blocks)
    BY <2>1 DEF Besides, WellBuilt
  <2>2. CASE i \notin 1..Len(m.blocks)
    <3>1. i > Len(m.blocks)
      BY <2>2 DEF Besides
    <3>. QED  BY <2>2, <3>1 DEF Besides, WellBuilt
  <2>. QED  BY <2>1, <2>2
<1>3. \A id \in DOMAIN m.calls : r.blocks[m.calls[id]].parts = m.blocks[m.calls[id]].parts
  BY DEF Besides, WellBuilt
<1>4. \A id \in DOMAIN m.calls : id \in CallIds /\ m.calls[id] \in 1..Len(r.blocks)
  BY <1>1 DEF WellBuilt
<1>. QED  BY <1>2, <1>3, <1>4 DEF WellBuilt, Besides

\* r goes on from m without a call or a signature more.
GoesOn(m, r) ==
  /\ Going(r) /\ WellBuilt(r)
  /\ r.calls = m.calls /\ r.final = m.final
  /\ \A id \in DOMAIN m.calls : r.blocks[m.calls[id]].parts = m.blocks[m.calls[id]].parts
  /\ \A S : Kept(m, S) => Kept(r, S)

\* EnsureStarted goes on with the message.
LEMMA StartGoesOn ==
  ASSUME IsQueue(told), NEW m, Going(m), WellBuilt(m), NEW r, r = EnsureStarted(m)
  PROVE  GoesOn(m, r) /\ r.started /\ r.open = m.open /\ r.blocks = m.blocks /\ r.pending = m.pending
<1>1. /\ Going(r) /\ r.started
      /\ r.blocks = m.blocks /\ r.open = m.open /\ r.calls = m.calls
      /\ r.pending = m.pending /\ r.final = m.final
  BY GoingStarted
<1>2. WellBuilt(r)
  BY <1>1 DEF WellBuilt
<1>3. ASSUME NEW S, Kept(m, S) PROVE Kept(r, S)
  <2>1. Len(m.blocks) \in Nat /\ \A i \in 0..Len(m.blocks) : SigAt(r, i) = SigAt(m, i)
    BY <1>1, Queued DEF SigAt, Going
  <2>2. \A i \in 0..Len(r.blocks) : ~(i > Len(m.blocks))
    BY <1>1, <2>1
  <2>. QED  BY <1>1, <1>3, <2>1, <2>2, KeptSame
<1>. QED  BY <1>1, <1>2, <1>3 DEF GoesOn

\* CloseOpen goes on with the message.
LEMMA CloseGoesOn ==
  ASSUME IsQueue(told), NEW m, Going(m), WellBuilt(m), NEW r, r = CloseOpen(m)
  PROVE  /\ GoesOn(m, r) /\ r.open = 0 /\ (r.started <=> m.started)
         /\ r.blocks = m.blocks /\ r.pending = m.pending
<1>1. /\ Going(r) /\ r.open = 0 /\ (r.started <=> m.started)
      /\ r.blocks = m.blocks /\ r.calls = m.calls
      /\ r.pending = m.pending /\ r.final = m.final
  BY GoingClosed
<1>2. WellBuilt(r)
  BY <1>1 DEF WellBuilt
<1>3. ASSUME NEW S, Kept(m, S) PROVE Kept(r, S)
  <2>1. Len(m.blocks) \in Nat /\ \A i \in 0..Len(m.blocks) : SigAt(r, i) = SigAt(m, i)
    BY <1>1, Queued DEF SigAt, Going
  <2>2. \A i \in 0..Len(r.blocks) : ~(i > Len(m.blocks))
    BY <1>1, <2>1
  <2>. QED  BY <1>1, <1>3, <2>1, <2>2, KeptSame
<1>. QED  BY <1>1, <1>2, <1>3 DEF GoesOn

\* Two steps that go on with a message go on with it.
LEMMA GoesOnTwice ==
  ASSUME NEW m, NEW n, GoesOn(m, n), NEW r, GoesOn(n, r)
  PROVE  GoesOn(m, r)
BY DEF GoesOn

\* A new block of prose.
LEMMA FreshGoesOn ==
  ASSUME IsQueue(told), NEW m, Going(m), WellBuilt(m), m.started, NEW kind \in {"text", "thinking"},
         NEW r, r = OpenFresh(m, kind)
  PROVE  GoesOn(m, r) /\ r.started /\ r.open \in 1..Len(r.blocks) /\ r.blocks[r.open].kind = kind
<1>1. PICK c : c = CloseOpen(m)
  OBVIOUS
<1>2. /\ GoesOn(m, c) /\ c.open = 0 /\ c.started /\ c.blocks = m.blocks /\ c.pending = m.pending
      /\ Going(c) /\ WellBuilt(c)
  BY <1>1, CloseGoesOn DEF GoesOn
<1>. DEFINE signed == kind = "thinking" /\ c.pending # <<>>
            b == [Block(kind) EXCEPT !.sig = IF signed THEN <<Last(c.pending)>> ELSE <<>>]
<1>3. /\ IsBlock(b) /\ b.kind = kind
      /\ b.sig = IF signed THEN <<Last(c.pending)>> ELSE <<>>
  <2>1. IsQueue(<<Last(c.pending)>>) /\ IsQueue(<<>>)
    BY One, EmptyQueue
  <2>. QED  BY <2>1 DEF IsBlock, Block
<1>4. PICK p : p = PushBlock(c, b)
  OBVIOUS
<1>5. r = [p EXCEPT !.open = Len(p.blocks), !.pending = IF signed THEN Front(@) ELSE @]
  BY <1>1, <1>4, Zenon DEF OpenFresh
<1>. HIDE DEF b
<1>6. /\ IsInbound(p) /\ p.pending = c.pending /\ p.calls = c.calls /\ (p.started <=> c.started)
      /\ p.final = c.final
  BY <1>2, <1>4 DEF Going, IsInbound, PushBlock, Emit
<1>7. /\ IsInbound(r) /\ r.out = p.out /\ r.blocks = p.blocks /\ r.open = Len(p.blocks) /\ r.started
      /\ r.calls = m.calls /\ r.final = m.final
      /\ r.pending = IF signed THEN Front(c.pending) ELSE c.pending
  BY <1>2, <1>5, <1>6 DEF IsInbound, GoesOn
<1>8. Going(r) /\ r.blocks = Append(c.blocks, b) /\ r.open = Len(c.blocks) + 1
  BY <1>2, <1>4, <1>7, GoingPushed
<1>9. /\ Len(c.blocks) \in Nat /\ Len(r.blocks) = Len(c.blocks) + 1
      /\ \A i \in 1..Len(c.blocks) : r.blocks[i] = c.blocks[i]
      /\ r.blocks[Len(c.blocks) + 1] = b
  BY <1>2, <1>8, Queued DEF Going
<1>10. WellBuilt(r) /\ \A id \in DOMAIN m.calls : r.blocks[m.calls[id]].parts = m.blocks[m.calls[id]].parts
  <2>1. Besides(m, r)
    BY <1>2, <1>3, <1>7, <1>9 DEF Besides
  <2>2. IsQueue(r.pending)
    BY <1>2, <1>7, FrontOf DEF WellBuilt
  <2>3. \A i \in 1..Len(r.blocks) : IsBlock(r.blocks[i])
    BY <1>2, <1>3, <1>9 DEF WellBuilt
  <2>. QED  BY <2>1, <2>2, <2>3, BesidesBuilt
<1>11. ASSUME NEW S, Kept(m, S) PROVE Kept(r, S)
  <2>1. Kept(c, S)
    BY <1>2, <1>11 DEF GoesOn
  <2>2. CASE signed
    <3>1. SigAt(r, Len(c.blocks) + 1) = <<Last(c.pending)>>
      BY <1>3, <1>9, <2>2 DEF SigAt
    <3>2. \A i \in 1..Len(c.blocks) : SigAt(r, i) = SigAt(c, i)
      BY <1>9 DEF SigAt
    <3>3. IsQueue(c.pending) /\ c.pending # <<>> /\ r.pending = Front(c.pending)
      BY <1>2, <1>7, <2>2 DEF WellBuilt
    <3>. QED  BY <1>9, <2>1, <3>1, <3>2, <3>3, KeptTaken
  <2>3. CASE ~signed
    <3>1. \A i \in 0..Len(c.blocks) : SigAt(r, i) = SigAt(c, i)
      BY <1>7, <1>9, <2>3 DEF SigAt
    <3>2. \A i \in 0..Len(r.blocks) : i > Len(c.blocks) => SigAt(r, i) = <<>>
      BY <1>3, <1>9, <2>3 DEF SigAt
    <3>. QED  BY <1>9, <2>1, <3>1, <3>2, KeptSame
  <2>. QED  BY <2>2, <2>3
<1>12. r.open \in 1..Len(r.blocks) /\ r.blocks[r.open].kind = kind
  BY <1>3, <1>8, <1>9
<1>. QED  BY <1>7, <1>8, <1>10, <1>11, <1>12 DEF GoesOn

\* The open block of prose grows.
LEMMA PartGoesOn ==
  ASSUME IsQueue(told), NEW m, Going(m), WellBuilt(m), m.open # 0, m.blocks[m.open].kind # "tool",
         NEW k, NEW r, r = AddPart(m, m.open, k)
  PROVE  GoesOn(m, r)
<1>1. m.open \in 1..Len(m.blocks) /\ IsQueue(m.blocks) /\ Len(m.blocks) \in Nat
  BY Queued DEF Going
<1>2. PICK b : b = [m.blocks[m.open] EXCEPT !.parts = Append(@, k)]
  OBVIOUS
<1>3. IsBlock(b) /\ b.kind = m.blocks[m.open].kind /\ b.sig = m.blocks[m.open].sig
  <2>1. IsBlock(m.blocks[m.open])
    BY <1>1 DEF WellBuilt
  <2>2. IsQueue(Append(m.blocks[m.open].parts, k))
    BY <2>1, Queued DEF IsBlock
  <2>. QED  BY <1>2, <2>1, <2>2 DEF IsBlock
<1>4. /\ IsInbound(r) /\ r.out = Append(m.out, Ev("delta", m.open)) /\ r.open = m.open
      /\ (r.started <=> m.started) /\ r.blocks = [m.blocks EXCEPT ![m.open] = b]
      /\ r.calls = m.calls /\ r.pending = m.pending /\ r.final = m.final
  BY <1>2 DEF AddPart, Emit, Going, IsInbound
<1>5. /\ IsQueue(r.blocks) /\ Len(r.blocks) = Len(m.blocks) /\ r.blocks[m.open] = b
      /\ \A j \in 1..Len(m.blocks) : j # m.open => r.blocks[j] = m.blocks[j]
  <2>1. r.blocks = [j \in DOMAIN m.blocks |-> r.blocks[j]]
    BY <1>4
  <2>2. IsQueue(r.blocks) /\ Len(r.blocks) = Len(m.blocks) /\ DOMAIN m.blocks = 1..Len(m.blocks)
    BY <1>1, <2>1, Replaced
  <2>. QED  BY <1>1, <1>4, <2>2
<1>6. Going(r)
  BY <1>4, <1>5, GoingOn
<1>7. WellBuilt(r) /\ \A id \in DOMAIN m.calls : r.blocks[m.calls[id]].parts = m.blocks[m.calls[id]].parts
  <2>1. Besides(m, r)
    BY <1>1, <1>3, <1>4, <1>5 DEF Besides
  <2>2. IsQueue(r.pending)
    BY <1>4 DEF WellBuilt
  <2>3. \A i \in 1..Len(r.blocks) : IsBlock(r.blocks[i])
    BY <1>3, <1>5 DEF WellBuilt
  <2>. QED  BY <2>1, <2>2, <2>3, BesidesBuilt
<1>8. ASSUME NEW S, Kept(m, S) PROVE Kept(r, S)
  <2>1. \A i \in 0..Len(m.blocks) : SigAt(r, i) = SigAt(m, i)
    BY <1>3, <1>4, <1>5 DEF SigAt
  <2>2. \A i \in 0..Len(r.blocks) : i > Len(m.blocks) => SigAt(r, i) = <<>>
    BY <1>1, <1>5
  <2>. QED  BY <1>1, <1>5, <1>8, <2>1, <2>2, KeptSame
<1>. QED  BY <1>4, <1>6, <1>7, <1>8 DEF GoesOn

\* on_text_chunk and on_reasoning_chunk go on with the message.
LEMMA ProseGoesOn ==
  ASSUME IsQueue(told), NEW m, Going(m), WellBuilt(m), NEW kind \in {"text", "thinking"}, NEW k,
         NEW r, r = OnProse(m, kind, k)
  PROVE  GoesOn(m, r)
<1>1. PICK s : s = EnsureStarted(m)
  OBVIOUS
<1>2. GoesOn(m, s) /\ Going(s) /\ WellBuilt(s) /\ s.started
  BY <1>1, StartGoesOn DEF GoesOn
<1>3. PICK o : o = IF OpenIs(s, kind) THEN s ELSE OpenFresh(s, kind)
  OBVIOUS
<1>4. GoesOn(m, o) /\ Going(o) /\ WellBuilt(o) /\ o.open # 0 /\ o.blocks[o.open].kind # "tool"
  <2>1. CASE OpenIs(s, kind)
    BY <1>2, <1>3, <2>1 DEF OpenIs
  <2>2. CASE ~OpenIs(s, kind)
    <3>1. GoesOn(s, o) /\ o.open # 0 /\ o.blocks[o.open].kind # "tool"
      BY <1>2, <1>3, <2>2, FreshGoesOn
    <3>. QED  BY <1>2, <3>1, GoesOnTwice DEF GoesOn
  <2>. QED  BY <2>1, <2>2
<1>5. GoesOn(o, r)
  <2>1. r = AddPart(o, o.open, k)
    BY <1>1, <1>3 DEF OnProse
  <2>. QED  BY <1>4, <2>1, PartGoesOn
<1>. QED  BY <1>4, <1>5, GoesOnTwice

\* A signature more, and else nothing.
SignedOn(m, r, k) ==
  /\ Going(r) /\ WellBuilt(r)
  /\ r.calls = m.calls /\ r.final = m.final
  /\ \A id \in DOMAIN m.calls : r.blocks[m.calls[id]].parts = m.blocks[m.calls[id]].parts
  /\ \A S : Kept(m, S) /\ k \notin S => Kept(r, S \cup {k})

\* A block is signed.
LEMMA SignedBlock ==
  ASSUME NEW m, Going(m), WellBuilt(m), NEW i \in 1..Len(m.blocks), m.blocks[i].kind # "tool",
         NEW k, NEW b, IsBlock(b), b.kind = m.blocks[i].kind, b.parts = m.blocks[i].parts,
         b.sig = Append(m.blocks[i].sig, k),
         NEW r, r = [m EXCEPT !.blocks = [m.blocks EXCEPT ![i] = b]]
  PROVE  SignedOn(m, r, k)
<1>1. IsQueue(m.blocks) /\ Len(m.blocks) \in Nat /\ IsBlock(m.blocks[i])
  BY Queued DEF Going, WellBuilt
<1>2. /\ IsInbound(r) /\ r.out = m.out /\ r.open = m.open /\ (r.started <=> m.started)
      /\ r.blocks = [m.blocks EXCEPT ![i] = b]
      /\ r.calls = m.calls /\ r.pending = m.pending /\ r.final = m.final
  BY DEF Going, IsInbound
<1>3. /\ IsQueue(r.blocks) /\ Len(r.blocks) = Len(m.blocks) /\ r.blocks[i] = b
      /\ \A j \in 1..Len(m.blocks) : j # i => r.blocks[j] = m.blocks[j]
  <2>1. r.blocks = [j \in DOMAIN m.blocks |-> r.blocks[j]]
    BY <1>2
  <2>2. IsQueue(r.blocks) /\ Len(r.blocks) = Len(m.blocks) /\ DOMAIN m.blocks = 1..Len(m.blocks)
    BY <1>1, <2>1, Replaced
  <2>. QED  BY <1>2, <2>2
<1>4. Going(r)
  <2>1. Tells(r, OpenOf(r), TRUE)
    BY <1>2, <1>3 DEF Tells, OpenOf, Going
  <2>. QED  BY <1>2, <1>3, <2>1 DEF Going
<1>5. WellBuilt(r) /\ \A id \in DOMAIN m.calls : r.blocks[m.calls[id]].parts = m.blocks[m.calls[id]].parts
  <2>1. Besides(m, r)
    BY <1>1, <1>2, <1>3 DEF Besides
  <2>2. IsQueue(r.pending)
    BY <1>2 DEF WellBuilt
  <2>3. \A j \in 1..Len(r.blocks) : IsBlock(r.blocks[j])
    BY <1>3 DEF WellBuilt
  <2>. QED  BY <2>1, <2>2, <2>3, BesidesBuilt
<1>6. ASSUME NEW S, Kept(m, S), k \notin S PROVE Kept(r, S \cup {k})
  <2>1. i \in 0..Len(m.blocks) /\ i # 0
    BY <1>1
  <2>2. SigAt(m, i) = m.blocks[i].sig /\ SigAt(r, i) = Append(SigAt(m, i), k) /\ IsQueue(SigAt(m, i))
    BY <1>1, <1>3, <2>1 DEF SigAt, IsBlock
  <2>3. \A j \in 0..Len(m.blocks) : j # i => SigAt(r, j) = SigAt(m, j)
    BY <1>2, <1>3 DEF SigAt
  <2>. QED  BY <1>1, <1>3, <1>6, <2>1, <2>2, <2>3, KeptAdded
<1>. QED  BY <1>2, <1>4, <1>5, <1>6 DEF SignedOn

\* attach_thought_signature puts the signature in one place.
LEMMA SignatureAttached ==
  ASSUME NEW m, Going(m), WellBuilt(m), NEW k, NEW r, r = AttachSignature(m, k)
  PROVE  SignedOn(m, r, k)
<1>. DEFINE T == {i \in DOMAIN m.blocks : m.blocks[i].kind = "thinking"}
<1>1. PICK n \in Nat : n = Len(m.blocks) /\ DOMAIN m.blocks = 1..n /\ IsQueue(m.blocks)
  BY Queued DEF Going
<1>2. PICK last : last = Max({0} \cup T)
  OBVIOUS
<1>3. last = 0 \/ last \in T
  <2>1. {0} \cup T \in SUBSET (0..n) /\ {0} \cup T # {}
    BY <1>1
  <2>2. Max({0} \cup T) \in {0} \cup T
    BY <2>1, Greatest
  <2>. QED  BY <1>2, <2>2
<1>. HIDE DEF T
<1>4. \A i \in 1..n : IsBlock(m.blocks[i])
  BY <1>1 DEF WellBuilt
<1>5. CASE OpenIs(m, "thinking")
  <2>1. m.open \in 1..n /\ m.blocks[m.open].kind # "tool"
    BY <1>1, <1>5 DEF OpenIs, Going
  <2>2. PICK b : b = [m.blocks[m.open] EXCEPT !.sig = Append(@, k)]
    OBVIOUS
  <2>3. /\ IsBlock(b) /\ b.kind = m.blocks[m.open].kind /\ b.parts = m.blocks[m.open].parts
        /\ b.sig = Append(m.blocks[m.open].sig, k)
    <3>1. IsBlock(m.blocks[m.open])
      BY <1>4, <2>1
    <3>2. IsQueue(Append(m.blocks[m.open].sig, k))
      BY <3>1, Queued DEF IsBlock
    <3>. QED  BY <2>2, <3>1, <3>2 DEF IsBlock
  <2>4. r = [m EXCEPT !.blocks = [m.blocks EXCEPT ![m.open] = b]]
    BY <1>5, <2>2 DEF AttachSignature, Going, IsInbound
  <2>. QED  BY <1>1, <2>1, <2>3, <2>4, SignedBlock
<1>6. CASE ~OpenIs(m, "thinking") /\ last # 0 /\ m.blocks[last].sig = <<>>
  <2>1. last \in 1..n /\ m.blocks[last].kind # "tool"
    BY <1>1, <1>3, <1>6 DEF T
  <2>2. PICK b : b = [m.blocks[last] EXCEPT !.sig = <<k>>]
    OBVIOUS
  <2>3. /\ IsBlock(b) /\ b.kind = m.blocks[last].kind /\ b.parts = m.blocks[last].parts
        /\ b.sig = Append(m.blocks[last].sig, k)
    <3>1. IsBlock(m.blocks[last])
      BY <1>4, <2>1
    <3>2. IsQueue(<<k>>) /\ Append(<<>>, k) = <<k>>
      BY One
    <3>. QED  BY <1>6, <2>2, <3>1, <3>2 DEF IsBlock
  <2>4. r = [m EXCEPT !.blocks = [m.blocks EXCEPT ![last] = b]]
    BY <1>2, <1>6, <2>2 DEF AttachSignature, T, Going, IsInbound
  <2>. QED  BY <1>1, <2>1, <2>3, <2>4, SignedBlock
<1>7. CASE ~OpenIs(m, "thinking") /\ ~(last # 0 /\ m.blocks[last].sig = <<>>)
  <2>1. r = [m EXCEPT !.pending = Append(@, k)]
    BY <1>2, <1>7 DEF AttachSignature, T
  <2>2. /\ IsInbound(r) /\ r.out = m.out /\ r.open = m.open /\ (r.started <=> m.started)
        /\ r.blocks = m.blocks /\ r.pending = Append(m.pending, k)
        /\ r.calls = m.calls /\ r.final = m.final
    BY <2>1 DEF Going, IsInbound
  <2>3. Going(r)
    <3>1. Tells(r, OpenOf(r), TRUE)
      BY <2>2 DEF Tells, OpenOf, Going
    <3>. QED  BY <2>2, <3>1 DEF Going
  <2>4. IsQueue(m.pending) /\ IsQueue(r.pending)
    BY <2>2, Queued DEF WellBuilt
  <2>5. WellBuilt(r)
    BY <2>2, <2>4 DEF WellBuilt
  <2>6. ASSUME NEW S, Kept(m, S), k \notin S PROVE Kept(r, S \cup {k})
    <3>1. 0 \in 0..Len(m.blocks) /\ Len(m.blocks) \in Nat
      BY <1>1
    <3>2. SigAt(m, 0) = m.pending /\ SigAt(r, 0) = Append(SigAt(m, 0), k) /\ IsQueue(SigAt(m, 0))
      BY <2>2, <2>4 DEF SigAt
    <3>3. \A j \in 0..Len(m.blocks) : j # 0 => SigAt(r, j) = SigAt(m, j)
      BY <2>2 DEF SigAt
    <3>. QED  BY <2>2, <2>6, <3>1, <3>2, <3>3, KeptAdded
  <2>. QED  BY <2>2, <2>3, <2>5, <2>6 DEF SignedOn
<1>. QED  BY <1>5, <1>6, <1>7

\* A call's arguments are n pieces now, and else nothing changed.
CallTaken(m, r, id, n) ==
  /\ Going(r) /\ WellBuilt(r) /\ r.final = m.final
  /\ DOMAIN r.calls = DOMAIN m.calls \cup {id}
  /\ r.blocks[r.calls[id]].parts = [j \in 1..n |-> j]
  /\ \A other \in DOMAIN m.calls \ {id} :
       r.blocks[r.calls[other]].parts = m.blocks[m.calls[other]].parts
  /\ \A S : Kept(m, S) => Kept(r, S)

\* A snapshot of n pieces has length n.
LEMMA SnapshotIsQueue ==
  ASSUME NEW n \in Nat
  PROVE  IsQueue([j \in 1..n |-> j]) /\ Len([j \in 1..n |-> j]) = n
<1>1. [j \in 1..n |-> j] \in [1..n -> 1..n]
  OBVIOUS
<1>2. [j \in 1..n |-> j] \in Seq(1..n)
  BY <1>1, SeqDef
<1>3. Len([j \in 1..n |-> j]) = n
  BY <1>1, <1>2, LenProperties
<1>. QED  BY <1>2, <1>3, SeqIsQueue

\* One argument more for a function.
LEMMA CallAlso ==
  ASSUME NEW f, NEW id, id \notin DOMAIN f, NEW i, NEW g, g = With(f, id, i)
  PROVE  /\ DOMAIN g = DOMAIN f \cup {id} /\ g[id] = i
         /\ \A other \in DOMAIN f : other # id /\ g[other] = f[other]
BY DEF With

\* A call that has its block.
LEMMA CallUpdated ==
  ASSUME IsQueue(told), NEW m, Going(m), WellBuilt(m), NEW id \in DOMAIN m.calls, NEW n \in Nat,
         NEW i, i = m.calls[id], NEW b, IsBlock(b), b.kind = "tool", b.sig = m.blocks[i].sig,
         b.parts = [j \in 1..n |-> j],
         NEW q, q = [m EXCEPT !.blocks = [m.blocks EXCEPT ![i] = b]],
         NEW r, r = q \/ (m.open = i /\ r = Emit(q, Ev("delta", i)))
  PROVE  CallTaken(m, r, id, n)
<1>1. i = m.calls[id]
  OBVIOUS
<1>2. i \in 1..Len(m.blocks) /\ IsQueue(m.blocks) /\ Len(m.blocks) \in Nat /\ IsBlock(m.blocks[i])
      /\ m.blocks[i].kind = "tool"
  <2>1. i \in 1..Len(m.blocks) /\ IsQueue(m.blocks) /\ Len(m.blocks) \in Nat
    BY <1>1, Queued DEF Going, WellBuilt
  <2>. QED  BY <1>1, <2>1 DEF WellBuilt
<1>3. /\ IsBlock(b) /\ b.kind = "tool" /\ b.sig = m.blocks[i].sig /\ b.parts = [j \in 1..n |-> j]
  OBVIOUS
<1>4. /\ IsInbound(q) /\ q.out = m.out /\ q.open = m.open /\ (q.started <=> m.started)
      /\ q.blocks = [m.blocks EXCEPT ![i] = b]
      /\ q.calls = m.calls /\ q.pending = m.pending /\ q.final = m.final
  BY <1>1 DEF Going, IsInbound
<1>5. /\ IsQueue(q.blocks) /\ Len(q.blocks) = Len(m.blocks) /\ q.blocks[i] = b
      /\ \A j \in 1..Len(m.blocks) : j # i => q.blocks[j] = m.blocks[j]
  <2>1. q.blocks = [j \in DOMAIN m.blocks |-> q.blocks[j]]
    BY <1>4
  <2>2. IsQueue(q.blocks) /\ Len(q.blocks) = Len(m.blocks) /\ DOMAIN m.blocks = 1..Len(m.blocks)
    BY <1>2, <2>1, Replaced
  <2>. QED  BY <1>2, <1>4, <2>2
<1>6. /\ IsInbound(r) /\ r.open = m.open /\ (r.started <=> m.started) /\ r.blocks = q.blocks
      /\ r.calls = m.calls /\ r.pending = m.pending /\ r.final = m.final
      /\ r.out = m.out \/ (m.open = i /\ r.out = Append(m.out, Ev("delta", m.open)))
  <2>1. CASE r = q
    BY <1>4, <2>1
  <2>2. CASE m.open = i /\ r = Emit(q, Ev("delta", i))
    BY ONLY <1>4, <2>2 DEF Emit, IsInbound
  <2>. QED  BY <2>1, <2>2
<1>7. Going(r)
  <2>1. CASE r.out = m.out
    <3>1. Tells(r, OpenOf(r), TRUE)
      BY <1>5, <1>6, <2>1 DEF Tells, OpenOf, Going
    <3>. QED  BY <1>5, <1>6, <3>1 DEF Going
  <2>2. CASE m.open = i /\ r.out = Append(m.out, Ev("delta", m.open))
    <3>1. m.open # 0
      BY <1>2, <2>2
    <3>. QED  BY <1>5, <1>6, <2>2, <3>1, GoingOn
  <2>. QED  BY <1>6, <2>1, <2>2
<1>8. \A j \in 1..Len(m.blocks) : r.blocks[j].kind = m.blocks[j].kind /\ IsBlock(r.blocks[j])
  BY <1>2, <1>3, <1>5, <1>6 DEF WellBuilt
<1>9. WellBuilt(r)
  BY ONLY <1>5, <1>6, <1>8, WellBuilt(m) DEF WellBuilt
<1>10. /\ r.blocks[r.calls[id]].parts = [j \in 1..n |-> j]
       /\ \A other \in DOMAIN m.calls \ {id} :
            r.blocks[r.calls[other]].parts = m.blocks[m.calls[other]].parts
  BY <1>1, <1>3, <1>5, <1>6 DEF WellBuilt
<1>11. ASSUME NEW S, Kept(m, S) PROVE Kept(r, S)
  <2>1. \A j \in 0..Len(m.blocks) : SigAt(r, j) = SigAt(m, j)
    BY <1>2, <1>3, <1>5, <1>6 DEF SigAt
  <2>2. \A j \in 0..Len(r.blocks) : ~(j > Len(m.blocks))
    BY <1>2, <1>5, <1>6
  <2>. QED  BY SMTT(30), <1>2, <1>5, <1>6, <1>11, <2>1, <2>2, KeptSame
<1>12. DOMAIN r.calls = DOMAIN m.calls \cup {id}
  BY <1>6
<1>. QED  BY <1>6, <1>7, <1>9, <1>10, <1>11, <1>12 DEF CallTaken

\* A call that gets its block.
LEMMA CallAdded ==
  ASSUME IsQueue(told), NEW m, Going(m), WellBuilt(m), m.started, m.open = 0,
         NEW id \in CallIds \ DOMAIN m.calls, NEW n \in Nat,
         NEW b, IsBlock(b), b.kind = "tool", b.sig = <<>>, b.parts = [j \in 1..n |-> j],
         NEW p, p = PushBlock(m, b),
         NEW o, o = [p EXCEPT !.open = Len(p.blocks), !.calls = With(@, id, Len(p.blocks))],
         NEW r, r = o \/ r = Emit(o, Ev("delta", Len(p.blocks)))
  PROVE  CallTaken(m, r, id, n)
<1>1. IsQueue(m.blocks) /\ Len(m.blocks) \in Nat
  BY Queued DEF Going
<1>2. IsBlock(b) /\ b.kind = "tool" /\ b.sig = <<>> /\ b.parts = [j \in 1..n |-> j]
  OBVIOUS
<1>3. /\ IsInbound(p) /\ p.pending = m.pending /\ p.calls = m.calls /\ p.started /\ p.final = m.final
      /\ p.blocks = Append(m.blocks, b)
  BY DEF Going, IsInbound, PushBlock, Emit
<1>4. /\ Len(p.blocks) = Len(m.blocks) + 1 /\ p.blocks[Len(m.blocks) + 1] = b
      /\ IsQueue(p.blocks) /\ \A i \in 1..Len(m.blocks) : p.blocks[i] = m.blocks[i]
  BY ONLY <1>1, <1>3, IsQueue(m.blocks), Queued
<1>5. PICK i : i = Len(p.blocks)
  OBVIOUS
<1>6. /\ IsInbound(o) /\ o.out = p.out /\ o.blocks = p.blocks /\ o.open = i /\ o.started
      /\ o.calls = With(m.calls, id, i) /\ o.pending = m.pending /\ o.final = m.final
  BY <1>3, <1>5 DEF IsInbound
<1>7. Going(o)
  BY ONLY IsQueue(told), Going(m), m.started, m.open = 0, p = PushBlock(m, b), <1>5, <1>6, GoingPushed
<1>8. /\ IsInbound(r) /\ r.open = i /\ r.started /\ r.blocks = p.blocks
      /\ r.calls = With(m.calls, id, i) /\ r.pending = m.pending /\ r.final = m.final
      /\ r = o \/ r.out = Append(o.out, Ev("delta", i))
  <2>1. CASE r = o
    BY ONLY <1>6, <2>1
  <2>2. CASE r = Emit(o, Ev("delta", i))
    BY ONLY <1>6, <2>2 DEF Emit, IsInbound
  <2>. QED  BY <1>5, <2>1, <2>2
<1>9. Going(r)
  <2>1. i # 0 /\ o.open # 0
    BY <1>1, <1>4, <1>5, <1>6
  <2>2. CASE r.out = Append(o.out, Ev("delta", i))
    BY ONLY IsQueue(told), <1>4, <1>6, <1>7, <1>8, <2>1, <2>2, GoingOn
  <2>. QED  BY <1>7, <1>8, <2>2
<1>10. /\ DOMAIN r.calls = DOMAIN m.calls \cup {id} /\ r.calls[id] = i
       /\ \A other \in DOMAIN m.calls : other # id /\ r.calls[other] = m.calls[other]
  <2>1. id \notin DOMAIN m.calls
    OBVIOUS
  <2>2. PICK g : g = r.calls
    OBVIOUS
  <2>3. g = With(m.calls, id, i)
    BY <1>8, <2>2
  <2>4. /\ DOMAIN g = DOMAIN m.calls \cup {id} /\ g[id] = i
        /\ \A other \in DOMAIN m.calls : other # id /\ g[other] = m.calls[other]
    BY ONLY <2>1, <2>3 DEF With
  <2>. QED  BY <2>2, <2>4
<1>11. i = Len(m.blocks) + 1 /\ Len(r.blocks) = Len(m.blocks) + 1 /\ r.blocks[i] = b
       /\ \A j \in 1..Len(m.blocks) : r.blocks[j] = m.blocks[j] /\ j # i
  BY <1>1, <1>4, <1>5, <1>8
<1>12. \A j \in 1..Len(r.blocks) : j = i \/ j \in 1..Len(m.blocks)
  BY <1>1, <1>11
<1>13. \A other \in DOMAIN m.calls : other \in CallIds /\ m.calls[other] \in 1..Len(m.blocks)
  BY DEF WellBuilt
<1>14. WellBuilt(r)
  <2>1. IsQueue(r.pending)
    BY <1>8 DEF WellBuilt
  <2>2. \A j \in 1..Len(r.blocks) : IsBlock(r.blocks[j])
    BY <1>2, <1>11, <1>12 DEF WellBuilt
  <2>3. \A other \in DOMAIN r.calls : other \in CallIds /\ r.calls[other] \in 1..Len(r.blocks)
    <3>1. i \in 1..Len(r.blocks) /\ 1..Len(m.blocks) \subseteq 1..Len(r.blocks)
      BY <1>1, <1>11
    <3>. QED  BY <1>10, <1>13, <3>1
  <2>4. \A j \in 1..Len(r.blocks) : r.blocks[j].kind = "tool" <=> \E other \in DOMAIN r.calls : r.calls[other] = j
    <3>. TAKE j \in 1..Len(r.blocks)
    <3>1. CASE j = i
      BY <1>2, <1>10, <1>11, <3>1
    <3>2. CASE j \in 1..Len(m.blocks)
      <4>1. m.blocks[j].kind = "tool" <=> \E other \in DOMAIN m.calls : m.calls[other] = j
        BY <3>2 DEF WellBuilt
      <4>. QED  BY <1>10, <1>11, <3>2, <4>1
    <3>. QED  BY <1>12, <3>1, <3>2
  <2>5. \A a, c \in DOMAIN r.calls : r.calls[a] = r.calls[c] => a = c
    <3>1. \A a, c \in DOMAIN m.calls : m.calls[a] = m.calls[c] => a = c
      BY DEF WellBuilt
    <3>. QED  BY <1>10, <1>11, <1>13, <3>1
  <2>. QED  BY <2>1, <2>2, <2>3, <2>4, <2>5 DEF WellBuilt
<1>15. \A other \in DOMAIN m.calls \ {id} :
         r.blocks[r.calls[other]].parts = m.blocks[m.calls[other]].parts
  BY <1>10, <1>11, <1>13
<1>16. ASSUME NEW S, Kept(m, S) PROVE Kept(r, S)
  <2>1. \A j \in 0..Len(m.blocks) : SigAt(r, j) = SigAt(m, j)
    BY <1>1, <1>8, <1>11 DEF SigAt
  <2>2. \A j \in 0..Len(r.blocks) : j > Len(m.blocks) => SigAt(r, j) = <<>>
    <3>. TAKE j \in 0..Len(r.blocks)
    <3>. HAVE j > Len(m.blocks)
    <3>1. j = i /\ j # 0
      BY <1>1, <1>11
    <3>2. SigAt(r, j) = r.blocks[j].sig
      BY <3>1 DEF SigAt
    <3>. QED  BY <1>2, <1>11, <3>1, <3>2
  <2>. QED  BY <1>1, <1>11, <1>16, <2>1, <2>2, KeptSame
<1>. QED  BY <1>2, <1>8, <1>9, <1>10, <1>11, <1>14, <1>15, <1>16 DEF CallTaken

\* on_tool_call takes the arguments genai delivered.
LEMMA CallIsTaken ==
  ASSUME IsQueue(told), NEW m, Going(m), WellBuilt(m), NEW c, c.id \in CallIds, c.n \in Nat,
         NEW r, r = OnToolCall(m, c)
  PROVE  CallTaken(m, r, c.id, c.n)
<1>1. PICK s : s = EnsureStarted(m)
  OBVIOUS
<1>2. GoesOn(m, s) /\ Going(s) /\ WellBuilt(s) /\ s.started
  BY <1>1, StartGoesOn DEF GoesOn
<1>3. CallTaken(s, r, c.id, c.n)
  <2>1. CASE c.id \in DOMAIN s.calls
    <3>0. PICK i : i = s.calls[c.id]
      OBVIOUS
    <3>1. PICK b : b = [s.blocks[i] EXCEPT !.parts = [j \in 1..c.n |-> j]]
      OBVIOUS
    <3>2. PICK q : q = [s EXCEPT !.blocks = [s.blocks EXCEPT ![i] = b]]
      OBVIOUS
    <3>3. r = q \/ (s.open = i /\ r = Emit(q, Ev("delta", i)))
      <4>1. q = [s EXCEPT !.blocks[i].parts = [j \in 1..c.n |-> j]]
        BY <3>1, <3>2
      <4>. QED  BY <1>1, <2>1, <3>0, <4>1 DEF OnToolCall
    <3>4. IsBlock(s.blocks[i]) /\ s.blocks[i].kind = "tool"
      BY <1>2, <2>1, <3>0 DEF WellBuilt
    <3>5. IsBlock(b) /\ b.kind = "tool" /\ b.sig = s.blocks[i].sig /\ b.parts = [j \in 1..c.n |-> j]
      BY <3>1, <3>4, SnapshotIsQueue DEF IsBlock
    <3>. QED  BY SMTT(30), <1>2, <2>1, <3>0, <3>2, <3>3, <3>5, CallUpdated
  <2>2. CASE c.id \notin DOMAIN s.calls
    <3>1. PICK d : d = CloseOpen(s)
      OBVIOUS
    <3>2. GoesOn(s, d) /\ Going(d) /\ WellBuilt(d) /\ d.started /\ d.open = 0 /\ d.calls = s.calls
      BY <1>2, <3>1, CloseGoesOn DEF GoesOn
    <3>3. PICK b : b = [Block("tool") EXCEPT !.parts = [j \in 1..c.n |-> j]]
      OBVIOUS
    <3>4. PICK p : p = PushBlock(d, b)
      OBVIOUS
    <3>5. PICK o : o = [p EXCEPT !.open = Len(p.blocks), !.calls = With(@, c.id, Len(p.blocks))]
      OBVIOUS
    <3>6. r = o \/ r = Emit(o, Ev("delta", Len(p.blocks)))
      BY <1>1, <2>2, <3>1, <3>3, <3>4, <3>5 DEF OnToolCall
    <3>7. IsBlock(b) /\ b.kind = "tool" /\ b.sig = <<>> /\ b.parts = [j \in 1..c.n |-> j]
      BY <3>3, SnapshotIsQueue, EmptyQueue DEF IsBlock, Block
    <3>8. CallTaken(d, r, c.id, c.n)
      <4>1. PICK id, n : id = c.id /\ n = c.n
        OBVIOUS
      <4>2. id \in CallIds \ DOMAIN d.calls /\ n \in Nat
        BY <2>2, <3>2, <4>1
      <4>3. b.parts = [j \in 1..n |-> j] /\ o = [p EXCEPT !.open = Len(p.blocks), !.calls = With(@, id, Len(p.blocks))]
        BY <3>5, <3>7, <4>1
      <4>4. CallTaken(d, r, id, n)
        BY <3>2, <3>4, <3>6, <3>7, <4>2, <4>3, CallAdded
      <4>. QED  BY <4>1, <4>4
    <3>. QED  BY <3>2, <3>8 DEF CallTaken, GoesOn
  <2>. QED  BY <2>1, <2>2
<1>. QED  BY <1>2, <1>3 DEF CallTaken, GoesOn

\* Nothing waits any more.
FlushedOf(m, r) ==
  /\ IsInbound(r) /\ IsQueue(r.blocks) /\ WellBuilt(r) /\ r.pending = <<>>
  /\ r.out = m.out /\ r.open = m.open /\ (r.started <=> m.started)
  /\ r.calls = m.calls /\ r.final = m.final
  /\ \A id \in DOMAIN m.calls : r.blocks[m.calls[id]].parts = m.blocks[m.calls[id]].parts
  /\ \A S : Kept(m, S) => Kept(r, S)

\* flush_pending_signatures leaves each signature in a block.
LEMMA PendingFlushed ==
  ASSUME NEW m, IsInbound(m), IsQueue(m.blocks), WellBuilt(m), NEW r, r = FlushPending(m)
  PROVE  FlushedOf(m, r)
<1>. DEFINE B(j) == [Block("thinking") EXCEPT !.sig = <<m.pending[j]>>]
<1>0. Len(m.blocks) \in Nat /\ Len(m.pending) \in Nat /\ DOMAIN m.pending = 1..Len(m.pending)
  BY Queued DEF WellBuilt
<1>1. PICK n, l : /\ n = Len(m.blocks) /\ l = Len(m.pending) /\ DOMAIN m.pending = 1..l
                  /\ n \in Nat /\ l \in Nat
  BY <1>0
<1>2. PICK q : q = [j \in 1..l |-> B(j)]
  OBVIOUS
<1>3. IsQueue(q) /\ Len(q) = l
  <2>1. q = [j \in DOMAIN m.pending |-> q[j]] /\ IsQueue(m.pending)
    BY <1>1, <1>2 DEF WellBuilt
  <2>. QED  BY <1>1, <2>1, Replaced
<1>4. \A j \in 1..l : IsBlock(q[j]) /\ q[j].kind = "thinking" /\ q[j].sig = <<m.pending[j]>>
  <2>. TAKE j \in 1..l
  <2>1. q[j] = B(j) /\ IsQueue(<<>>) /\ IsQueue(<<m.pending[j]>>)
    BY <1>2, One, EmptyQueue
  <2>. QED  BY <2>1 DEF IsBlock, Block
<1>5. /\ IsInbound(r) /\ r.pending = <<>> /\ r.blocks = m.blocks \o q
      /\ r.out = m.out /\ r.open = m.open /\ (r.started <=> m.started)
      /\ r.calls = m.calls /\ r.final = m.final
  BY <1>1, <1>2 DEF FlushPending, IsInbound
<1>. HIDE DEF B
<1>6. /\ IsQueue(r.blocks) /\ Len(r.blocks) = n + l
      /\ \A i \in 1..n : r.blocks[i] = m.blocks[i]
      /\ \A j \in 1..l : r.blocks[n + j] = q[j]
  <2>1. PICK b : b = m.blocks /\ IsQueue(b) /\ Len(b) = n
    BY <1>1
  <2>2. /\ IsQueue(b \o q) /\ Len(b \o q) = n + l
        /\ \A i \in 1..n : (b \o q)[i] = b[i]
        /\ \A j \in 1..l : (b \o q)[n + j] = q[j]
    <3>1. PICK x : x = b \o q
      OBVIOUS
    <3>2. IsQueue(b) /\ IsQueue(q)
      BY <1>3, <2>1
    <3>3. Joins(b, q, x) /\ Len(x) = Len(b) + Len(q)
      BY ONLY <3>1, <3>2, Joined, Concats
    <3>. QED  BY <1>3, <2>1, <3>1, <3>3 DEF Joins
  <2>3. r.blocks = b \o q /\ m.blocks = b
    BY <1>5, <2>1, Zenon
  <2>. QED  BY <2>2, <2>3, Zenon
<1>11. n \in Nat /\ l \in Nat /\ Len(r.blocks) = n + l
  BY <1>1, <1>6
<1>7. \A i \in 1..Len(r.blocks) : i \in 1..n \/ (i > n /\ i - n \in 1..l /\ n + (i - n) = i)
  BY <1>11
<1>8. \A i \in 1..Len(r.blocks) : i \in 1..n \/ (i > n /\ i - n \in 1..l /\ r.blocks[i] = q[i - n])
  BY <1>6, <1>7
<1>9. WellBuilt(r) /\ \A id \in DOMAIN m.calls : r.blocks[m.calls[id]].parts = m.blocks[m.calls[id]].parts
  <2>1. Besides(m, r)
    <3>1. \A i \in 1..Len(r.blocks) : i > n => r.blocks[i].kind # "tool"
      BY <1>1, <1>4, <1>8
    <3>2. Len(r.blocks) \in Nat /\ Len(r.blocks) >= Len(m.blocks) /\ Len(m.blocks) \in Nat
      <4>1. n + l \in Nat /\ n + l >= n
        BY <1>11
      <4>. QED  BY <1>1, <1>11, <4>1
    <3>3. \A i \in 1..Len(m.blocks) : r.blocks[i] = m.blocks[i]
      BY <1>1, <1>6
    <3>. QED  BY ONLY <1>1, <1>5, <3>1, <3>2, <3>3 DEF Besides
  <2>2. IsQueue(r.pending)
    BY <1>5, EmptyQueue
  <2>3. \A i \in 1..Len(r.blocks) : IsBlock(r.blocks[i])
    BY ZenonT(30), <1>1, <1>4, <1>6, <1>8 DEF WellBuilt
  <2>. QED  BY <2>1, <2>2, <2>3, BesidesBuilt
<1>10. ASSUME NEW S, Kept(m, S) PROVE Kept(r, S)
  <2>1. \A j \in 1..Len(m.pending) : SigAt(r, Len(m.blocks) + j) = <<m.pending[j]>>
    <3>. TAKE j \in 1..Len(m.pending)
    <3>1. j \in 1..l /\ n + j # 0 /\ Len(m.blocks) + j = n + j
      BY <1>1
    <3>2. SigAt(r, n + j) = r.blocks[n + j].sig
      BY <3>1 DEF SigAt
    <3>. QED  BY <1>4, <1>6, <3>1, <3>2
  <2>2. \A i \in 1..Len(m.blocks) : SigAt(r, i) = SigAt(m, i)
    BY <1>1, <1>6 DEF SigAt
  <2>3. Len(r.blocks) = Len(m.blocks) + Len(m.pending) /\ Len(m.blocks) \in Nat /\ IsQueue(m.pending)
    BY <1>1, <1>6 DEF WellBuilt
  <2>. QED  BY <1>5, <1>10, <2>1, <2>2, <2>3, KeptFlushed
<1>. QED  BY <1>5, <1>6, <1>9, <1>10 DEF FlushedOf

\* What genai delivered is in the message.
Signatures == {k \in DOMAIN chunks : chunks[k].kind = "signature"}
Arguments(m) ==
  /\ \A id \in CallIds : id \in DOMAIN m.calls <=> Carried(id) # {}
  /\ \A id \in DOMAIN m.calls : m.blocks[m.calls[id]].parts = [j \in 1..Latest(id) |-> j]

\* The message is over.
Over(m) == IsQueue(m.out) /\ Legal(told \o m.out, TRUE) /\ m.pending = <<>>

\* The message that genai's chunks make.
Assembled(m) ==
  /\ IsInbound(m) /\ IsQueue(m.blocks) /\ WellBuilt(m)
  /\ Arguments(m) /\ Kept(m, Signatures)
  /\ IF m.final = "none" THEN Going(m) ELSE Over(m)

InboundInv ==
  /\ IsQueue(told) /\ IsQueue(chunks)
  /\ \A k \in DOMAIN chunks : chunks[k] \in Chunks
  /\ Assembled(asm)

\* How a message ends without End, and with it.
LEMMA BrokenOff ==
  ASSUME IsQueue(told), NEW m, Assembled(m), m.final = "none", NEW how \in {"error", "aborted"},
         NEW r, r = Broken(m, how)
  PROVE  Assembled(r) /\ r.final # "none"
<1>1. PICK f : f = FlushPending(m)
  OBVIOUS
<1>2. FlushedOf(m, f) /\ Going(m)
  BY <1>1, PendingFlushed DEF Assembled
<1>3. /\ IsInbound(r) /\ r.final = how /\ r.out = Append(m.out, Ev("error", 0)) /\ r.pending = <<>>
      /\ r.blocks = f.blocks /\ r.calls = m.calls
  BY <1>1, <1>2 DEF Broken, Emit, FlushedOf, IsInbound
<1>4. IsQueue(r.out) /\ Legal(told \o r.out, TRUE)
  BY <1>2, <1>3, TellsEnd DEF Going
<1>5. WellBuilt(r) /\ IsQueue(r.blocks) /\ Arguments(r)
  BY <1>2, <1>3, EmptyQueue DEF WellBuilt, FlushedOf, Assembled, Arguments
<1>6. Kept(r, Signatures)
  <2>1. Kept(f, Signatures)
    BY <1>2 DEF FlushedOf, Assembled
  <2>2. Len(f.blocks) \in Nat /\ Len(r.blocks) = Len(f.blocks)
    BY <1>2, <1>3, Queued DEF FlushedOf
  <2>3. \A i \in 0..Len(f.blocks) : SigAt(r, i) = SigAt(f, i)
    BY <1>2, <1>3 DEF SigAt, FlushedOf
  <2>4. \A i \in 0..Len(r.blocks) : ~(i > Len(f.blocks))
    BY <2>2
  <2>. QED  BY <2>1, <2>2, <2>3, <2>4, KeptSame
<1>. QED  BY <1>3, <1>4, <1>5, <1>6 DEF Assembled, Over

\* The message ends with genai's End.
LEMMA EndedWell ==
  ASSUME IsQueue(told), NEW m, Assembled(m), m.final = "none",
         NEW f, f = FlushPending(CloseOpen(EnsureStarted(m))),
         NEW how \in {"stop", "length", "tool_use", "error"},
         NEW r, r = Emit([f EXCEPT !.final = how], Ev(IF how = "error" THEN "error" ELSE "done", 0))
  PROVE  Assembled(r)
<1>1. PICK s : s = EnsureStarted(m)
  OBVIOUS
<1>2. GoesOn(m, s) /\ s.started /\ Going(s) /\ WellBuilt(s)
  BY <1>1, StartGoesOn DEF Assembled, GoesOn
<1>3. PICK c : c = CloseOpen(s)
  OBVIOUS
<1>4. GoesOn(s, c) /\ c.open = 0 /\ c.started /\ Going(c) /\ WellBuilt(c)
  BY <1>2, <1>3, CloseGoesOn DEF GoesOn
<1>5. FlushedOf(c, f)
  BY <1>1, <1>3, <1>4, PendingFlushed DEF Going
<1>6. PICK kind \in {"done", "error"} : kind = IF how = "error" THEN "error" ELSE "done"
  OBVIOUS
<1>7. /\ IsInbound(r) /\ r.final = how /\ r.out = Append(c.out, Ev(kind, 0)) /\ r.pending = <<>>
      /\ r.blocks = f.blocks /\ r.calls = m.calls
  BY <1>2, <1>4, <1>5, <1>6 DEF Emit, FlushedOf, IsInbound, GoesOn
<1>8. IsQueue(r.out) /\ Legal(told \o r.out, TRUE)
  <2>1. Tells(c, {}, TRUE)
    BY <1>4 DEF Going, OpenOf
  <2>. QED  BY <1>4, <1>6, <1>7, <2>1, TellsEnd
<1>12. c.calls = m.calls /\ s.calls = m.calls /\ f.calls = m.calls
  BY <1>2, <1>4, <1>5 DEF GoesOn, FlushedOf
<1>9. WellBuilt(r) /\ IsQueue(r.blocks)
  <2>1. WellBuilt(f) /\ IsQueue(f.blocks) /\ f.pending = r.pending /\ f.calls = r.calls /\ f.blocks = r.blocks
    BY <1>5, <1>7, <1>12 DEF FlushedOf
  <2>. QED  BY ONLY <2>1 DEF WellBuilt
<1>10. Arguments(r)
  <2>1. c.calls = m.calls /\ s.calls = m.calls /\ f.calls = m.calls
    BY <1>12
  <2>2. \A id \in DOMAIN m.calls : f.blocks[m.calls[id]].parts = m.blocks[m.calls[id]].parts
    BY <1>2, <1>4, <1>5, <2>1 DEF GoesOn, FlushedOf
  <2>. QED  BY <1>7, <2>2 DEF Assembled, Arguments
<1>11. Kept(r, Signatures)
  <2>1. Kept(f, Signatures)
    BY <1>2, <1>4, <1>5 DEF FlushedOf, Assembled, GoesOn
  <2>2. Len(f.blocks) \in Nat /\ Len(r.blocks) = Len(f.blocks)
    BY <1>5, <1>7, Queued DEF FlushedOf
  <2>3. \A i \in 0..Len(f.blocks) : SigAt(r, i) = SigAt(f, i)
    BY <1>5, <1>7 DEF SigAt, FlushedOf
  <2>4. \A i \in 0..Len(r.blocks) : ~(i > Len(f.blocks))
    BY <2>2
  <2>. QED  BY <2>1, <2>2, <2>3, <2>4, KeptSame
<1>. QED  BY <1>7, <1>8, <1>9, <1>10, <1>11 DEF Assembled, Over

\* What a chunk more changes of what genai delivered.
LEMMA ChunkIs ==
  ASSUME NEW c \in Chunks
  PROVE  /\ c.n \in 0..MaxGrowth /\ c.n \in Nat /\ MaxGrowth \in Nat
         /\ c.kind \in {"text", "thinking", "signature", "tool"} /\ (c.kind = "tool" => c.id \in CallIds)
<1>1. MaxGrowth \in Nat
  BY InboundAssumption
<1>2. c.n \in {0} \cup 0..MaxGrowth
  BY DEF Chunks
<1>3. c.kind \in {"text", "thinking", "signature", "tool"} /\ (c.kind = "tool" => c.id \in CallIds)
  BY DEF Chunks
<1>. QED  BY <1>1, <1>2, <1>3

\* The last snapshot of a call's arguments is a number.
LEMMA LatestIsNumber ==
  ASSUME \A k \in DOMAIN chunks : chunks[k] \in Chunks, NEW id
  PROVE  /\ Latest(id) \in Nat /\ Latest(id) \in {0} \cup {chunks[k].n : k \in Carried(id)}
         /\ \A k \in Carried(id) : chunks[k].n \in Nat /\ Latest(id) >= chunks[k].n
<1>. DEFINE T == {0} \cup {chunks[k].n : k \in Carried(id)}
<1>1. T \in SUBSET (0..MaxGrowth) /\ T # {} /\ MaxGrowth \in Nat
  <2>1. \A k \in Carried(id) : chunks[k].n \in 0..MaxGrowth
    BY ChunkIs DEF Carried
  <2>2. MaxGrowth \in Nat
    BY InboundAssumption
  <2>. QED  BY <2>1, <2>2
<1>2. Max(T) \in T /\ \A y \in T : Max(T) >= y
  <2>. HIDE DEF T
  <2>. QED  BY <1>1, Greatest
<1>3. \A k \in Carried(id) : chunks[k].n \in T
  OBVIOUS
<1>4. Max(T) \in Nat /\ \A y \in T : y \in Nat
  BY <1>1, <1>2
<1>. HIDE DEF T
<1>5. Latest(id) = Max(T)
  BY DEF Latest, T
<1>6. /\ Latest(id) \in Nat /\ Latest(id) \in T
      /\ \A k \in Carried(id) : chunks[k].n \in Nat /\ Latest(id) >= chunks[k].n
  BY <1>2, <1>3, <1>4, <1>5
<1>. QED  BY <1>6 DEF T

\* What a chunk changes of the calls and the signatures delivered.
LEMMA ChunkTaken ==
  ASSUME IsQueue(chunks), \A k \in DOMAIN chunks : chunks[k] \in Chunks,
         NEW c \in Chunks, chunks' = Append(chunks, c), Delivers(c)
  PROVE  /\ IsQueue(chunks') /\ \A k \in DOMAIN chunks' : chunks'[k] \in Chunks
         /\ \A id : /\ (Carried(id)' # {}) <=> (Carried(id) # {} \/ (c.kind = "tool" /\ c.id = id))
                    /\ Latest(id)' = IF c.kind = "tool" /\ c.id = id THEN c.n ELSE Latest(id)
         /\ Signatures' = Signatures \cup IF c.kind = "signature" THEN {Len(chunks) + 1} ELSE {}
         /\ Len(chunks) + 1 \notin Signatures
<1>1. PICK n \in Nat : n = Len(chunks) /\ DOMAIN chunks = 1..n
  BY Queued
<1>2. /\ IsQueue(chunks') /\ DOMAIN chunks' = 1..(n + 1) /\ chunks'[n + 1] = c
      /\ \A k \in 1..n : chunks'[k] = chunks[k]
  BY <1>1, Queued
<1>3. \A k \in 1..(n + 1) : k \in 1..n \/ k = n + 1
  OBVIOUS
<1>4. \A k \in DOMAIN chunks' : chunks'[k] \in Chunks
  BY <1>1, <1>2, <1>3
<1>5. \A id : Carried(id)' = Carried(id) \cup IF c.kind = "tool" /\ c.id = id THEN {n + 1} ELSE {}
  BY <1>1, <1>2, <1>3 DEF Carried
<1>6. ASSUME NEW id PROVE Latest(id)' = IF c.kind = "tool" /\ c.id = id THEN c.n ELSE Latest(id)
  <2>. DEFINE T == {0} \cup {chunks[k].n : k \in Carried(id)}
              U == {0} \cup {chunks'[k].n : k \in Carried(id)'}
  <2>1. Latest(id) = Max(T) /\ Latest(id)' = Max(U)
    BY DEF Latest
  <2>2. \A k \in Carried(id) : chunks'[k] = chunks[k]
    BY <1>1, <1>2 DEF Carried
  <2>3. CASE ~(c.kind = "tool" /\ c.id = id)
    <3>1. Carried(id)' = Carried(id)
      BY <1>5, <2>3
    <3>2. T = U
      BY <2>2, <3>1
    <3>. QED  BY <2>1, <2>3, <3>2
  <2>4. CASE c.kind = "tool" /\ c.id = id
    <3>1. Carried(id)' = Carried(id) \cup {n + 1}
      BY <1>5, <2>4
    <3>2. U = T \cup {c.n}
      <4>1. {chunks'[k].n : k \in Carried(id) \cup {n + 1}} = {chunks[k].n : k \in Carried(id)} \cup {c.n}
        BY <1>2, <2>2
      <4>. QED  BY <3>1, <4>1
    <3>3. T \in SUBSET (0..MaxGrowth) /\ c.n \in 0..MaxGrowth /\ MaxGrowth \in Nat
      <4>1. \A k \in Carried(id) : chunks[k].n \in 0..MaxGrowth
        BY ChunkIs DEF Carried
      <4>2. 0 \in 0..MaxGrowth /\ c.n \in 0..MaxGrowth /\ MaxGrowth \in Nat
        BY ChunkIs
      <4>. QED  BY <4>1, <4>2
    <3>. HIDE DEF T, U
    <3>4. U \in SUBSET (0..MaxGrowth) /\ U # {}
      BY <3>2, <3>3
    <3>5. Max(U) \in U /\ \A y \in U : Max(U) >= y
      BY <3>3, <3>4, Greatest
    <3>6. c.n >= Max(T) /\ \A y \in T : Max(T) >= y
      <4>1. T # {}
        BY DEF T
      <4>2. Max(T) \in T /\ \A y \in T : Max(T) >= y
        BY <3>3, <4>1, Greatest
      <4>3. Max(T) \in Nat /\ c.n \in {Max(T), Max(T) + 1}
        <5>1. c.n \in {Latest(id), Latest(id) + 1}
          BY <2>4 DEF Delivers
        <5>2. Max(T) \in Nat
          <6>1. \A y \in T : y \in Nat
            BY <3>3
          <6>. QED  BY <4>2, <6>1
        <5>3. c.n \in {Max(T), Max(T) + 1}
          BY <2>1, <5>1, Zenon
        <5>. QED  BY <5>2, <5>3
      <4>. QED  BY <4>2, <4>3
    <3>7. \A y \in T : y \in Nat
      BY <3>3
    <3>8. Max(U) = c.n
      <4>1. Max(U) >= c.n /\ Max(U) \in Nat /\ c.n \in Nat
        <5>1. c.n \in U /\ Max(U) \in 0..MaxGrowth
          BY <3>2, <3>4, <3>5
        <5>. QED  BY <3>3, <3>5, <5>1
      <4>2. CASE Max(U) \in T
        <5>1. Max(T) >= Max(U) /\ Max(T) \in Nat
          <6>1. T # {}
            BY <4>2
          <6>2. Max(T) \in T
            BY <3>3, <6>1, Greatest
          <6>. QED  BY <3>6, <3>7, <4>2, <6>2
        <5>. QED  BY <3>6, <4>1, <5>1
      <4>. QED  BY <3>2, <3>5, <4>2
    <3>. QED  BY <2>1, <2>4, <3>8
  <2>. QED  BY <2>3, <2>4
<1>7. Signatures' = Signatures \cup IF c.kind = "signature" THEN {n + 1} ELSE {}
  BY <1>1, <1>2, <1>3 DEF Signatures
<1>8. n + 1 \notin Signatures
  BY <1>1 DEF Signatures
<1>9. \A id : (Carried(id)' # {}) <=> (Carried(id) # {} \/ (c.kind = "tool" /\ c.id = id))
  BY <1>5
<1>. QED  BY <1>1, <1>2, <1>4, <1>6, <1>7, <1>8, <1>9

\* A chunk more.
LEMMA ChunkAssembled ==
  ASSUME InboundInv, asm.final = "none", NEW c \in Chunks, Delivers(c), chunks' = Append(chunks, c),
         told' = told, NEW r, r = OnChunk(asm, c, Len(chunks) + 1), asm' = r
  PROVE  InboundInv'
<1>1. PICK m : m = asm
  OBVIOUS
<1>2. /\ Going(m) /\ WellBuilt(m) /\ Arguments(m) /\ Kept(m, Signatures) /\ m.final = "none"
      /\ IsQueue(told) /\ IsQueue(chunks) /\ \A k \in DOMAIN chunks : chunks[k] \in Chunks
  BY <1>1 DEF InboundInv, Assembled
<1>3. /\ IsQueue(chunks') /\ \A k \in DOMAIN chunks' : chunks'[k] \in Chunks
      /\ \A id : /\ (Carried(id)' # {}) <=> (Carried(id) # {} \/ (c.kind = "tool" /\ c.id = id))
                 /\ Latest(id)' = IF c.kind = "tool" /\ c.id = id THEN c.n ELSE Latest(id)
      /\ Signatures' = Signatures \cup IF c.kind = "signature" THEN {Len(chunks) + 1} ELSE {}
      /\ Len(chunks) + 1 \notin Signatures
  BY <1>2, ChunkTaken
<1>4. c.n \in Nat /\ c.kind \in {"text", "thinking", "signature", "tool"} /\ (c.kind = "tool" => c.id \in CallIds)
  BY ChunkIs
<1>5. PICK k, S : k = Len(chunks) + 1 /\ S = Signatures'
  OBVIOUS
<1>6. /\ Going(r) /\ WellBuilt(r) /\ r.final = "none" /\ Kept(r, S)
      /\ \A id \in CallIds : id \in DOMAIN r.calls <=> Carried(id)' # {}
      /\ \A id \in DOMAIN r.calls : r.blocks[r.calls[id]].parts = [j \in 1..Latest(id)' |-> j]
  <2>1. CASE c.kind \in {"text", "thinking"}
    <3>1. r = OnProse(m, c.kind, k)
      BY <1>1, <1>5, <2>1 DEF OnChunk
    <3>2. GoesOn(m, r)
      BY <1>2, <2>1, <3>1, ProseGoesOn
    <3>3. /\ S = Signatures
          /\ \A id : Latest(id)' = Latest(id) /\ (Carried(id)' # {} <=> Carried(id) # {})
      BY <1>3, <1>5, <2>1
    <3>. QED  BY <1>2, <3>2, <3>3 DEF GoesOn, Arguments
  <2>2. CASE c.kind = "signature"
    <3>1. r = AttachSignature(m, k)
      BY <1>1, <1>5, <2>2 DEF OnChunk
    <3>2. SignedOn(m, r, k)
      BY <1>2, <3>1, SignatureAttached
    <3>3. /\ S = Signatures \cup {k} /\ k \notin Signatures
          /\ \A id : Latest(id)' = Latest(id) /\ (Carried(id)' # {} <=> Carried(id) # {})
      BY <1>3, <1>5, <2>2
    <3>. QED  BY <1>2, <3>2, <3>3 DEF SignedOn, Arguments
  <2>3. CASE c.kind = "tool"
    <3>1. r = OnToolCall(m, c)
      BY <1>1, <2>3 DEF OnChunk
    <3>2. CallTaken(m, r, c.id, c.n)
      BY <1>2, <1>4, <2>3, <3>1, CallIsTaken
    <3>3. S = Signatures
      BY <1>3, <1>5, <2>3
    <3>4. \A id : /\ (Carried(id)' # {}) <=> (Carried(id) # {} \/ c.id = id)
                  /\ Latest(id)' = IF c.id = id THEN c.n ELSE Latest(id)
      BY <1>3, <2>3
    <3>5. \A id \in CallIds : id \in DOMAIN r.calls <=> Carried(id)' # {}
      BY <1>2, <3>2, <3>4 DEF CallTaken, Arguments
    <3>6. ASSUME NEW id \in DOMAIN r.calls
          PROVE  r.blocks[r.calls[id]].parts = [j \in 1..Latest(id)' |-> j]
      <4>1. CASE id = c.id
        <5>1. Latest(id)' = c.n
          BY <3>4, <4>1
        <5>2. r.blocks[r.calls[id]].parts = [j \in 1..c.n |-> j]
          BY <3>2, <4>1 DEF CallTaken
        <5>. QED  BY <5>1, <5>2
      <4>2. CASE id # c.id
        <5>1. Latest(id)' = Latest(id) /\ id \in DOMAIN m.calls \ {c.id}
          BY <3>2, <3>4, <4>2 DEF CallTaken
        <5>2. r.blocks[r.calls[id]].parts = m.blocks[m.calls[id]].parts
          BY <3>2, <5>1 DEF CallTaken
        <5>. QED  BY <1>2, <5>1, <5>2 DEF Arguments
      <4>. QED  BY <4>1, <4>2
    <3>. QED  BY <1>2, <3>2, <3>3, <3>5, <3>6 DEF CallTaken
  <2>. QED  BY <1>4, <2>1, <2>2, <2>3
<1>7. IsInbound(asm') /\ IsQueue(asm'.blocks) /\ WellBuilt(asm')
  BY <1>6 DEF Going
<1>8. Arguments(asm)' /\ Kept(asm, Signatures)'
  BY <1>5, <1>6 DEF Arguments
<1>9. Going(asm)' /\ asm'.final = "none"
  BY <1>6 DEF Going, Tells
<1>. QED  BY <1>2, <1>3, <1>7, <1>8, <1>9 DEF InboundInv, Assembled

\* What is there besides the events stays when the loop is told the next one.
LEMMA YieldTold ==
  ASSUME IsQueue(told), NEW m, IsQueue(m.out), m.out # <<>>, told' = Append(told, Head(m.out))
  PROVE  IsQueue(told') /\ IsQueue(Tail(m.out)) /\ told' \o Tail(m.out) = told \o m.out
<1>1. PICK o : o = m.out
  OBVIOUS
<1>2. PICK h, t : h = Head(o) /\ t = Tail(o)
  OBVIOUS
<1>3. IsQueue(t) /\ IsQueue(told') /\ IsQueue(<<h>>)
  BY <1>1, <1>2, Taken, Queued, One
<1>4. o = <<h>> \o t
  <2>1. PICK q : q = <<h>> \o t
    OBVIOUS
  <2>2. Joins(<<h>>, t, q)
    BY <1>3, <2>1, Joined
  <2>3. Len(<<h>>) = 1 /\ <<h>>[1] = h
    BY One
  <2>4. /\ Len(o) \in Nat /\ Len(o) >= 1 /\ DOMAIN t = 1..(Len(o) - 1) /\ h = o[1]
        /\ \A i \in 1..(Len(o) - 1) : t[i] = o[i + 1]
    BY <1>1, <1>2, Taken
  <2>5. Len(t) = Len(o) - 1 /\ Len(t) \in Nat
    BY <1>3, <2>4, Queued
  <2>6. IsQueue(q) /\ Len(q) = Len(o)
    <3>1. IsQueue(q) /\ DOMAIN q = 1..(1 + Len(t))
      BY <2>2, <2>3 DEF Joins
    <3>2. Len(q) \in Nat /\ DOMAIN q = 1..Len(q)
      BY <3>1, Queued
    <3>. QED  BY <2>4, <2>5, <3>1, <3>2
  <2>7. \A i \in 1..Len(o) : o[i] = q[i]
    <3>. TAKE i \in 1..Len(o)
    <3>1. CASE i = 1
      <4>1. q[1] = <<h>>[1]
        BY <2>2, <2>3 DEF Joins
      <4>. QED  BY <2>3, <2>4, <3>1, <4>1
    <3>2. CASE i # 1
      <4>1. i - 1 \in 1..Len(t) /\ (i - 1) + 1 = i /\ 1 + (i - 1) = i
        BY <2>4, <2>5, <3>2
      <4>2. q[1 + (i - 1)] = t[i - 1]
        BY <2>2, <2>3, <4>1 DEF Joins
      <4>3. t[i - 1] = o[(i - 1) + 1]
        BY <2>4, <2>5, <4>1
      <4>. QED  BY <4>1, <4>2, <4>3
    <3>. QED  BY <3>1, <3>2
  <2>. QED  BY <1>1, <2>1, <2>6, <2>7, SameQueue
<1>5. told' = told \o <<h>>
  BY <1>1, <1>2, Appended
<1>6. (told \o <<h>>) \o t = told \o (<<h>> \o t)
  BY <1>3, Assoc
<1>. QED  BY <1>1, <1>2, <1>3, <1>4, <1>5, <1>6

\* Each step of the genai route keeps the message's invariant.
LEMMA InboundStep ==
  ASSUME InboundInv, InboundNext \/ Yield
  PROVE  InboundInv'
<1>1. PICK m, r : m = asm /\ r = asm'
  OBVIOUS
<1>2. /\ IsQueue(told) /\ IsQueue(chunks) /\ \A k \in DOMAIN chunks : chunks[k] \in Chunks
      /\ Assembled(m)
  BY <1>1 DEF InboundInv
\* What holds of the message still holds when nothing was told or delivered.
<1>3. ASSUME told' = told, chunks' = chunks, Assembled(r)
      PROVE  InboundInv'
  <2>1. Signatures' = Signatures /\ \A id : Carried(id)' = Carried(id) /\ Latest(id)' = Latest(id)
    BY <1>3 DEF Signatures, Carried, Latest
  <2>2. Arguments(asm)' /\ Kept(asm, Signatures)'
    BY <1>1, <1>3, <2>1 DEF Arguments, Assembled
  <2>3. IF asm'.final = "none" THEN Going(asm)' ELSE Over(asm)'
    BY <1>1, <1>3 DEF Assembled, Going, Tells, Over
  <2>. QED  BY <1>1, <1>2, <1>3, <2>2, <2>3 DEF InboundInv, Assembled
<1>4. CASE GenaiRefuses \/ GenaiFails \/ CancelInbound
  <2>1. PICK how \in {"error", "aborted"} : r = Broken(m, how)
    BY <1>1, <1>4 DEF GenaiRefuses, GenaiFails, CancelInbound
  <2>2. m.final = "none" /\ told' = told /\ chunks' = chunks
    BY <1>1, <1>4 DEF GenaiRefuses, GenaiFails, CancelInbound, Ready
  <2>3. Assembled(r)
    BY <1>2, <2>1, <2>2, BrokenOff
  <2>. QED  BY <1>3, <2>2, <2>3
<1>5. CASE OnStart
  <2>1. m.final = "none" /\ told' = told /\ chunks' = chunks /\ r = EnsureStarted(m)
    BY <1>1, <1>5 DEF OnStart, Ready
  <2>2. GoesOn(m, r) /\ Going(r) /\ r.final = "none"
    BY <1>2, <2>1, StartGoesOn DEF Assembled, GoesOn
  <2>3. Assembled(r)
    BY <1>2, <2>2 DEF Assembled, Arguments, GoesOn, Going
  <2>. QED  BY <1>3, <2>1, <2>3
<1>6. CASE OnEvent
  <2>1. PICK c \in Chunks : /\ Delivers(c) /\ chunks' = Append(chunks, c)
                            /\ asm' = OnChunk(asm, c, Len(chunks) + 1)
    BY <1>6 DEF OnEvent
  <2>2. told' = told /\ asm.final = "none"
    BY <1>6 DEF OnEvent, Ready
  <2>. QED  BY <2>1, <2>2, ChunkAssembled
<1>7. CASE OnEnd
  <2>1. m.final = "none" /\ told' = told /\ chunks' = chunks
    BY <1>1, <1>7 DEF OnEnd, Ready
  <2>2. PICK f : f = FlushPending(CloseOpen(EnsureStarted(m)))
    OBVIOUS
  <2>3. PICK reason \in {"none", "completed", "tool_call", "length", "filtered"}, google \in BOOLEAN :
          LET how == ResolveStopReason(f, reason, google)
          IN  r = Emit([f EXCEPT !.final = how], Ev(IF how = "error" THEN "error" ELSE "done", 0))
    BY <1>1, <1>7, <2>2 DEF OnEnd
  <2>4. PICK how : how = ResolveStopReason(f, reason, google)
    OBVIOUS
  <2>5. how \in {"stop", "length", "tool_use", "error"}
    BY <2>4 DEF ResolveStopReason
  <2>6. r = Emit([f EXCEPT !.final = how], Ev(IF how = "error" THEN "error" ELSE "done", 0))
    BY <2>3, <2>4
  <2>7. Assembled(r)
    BY <1>2, <2>1, <2>2, <2>5, <2>6, EndedWell
  <2>. QED  BY <1>3, <2>1, <2>7
<1>8. CASE Yield
  <2>1. /\ m.out # <<>> /\ told' = Append(told, Head(m.out)) /\ chunks' = chunks
        /\ r = [m EXCEPT !.out = Tail(@)]
    BY <1>1, <1>8 DEF Yield, YieldEvent
  <2>2. IsInbound(m) /\ IsQueue(m.out)
    BY <1>2 DEF Assembled, Over, Going, Tells
  <2>3. IsQueue(told') /\ IsQueue(Tail(m.out)) /\ told' \o Tail(m.out) = told \o m.out
    BY <1>2, <2>1, <2>2, YieldTold
  <2>4. /\ IsInbound(r) /\ r.out = Tail(m.out) /\ r.blocks = m.blocks /\ r.open = m.open
        /\ r.calls = m.calls /\ r.pending = m.pending /\ (r.started <=> m.started) /\ r.final = m.final
    BY <2>1, <2>2 DEF IsInbound
  <2>5. Signatures' = Signatures /\ \A id : Carried(id)' = Carried(id) /\ Latest(id)' = Latest(id)
    BY <2>1 DEF Signatures, Carried, Latest
  <2>6. IsQueue(asm'.blocks) /\ WellBuilt(asm')
    BY <1>1, <1>2, <2>4 DEF Assembled, WellBuilt
  <2>7. Arguments(asm)'
    BY <1>1, <1>2, <2>4, <2>5 DEF Assembled, Arguments
  <2>8. Kept(asm, Signatures)'
    <3>1. Kept(m, Signatures)
      BY <1>2 DEF Assembled
    <3>2. Len(m.blocks) \in Nat /\ Len(r.blocks) = Len(m.blocks)
      BY <1>2, <2>4, Queued DEF Assembled
    <3>3. \A i \in 0..Len(m.blocks) : SigAt(r, i) = SigAt(m, i)
      BY <2>4 DEF SigAt
    <3>4. \A i \in 0..Len(r.blocks) : ~(i > Len(m.blocks))
      BY <3>2
    <3>5. Kept(r, Signatures)
      BY <3>1, <3>2, <3>3, <3>4, KeptSame
    <3>. QED  BY <1>1, <2>5, <3>5
  <2>9. IF asm'.final = "none" THEN Going(asm)' ELSE Over(asm)'
    <3>1. CASE m.final = "none"
      <4>1. Going(m)
        BY <1>2, <3>1 DEF Assembled
      <4>2. Story(told \o m.out, Len(m.blocks), OpenOf(m), TRUE) /\ (m.started <=> told \o m.out # <<>>)
        BY <4>1 DEF Going, Tells
      <4>3. told' \o asm'.out = told \o m.out /\ IsQueue(asm'.out) /\ OpenOf(asm)' = OpenOf(m)
        BY <1>1, <2>3, <2>4 DEF OpenOf
      <4>4. Tells(asm, OpenOf(asm), TRUE)'
        BY <1>1, <2>4, <4>2, <4>3 DEF Tells
      <4>. QED  BY <1>1, <2>4, <3>1, <4>1, <4>4 DEF Going
    <3>2. CASE m.final # "none"
      <4>1. Over(m)
        BY <1>2, <3>2 DEF Assembled
      <4>. QED  BY <1>1, <2>3, <2>4, <3>2, <4>1 DEF Over
    <3>. QED  BY <3>1, <3>2
  <2>. QED  BY <1>1, <1>2, <2>1, <2>3, <2>4, <2>6, <2>7, <2>8, <2>9 DEF InboundInv, Assembled
<1>. QED  BY <1>4, <1>5, <1>6, <1>7, <1>8 DEF InboundNext

\* The message of genai's chunks, on that route.
GenaiInv == route = "genai" => InboundInv

\* On the genai route the message is what the chunks make.
LEMMA GenaiInvHolds == StreamSpec => []GenaiInv
<1>1. StreamInit => GenaiInv
  <2>. SUFFICES ASSUME StreamInit, route = "genai" PROVE InboundInv
    BY DEF GenaiInv
  <2>1. told = <<>> /\ chunks = <<>> /\ asm = NewInbound
    BY DEF StreamInit, InboundInit
  <2>2. PICK m : m = asm
    OBVIOUS
  <2>3. /\ IsInbound(m) /\ m.blocks = <<>> /\ m.open = 0 /\ m.calls = <<>> /\ m.pending = <<>>
        /\ ~m.started /\ m.out = <<>> /\ m.final = "none"
    BY <2>1, <2>2 DEF NewInbound, IsInbound
  <2>4. WellBuilt(m)
    BY <2>3, EmptyQueue DEF WellBuilt
  <2>5. Arguments(m)
    BY <2>1, <2>3, EmptyQueue DEF Arguments, Carried
  <2>6. Kept(m, Signatures)
    <3>1. \A i \in 0..Len(m.blocks) : DOMAIN SigAt(m, i) = {}
      BY <2>3, EmptyQueue DEF SigAt
    <3>2. Signatures = {}
      BY <2>1, EmptyQueue DEF Signatures
    <3>. QED  BY <3>1, <3>2 DEF Kept
  <2>7. Going(m)
    <3>1. told \o m.out = <<>> /\ IsQueue(m.out)
      BY <2>1, <2>3, EmptyQueue, Concats
    <3>2. Tells(m, {}, TRUE)
      BY <2>3, <3>1, EmptyQueue, StoryNone DEF Tells
    <3>3. OpenOf(m) = {} /\ m.open \in 0..Len(m.blocks) /\ IsQueue(m.blocks)
      BY <2>3, EmptyQueue DEF OpenOf
    <3>4. Tells(m, OpenOf(m), TRUE)
      BY <3>2, <3>3, Zenon
    <3>. QED  BY <2>3, <3>3, <3>4 DEF Going
  <2>. QED  BY <2>1, <2>2, <2>3, <2>4, <2>5, <2>6, <2>7, EmptyQueue DEF InboundInv, Assembled
<1>2. GenaiInv /\ [StreamNext]_streamVars => GenaiInv'
  <2>. SUFFICES ASSUME GenaiInv, [StreamNext]_streamVars, route' = "genai" PROVE InboundInv'
    BY DEF GenaiInv
  <2>1. CASE Native
    BY <2>1 DEF Native
  <2>2. CASE Genai
    BY <2>2, InboundStep DEF Genai, GenaiInv
  <2>3. CASE Yield
    BY <2>3, InboundStep DEF Yield, GenaiInv
  <2>4. CASE UNCHANGED streamVars
    <3>1. told' = told /\ chunks' = chunks /\ asm' = asm /\ InboundInv
      BY <2>4 DEF streamVars, GenaiInv
    <3>2. Signatures' = Signatures /\ \A id : Carried(id)' = Carried(id) /\ Latest(id)' = Latest(id)
      BY <3>1 DEF Signatures, Carried, Latest
    <3>3. Arguments(asm)' /\ Kept(asm, Signatures)'
      BY <3>1, <3>2 DEF Arguments, InboundInv, Assembled
    <3>4. IF asm'.final = "none" THEN Going(asm)' ELSE Over(asm)'
      BY <3>1 DEF InboundInv, Assembled, Going, Tells, Over
    <3>. QED  BY <3>1, <3>3, <3>4 DEF InboundInv, Assembled
  <2>. QED  BY <2>1, <2>2, <2>3, <2>4 DEF StreamNext
<1>. QED  BY <1>1, <1>2, PTL DEF StreamSpec

\* InboundState: for each call there is one block, which holds the last arguments
\* that genai delivered for it, whatever came in between.
THEOREM ArgumentsCompleteHolds == StreamSpec => []ArgumentsComplete
<1>1. GenaiInv => ArgumentsComplete
  <2>. SUFFICES ASSUME InboundInv, route = "genai" PROVE ArgumentsComplete
    BY DEF GenaiInv, ArgumentsComplete
  <2>1. /\ WellBuilt(asm) /\ Arguments(asm) /\ DOMAIN asm.blocks = 1..Len(asm.blocks)
        /\ \A k \in DOMAIN chunks : chunks[k] \in Chunks
    BY Queued DEF InboundInv, Assembled
  <2>2. \A id \in CallIds : id \in DOMAIN asm.calls <=> Carried(id) # {}
    BY <2>1 DEF Arguments
  <2>3. \A id \in DOMAIN asm.calls : Len(asm.blocks[asm.calls[id]].parts) = Latest(id)
    <3>. TAKE id \in DOMAIN asm.calls
    <3>1. PICK n \in Nat : n = Latest(id)
      BY <2>1, LatestIsNumber
    <3>2. asm.blocks[asm.calls[id]].parts = [j \in 1..n |-> j]
      BY <2>1, <3>1 DEF Arguments
    <3>. QED  BY <3>1, <3>2, SnapshotIsQueue
  <2>4. \A i \in DOMAIN asm.blocks :
          asm.blocks[i].kind = "tool" <=> \E id \in DOMAIN asm.calls : asm.calls[id] = i
    BY <2>1 DEF WellBuilt
  <2>5. \A id, other \in DOMAIN asm.calls : asm.calls[id] = asm.calls[other] => id = other
    BY <2>1 DEF WellBuilt
  <2>. QED  BY <2>2, <2>3, <2>4, <2>5 DEF ArgumentsComplete
<1>. QED  BY <1>1, GenaiInvHolds, PTL

\* InboundState: every thought signature is in one place, and when the message is over
\* that is a block.
THEOREM SignaturesKeptHolds == StreamSpec => []SignaturesKept
<1>1. GenaiInv => SignaturesKept
  <2>. SUFFICES ASSUME InboundInv, route = "genai" PROVE SignaturesKept
    BY DEF GenaiInv, SignaturesKept
  <2>1. /\ Kept(asm, Signatures) /\ DOMAIN asm.blocks = 1..Len(asm.blocks) /\ Len(asm.blocks) \in Nat
        /\ (asm.final # "none" => asm.pending = <<>>)
    BY Queued DEF InboundInv, Assembled, Over
  <2>2. ASSUME NEW p \in Places
        PROVE  \E i \in 0..Len(asm.blocks) : \E j \in DOMAIN SigAt(asm, i) :
                 p = <<i, j>> /\ Held(p) = SigAt(asm, i)[j]
    <3>1. CASE p \in {<<0, j>> : j \in DOMAIN asm.pending}
      <4>1. PICK j \in DOMAIN asm.pending : p = <<0, j>>
        BY <3>1
      <4>2. SigAt(asm, 0) = asm.pending /\ p[1] = 0 /\ p[2] = j
        BY <4>1 DEF SigAt
      <4>3. Held(p) = SigAt(asm, 0)[j] /\ 0 \in 0..Len(asm.blocks)
        BY <2>1, <4>2 DEF Held
      <4>. QED  BY <4>1, <4>2, <4>3
    <3>2. CASE p \in UNION {{<<i, j>> : j \in DOMAIN asm.blocks[i].sig} : i \in DOMAIN asm.blocks}
      <4>1. PICK i \in DOMAIN asm.blocks : p \in {<<i, j>> : j \in DOMAIN asm.blocks[i].sig}
        BY <3>2
      <4>2. PICK j \in DOMAIN asm.blocks[i].sig : p = <<i, j>>
        BY <4>1
      <4>3. i \in 0..Len(asm.blocks) /\ i # 0 /\ p[1] = i /\ p[2] = j
        BY <2>1, <4>2
      <4>4. SigAt(asm, i) = asm.blocks[i].sig
        BY <4>3 DEF SigAt
      <4>5. Held(p) = SigAt(asm, i)[j]
        BY <4>3, <4>4 DEF Held
      <4>. QED  BY <4>2, <4>3, <4>4, <4>5
    <3>. QED  BY <3>1, <3>2 DEF Places
  <2>3. ASSUME NEW i \in 0..Len(asm.blocks), NEW j \in DOMAIN SigAt(asm, i)
        PROVE  <<i, j>> \in Places /\ Held(<<i, j>>) = SigAt(asm, i)[j]
    <3>1. CASE i = 0
      <4>1. SigAt(asm, i) = asm.pending
        BY <3>1 DEF SigAt
      <4>. QED  BY <3>1, <4>1 DEF Places, Held
    <3>2. CASE i # 0
      <4>1. SigAt(asm, i) = asm.blocks[i].sig /\ i \in DOMAIN asm.blocks
        BY <2>1, <3>2 DEF SigAt
      <4>2. <<i, j>> \in UNION {{<<a, b>> : b \in DOMAIN asm.blocks[a].sig} : a \in DOMAIN asm.blocks}
        BY <4>1
      <4>. QED  BY <3>2, <4>1, <4>2 DEF Places, Held
    <3>. QED  BY <3>1, <3>2
  <2>4. {Held(p) : p \in Places} = Signatures
    <3>1. \A p \in Places : Held(p) \in Signatures
      BY <2>1, <2>2 DEF Kept
    <3>2. \A k \in Signatures : \E p \in Places : Held(p) = k
      <4>. TAKE k \in Signatures
      <4>1. PICK i \in 0..Len(asm.blocks) : \E j \in DOMAIN SigAt(asm, i) : SigAt(asm, i)[j] = k
        BY <2>1 DEF Kept
      <4>. QED  BY <2>3, <4>1
    <3>. QED  BY <3>1, <3>2
  <2>5. \A p, q \in Places : Held(p) = Held(q) => p = q
    <3>. TAKE p, q \in Places
    <3>. HAVE Held(p) = Held(q)
    <3>1. PICK i \in 0..Len(asm.blocks) : \E j \in DOMAIN SigAt(asm, i) :
                 p = <<i, j>> /\ Held(p) = SigAt(asm, i)[j]
      BY <2>2
    <3>2. PICK j \in DOMAIN SigAt(asm, i) : p = <<i, j>> /\ Held(p) = SigAt(asm, i)[j]
      BY <3>1
    <3>3. PICK a \in 0..Len(asm.blocks) : \E b \in DOMAIN SigAt(asm, a) :
                 q = <<a, b>> /\ Held(q) = SigAt(asm, a)[b]
      BY <2>2
    <3>4. PICK b \in DOMAIN SigAt(asm, a) : q = <<a, b>> /\ Held(q) = SigAt(asm, a)[b]
      BY <3>3
    <3>5. i = a /\ j = b
      <4>1. SigAt(asm, i)[j] = SigAt(asm, a)[b]
        BY <3>2, <3>4
      <4>2. \A c, d \in 0..Len(asm.blocks) : \A e \in DOMAIN SigAt(asm, c), f \in DOMAIN SigAt(asm, d) :
              SigAt(asm, c)[e] = SigAt(asm, d)[f] => c = d /\ e = f
        BY <2>1, Zenon DEF Kept
      <4>. QED  BY <4>1, <4>2
    <3>. QED  BY <3>2, <3>4, <3>5
  <2>. QED  BY <2>1, <2>4, <2>5 DEF SignaturesKept, Signatures
<1>. QED  BY <1>1, GenaiInvHolds, PTL

-----------------------------------------------------------------------------
(***************************************************************************)
(* The bytes of a body, and the characters the decoder makes of them.      *)
(***************************************************************************)

\* Division of a number by the size of its groups, of 5, of 6 and of 9.
LEMMA Parts5 ==
  ASSUME NEW g \in Int, NEW s \in 0..4
  PROVE  (5 * g + s) % 5 = s /\ (5 * g + s) \div 5 = g
OBVIOUS

\* The same for 6.
LEMMA Parts6 ==
  ASSUME NEW g \in Int, NEW s \in 0..5
  PROVE  (6 * g + s) % 6 = s /\ (6 * g + s) \div 6 = g
OBVIOUS

\* The same for 9.
LEMMA Parts9 ==
  ASSUME NEW g \in Int, NEW s \in 0..8
  PROVE  (9 * g + s) % 9 = s /\ (9 * g + s) \div 9 = g
OBVIOUS

Styles == {"lf", "cr", "crlf"}
Width(nl) == Len(Layout(nl))

\* Of the characters that the decoder makes of a body, number x.
Letter(x) == [b |-> <<"event", "lf", "tail", "lf", "lf">>[((x - 1) % 5) + 1], of |-> ((x - 1) \div 5) + 1]

\* How many of a frame's characters have come with its first j bytes, and after which
\* bytes the last character was a CR.
Letters(nl) == IF nl = "crlf" THEN <<0, 1, 2, 2, 2, 3, 4, 4, 5>> ELSE <<0, 1, 2, 2, 3, 4>>
Crs(nl) == IF nl = "crlf" THEN {2, 6, 8} ELSE IF nl = "cr" THEN {0, 2, 3, 5} ELSE {}

\* How many characters have come with the first p bytes of a body.
LettersIn(nl, p) == 5 * (p \div Width(nl)) + Letters(nl)[(p % Width(nl)) + 1]
CrAt(nl, p) == p > 0 /\ p % Width(nl) \in Crs(nl)

\* The bytes of a frame in each style.
LEMMA Layouts ==
  /\ Width("lf") = 6 /\ Width("cr") = 6 /\ Width("crlf") = 9
  /\ \A j \in 1..6 : Layout("lf")[j] = IF j = 1 THEN "event" ELSE IF j = 3 THEN "head" ELSE IF j = 4 THEN "tail" ELSE "lf"
  /\ \A j \in 1..6 : Layout("cr")[j] = IF j = 1 THEN "event" ELSE IF j = 3 THEN "head" ELSE IF j = 4 THEN "tail" ELSE "cr"
  /\ \A j \in 1..9 : Layout("crlf")[j] =
       IF j = 1 THEN "event" ELSE IF j = 4 THEN "head" ELSE IF j = 5 THEN "tail"
       ELSE IF j \in {2, 6, 8} THEN "cr" ELSE "lf"
BY DEF Width, Layout

\* What stands at the j+1-st byte of the k+1-st frame.
Stands(nl, k, j, p) ==
  /\ Byte(nl, p + 1) = [b |-> Layout(nl)[j + 1], of |-> k + 1]
  /\ LettersIn(nl, p) = 5 * k + Letters(nl)[j + 1]
  /\ LettersIn(nl, p + 1) = IF j + 1 = Width(nl) THEN 5 * k + 5 ELSE 5 * k + Letters(nl)[j + 2]
  /\ CrAt(nl, p) <=> p > 0 /\ j \in Crs(nl)
  /\ CrAt(nl, p + 1) <=> IF j + 1 = Width(nl) THEN 0 \in Crs(nl) ELSE j + 1 \in Crs(nl)

\* Where a byte stands in its frame.
LEMMA Located ==
  ASSUME NEW nl \in Styles, NEW p \in Nat
  PROVE  \E k \in Nat, j \in 0..(Width(nl) - 1) : p = Width(nl) * k + j /\ Stands(nl, k, j, p)
<1>1. CASE nl = "crlf"
  <2>1. PICK k, j : k = p \div 9 /\ j = p % 9
    OBVIOUS
  <2>2. k \in Nat /\ j \in 0..8 /\ p = 9 * k + j
    BY <2>1
  <2>3. Width(nl) = 9 /\ Len(Layout(nl)) = 9
    BY <1>1, Layouts DEF Width
  <2>4. /\ p + 1 = IF j = 8 THEN 9 * (k + 1) + 0 ELSE 9 * k + (j + 1)
        /\ (p + 1) - 1 = p
    BY <2>2
  <2>5. /\ (p + 1) % 9 = (IF j = 8 THEN 0 ELSE j + 1)
        /\ (p + 1) \div 9 = (IF j = 8 THEN k + 1 ELSE k)
    BY <2>2, <2>4, Parts9
  <2>6. Byte(nl, p + 1) = [b |-> Layout(nl)[j + 1], of |-> k + 1]
    BY <2>1, <2>3, <2>4 DEF Byte
  <2>7. LettersIn(nl, p) = 5 * k + Letters(nl)[j + 1] /\ (CrAt(nl, p) <=> p > 0 /\ j \in Crs(nl))
    BY <2>1, <2>3 DEF LettersIn, CrAt
  <2>8. LettersIn(nl, p + 1) = IF j + 1 = Width(nl) THEN 5 * k + 5 ELSE 5 * k + Letters(nl)[j + 2]
    <3>1. CASE j = 8
      <4>1. LettersIn(nl, p + 1) = 5 * (k + 1) + Letters(nl)[1]
        BY <2>3, <2>5, <3>1 DEF LettersIn
      <4>2. Letters(nl)[1] = 0
        BY <1>1 DEF Letters
      <4>. QED  BY <2>2, <2>3, <3>1, <4>1, <4>2
    <3>2. CASE j # 8
      BY <2>2, <2>3, <2>5, <3>2 DEF LettersIn
    <3>. QED  BY <3>1, <3>2
  <2>9. CrAt(nl, p + 1) <=> IF j + 1 = Width(nl) THEN 0 \in Crs(nl) ELSE j + 1 \in Crs(nl)
    BY <2>2, <2>3, <2>5 DEF CrAt
  <2>. QED  BY <2>2, <2>3, <2>6, <2>7, <2>8, <2>9 DEF Stands
<1>2. CASE nl \in {"lf", "cr"}
  <2>1. PICK k, j : k = p \div 6 /\ j = p % 6
    OBVIOUS
  <2>2. k \in Nat /\ j \in 0..5 /\ p = 6 * k + j
    BY <2>1
  <2>3. Width(nl) = 6 /\ Len(Layout(nl)) = 6
    BY <1>2, Layouts DEF Width
  <2>4. /\ p + 1 = IF j = 5 THEN 6 * (k + 1) + 0 ELSE 6 * k + (j + 1)
        /\ (p + 1) - 1 = p
    BY <2>2
  <2>5. /\ (p + 1) % 6 = (IF j = 5 THEN 0 ELSE j + 1)
        /\ (p + 1) \div 6 = (IF j = 5 THEN k + 1 ELSE k)
    BY <2>2, <2>4, Parts6
  <2>6. Byte(nl, p + 1) = [b |-> Layout(nl)[j + 1], of |-> k + 1]
    BY <2>1, <2>3, <2>4 DEF Byte
  <2>7. LettersIn(nl, p) = 5 * k + Letters(nl)[j + 1] /\ (CrAt(nl, p) <=> p > 0 /\ j \in Crs(nl))
    BY <2>1, <2>3 DEF LettersIn, CrAt
  <2>8. LettersIn(nl, p + 1) = IF j + 1 = Width(nl) THEN 5 * k + 5 ELSE 5 * k + Letters(nl)[j + 2]
    <3>1. CASE j = 5
      <4>1. LettersIn(nl, p + 1) = 5 * (k + 1) + Letters(nl)[1]
        BY <2>3, <2>5, <3>1 DEF LettersIn
      <4>2. Letters(nl)[1] = 0
        BY <1>2 DEF Letters
      <4>. QED  BY <2>2, <2>3, <3>1, <4>1, <4>2
    <3>2. CASE j # 5
      BY <2>2, <2>3, <2>5, <3>2 DEF LettersIn
    <3>. QED  BY <3>1, <3>2
  <2>9. CrAt(nl, p + 1) <=> IF j + 1 = Width(nl) THEN 0 \in Crs(nl) ELSE j + 1 \in Crs(nl)
    BY <2>2, <2>3, <2>5 DEF CrAt
  <2>. QED  BY <2>2, <2>3, <2>6, <2>7, <2>8, <2>9 DEF Stands
<1>. QED  BY <1>1, <1>2 DEF Styles

\* What one byte more is for the decoder: the head of a character, the LF of a CRLF,
\* or the next character.
NextByte(nl, p, c, x) ==
  \/ c.b = "head" /\ LettersIn(nl, p + 1) = x /\ (CrAt(nl, p + 1) <=> CrAt(nl, p))
  \/ c.b = "lf" /\ CrAt(nl, p) /\ LettersIn(nl, p + 1) = x /\ ~CrAt(nl, p + 1)
  \/ /\ c.b # "head" /\ ~(CrAt(nl, p) /\ c.b = "lf")
     /\ LettersIn(nl, p + 1) = x + 1 /\ (CrAt(nl, p + 1) <=> c.b = "cr")
     /\ Letter(x + 1) = [b |-> IF c.b = "cr" THEN "lf" ELSE c.b, of |-> c.of]

\* What the next byte adds to the characters.
LEMMA NextLetter ==
  ASSUME NEW nl \in Styles, NEW p \in Nat
  PROVE  LettersIn(nl, p) \in Nat /\ NextByte(nl, p, Byte(nl, p + 1), LettersIn(nl, p))
<1>1. PICK k \in Nat, j \in 0..(Width(nl) - 1) : p = Width(nl) * k + j /\ Stands(nl, k, j, p)
  BY Located
<1>2. ASSUME NEW s \in 0..4
      PROVE  Letter(5 * k + s + 1) = [b |-> <<"event", "lf", "tail", "lf", "lf">>[s + 1], of |-> k + 1]
  <2>1. (5 * k + s + 1) - 1 = 5 * k + s
    OBVIOUS
  <2>2. (5 * k + s) % 5 = s /\ (5 * k + s) \div 5 = k
    BY Parts5
  <2>. QED  BY <2>1, <2>2 DEF Letter
<1>3. CASE nl = "lf"
  <2>1. j \in 0..5 /\ Width(nl) = 6
    BY <1>1, <1>3, Layouts
  <2>. QED  BY <1>1, <1>2, <1>3, <2>1, Layouts DEF Stands, NextByte, Letters, Crs
<1>4. CASE nl = "cr"
  <2>1. j \in 0..5 /\ Width(nl) = 6
    BY <1>1, <1>4, Layouts
  <2>. QED  BY <1>1, <1>2, <1>4, <2>1, Layouts DEF Stands, NextByte, Letters, Crs
<1>5. CASE nl = "crlf"
  <2>1. j \in 0..8 /\ Width(nl) = 9
    BY <1>1, <1>5, Layouts
  <2>. QED  BY <1>1, <1>2, <1>5, <2>1, Layouts DEF Stands, NextByte, Letters, Crs
<1>. QED  BY <1>3, <1>4, <1>5 DEF Styles

-----------------------------------------------------------------------------
(***************************************************************************)
(* The recursive functions of the transport, step by step.                 *)
(***************************************************************************)

\* absorb, character by character.
LEMMA AbsorbRuns ==
  ASSUME NEW d, NEW chars, Len(chars) \in Nat
  PROVE  \E f : /\ f[0] = d
                /\ \A k \in 1..Len(chars) : f[k] = Normalized(f[k - 1], chars[k])
                /\ Absorb(d, chars) = f[Len(chars)]
<1>. DEFINE n == Len(chars)
            Step(f, k) == IF k = 0 THEN d ELSE Normalized(f[k - 1], chars[k])
            Fills(f, i) == f = [k \in 0..i |-> Step(f, k)]
            after == CHOOSE f : f = [k \in 0..n |-> Step(f, k)]
            Defined == {i \in Nat : \E f : Fills(f, i)}
<1>1. Absorb(d, chars) = after[Len(chars)]
  BY DEF Absorb
<1>2. Nat \subseteq Defined
  <2>1. 0 \in Defined
    <3>1. Fills([k \in 0..0 |-> d], 0)
      <4>1. \A k \in 0..0 : k = 0
        OBVIOUS
      <4>. QED  BY <4>1
    <3>. HIDE DEF Fills
    <3>. QED  BY <3>1
  <2>2. ASSUME NEW i \in Nat, i \in Defined PROVE i + 1 \in Defined
    <3>1. PICK g : Fills(g, i)
      BY <2>2
    <3>. DEFINE h == [k \in 0..(i + 1) |-> IF k <= i THEN g[k] ELSE Step(g, i + 1)]
    <3>2. ASSUME NEW k \in 0..(i + 1) PROVE h[k] = Step(h, k)
      <4>1. k # 0 => k - 1 \in 0..i /\ k - 1 \in 0..(i + 1) /\ k - 1 <= i
        OBVIOUS
      <4>2. k # 0 => h[k - 1] = g[k - 1]
        BY <4>1
      <4>3. CASE k <= i
        <5>1. k \in 0..i
          BY <4>3
        <5>2. g[k] = Step(g, k)
          BY <3>1, <5>1
        <5>3. h[k] = g[k]
          BY <4>3
        <5>. QED  BY <4>2, <5>2, <5>3
      <4>4. CASE ~(k <= i)
        <5>1. k = i + 1
          BY <4>4
        <5>2. h[k] = Step(g, k)
          BY <4>4, <5>1
        <5>. QED  BY <4>2, <5>2
      <4>. QED  BY <4>3, <4>4
    <3>3. Fills(h, i + 1)
      <4>. HIDE DEF Step
      <4>. QED  BY <3>2
    <3>. HIDE DEF Fills
    <3>. QED  BY <3>3
  <2>. HIDE DEF Defined
  <2>. QED  BY <2>1, <2>2, Induction
<1>3. after = [k \in 0..n |-> Step(after, k)]
  <2>1. \E f : Fills(f, n)
    <3>1. n \in Defined
      BY <1>2
    <3>. HIDE DEF Fills
    <3>. QED  BY <3>1
  <2>. HIDE DEF Step
  <2>. QED  BY <2>1
<1>. HIDE DEF after
<1>4. after[0] = d /\ \A k \in 1..n : after[k] = Normalized(after[k - 1], chars[k])
  <2>1. 0 \in 0..n /\ \A k \in 1..n : k \in 0..n /\ k # 0
    OBVIOUS
  <2>2. after[0] = Step(after, 0) /\ \A k \in 1..n : after[k] = Step(after, k)
    <3>. HIDE DEF Step
    <3>. QED  BY <1>3, <2>1
  <2>. QED  BY <2>1, <2>2
<1>. WITNESS after
<1>. QED  BY <1>1, <1>4

\* take_frames, character by character.
LEMMA TakeRuns ==
  ASSUME NEW d, Len(d.buf) \in Nat
  PROVE  \E f : /\ f[0] = [rest |-> <<>>, frames |-> <<>>]
                /\ \A k \in 1..Len(d.buf) : f[k] = Cut(f[k - 1], d.buf[k])
                /\ TakeFrames(d) = [dec |-> [d EXCEPT !.buf = f[Len(d.buf)].rest], frames |-> f[Len(d.buf)].frames]
<1>. DEFINE n == Len(d.buf)
            Step(f, k) == IF k = 0 THEN [rest |-> <<>>, frames |-> <<>>] ELSE Cut(f[k - 1], d.buf[k])
            Fills(f, i) == f = [k \in 0..i |-> Step(f, k)]
            after == CHOOSE f : f = [k \in 0..n |-> Step(f, k)]
            Defined == {i \in Nat : \E f : Fills(f, i)}
<1>1. TakeFrames(d) = [dec |-> [d EXCEPT !.buf = after[Len(d.buf)].rest], frames |-> after[Len(d.buf)].frames]
  BY DEF TakeFrames
<1>2. Nat \subseteq Defined
  <2>1. 0 \in Defined
    <3>1. Fills([k \in 0..0 |-> [rest |-> <<>>, frames |-> <<>>]], 0)
      <4>1. \A k \in 0..0 : k = 0
        OBVIOUS
      <4>. QED  BY <4>1
    <3>. HIDE DEF Fills
    <3>. QED  BY <3>1
  <2>2. ASSUME NEW i \in Nat, i \in Defined PROVE i + 1 \in Defined
    <3>1. PICK g : Fills(g, i)
      BY <2>2
    <3>. DEFINE h == [k \in 0..(i + 1) |-> IF k <= i THEN g[k] ELSE Step(g, i + 1)]
    <3>2. ASSUME NEW k \in 0..(i + 1) PROVE h[k] = Step(h, k)
      <4>1. k # 0 => k - 1 \in 0..i /\ k - 1 \in 0..(i + 1) /\ k - 1 <= i
        OBVIOUS
      <4>2. k # 0 => h[k - 1] = g[k - 1]
        BY <4>1
      <4>3. CASE k <= i
        <5>1. k \in 0..i
          BY <4>3
        <5>2. g[k] = Step(g, k)
          BY <3>1, <5>1
        <5>3. h[k] = g[k]
          BY <4>3
        <5>. QED  BY <4>2, <5>2, <5>3
      <4>4. CASE ~(k <= i)
        <5>1. k = i + 1
          BY <4>4
        <5>2. h[k] = Step(g, k)
          BY <4>4, <5>1
        <5>. QED  BY <4>2, <5>2
      <4>. QED  BY <4>3, <4>4
    <3>3. Fills(h, i + 1)
      <4>. HIDE DEF Step
      <4>. QED  BY <3>2
    <3>. HIDE DEF Fills
    <3>. QED  BY <3>3
  <2>. HIDE DEF Defined
  <2>. QED  BY <2>1, <2>2, Induction
<1>3. after = [k \in 0..n |-> Step(after, k)]
  <2>1. \E f : Fills(f, n)
    <3>1. n \in Defined
      BY <1>2
    <3>. HIDE DEF Fills
    <3>. QED  BY <3>1
  <2>. HIDE DEF Step
  <2>. QED  BY <2>1
<1>. HIDE DEF after
<1>4. after[0] = [rest |-> <<>>, frames |-> <<>>] /\ \A k \in 1..n : after[k] = Cut(after[k - 1], d.buf[k])
  <2>1. 0 \in 0..n /\ \A k \in 1..n : k \in 0..n /\ k # 0
    OBVIOUS
  <2>2. after[0] = Step(after, 0) /\ \A k \in 1..n : after[k] = Step(after, k)
    <3>. HIDE DEF Step
    <3>. QED  BY <1>3, <2>1
  <2>. QED  BY <2>1, <2>2
<1>. WITNESS after
<1>. QED  BY <1>1, <1>4

\* The loop of the stream, frame by frame.
RunsOn(f, m, frames) ==
  f[0] = m /\ \A k \in 1..Len(frames) : f[k] = OnFrame(f[k - 1], frames[k])

LEMMA FramesRun ==
  ASSUME NEW m, NEW frames, Len(frames) \in Nat
  PROVE  \E f : RunsOn(f, m, frames) /\ OnFrames(m, frames) = f[Len(frames)]
<1>. DEFINE n == Len(frames)
            Step(f, k) == IF k = 0 THEN m ELSE OnFrame(f[k - 1], frames[k])
            Fills(f, i) == f = [k \in 0..i |-> Step(f, k)]
            after == CHOOSE f : f = [k \in 0..n |-> Step(f, k)]
            Defined == {i \in Nat : \E f : Fills(f, i)}
<1>1. OnFrames(m, frames) = after[Len(frames)]
  BY DEF OnFrames
<1>2. Nat \subseteq Defined
  <2>1. 0 \in Defined
    <3>1. Fills([k \in 0..0 |-> m], 0)
      <4>1. \A k \in 0..0 : k = 0
        OBVIOUS
      <4>. QED  BY <4>1
    <3>. HIDE DEF Fills
    <3>. QED  BY <3>1
  <2>2. ASSUME NEW i \in Nat, i \in Defined PROVE i + 1 \in Defined
    <3>1. PICK g : Fills(g, i)
      BY <2>2
    <3>. DEFINE h == [k \in 0..(i + 1) |-> IF k <= i THEN g[k] ELSE Step(g, i + 1)]
    <3>2. ASSUME NEW k \in 0..(i + 1) PROVE h[k] = Step(h, k)
      <4>1. k # 0 => k - 1 \in 0..i /\ k - 1 \in 0..(i + 1) /\ k - 1 <= i
        OBVIOUS
      <4>2. k # 0 => h[k - 1] = g[k - 1]
        BY <4>1
      <4>3. CASE k <= i
        <5>1. k \in 0..i
          BY <4>3
        <5>2. g[k] = Step(g, k)
          BY <3>1, <5>1
        <5>3. h[k] = g[k]
          BY <4>3
        <5>. QED  BY <4>2, <5>2, <5>3
      <4>4. CASE ~(k <= i)
        <5>1. k = i + 1
          BY <4>4
        <5>2. h[k] = Step(g, k)
          BY <4>4, <5>1
        <5>. QED  BY <4>2, <5>2
      <4>. QED  BY <4>3, <4>4
    <3>3. Fills(h, i + 1)
      <4>. HIDE DEF Step
      <4>. QED  BY <3>2
    <3>. HIDE DEF Fills
    <3>. QED  BY <3>3
  <2>. HIDE DEF Defined
  <2>. QED  BY <2>1, <2>2, Induction
<1>3. after = [k \in 0..n |-> Step(after, k)]
  <2>1. \E f : Fills(f, n)
    <3>1. n \in Defined
      BY <1>2
    <3>. HIDE DEF Fills
    <3>. QED  BY <3>1
  <2>. HIDE DEF Step
  <2>. QED  BY <2>1
<1>. HIDE DEF after
<1>4. after[0] = m /\ \A k \in 1..n : after[k] = OnFrame(after[k - 1], frames[k])
  <2>1. 0 \in 0..n /\ \A k \in 1..n : k \in 0..n /\ k # 0
    OBVIOUS
  <2>2. after[0] = Step(after, 0) /\ \A k \in 1..n : after[k] = Step(after, k)
    <3>. HIDE DEF Step
    <3>. QED  BY <1>3, <2>1
  <2>. QED  BY <2>1, <2>2
<1>. WITNESS after
<1>. QED  BY <1>1, <1>4 DEF RunsOn

\* close_dangling, index by index.
LEMMA DanglingRuns ==
  ASSUME NEW m, MaxBlocks \in Nat
  PROVE  \E f : /\ f[0] = m
                /\ \A k \in 1..MaxBlocks : f[k] = IF k - 1 \in DOMAIN m.open THEN Closed(f[k - 1], k - 1) ELSE f[k - 1]
                /\ CloseDangling(m) = f[MaxBlocks]
<1>. DEFINE n == MaxBlocks
            Step(f, k) == IF k = 0 THEN m ELSE IF k - 1 \in DOMAIN m.open THEN Closed(f[k - 1], k - 1) ELSE f[k - 1]
            Fills(f, i) == f = [k \in 0..i |-> Step(f, k)]
            after == CHOOSE f : f = [k \in 0..n |-> Step(f, k)]
            Defined == {i \in Nat : \E f : Fills(f, i)}
<1>1. CloseDangling(m) = after[MaxBlocks]
  BY DEF CloseDangling
<1>2. Nat \subseteq Defined
  <2>1. 0 \in Defined
    <3>1. Fills([k \in 0..0 |-> m], 0)
      <4>1. \A k \in 0..0 : k = 0
        OBVIOUS
      <4>. QED  BY <4>1
    <3>. HIDE DEF Fills
    <3>. QED  BY <3>1
  <2>2. ASSUME NEW i \in Nat, i \in Defined PROVE i + 1 \in Defined
    <3>1. PICK g : Fills(g, i)
      BY <2>2
    <3>. DEFINE h == [k \in 0..(i + 1) |-> IF k <= i THEN g[k] ELSE Step(g, i + 1)]
    <3>2. ASSUME NEW k \in 0..(i + 1) PROVE h[k] = Step(h, k)
      <4>1. k # 0 => k - 1 \in 0..i /\ k - 1 \in 0..(i + 1) /\ k - 1 <= i
        OBVIOUS
      <4>2. k # 0 => h[k - 1] = g[k - 1]
        BY <4>1
      <4>3. CASE k <= i
        <5>1. k \in 0..i
          BY <4>3
        <5>2. g[k] = Step(g, k)
          BY <3>1, <5>1
        <5>3. h[k] = g[k]
          BY <4>3
        <5>. QED  BY <4>2, <5>2, <5>3
      <4>4. CASE ~(k <= i)
        <5>1. k = i + 1
          BY <4>4
        <5>2. h[k] = Step(g, k)
          BY <4>4, <5>1
        <5>. QED  BY <4>2, <5>2
      <4>. QED  BY <4>3, <4>4
    <3>3. Fills(h, i + 1)
      <4>. HIDE DEF Step
      <4>. QED  BY <3>2
    <3>. HIDE DEF Fills
    <3>. QED  BY <3>3
  <2>. HIDE DEF Defined
  <2>. QED  BY <2>1, <2>2, Induction
<1>3. after = [k \in 0..n |-> Step(after, k)]
  <2>1. \E f : Fills(f, n)
    <3>1. n \in Defined
      BY <1>2
    <3>. HIDE DEF Fills
    <3>. QED  BY <3>1
  <2>. HIDE DEF Step
  <2>. QED  BY <2>1
<1>. HIDE DEF after
<1>4. after[0] = m /\ \A k \in 1..n : after[k] = IF k - 1 \in DOMAIN m.open THEN Closed(after[k - 1], k - 1) ELSE after[k - 1]
  <2>1. 0 \in 0..n /\ \A k \in 1..n : k \in 0..n /\ k # 0
    OBVIOUS
  <2>2. after[0] = Step(after, 0) /\ \A k \in 1..n : after[k] = Step(after, k)
    <3>. HIDE DEF Step
    <3>. QED  BY <1>3, <2>1
  <2>. QED  BY <2>1, <2>2
<1>. WITNESS after
<1>. QED  BY <1>1, <1>4

-----------------------------------------------------------------------------
(***************************************************************************)
(* SseDecoder: what it holds after p bytes, however they were cut.         *)
(***************************************************************************)

\* The characters of a body from number x + 1 to number y.
Text(x, y) == [i \in 1..(y - x) |-> Letter(x + i)]

\* A sequence given by its elements.
LEMMA Written ==
  ASSUME NEW n \in Nat, NEW s, s = [i \in 1..n |-> s[i]]
  PROVE  IsQueue(s) /\ Len(s) = n /\ DOMAIN s = 1..n
<1>1. DOMAIN s = 1..n
  OBVIOUS
<1>2. s \in [1..n -> {s[i] : i \in DOMAIN s}]
  <2>. DEFINE T == {s[i] : i \in DOMAIN s}
  <2>1. \A i \in 1..n : s[i] \in T
    BY <1>1
  <2>. HIDE DEF T
  <2>. QED  BY <2>1
<1>3. s \in Seq({s[i] : i \in DOMAIN s})
  <2>. DEFINE T == {s[i] : i \in DOMAIN s}
  <2>. HIDE DEF T
  <2>. QED  BY <1>2
<1>4. Len(s) = n
  <2>. DEFINE T == {s[i] : i \in DOMAIN s}
  <2>. HIDE DEF T
  <2>. QED  BY <1>1, <1>3, LenProperties
<1>. QED  BY <1>1, <1>3, <1>4 DEF IsQueue

\* The text from one character to another.
LEMMA TextIs ==
  ASSUME NEW x \in Nat, NEW y \in Nat, x <= y
  PROVE  /\ IsQueue(Text(x, y)) /\ Len(Text(x, y)) = y - x /\ DOMAIN Text(x, y) = 1..(y - x)
         /\ \A i \in 1..(y - x) : Text(x, y)[i] = Letter(x + i)
<1>1. y - x \in Nat
  OBVIOUS
<1>2. \A i \in 1..(y - x) : Text(x, y)[i] = Letter(x + i)
  BY DEF Text
<1>3. Text(x, y) = [i \in 1..(y - x) |-> Text(x, y)[i]]
  BY DEF Text
<1>. QED  BY <1>1, <1>2, <1>3, Written

\* The text grows by a character.
LEMMA TextGrows ==
  ASSUME NEW x \in Nat, NEW y \in Nat, x <= y
  PROVE  Append(Text(x, y), Letter(y + 1)) = Text(x, y + 1)
<1>. DEFINE q == Append(Text(x, y), Letter(y + 1))
            r == Text(x, y + 1)
<1>1. /\ IsQueue(Text(x, y)) /\ Len(Text(x, y)) = y - x
      /\ \A i \in 1..(y - x) : Text(x, y)[i] = Letter(x + i)
  BY TextIs
<1>2. y + 1 \in Nat /\ x <= y + 1 /\ (y + 1) - x = (y - x) + 1
  OBVIOUS
<1>3. /\ IsQueue(r) /\ Len(r) = (y - x) + 1
      /\ \A i \in 1..((y - x) + 1) : r[i] = Letter(x + i)
  BY <1>2, TextIs
<1>4. /\ IsQueue(q) /\ DOMAIN q = 1..((y - x) + 1)
      /\ \A i \in 1..(y - x) : q[i] = Text(x, y)[i]
      /\ q[(y - x) + 1] = Letter(y + 1)
  BY <1>1, Queued
<1>5. Len(q) = (y - x) + 1
  BY <1>4, LenProperties DEF IsQueue
<1>6. \A i \in 1..Len(q) : q[i] = r[i]
  <2>. TAKE i \in 1..Len(q)
  <2>1. CASE i \in 1..(y - x)
    BY <1>1, <1>3, <1>4, <2>1
  <2>2. CASE i = (y - x) + 1
    <3>1. x + i = y + 1 /\ i \in 1..((y - x) + 1)
      BY <2>2
    <3>. QED  BY <1>3, <1>4, <2>2, <3>1
  <2>. QED  BY <1>5, <2>1, <2>2
<1>. HIDE DEF q, r
<1>7. q = r
  BY <1>3, <1>4, <1>5, <1>6, SameQueue
<1>. QED  BY <1>7 DEF q, r

\* The decoder in front of byte p + 1, its buffer from character x + 1 on.
IsDecoder(d) == d = [pending |-> d.pending, buf |-> d.buf, cr |-> d.cr]
Decodes(d, keep, x, nl, p) ==
  IsDecoder(d) /\ d.pending = keep /\ d.buf = Text(x, LettersIn(nl, p)) /\ (d.cr <=> CrAt(nl, p))

\* What absorb makes of one byte.
LEMMA ByteAbsorbed ==
  ASSUME NEW nl \in Styles, NEW p \in Nat, NEW keep, NEW x \in Nat, x <= LettersIn(nl, p),
         NEW d, Decodes(d, keep, x, nl, p), NEW c, c = Byte(nl, p + 1), NEW r, r = Normalized(d, c)
  PROVE  /\ LettersIn(nl, p + 1) \in Nat /\ LettersIn(nl, p) <= LettersIn(nl, p + 1)
         /\ Decodes(r, keep, x, nl, p + 1)
<1>. DEFINE y == LettersIn(nl, p)
<1>1. y \in Nat /\ NextByte(nl, p, c, y)
  BY NextLetter
<1>2. LettersIn(nl, p + 1) \in Nat
  BY NextLetter
<1>3. c = [b |-> c.b, of |-> c.of]
  BY DEF Byte
<1>4. IsDecoder(d) /\ d.pending = keep /\ d.buf = Text(x, y) /\ (d.cr <=> CrAt(nl, p))
  BY DEF Decodes
<1>5. CASE c.b = "head"
  <2>1. LettersIn(nl, p + 1) = y /\ (CrAt(nl, p + 1) <=> CrAt(nl, p))
    BY <1>1, <1>5 DEF NextByte
  <2>2. r = d
    BY <1>5 DEF Normalized
  <2>3. LettersIn(nl, p) <= LettersIn(nl, p + 1)
    BY <1>1, <2>1
  <2>4. Decodes(r, keep, x, nl, p + 1)
    BY <1>4, <2>1, <2>2 DEF Decodes
  <2>. QED  BY <1>2, <2>3, <2>4
<1>6. CASE c.b = "lf" /\ CrAt(nl, p)
  <2>1. LettersIn(nl, p + 1) = y /\ ~CrAt(nl, p + 1)
    BY <1>1, <1>6 DEF NextByte
  <2>2. r = [d EXCEPT !.cr = FALSE]
    BY <1>4, <1>6 DEF Normalized
  <2>3. IsDecoder(r) /\ r.pending = keep /\ r.buf = Text(x, y) /\ ~r.cr
    BY <1>4, <2>2 DEF IsDecoder
  <2>4. LettersIn(nl, p) <= LettersIn(nl, p + 1)
    BY <1>1, <2>1
  <2>5. Decodes(r, keep, x, nl, p + 1)
    BY <2>1, <2>3 DEF Decodes
  <2>. QED  BY <1>2, <2>4, <2>5
<1>7. CASE c.b # "head" /\ ~(CrAt(nl, p) /\ c.b = "lf")
  <2>1. /\ LettersIn(nl, p + 1) = y + 1 /\ (CrAt(nl, p + 1) <=> c.b = "cr")
        /\ Letter(y + 1) = [b |-> IF c.b = "cr" THEN "lf" ELSE c.b, of |-> c.of]
    BY <1>1, <1>7 DEF NextByte
  <2>2. Append(Text(x, y), Letter(y + 1)) = Text(x, y + 1)
    BY <1>1, TextGrows
  <2>3. PICK e : e = (IF c.b = "cr" THEN [c EXCEPT !.b = "lf"] ELSE c)
    OBVIOUS
  <2>4. e = Letter(y + 1)
    BY <1>3, <2>1, <2>3
  <2>5. r = [d EXCEPT !.cr = (c.b = "cr"), !.buf = Append(@, e)]
    BY <1>4, <1>7, <2>3 DEF Normalized
  <2>6. IsDecoder(r) /\ r.pending = keep /\ r.buf = Append(d.buf, e) /\ (r.cr <=> c.b = "cr")
    BY <1>4, <2>5 DEF IsDecoder
  <2>7. LettersIn(nl, p) <= LettersIn(nl, p + 1)
    BY <1>1, <2>1
  <2>8. r.buf = Text(x, LettersIn(nl, p + 1))
    BY <1>4, <2>1, <2>2, <2>4, <2>6
  <2>9. Decodes(r, keep, x, nl, p + 1)
    BY <2>1, <2>6, <2>8 DEF Decodes
  <2>. QED  BY <1>2, <2>7, <2>9
<1>. QED  BY <1>5, <1>6, <1>7

\* absorb takes a stretch of the body.
LEMMA BytesAbsorbed ==
  ASSUME NEW nl \in Styles, NEW p \in Nat, NEW l \in Nat, NEW keep, NEW x \in Nat, x <= LettersIn(nl, p),
         NEW d, Decodes(d, keep, x, nl, p),
         NEW chars, Len(chars) = l, \A i \in 1..l : chars[i] = Byte(nl, p + i),
         NEW r, r = Absorb(d, chars)
  PROVE  /\ LettersIn(nl, p + l) \in Nat /\ LettersIn(nl, p) <= LettersIn(nl, p + l)
         /\ Decodes(r, keep, x, nl, p + l)
<1>1. PICK f : /\ f[0] = d
               /\ \A k \in 1..l : f[k] = Normalized(f[k - 1], chars[k])
               /\ r = f[l]
  <2>1. Len(chars) = l /\ Len(chars) \in Nat
    OBVIOUS
  <2>2. PICK f : /\ f[0] = d
                 /\ \A k \in 1..Len(chars) : f[k] = Normalized(f[k - 1], chars[k])
                 /\ Absorb(d, chars) = f[Len(chars)]
    BY ONLY <2>1, AbsorbRuns
  <2>. QED  BY <2>1, <2>2
<1>. DEFINE Good(k) == /\ LettersIn(nl, p + k) \in Nat /\ LettersIn(nl, p) <= LettersIn(nl, p + k)
                       /\ Decodes(f[k], keep, x, nl, p + k)
            All == {k \in Nat : k <= l => Good(k)}
<1>2. LettersIn(nl, p) \in Nat
  BY NextLetter
<1>3. 0 \in All
  <2>1. p + 0 = p
    OBVIOUS
  <2>2. Good(0)
    BY <1>1, <1>2, <2>1
  <2>. HIDE DEF Good
  <2>. QED  BY <2>2
<1>4. ASSUME NEW k \in Nat, k \in All PROVE k + 1 \in All
  <2>1. SUFFICES ASSUME k + 1 <= l PROVE Good(k + 1)
    <3>. HIDE DEF Good
    <3>. QED  OBVIOUS
  <2>2. k <= l /\ k + 1 \in 1..l /\ (k + 1) - 1 = k /\ p + k \in Nat /\ (p + k) + 1 = p + (k + 1)
    BY <2>1
  <2>3. Good(k)
    <3>. HIDE DEF Good
    <3>. QED  BY <1>4, <2>2
  <2>4. f[k + 1] = Normalized(f[k], chars[k + 1]) /\ chars[k + 1] = Byte(nl, p + (k + 1))
    BY <1>1, <2>2
  <2>5. x <= LettersIn(nl, p + k)
    BY <1>2, <2>3
  <2>6. /\ LettersIn(nl, (p + k) + 1) \in Nat /\ LettersIn(nl, p + k) <= LettersIn(nl, (p + k) + 1)
        /\ Decodes(f[k + 1], keep, x, nl, (p + k) + 1)
    <3>1. chars[k + 1] = Byte(nl, (p + k) + 1)
      BY <2>2, <2>4
    <3>. QED  BY <2>2, <2>3, <2>4, <2>5, <3>1, ByteAbsorbed
  <2>. QED  BY <1>2, <2>2, <2>3, <2>6
<1>5. l \in All
  <2>. HIDE DEF All
  <2>. QED  BY <1>3, <1>4, Induction
<1>6. Good(l)
  <2>. HIDE DEF Good
  <2>. QED  BY <1>5
<1>. QED  BY <1>1, <1>6

\* A character by its place in its frame.
LEMMA LetterOf ==
  ASSUME NEW h \in Nat, NEW s \in 0..4
  PROVE  Letter(5 * h + s + 1) =
           [b |-> IF s = 0 THEN "event" ELSE IF s = 2 THEN "tail" ELSE "lf", of |-> h + 1]
<1>1. (5 * h + s + 1) - 1 = 5 * h + s
  OBVIOUS
<1>2. (5 * h + s) % 5 = s /\ (5 * h + s) \div 5 = h
  BY Parts5
<1>. QED  BY <1>1, <1>2 DEF Letter

\* The frames from a + 1 to b.
Frames(a, b) == [i \in 1..(b - a) |-> a + i]

\* A block of three or four characters is the frame it is the text of.
LEMMA WholeBlock ==
  ASSUME NEW h \in Nat, NEW s \in {3, 4}, NEW block, IsQueue(block), Len(block) = s,
         \A i \in 1..s : block[i] = Letter(5 * h + i)
  PROVE  ParseBlock(block) = <<h + 1>>
<1>. DEFINE event == [b |-> "event", of |-> h + 1]
            tail  == [b |-> "tail", of |-> h + 1]
            lf    == [b |-> "lf", of |-> h + 1]
<1>1. block[1] = event /\ block[2] = lf /\ block[3] = tail /\ (s = 4 => block[4] = lf)
  <2>1. /\ 5 * h + 0 + 1 = 5 * h + 1 /\ 5 * h + 1 + 1 = 5 * h + 2 /\ 5 * h + 2 + 1 = 5 * h + 3
        /\ 5 * h + 3 + 1 = 5 * h + 4
    OBVIOUS
  <2>2. /\ Letter(5 * h + 0 + 1) = event /\ Letter(5 * h + 1 + 1) = lf /\ Letter(5 * h + 2 + 1) = tail
        /\ Letter(5 * h + 3 + 1) = lf
    BY LetterOf
  <2>. QED  BY <2>1, <2>2
<1>2. DOMAIN block = 1..s
  BY LenProperties DEF IsQueue
<1>3. ToSet(block) = {event, lf, tail}
  <2>1. \A i \in 1..s : block[i] \in {event, lf, tail}
    <3>. TAKE i \in 1..s
    <3>1. i = 1 \/ i = 2 \/ i = 3 \/ (s = 4 /\ i = 4)
      OBVIOUS
    <3>. HIDE DEF event, tail, lf
    <3>. QED  BY <1>1, <3>1
  <2>2. 1 \in 1..s /\ 2 \in 1..s /\ 3 \in 1..s
    OBVIOUS
  <2>. HIDE DEF event, tail, lf
  <2>. QED  BY <1>1, <1>2, <2>1, <2>2 DEF ToSet
<1>. DEFINE text == {c \in ToSet(block) : c.b # "lf"}
            whole == {c \in text : text = {[b |-> "event", of |-> c.of], [b |-> "tail", of |-> c.of]}}
<1>4. text = {event, tail}
  BY <1>3
<1>5. whole # {} /\ \A c \in whole : c.of = h + 1
  <2>1. event.of = h + 1 /\ tail.of = h + 1
    OBVIOUS
  <2>2. event \in whole
    BY <1>4
  <2>3. \A c \in whole : c \in {event, tail}
    BY <1>4
  <2>. HIDE DEF whole, event, tail
  <2>. QED  BY <2>1, <2>2, <2>3
<1>6. ParseBlock(block) = IF whole = {} THEN <<>> ELSE <<(CHOOSE c \in whole : TRUE).of>>
  BY DEF ParseBlock
<1>. HIDE DEF whole
<1>7. (CHOOSE c \in whole : TRUE) \in whole
  BY <1>5
<1>. QED  BY <1>5, <1>6, <1>7

\* A block without the text of a frame is none.
LEMMA HalfBlock ==
  ASSUME NEW block, IsQueue(block), \A i \in DOMAIN block : block[i].b # "tail"
  PROVE  ParseBlock(block) = <<>>
<1>. DEFINE text == {c \in ToSet(block) : c.b # "lf"}
            whole == {c \in text : text = {[b |-> "event", of |-> c.of], [b |-> "tail", of |-> c.of]}}
<1>1. \A c \in text : c.b # "tail"
  BY DEF ToSet
<1>2. whole = {}
  <2>1. ASSUME NEW c \in whole PROVE FALSE
    <3>1. [b |-> "tail", of |-> c.of] \in text
      BY <2>1
    <3>2. [b |-> "tail", of |-> c.of].b = "tail"
      OBVIOUS
    <3>. HIDE DEF text
    <3>. QED  BY <1>1, <3>1, <3>2
  <2>. QED  BY <2>1
<1>3. ParseBlock(block) = IF whole = {} THEN <<>> ELSE <<(CHOOSE c \in whole : TRUE).of>>
  BY DEF ParseBlock
<1>. HIDE DEF whole
<1>. QED  BY <1>2, <1>3

\* The frames from one to another, and one more.
LEMMA FramesGrow ==
  ASSUME NEW a \in Nat, NEW b \in Nat, a <= b
  PROVE  /\ IsQueue(Frames(a, b)) /\ Len(Frames(a, b)) = b - a
         /\ \A i \in 1..(b - a) : Frames(a, b)[i] = a + i
         /\ Frames(a, b) \o <<b + 1>> = Frames(a, b + 1)
<1>1. \A m \in Nat : IsQueue(Frames(a, a + m)) /\ Len(Frames(a, a + m)) = m
                     /\ \A i \in 1..m : Frames(a, a + m)[i] = a + i
  <2>. TAKE m \in Nat
  <2>1. (a + m) - a = m
    OBVIOUS
  <2>2. Frames(a, a + m) = [i \in 1..m |-> a + i]
    BY <2>1 DEF Frames
  <2>3. \A i \in 1..m : Frames(a, a + m)[i] = a + i
    BY <2>2
  <2>4. Frames(a, a + m) = [i \in 1..m |-> Frames(a, a + m)[i]]
    BY <2>2
  <2>. QED  BY <2>3, <2>4, Written
<1>. DEFINE m == b - a
<1>2. m \in Nat /\ m + 1 \in Nat /\ a + m = b /\ a + (m + 1) = b + 1
  OBVIOUS
<1>. HIDE DEF m
<1>3. /\ IsQueue(Frames(a, b)) /\ Len(Frames(a, b)) = m /\ \A i \in 1..m : Frames(a, b)[i] = a + i
      /\ IsQueue(Frames(a, b + 1)) /\ Len(Frames(a, b + 1)) = m + 1
      /\ \A i \in 1..(m + 1) : Frames(a, b + 1)[i] = a + i
  BY <1>1, <1>2
<1>4. Joins(Frames(a, b), <<b + 1>>, Frames(a, b) \o <<b + 1>>)
  BY <1>3, One, Joined
<1>. DEFINE q == Frames(a, b) \o <<b + 1>>
<1>5. /\ IsQueue(q) /\ DOMAIN q = 1..(m + 1) /\ \A i \in 1..m : q[i] = a + i
      /\ q[m + 1] = b + 1
  BY SMTT(30), <1>3, <1>4, One, <1>2 DEF Joins
<1>6. Len(q) = m + 1
  BY <1>2, <1>5, LenProperties DEF IsQueue
<1>7. \A i \in 1..(m + 1) : q[i] = Frames(a, b + 1)[i]
  <2>. TAKE i \in 1..(m + 1)
  <2>1. CASE i = m + 1
    BY <1>2, <1>3, <1>5, <2>1
  <2>2. CASE i # m + 1
    <3>1. i \in 1..m
      BY <1>2, <2>2
    <3>. QED  BY <1>3, <1>5, <3>1
  <2>. QED  BY <2>1, <2>2
<1>. HIDE DEF q
<1>8. q = Frames(a, b + 1)
  BY <1>3, <1>5, <1>6, <1>7, SameQueue
<1>. QED  BY <1>3, <1>8 DEF m, q

\* The cutting has come to character z + 1, and began with a frame's first.
IsCut(c) == c = [rest |-> c.rest, frames |-> c.frames]
CutTo(c, a, z) ==
  /\ IsCut(c)
  /\ c.rest = Text(5 * (z \div 5), z)
  /\ c.frames = Frames(a, z \div 5)

\* The cutting takes a character.
LEMMA CutMore ==
  ASSUME NEW a \in Nat, NEW z \in Nat, 5 * a <= z, NEW c, CutTo(c, a, z), NEW r, r = Cut(c, Letter(z + 1))
  PROVE  CutTo(r, a, z + 1)
<1>1. PICK h, s : h = z \div 5 /\ s = z % 5
  OBVIOUS
<1>2. h \in Nat /\ s \in 0..4 /\ z = 5 * h + s /\ a <= h
  BY <1>1
<1>. DEFINE rest == Text(5 * h, z)
            e == Letter(z + 1)
<1>3. IsCut(c) /\ c.rest = rest /\ c.frames = Frames(a, h)
  BY <1>1 DEF CutTo
<1>4. e = [b |-> IF s = 0 THEN "event" ELSE IF s = 2 THEN "tail" ELSE "lf", of |-> h + 1]
  BY <1>2, LetterOf
<1>5. /\ IsQueue(rest) /\ Len(rest) = s /\ DOMAIN rest = 1..s
      /\ \A i \in 1..s : rest[i] = Letter(5 * h + i)
  <2>1. 5 * h \in Nat /\ 5 * h <= z /\ z - 5 * h = s
    BY <1>2
  <2>. QED  BY <2>1, TextIs
<1>6. s > 0 => rest # <<>> /\ Last(rest) = Letter(5 * h + s)
  <2>1. s > 0 => rest # <<>>
    BY <1>5, EmptyQueue
  <2>2. s > 0 => s \in 1..s
    BY <1>2
  <2>. QED  BY <1>5, <2>1, <2>2 DEF Last
<1>7. Append(rest, e) = Text(5 * h, z + 1)
  <2>1. 5 * h \in Nat /\ 5 * h <= z
    BY <1>2
  <2>. QED  BY <2>1, TextGrows
<1>. HIDE DEF rest, e
<1>10. \A i \in 1..4 : Letter(5 * h + i).b = IF i = 1 THEN "event" ELSE IF i = 3 THEN "tail" ELSE "lf"
  <2>. TAKE i \in 1..4
  <2>1. PICK j \in 0..4 : i = j + 1
    <3>1. i - 1 \in 0..4 /\ i = (i - 1) + 1
      OBVIOUS
    <3>. QED  BY <3>1
  <2>2. 5 * h + i = 5 * h + j + 1
    BY <1>2, <2>1
  <2>3. Letter(5 * h + j + 1).b = IF j = 0 THEN "event" ELSE IF j = 2 THEN "tail" ELSE "lf"
    <3>1. Letter(5 * h + j + 1) =
            [b |-> IF j = 0 THEN "event" ELSE IF j = 2 THEN "tail" ELSE "lf", of |-> h + 1]
      BY ONLY <1>2, LetterOf
    <3>. QED  BY <3>1
  <2>. QED  BY <2>1, <2>2, <2>3
<1>8. CASE s # 4
  <2>1. ~(e.b = "lf" /\ rest # <<>> /\ Last(rest).b = "lf")
    <3>1. s = 0 \/ s = 2 => e.b # "lf"
      BY <1>4
    <3>2. s = 1 => Last(rest).b # "lf"
      BY <1>6, <1>10
    <3>3. s = 3 => Last(rest).b # "lf"
      BY <1>6, <1>10
    <3>. QED  BY <1>2, <1>8, <3>1, <3>2, <3>3
  <2>2. r = [c EXCEPT !.rest = Append(@, e)]
    BY <1>3, <2>1 DEF Cut, e
  <2>3. IsCut(r) /\ r.rest = Append(rest, e) /\ r.frames = c.frames
    BY <1>3, <2>2 DEF IsCut
  <2>4. z + 1 = 5 * h + (s + 1) /\ s + 1 \in 0..4
    BY <1>2, <1>8
  <2>5. (z + 1) \div 5 = h
    BY <1>2, <2>4, Parts5
  <2>. QED  BY <1>3, <1>7, <2>3, <2>5 DEF CutTo
<1>9. CASE s = 4
  <2>1. e.b = "lf" /\ rest # <<>> /\ Last(rest).b = "lf"
    <3>1. Last(rest).b = "lf"
      BY <1>6, <1>9, <1>10
    <3>. QED  BY <1>4, <1>6, <1>9, <3>1
  <2>2. r = [rest |-> <<>>, frames |-> c.frames \o ParseBlock(Front(rest))]
    BY <1>3, <2>1 DEF Cut, e
  <2>3. /\ IsQueue(Front(rest)) /\ Len(Front(rest)) = 3 /\ \A i \in 1..3 : Front(rest)[i] = rest[i]
    <3>1. PICK f : f = Front(rest)
      OBVIOUS
    <3>2. IsQueue(f) /\ Len(f) = Len(rest) - 1 /\ \A i \in 1..(Len(rest) - 1) : f[i] = rest[i]
      BY ONLY <1>5, <2>1, <3>1, FrontOf
    <3>. QED  BY <1>5, <1>9, <3>1, <3>2
  <2>4. \A i \in 1..3 : Front(rest)[i] = Letter(5 * h + i)
    BY <1>5, <1>9, <2>3
  <2>5. ParseBlock(Front(rest)) = <<h + 1>>
    BY <1>2, <2>3, <2>4, WholeBlock
  <2>6. r.rest = <<>> /\ r.frames = Frames(a, h + 1) /\ IsCut(r)
    <3>1. Frames(a, h) \o <<h + 1>> = Frames(a, h + 1)
      BY <1>2, FramesGrow
    <3>. QED  BY <1>3, <2>2, <2>5, <3>1 DEF IsCut
  <2>7. (z + 1) \div 5 = h + 1 /\ z + 1 = 5 * (h + 1) /\ z + 1 \in Nat
    BY <1>2, <1>9
  <2>8. Text(z + 1, z + 1) = <<>>
    <3>1. z + 1 \in Nat /\ (z + 1) - (z + 1) = 0
      OBVIOUS
    <3>2. IsQueue(Text(z + 1, z + 1)) /\ Len(Text(z + 1, z + 1)) = 0
      BY <3>1, TextIs
    <3>. QED  BY <3>2, EmptyQueue, SameQueue
  <2>. QED  BY <2>6, <2>7, <2>8 DEF CutTo
<1>. QED  BY <1>8, <1>9

\* take_frames, when the buffer begins with a frame's first character.
LEMMA FramesTaken ==
  ASSUME NEW a \in Nat, NEW y \in Nat, 5 * a <= y, NEW d, IsDecoder(d), d.buf = Text(5 * a, y),
         NEW t, t = TakeFrames(d)
  PROVE  /\ IsDecoder(t.dec) /\ t.dec.pending = d.pending /\ (t.dec.cr <=> d.cr)
         /\ t.dec.buf = Text(5 * (y \div 5), y)
         /\ t.frames = Frames(a, y \div 5)
<1>. DEFINE n == y - 5 * a
<1>1. n \in Nat /\ 5 * a + n = y /\ 5 * a \in Nat
  OBVIOUS
<1>2. Len(d.buf) = n /\ \A i \in 1..n : d.buf[i] = Letter(5 * a + i)
  BY <1>1, TextIs
<1>3. PICK f : /\ f[0] = [rest |-> <<>>, frames |-> <<>>]
               /\ \A k \in 1..n : f[k] = Cut(f[k - 1], d.buf[k])
               /\ t = [dec |-> [d EXCEPT !.buf = f[n].rest], frames |-> f[n].frames]
  BY <1>1, <1>2, TakeRuns
<1>. HIDE DEF n
<1>. DEFINE Good(k) == CutTo(f[k], a, 5 * a + k)
            All == {k \in Nat : k <= n => Good(k)}
<1>4. 0 \in All
  <2>1. 5 * a + 0 = 5 * a /\ (5 * a) \div 5 = a /\ (5 * a) - (5 * a) = 0 /\ a - a = 0
    OBVIOUS
  <2>2. Text(5 * a, 5 * a) = <<>>
    <3>1. IsQueue(Text(5 * a, 5 * a)) /\ Len(Text(5 * a, 5 * a)) = 0
      BY <1>1, <2>1, TextIs
    <3>. QED  BY <3>1, EmptyQueue, SameQueue
  <2>3. Frames(a, a) = <<>>
    <3>1. a <= a
      OBVIOUS
    <3>2. IsQueue(Frames(a, a)) /\ Len(Frames(a, a)) = a - a
      BY ONLY a \in Nat, <3>1, FramesGrow
    <3>3. Len(Frames(a, a)) = 0
      BY <2>1, <3>2
    <3>. QED  BY <3>2, <3>3, EmptyQueue, SameQueue
  <2>4. Good(0)
    BY <1>3, <2>1, <2>2, <2>3 DEF CutTo, IsCut
  <2>. HIDE DEF Good
  <2>. QED  BY <2>4
<1>5. ASSUME NEW k \in Nat, k \in All PROVE k + 1 \in All
  <2>1. SUFFICES ASSUME k + 1 <= n PROVE Good(k + 1)
    <3>. HIDE DEF Good
    <3>. QED  OBVIOUS
  <2>2. /\ k <= n /\ k + 1 \in 1..n /\ (k + 1) - 1 = k /\ 5 * a + k \in Nat
        /\ (5 * a + k) + 1 = 5 * a + (k + 1) /\ 5 * a <= 5 * a + k
    BY <1>1, <2>1
  <2>3. Good(k)
    <3>. HIDE DEF Good
    <3>. QED  BY <1>5, <2>2
  <2>4. f[k + 1] = Cut(f[k], d.buf[k + 1]) /\ d.buf[k + 1] = Letter(5 * a + (k + 1))
    BY <1>2, <1>3, <2>2
  <2>5. CutTo(f[k + 1], a, (5 * a + k) + 1)
    <3>1. f[k + 1] = Cut(f[k], Letter((5 * a + k) + 1))
      BY <2>2, <2>4
    <3>. QED  BY <2>2, <2>3, <3>1, CutMore
  <2>. QED  BY <2>2, <2>5
<1>6. n \in All
  <2>. HIDE DEF All
  <2>. QED  BY <1>1, <1>4, <1>5, Induction
<1>7. CutTo(f[n], a, y)
  <2>1. Good(n)
    <3>. HIDE DEF Good
    <3>. QED  BY <1>6
  <2>. QED  BY <1>1, <2>1
<1>8. t.dec = [d EXCEPT !.buf = f[n].rest] /\ t.frames = f[n].frames
  BY <1>3
<1>9. IsDecoder(t.dec) /\ t.dec.pending = d.pending /\ (t.dec.cr <=> d.cr) /\ t.dec.buf = f[n].rest
  BY <1>8 DEF IsDecoder
<1>. QED  BY <1>7, <1>8, <1>9 DEF CutTo

\* Byte p is the first of a character of two bytes.
HeadAt(nl, p) == p > 0 /\ Byte(nl, p).b = "head"

\* How many frames are complete with the first p bytes.
FramesIn(nl, p) == LettersIn(nl, p) \div 5

\* The decoder has been given p bytes.
DecodedTo(d, nl, p) ==
  /\ IsDecoder(d)
  /\ d.pending = IF HeadAt(nl, p) THEN <<Byte(nl, p)>> ELSE <<>>
  /\ d.buf = Text(5 * FramesIn(nl, p), LettersIn(nl, p))
  /\ d.cr <=> CrAt(nl, p)

\* The head of a character changes nothing.
LEMMA HeadIsSilent ==
  ASSUME NEW nl \in Styles, NEW p \in Nat, HeadAt(nl, p)
  PROVE  p - 1 \in Nat /\ LettersIn(nl, p - 1) = LettersIn(nl, p) /\ (CrAt(nl, p - 1) <=> CrAt(nl, p))
<1>1. p - 1 \in Nat /\ (p - 1) + 1 = p
  BY DEF HeadAt
<1>2. NextByte(nl, p - 1, Byte(nl, (p - 1) + 1), LettersIn(nl, p - 1))
  BY <1>1, NextLetter
<1>. QED  BY <1>1, <1>2 DEF HeadAt, NextByte

\* The bytes to decode are the n after byte q, up to byte e.
AtHand(nl, p, e, bytes, q, n) ==
  /\ q + n = e /\ LettersIn(nl, q) = LettersIn(nl, p) /\ (CrAt(nl, q) <=> CrAt(nl, p))
  /\ IsQueue(bytes) /\ Len(bytes) = n /\ \A i \in 1..n : bytes[i] = Byte(nl, q + i)

\* The bytes to decode: those of a cut character and the chunk.
LEMMA BytesAtHand ==
  ASSUME NEW nl \in Styles, NEW p \in Nat, NEW l \in Nat \ {0}, NEW d, DecodedTo(d, nl, p),
         NEW chunk, IsQueue(chunk), Len(chunk) = l, \A i \in 1..l : chunk[i] = Byte(nl, p + i),
         NEW bytes, bytes = d.pending \o chunk
  PROVE  \E q \in Nat, n \in Nat \ {0} : AtHand(nl, p, p + l, bytes, q, n)
<1>1. CASE HeadAt(nl, p)
  <2>1. p - 1 \in Nat /\ LettersIn(nl, p - 1) = LettersIn(nl, p) /\ (CrAt(nl, p - 1) <=> CrAt(nl, p))
    BY <1>1, HeadIsSilent
  <2>2. l + 1 \in Nat \ {0} /\ (p - 1) + (l + 1) = p + l
    OBVIOUS
  <2>3. d.pending = <<Byte(nl, p)>>
    BY <1>1 DEF DecodedTo
  <2>4. /\ IsQueue(bytes) /\ Len(bytes) = 1 + l /\ bytes[1] = Byte(nl, p)
        /\ \A i \in 1..l : bytes[1 + i] = chunk[i]
    <3>1. IsQueue(<<Byte(nl, p)>>) /\ Len(<<Byte(nl, p)>>) = 1 /\ <<Byte(nl, p)>>[1] = Byte(nl, p)
      BY One
    <3>2. PICK u : u = <<Byte(nl, p)>>
      OBVIOUS
    <3>3. /\ IsQueue(u \o chunk) /\ Len(u \o chunk) = Len(u) + Len(chunk)
          /\ \A i \in 1..Len(u) : (u \o chunk)[i] = u[i]
          /\ \A i \in 1..Len(chunk) : (u \o chunk)[Len(u) + i] = chunk[i]
      BY <3>1, <3>2, Concats
    <3>4. bytes = u \o chunk /\ 1 \in 1..1
      BY <2>3, <3>2
    <3>. QED  BY <3>1, <3>2, <3>3, <3>4
  <2>5. \A i \in 1..(l + 1) : bytes[i] = Byte(nl, (p - 1) + i)
    <3>. TAKE i \in 1..(l + 1)
    <3>1. CASE i = 1
      <4>1. (p - 1) + 1 = p
        OBVIOUS
      <4>. QED  BY <2>4, <3>1, <4>1
    <3>2. CASE i # 1
      <4>1. i - 1 \in 1..l /\ 1 + (i - 1) = i /\ p + (i - 1) = (p - 1) + i
        BY <3>2
      <4>2. bytes[1 + (i - 1)] = chunk[i - 1] /\ chunk[i - 1] = Byte(nl, p + (i - 1))
        BY <2>4, <4>1
      <4>. QED  BY <4>1, <4>2
    <3>. QED  BY <3>1, <3>2
  <2>6. Len(bytes) = l + 1
    BY <2>4
  <2>7. AtHand(nl, p, p + l, bytes, p - 1, l + 1)
    BY <2>1, <2>2, <2>4, <2>5, <2>6 DEF AtHand
  <2>. QED  BY <2>1, <2>2, <2>7
<1>2. CASE ~HeadAt(nl, p)
  <2>1. d.pending = <<>>
    BY <1>2 DEF DecodedTo
  <2>2. <<>> \o chunk = chunk
    BY EmptyQueue, Concats
  <2>3. AtHand(nl, p, p + l, bytes, p, l)
    BY <2>1, <2>2 DEF AtHand
  <2>. QED  BY <2>3
<1>. QED  BY <1>1, <1>2

\* push_bytes takes a chunk, however it was cut.
LEMMA BytesPushed ==
  ASSUME NEW nl \in Styles, NEW p \in Nat, NEW l \in Nat \ {0}, NEW d, DecodedTo(d, nl, p),
         NEW chunk, IsQueue(chunk), Len(chunk) = l, \A i \in 1..l : chunk[i] = Byte(nl, p + i),
         NEW r, r = PushBytes(d, chunk)
  PROVE  /\ DecodedTo(r.dec, nl, p + l)
         /\ FramesIn(nl, p) \in Nat /\ FramesIn(nl, p + l) \in Nat /\ FramesIn(nl, p) <= FramesIn(nl, p + l)
         /\ r.frames = Frames(FramesIn(nl, p), FramesIn(nl, p + l))
<1>2. PICK bytes : bytes = d.pending \o chunk
  OBVIOUS
<1>18. PICK q \in Nat, n \in Nat \ {0} : AtHand(nl, p, p + l, bytes, q, n)
  BY <1>2, BytesAtHand
<1>1. /\ q + n = p + l /\ LettersIn(nl, q) = LettersIn(nl, p) /\ (CrAt(nl, q) <=> CrAt(nl, p))
      /\ IsQueue(bytes) /\ Len(bytes) = n /\ \A i \in 1..n : bytes[i] = Byte(nl, q + i)
  BY <1>18 DEF AtHand
<1>3. /\ IsQueue(bytes) /\ Len(bytes) = n /\ \A i \in 1..n : bytes[i] = Byte(nl, q + i)
      /\ bytes # <<>> /\ Last(bytes) = Byte(nl, p + l)
  <2>1. IsQueue(bytes) /\ Len(bytes) = n /\ \A i \in 1..n : bytes[i] = Byte(nl, q + i)
    BY <1>1, <1>2
  <2>2. bytes # <<>>
    BY <2>1, EmptyQueue
  <2>3. n \in 1..n
    OBVIOUS
  <2>. QED  BY <1>1, <2>1, <2>2, <2>3 DEF Last
<1>. DEFINE a == FramesIn(nl, p)
            y == LettersIn(nl, p + l)
            keep == IF HeadAt(nl, p + l) THEN <<Byte(nl, p + l)>> ELSE <<>>
<1>4. LettersIn(nl, p) \in Nat /\ a \in Nat /\ 5 * a <= LettersIn(nl, p)
  <2>1. LettersIn(nl, p) \in Nat
    BY NextLetter
  <2>. QED  BY <2>1 DEF FramesIn
<1>5. p + l \in Nat /\ p + l > 0 /\ y \in Nat
  <2>1. p + l \in Nat /\ p + l > 0
    OBVIOUS
  <2>. QED  BY <2>1, NextLetter
<1>6. PICK got : got = DecodeAvailable(bytes)
  OBVIOUS
<1>7. PICK m \in Nat : /\ got.keep = keep /\ Len(got.chars) = m
                       /\ \A i \in 1..m : got.chars[i] = Byte(nl, q + i)
                       /\ LettersIn(nl, q + m) = y /\ (CrAt(nl, q + m) <=> CrAt(nl, p + l))
  <2>1. CASE HeadAt(nl, p + l)
    <3>1. /\ p + l - 1 \in Nat /\ LettersIn(nl, p + l - 1) = y
          /\ (CrAt(nl, p + l - 1) <=> CrAt(nl, p + l))
      BY <1>5, <2>1, HeadIsSilent
    <3>2. n - 1 \in Nat /\ q + (n - 1) = p + l - 1 /\ \A i \in 1..(n - 1) : i \in 1..n
      BY <1>1
    <3>3. got = [keep |-> <<Last(bytes)>>, chars |-> Front(bytes)]
      BY <1>3, <1>6, <2>1 DEF DecodeAvailable, HeadAt
    <3>4. got.keep = keep
      BY <1>3, <2>1, <3>3
    <3>5. PICK f : f = Front(bytes)
      OBVIOUS
    <3>6. Len(f) = Len(bytes) - 1 /\ \A i \in 1..(Len(bytes) - 1) : f[i] = bytes[i]
      BY ONLY <1>3, <3>5, FrontOf
    <3>7. Len(f) = n - 1 /\ \A i \in 1..(n - 1) : f[i] = Byte(nl, q + i)
      BY <1>3, <3>2, <3>6
    <3>8. got.chars = f
      BY <3>3, <3>5
    <3>. HIDE DEF keep, y
    <3>. QED  BY <3>1, <3>2, <3>4, <3>7, <3>8
  <2>2. CASE ~HeadAt(nl, p + l)
    <3>1. got = [keep |-> <<>>, chars |-> bytes]
      BY <1>3, <1>5, <1>6, <2>2 DEF DecodeAvailable, HeadAt
    <3>2. got.keep = keep /\ got.chars = bytes
      BY <2>2, <3>1
    <3>3. LettersIn(nl, q + n) = y /\ (CrAt(nl, q + n) <=> CrAt(nl, p + l))
      BY <1>1
    <3>. HIDE DEF keep, y
    <3>. QED  BY <1>3, <3>2, <3>3
  <2>. QED  BY <2>1, <2>2
<1>. HIDE DEF keep, y, a
<1>8. Decodes(d, d.pending, 5 * a, nl, q)
  BY <1>1 DEF DecodedTo, Decodes, a
<1>9. PICK b : b = Absorb(d, got.chars)
  OBVIOUS
<1>10. /\ LettersIn(nl, q) <= LettersIn(nl, q + m)
       /\ Decodes(b, d.pending, 5 * a, nl, q + m)
  <2>1. 5 * a \in Nat /\ 5 * a <= LettersIn(nl, q)
    BY <1>1, <1>4
  <2>. QED  BY ONLY <1>7, <1>8, <1>9, <2>1, nl \in Styles, q \in Nat, m \in Nat, BytesAbsorbed
<1>11. IsDecoder(b) /\ b.buf = Text(5 * a, y) /\ (b.cr <=> CrAt(nl, p + l)) /\ LettersIn(nl, p) <= y
  BY <1>1, <1>7, <1>10 DEF Decodes
<1>12. PICK c : c = [b EXCEPT !.pending = got.keep]
  OBVIOUS
<1>13. IsDecoder(c) /\ c.pending = keep /\ c.buf = Text(5 * a, y) /\ (c.cr <=> CrAt(nl, p + l))
  BY <1>7, <1>11, <1>12 DEF IsDecoder
<1>14. r = TakeFrames(c)
  BY <1>2, <1>6, <1>9, <1>12 DEF PushBytes
<1>15. /\ IsDecoder(r.dec) /\ r.dec.pending = c.pending /\ (r.dec.cr <=> c.cr)
       /\ r.dec.buf = Text(5 * (y \div 5), y)
       /\ r.frames = Frames(a, y \div 5)
  <2>1. 5 * a <= y
    BY <1>4, <1>5, <1>11
  <2>. QED  BY <1>4, <1>5, <1>13, <1>14, <2>1, FramesTaken
<1>16. FramesIn(nl, p + l) = y \div 5 /\ y \div 5 \in Nat /\ a <= y \div 5
  <2>1. a = LettersIn(nl, p) \div 5
    BY DEF a, FramesIn
  <2>2. LettersIn(nl, p) \div 5 <= y \div 5
    BY <1>4, <1>5, <1>11
  <2>. QED  BY <1>5, <2>1, <2>2 DEF FramesIn, y
<1>17. DecodedTo(r.dec, nl, p + l)
  BY <1>13, <1>15, <1>16 DEF DecodedTo, keep, y
<1>. QED  BY <1>4, <1>15, <1>16, <1>17 DEF a

\* How many frames' texts have come with the first p bytes.
TextsIn(nl, p) == (LettersIn(nl, p) + 2) \div 5

\* A frame is complete some characters after its text is.
LEMMA TextsAndFrames ==
  ASSUME NEW nl \in Styles, NEW p \in Nat
  PROVE  \E s \in 0..4 :
           /\ FramesIn(nl, p) \in Nat /\ LettersIn(nl, p) \in Nat
           /\ LettersIn(nl, p) = 5 * FramesIn(nl, p) + s
           /\ TextsIn(nl, p) = FramesIn(nl, p) + IF s >= 3 THEN 1 ELSE 0
           /\ HeadAt(nl, p) => s = 2
<1>1. PICK y : y = LettersIn(nl, p)
  OBVIOUS
<1>2. y \in Nat
  BY <1>1, NextLetter
<1>3. PICK h, s : h = y \div 5 /\ s = y % 5
  OBVIOUS
<1>4. h \in Nat /\ s \in 0..4 /\ y = 5 * h + s
  BY <1>2, <1>3
<1>5. (y + 2) \div 5 = h + IF s >= 3 THEN 1 ELSE 0
  BY <1>2, <1>4
<1>6. ASSUME HeadAt(nl, p) PROVE s = 2
  <2>1. p - 1 \in Nat /\ (p - 1) + 1 = p
    BY <1>6 DEF HeadAt
  <2>2. PICK k \in Nat, j \in 0..(Width(nl) - 1) : Stands(nl, k, j, p - 1)
    BY <2>1, Located
  <2>3. /\ Byte(nl, p) = [b |-> Layout(nl)[j + 1], of |-> k + 1]
        /\ y = IF j + 1 = Width(nl) THEN 5 * k + 5 ELSE 5 * k + Letters(nl)[j + 2]
    BY <1>1, <2>1, <2>2 DEF Stands
  <2>4. Layout(nl)[j + 1] = "head"
    BY <1>6, <2>3 DEF HeadAt
  <2>5. y = 5 * k + 2
    <3>1. CASE nl = "lf"
      <4>1. j \in 0..5 /\ Width(nl) = 6
        BY <3>1, Layouts
      <4>2. j = 2
        BY <2>4, <3>1, <4>1, Layouts
      <4>. QED  BY <2>3, <3>1, <4>1, <4>2 DEF Letters
    <3>2. CASE nl = "cr"
      <4>1. j \in 0..5 /\ Width(nl) = 6
        BY <3>2, Layouts
      <4>2. j = 2
        BY <2>4, <3>2, <4>1, Layouts
      <4>. QED  BY <2>3, <3>2, <4>1, <4>2 DEF Letters
    <3>3. CASE nl = "crlf"
      <4>1. j \in 0..8 /\ Width(nl) = 9
        BY <3>3, Layouts
      <4>2. j = 3
        BY <2>4, <3>3, <4>1, Layouts
      <4>. QED  BY <2>3, <3>3, <4>1, <4>2 DEF Letters
    <3>. QED  BY <3>1, <3>2, <3>3 DEF Styles
  <2>. QED  BY <1>4, <2>5
<1>. QED  BY <1>1, <1>2, <1>3, <1>4, <1>5, <1>6 DEF FramesIn, TextsIn

\* What is left at the end of a body is a frame if its text has come.
LEMMA Flushed ==
  ASSUME NEW nl \in Styles, NEW p \in Nat, NEW d, DecodedTo(d, nl, p)
  PROVE  Flush(d) = Frames(FramesIn(nl, p), TextsIn(nl, p))
<1>1. PICK h \in Nat, y \in Nat, s \in 0..4 :
        /\ h = FramesIn(nl, p) /\ y = LettersIn(nl, p) /\ y = 5 * h + s
        /\ TextsIn(nl, p) = h + IF s >= 3 THEN 1 ELSE 0
        /\ HeadAt(nl, p) => s = 2
  BY TextsAndFrames
<1>2. /\ IsQueue(d.buf) /\ Len(d.buf) = s /\ DOMAIN d.buf = 1..s
      /\ \A i \in 1..s : d.buf[i] = Letter(5 * h + i)
  <2>1. PICK x \in Nat : x = 5 * h
    OBVIOUS
  <2>2. d.buf = Text(x, y)
    BY <1>1, <2>1 DEF DecodedTo
  <2>3. x <= y /\ y - x = s
    BY <1>1, <2>1
  <2>4. /\ IsQueue(d.buf) /\ Len(d.buf) = y - x /\ DOMAIN d.buf = 1..(y - x)
        /\ \A i \in 1..(y - x) : d.buf[i] = Letter(x + i)
    BY ONLY x \in Nat, y \in Nat, <2>2, <2>3, TextIs
  <2>5. /\ IsQueue(d.buf) /\ Len(d.buf) = s /\ DOMAIN d.buf = 1..s
        /\ \A i \in 1..s : d.buf[i] = Letter(x + i)
    BY <2>3, <2>4, Zenon
  <2>. QED  BY <2>1, <2>5, Zenon
<1>3. PICK bad : bad = [b |-> "bad", of |-> 0]
  OBVIOUS
<1>4. Flush(d) = ParseBlock(d.buf \o IF d.pending = <<>> THEN <<>> ELSE <<bad>>)
  BY <1>3 DEF Flush
<1>5. d.buf \o <<>> = d.buf
  BY <1>2, EmptyQueue, Concats
<1>6. CASE s >= 3
  <2>1. d.pending = <<>>
    BY <1>1, <1>6 DEF DecodedTo
  <2>2. Flush(d) = ParseBlock(d.buf)
    BY <1>4, <1>5, <2>1
  <2>3. s \in {3, 4}
    BY <1>6
  <2>4. ParseBlock(d.buf) = <<h + 1>>
    BY <1>2, <2>3, WholeBlock
  <2>5. Frames(h, h) \o <<h + 1>> = Frames(h, h + 1) /\ Frames(h, h) = <<>>
    <3>1. h <= h /\ h - h = 0
      OBVIOUS
    <3>2. Frames(h, h) \o <<h + 1>> = Frames(h, h + 1) /\ IsQueue(Frames(h, h)) /\ Len(Frames(h, h)) = h - h
      BY ONLY h \in Nat, <3>1, FramesGrow
    <3>3. Len(Frames(h, h)) = 0
      BY <3>1, <3>2
    <3>. QED  BY <3>2, <3>3, EmptyQueue, SameQueue
  <2>6. <<>> \o <<h + 1>> = <<h + 1>>
    BY One, Concats
  <2>7. TextsIn(nl, p) = h + 1
    BY <1>1, <1>6
  <2>. QED  BY <1>1, <2>2, <2>4, <2>5, <2>6, <2>7
<1>7. CASE ~(s >= 3)
  <2>1. \A i \in 1..s : d.buf[i].b # "tail"
    <3>. TAKE i \in 1..s
    <3>1. PICK j \in 0..1 : i = j + 1
      <4>1. i - 1 \in 0..1 /\ i = (i - 1) + 1
        BY <1>7
      <4>. QED  BY <4>1
    <3>2. 5 * h + i = 5 * h + j + 1 /\ j \in 0..4 /\ j # 2
      BY <3>1
    <3>3. Letter(5 * h + j + 1) =
            [b |-> IF j = 0 THEN "event" ELSE IF j = 2 THEN "tail" ELSE "lf", of |-> h + 1]
      BY ONLY h \in Nat, <3>2, LetterOf
    <3>. QED  BY <1>2, <3>2, <3>3
  <2>2. ParseBlock(d.buf) = <<>>
    BY <1>2, <2>1, HalfBlock
  <2>3. ParseBlock(d.buf \o <<bad>>) = <<>>
    <3>1. PICK block : block = Append(d.buf, bad)
      OBVIOUS
    <3>2. /\ IsQueue(block) /\ DOMAIN block = 1..(s + 1)
          /\ \A i \in 1..s : block[i] = d.buf[i]
          /\ block[s + 1] = bad
      BY <1>2, <3>1, Queued
    <3>3. \A i \in DOMAIN block : block[i].b # "tail"
      <4>. TAKE i \in DOMAIN block
      <4>1. CASE i = s + 1
        BY <1>3, <3>2, <4>1
      <4>2. CASE i # s + 1
        <5>1. i \in 1..s
          BY <3>2, <4>2
        <5>. QED  BY <2>1, <3>2, <5>1
      <4>. QED  BY <4>1, <4>2
    <3>4. ParseBlock(block) = <<>>
      BY <3>2, <3>3, HalfBlock
    <3>5. block = d.buf \o <<bad>>
      BY <1>2, <3>1, Appended
    <3>. QED  BY <3>4, <3>5
  <2>4. Flush(d) = <<>>
    BY <1>4, <1>5, <2>2, <2>3
  <2>5. TextsIn(nl, p) = h
    BY <1>1, <1>7
  <2>6. Frames(h, h) = <<>>
    <3>1. h <= h /\ h - h = 0
      OBVIOUS
    <3>2. IsQueue(Frames(h, h)) /\ Len(Frames(h, h)) = h - h
      BY ONLY h \in Nat, <3>1, FramesGrow
    <3>3. Len(Frames(h, h)) = 0
      BY <3>1, <3>2
    <3>. QED  BY <3>2, <3>3, EmptyQueue, SameQueue
  <2>. QED  BY <1>1, <2>4, <2>5, <2>6
<1>. QED  BY <1>6, <1>7

\* The last byte of its text tells which frames' texts have come.
LEMMA TextHasCome ==
  ASSUME NEW nl \in Styles, NEW p \in Nat, NEW k \in Nat \ {0}
  PROVE  (\E j \in DOMAIN Layout(nl) : Layout(nl)[j] = "tail" /\ (k - 1) * Width(nl) + j <= p)
           <=> k <= TextsIn(nl, p)
<1>1. CASE nl \in {"lf", "cr"}
  <2>1. DOMAIN Layout(nl) = 1..6 /\ Width(nl) = 6
    BY <1>1, Layouts DEF Layout
  <2>2. \A j \in 1..6 : Layout(nl)[j] = "tail" <=> j = 4
    BY <1>1, Layouts
  <2>3. PICK h, i : h = p \div 6 /\ i = p % 6
    OBVIOUS
  <2>4. h \in Nat /\ i \in 0..5 /\ p = 6 * h + i
    BY <2>3
  <2>5. LettersIn(nl, p) = 5 * h + Letters(nl)[i + 1]
    BY <2>1, <2>3 DEF LettersIn
  <2>6. Letters(nl)[i + 1] \in 0..4 /\ (Letters(nl)[i + 1] >= 3 <=> i >= 4)
    BY <1>1, <2>4 DEF Letters
  <2>7. TextsIn(nl, p) = h + IF i >= 4 THEN 1 ELSE 0
    <3>1. PICK l \in 0..4 : l = Letters(nl)[i + 1]
      BY <2>6
    <3>2. (5 * h + l + 2) \div 5 = h + IF l >= 3 THEN 1 ELSE 0
      BY <2>4
    <3>. QED  BY <2>5, <2>6, <3>1, <3>2 DEF TextsIn
  <2>8. (k - 1) * 6 + 4 <= p <=> k <= h + IF i >= 4 THEN 1 ELSE 0
    BY <2>4
  <2>. QED  BY <2>1, <2>2, <2>7, <2>8
<1>2. CASE nl = "crlf"
  <2>1. DOMAIN Layout(nl) = 1..9 /\ Width(nl) = 9
    BY <1>2, Layouts DEF Layout
  <2>2. \A j \in 1..9 : Layout(nl)[j] = "tail" <=> j = 5
    BY <1>2, Layouts
  <2>3. PICK h, i : h = p \div 9 /\ i = p % 9
    OBVIOUS
  <2>4. h \in Nat /\ i \in 0..8 /\ p = 9 * h + i
    BY <2>3
  <2>5. LettersIn(nl, p) = 5 * h + Letters(nl)[i + 1]
    BY <2>1, <2>3 DEF LettersIn
  <2>6. Letters(nl)[i + 1] \in 0..5 /\ (Letters(nl)[i + 1] >= 3 <=> i >= 5) /\ Letters(nl)[i + 1] <= 5
    BY <1>2, <2>4 DEF Letters
  <2>7. TextsIn(nl, p) = h + IF i >= 5 THEN 1 ELSE 0
    <3>1. PICK l \in 0..5 : l = Letters(nl)[i + 1]
      BY <2>6
    <3>2. (5 * h + l + 2) \div 5 = h + IF l >= 3 THEN 1 ELSE 0
      BY <2>4
    <3>. QED  BY <2>5, <2>6, <3>1, <3>2 DEF TextsIn
  <2>8. (k - 1) * 9 + 5 <= p <=> k <= h + IF i >= 5 THEN 1 ELSE 0
    BY <2>4
  <2>. QED  BY <2>1, <2>2, <2>7, <2>8
<1>. QED  BY <1>1, <1>2 DEF Styles

-----------------------------------------------------------------------------
(***************************************************************************)
(* AnthropicState: the events it tells are legal.                          *)
(***************************************************************************)

IsNative(m) ==
  m = [blocks |-> m.blocks, open |-> m.open, started |-> m.started, reason |-> m.reason,
       out |-> m.out, final |-> m.final]

OpenBlocks(m) == {ix + 1 : ix \in DOMAIN m.open}

\* The message is still being told: its open blocks are those the provider has open.
Talking(m) ==
  /\ IsNative(m) /\ IsQueue(m.blocks)
  /\ DOMAIN m.open \subseteq 0..(MaxBlocks - 1)
  /\ \A ix \in DOMAIN m.open : m.open[ix] = ix + 1
  /\ Tells(m, OpenBlocks(m), FALSE)

\* The message starts.
LEMMA TalkStarted ==
  ASSUME IsQueue(told), NEW m, Talking(m), NEW r, r = EnsureStarted(m)
  PROVE  /\ Talking(r) /\ r.started
         /\ r.blocks = m.blocks /\ r.open = m.open /\ r.final = m.final
<1>1. CASE m.started
  BY <1>1 DEF EnsureStarted
<1>2. CASE ~m.started
  <2>1. /\ IsNative(r) /\ r.started /\ r.out = Append(m.out, Ev("start", 0))
        /\ r.blocks = m.blocks /\ r.open = m.open /\ r.final = m.final
    BY <1>2 DEF EnsureStarted, Emit, Talking, IsNative
  <2>2. Tells(r, OpenBlocks(m), FALSE)
    BY <1>2, <2>1, TellsStart DEF Talking
  <2>3. OpenBlocks(r) = OpenBlocks(m)
    BY <2>1 DEF OpenBlocks
  <2>4. Tells(r, OpenBlocks(r), FALSE)
    BY <2>2, <2>3, Zenon
  <2>. QED  BY <2>1, <2>4 DEF Talking
<1>. QED  BY <1>1, <1>2

\* A block is closed.
LEMMA TalkClosed ==
  ASSUME IsQueue(told), NEW m, Talking(m), NEW ix \in DOMAIN m.open, NEW r, r = Closed(m, ix)
  PROVE  /\ Talking(r) /\ r.blocks = m.blocks /\ r.final = m.final /\ (r.started <=> m.started)
         /\ DOMAIN r.open = DOMAIN m.open \ {ix}
<1>1. /\ IsNative(r) /\ r.out = Append(m.out, Ev("close", ix + 1))
      /\ r.blocks = m.blocks /\ r.final = m.final /\ (r.started <=> m.started)
      /\ r.open = [x \in DOMAIN m.open \ {ix} |-> m.open[x]]
  BY DEF Closed, Emit, Talking, IsNative
<1>2. /\ DOMAIN r.open = DOMAIN m.open \ {ix}
      /\ \A x \in DOMAIN m.open \ {ix} : r.open[x] = m.open[x]
  BY <1>1
<1>3. ix + 1 \in OpenBlocks(m)
  BY DEF OpenBlocks
<1>4. Tells(r, IF "close" = "close" THEN OpenBlocks(m) \ {ix + 1} ELSE OpenBlocks(m), FALSE)
  BY <1>1, <1>3, TellsOn DEF Talking
<1>5. OpenBlocks(r) = OpenBlocks(m) \ {ix + 1}
  <2>1. DOMAIN m.open \subseteq Int
    BY DEF Talking
  <2>. QED  BY <1>2, <2>1 DEF OpenBlocks
<1>6. Tells(r, OpenBlocks(r), FALSE)
  BY <1>4, <1>5
<1>7. /\ DOMAIN r.open \subseteq 0..(MaxBlocks - 1)
      /\ \A x \in DOMAIN r.open : r.open[x] = x + 1
  BY <1>2 DEF Talking
<1>. QED  BY <1>1, <1>2, <1>6, <1>7 DEF Talking

\* close_dangling leaves none open.
LEMMA NoneDangling ==
  ASSUME IsQueue(told), NEW m, Talking(m), NEW r, r = CloseDangling(m)
  PROVE  /\ Talking(r) /\ DOMAIN r.open = {} /\ r.blocks = m.blocks /\ r.final = m.final
         /\ (r.started <=> m.started)
<1>1. MaxBlocks \in Nat
  BY WireAssumption
<1>2. PICK f : /\ f[0] = m
               /\ \A k \in 1..MaxBlocks :
                    f[k] = IF k - 1 \in DOMAIN m.open THEN Closed(f[k - 1], k - 1) ELSE f[k - 1]
               /\ r = f[MaxBlocks]
  BY <1>1, DanglingRuns
<1>. DEFINE Good(k) == /\ Talking(f[k]) /\ f[k].blocks = m.blocks /\ f[k].final = m.final
                       /\ (f[k].started <=> m.started)
                       /\ DOMAIN f[k].open = {x \in DOMAIN m.open : x >= k}
            All == {k \in Nat : k <= MaxBlocks => Good(k)}
<1>3. DOMAIN m.open \subseteq 0..(MaxBlocks - 1)
  BY DEF Talking
<1>4. 0 \in All
  <2>1. DOMAIN m.open = {x \in DOMAIN m.open : x >= 0}
    BY <1>1, <1>3
  <2>2. Good(0)
    BY <1>2, <2>1
  <2>. HIDE DEF Good
  <2>. QED  BY <2>2
<1>5. ASSUME NEW k \in Nat, k \in All PROVE k + 1 \in All
  <2>1. SUFFICES ASSUME k + 1 <= MaxBlocks PROVE Good(k + 1)
    <3>. HIDE DEF Good
    <3>. QED  OBVIOUS
  <2>2. k <= MaxBlocks /\ k + 1 \in 1..MaxBlocks /\ (k + 1) - 1 = k
    BY <1>1, <2>1
  <2>3. Good(k)
    <3>. HIDE DEF Good
    <3>. QED  BY <1>5, <2>2
  <2>4. f[k + 1] = IF k \in DOMAIN m.open THEN Closed(f[k], k) ELSE f[k]
    BY <1>2, <2>2
  <2>5. CASE k \in DOMAIN m.open
    <3>1. k \in DOMAIN f[k].open /\ f[k + 1] = Closed(f[k], k)
      BY <2>3, <2>4, <2>5
    <3>2. PICK a, b : a = f[k] /\ b = f[k + 1]
      OBVIOUS
    <3>3. /\ Talking(b) /\ b.blocks = a.blocks /\ b.final = a.final /\ (b.started <=> a.started)
          /\ DOMAIN b.open = DOMAIN a.open \ {k}
      BY ONLY IsQueue(told), <2>3, <3>1, <3>2, TalkClosed
    <3>4. {x \in DOMAIN m.open : x >= k} \ {k} = {x \in DOMAIN m.open : x >= k + 1}
      BY <1>1, <1>3
    <3>. QED  BY <2>3, <3>2, <3>3, <3>4
  <2>6. CASE k \notin DOMAIN m.open
    <3>1. {x \in DOMAIN m.open : x >= k} = {x \in DOMAIN m.open : x >= k + 1}
      BY <1>1, <1>3, <2>6
    <3>. QED  BY <2>3, <2>4, <2>6, <3>1
  <2>. QED  BY <2>5, <2>6
<1>6. MaxBlocks \in All
  <2>. HIDE DEF All
  <2>. QED  BY <1>1, <1>4, <1>5, Induction
<1>7. Good(MaxBlocks)
  <2>. HIDE DEF Good
  <2>. QED  BY <1>1, <1>6
<1>8. {x \in DOMAIN m.open : x >= MaxBlocks} = {}
  BY <1>1, <1>3
<1>. QED  BY <1>2, <1>7, <1>8

\* The message ends.
LEMMA TalkEnded ==
  ASSUME IsQueue(told), NEW m, Talking(m), NEW how, NEW r, r = Ended(m, how)
  PROVE  /\ IsNative(r) /\ r.blocks = m.blocks /\ r.final = how
         /\ IsQueue(r.out) /\ Legal(told \o r.out, FALSE)
<1>1. PICK s : s = EnsureStarted(m)
  OBVIOUS
<1>2. Talking(s) /\ s.started /\ s.blocks = m.blocks
  BY <1>1, TalkStarted
<1>3. PICK e : e = CloseDangling(s)
  OBVIOUS
<1>4. Talking(e) /\ DOMAIN e.open = {} /\ e.blocks = m.blocks /\ e.started
  BY <1>2, <1>3, NoneDangling
<1>5. OpenBlocks(e) = {}
  BY <1>4 DEF OpenBlocks
<1>6. PICK kind \in {"done", "error"} : kind = IF how \in {"error", "aborted"} THEN "error" ELSE "done"
  OBVIOUS
<1>7. r = Emit([e EXCEPT !.final = how], Ev(kind, 0))
  BY <1>1, <1>3, <1>6 DEF Ended
<1>8. /\ IsNative(r) /\ r.blocks = m.blocks /\ r.final = how /\ r.out = Append(e.out, Ev(kind, 0))
  BY <1>4, <1>7 DEF Emit, Talking, IsNative
<1>9. Tells(e, OpenBlocks(e), FALSE)
  BY <1>4 DEF Talking
<1>10. IsQueue(r.out) /\ Legal(told \o r.out, FALSE)
  BY <1>4, <1>5, <1>8, <1>9, TellsEnd
<1>. QED  BY <1>8, <1>10

\* A block is opened.
LEMMA TalkOpened ==
  ASSUME IsQueue(told), NEW m, Talking(m), NEW f, f.ix = Len(m.blocks), f.ix < MaxBlocks,
         NEW r, r = OnBlockStart(m, f)
  PROVE  /\ Talking(r) /\ r.final = m.final
         /\ r.blocks = Append(m.blocks, Block(f.what))
         /\ DOMAIN r.open = DOMAIN m.open \cup {f.ix}
<1>1. PICK s, n : s = EnsureStarted(m) /\ n = Len(m.blocks)
  OBVIOUS
<1>2. Talking(s) /\ s.started /\ s.blocks = m.blocks /\ s.open = m.open /\ s.final = m.final
  BY <1>1, TalkStarted
<1>3. PICK p : p = PushBlock(s, Block(f.what))
  OBVIOUS
<1>4. n \in Nat /\ IsQueue(m.blocks)
  BY <1>1, Queued DEF Talking
<1>5. /\ IsNative(p) /\ p.blocks = Append(m.blocks, Block(f.what))
      /\ p.out = Append(s.out, Ev("open", n + 1))
      /\ p.open = m.open /\ p.started /\ p.final = m.final
  BY <1>1, <1>2, <1>3 DEF PushBlock, Emit, Talking, IsNative
<1>6. IsQueue(p.blocks) /\ Len(p.blocks) = n + 1
  <2>1. IsQueue(p.blocks) /\ DOMAIN p.blocks = 1..(n + 1)
    BY <1>1, <1>4, <1>5, Queued
  <2>. QED  BY <1>4, <2>1, LenProperties DEF IsQueue
<1>7. /\ IsNative(r) /\ r.blocks = p.blocks /\ r.out = p.out /\ r.started /\ r.final = m.final
      /\ r.open = With(m.open, n, n + 1)
  <2>1. r = [p EXCEPT !.open = With(@, f.ix, Len(p.blocks))]
    BY <1>1, <1>3 DEF OnBlockStart
  <2>2. IsNative(r) /\ r.blocks = p.blocks /\ r.out = p.out /\ (r.started <=> p.started)
        /\ r.final = p.final /\ r.open = With(p.open, f.ix, Len(p.blocks))
    BY <1>5, <2>1 DEF IsNative
  <2>. QED  BY <1>1, <1>5, <1>6, <2>2
<1>8. /\ DOMAIN r.open = DOMAIN m.open \cup {n} /\ r.open[n] = n + 1
      /\ \A x \in DOMAIN m.open \ {n} : r.open[x] = m.open[x]
  BY <1>7 DEF With
<1>9. Tells(r, OpenBlocks(s) \cup {Len(r.blocks)}, FALSE)
  <2>1. Len(s.blocks) = n /\ Len(r.blocks) = n + 1
    BY <1>1, <1>2, <1>6, <1>7
  <2>2. r.out = Append(s.out, Ev("open", Len(s.blocks) + 1))
    BY <1>5, <1>7, <2>1
  <2>. QED  BY <1>2, <1>7, <2>1, <2>2, TellsOpen DEF Talking
<1>10. OpenBlocks(r) = OpenBlocks(s) \cup {Len(r.blocks)}
  <2>1. OpenBlocks(s) = OpenBlocks(m) /\ Len(r.blocks) = n + 1
    BY <1>2, <1>6, <1>7 DEF OpenBlocks
  <2>. QED  BY <1>8, <2>1 DEF OpenBlocks
<1>11. Tells(r, OpenBlocks(r), FALSE)
  BY <1>9, <1>10, Zenon
<1>12. DOMAIN r.open \subseteq 0..(MaxBlocks - 1) /\ \A x \in DOMAIN r.open : r.open[x] = x + 1
  <2>1. n \in 0..(MaxBlocks - 1)
    BY <1>1, <1>4, WireAssumption
  <2>. QED  BY <1>8, <2>1 DEF Talking
<1>. QED  BY <1>1, <1>5, <1>6, <1>7, <1>8, <1>11, <1>12 DEF Talking

\* Only block i is another in r, and what there is to tell of it is told or not.
ExtendedAt(m, r, i, b) ==
  /\ IsNative(r) /\ r.open = m.open /\ (r.started <=> m.started)
  /\ r.out = m.out \/ r.out = Append(m.out, Ev("delta", i))
  /\ IsQueue(r.blocks) /\ Len(r.blocks) = Len(m.blocks) /\ Len(m.blocks) \in Nat
  /\ i \in 1..Len(m.blocks) /\ r.blocks[i] = b
  /\ \A j \in 1..Len(m.blocks) : j # i => r.blocks[j] = m.blocks[j]

\* A block is extended, aloud or silently.
LEMMA TalkExtended ==
  ASSUME IsQueue(told), NEW m, Talking(m), NEW ix \in DOMAIN m.open, NEW i, i = ix + 1, NEW b,
         NEW r, IsNative(r), r.blocks = [m.blocks EXCEPT ![i] = b], r.open = m.open,
         r.started <=> m.started, r.out = m.out \/ r.out = Append(m.out, Ev("delta", i))
  PROVE  Talking(r) /\ ExtendedAt(m, r, i, b)
<1>1. PICK q, n : q = m.blocks /\ n = Len(m.blocks)
  OBVIOUS
<1>2. r.blocks = [j \in DOMAIN q |-> r.blocks[j]]
  BY <1>1
<1>3. IsQueue(r.blocks) /\ n \in Nat /\ Len(r.blocks) = n /\ DOMAIN q = 1..n
  BY <1>1, <1>2, Replaced DEF Talking
<1>4. i \in OpenBlocks(m)
  BY DEF OpenBlocks
<1>5. i \in 1..n
  BY <1>1, <1>4 DEF Talking, Tells, Story
<1>6. Tells(r, OpenBlocks(m), FALSE)
  <2>1. CASE r.out = m.out
    BY <1>1, <1>3, <2>1 DEF Talking, Tells
  <2>2. CASE r.out = Append(m.out, Ev("delta", i))
    <3>1. Tells(r, IF "delta" = "close" THEN OpenBlocks(m) \ {i} ELSE OpenBlocks(m), FALSE)
      BY <1>1, <1>3, <1>4, <2>2, TellsOn DEF Talking
    <3>. QED  BY <3>1
  <2>. QED  BY <2>1, <2>2
<1>7. OpenBlocks(r) = OpenBlocks(m)
  BY DEF OpenBlocks
<1>8. Tells(r, OpenBlocks(r), FALSE)
  BY <1>6, <1>7, Zenon
<1>9. /\ r.blocks[i] = b
      /\ \A j \in 1..n : j # i => r.blocks[j] = m.blocks[j]
  BY <1>1, <1>3, <1>5
<1>10. Talking(r)
  BY <1>1, <1>3, <1>8 DEF Talking
<1>. QED  BY <1>1, <1>3, <1>5, <1>9, <1>10 DEF ExtendedAt

-----------------------------------------------------------------------------
(***************************************************************************)
(* AnthropicState: its blocks are what the frames spell.                   *)
(***************************************************************************)

\* Of the first n frames of S: those that start a block, those that bring pieces of the
\* block ix and of its signature, and the blocks that they leave open.
Starts(S, n) == {j \in 1..n : S[j].kind = "block_start"}
StartsIn(S, n) == Cardinality(Starts(S, n))
PartsIn(S, n, ix) == {k \in 1..n : S[k].kind = "delta" /\ S[k].ix = ix /\ S[k].what # "signature"}
SignsIn(S, n, ix) == {k \in 1..n : S[k].kind = "delta" /\ S[k].ix = ix /\ S[k].what = "signature"}
OpenAfter(S, n) ==
  {ix \in 0..(StartsIn(S, n) - 1) : \A j \in 1..n : ~(S[j].kind = "block_stop" /\ S[j].ix = ix)}

\* What the server sends as frame k of S.
FrameOk(S, k) ==
  /\ S[k] = Fr(S[k].kind, S[k].ix, S[k].what)
  /\ S[k].kind \in {"message_start", "block_start", "delta", "block_stop", "message_delta", "message_stop", "error"}
  /\ S[k].kind = "block_start" => S[k].ix = StartsIn(S, k - 1) /\ S[k].ix < MaxBlocks /\ S[k].what \in Kinds
  /\ S[k].kind \in {"delta", "block_stop"} => S[k].ix \in OpenAfter(S, k - 1)
  /\ S[k].kind = "block_stop" => S[k].what = "none"
  /\ S[k].kind = "delta" => \E j \in Starts(S, k - 1) : S[j].ix = S[k].ix /\ S[k].what \in DeltasFor(S[j].what)
  /\ S[k].kind \in {"message_stop", "error"} => k = Len(S)

SentInv(S) ==
  /\ IsQueue(S)
  /\ \A k \in 1..Len(S) : FrameOk(S, k)
  /\ \A ix \in 0..(StartsIn(S, Len(S)) - 1) : \E j \in Starts(S, Len(S)) : S[j].ix = ix

\* One frame more.
LEMMA StartsMore ==
  ASSUME NEW S, NEW n \in Nat
  PROVE  /\ StartsIn(S, n) \in Nat
         /\ Starts(S, n + 1) = Starts(S, n) \cup IF S[n + 1].kind = "block_start" THEN {n + 1} ELSE {}
         /\ StartsIn(S, n + 1) = StartsIn(S, n) + IF S[n + 1].kind = "block_start" THEN 1 ELSE 0
<1>. DEFINE A == Starts(S, n)
<1>1. IsFiniteSet(A)
  <2>1. A \subseteq 1..n
    BY DEF Starts
  <2>2. IsFiniteSet(1..n)
    BY FS_Interval
  <2>. QED  BY <2>1, <2>2, FS_Subset
<1>2. n + 1 \notin A
  BY DEF Starts
<1>3. Starts(S, n + 1) = A \cup IF S[n + 1].kind = "block_start" THEN {n + 1} ELSE {}
  BY DEF Starts
<1>. HIDE DEF A
<1>4. Cardinality(A) \in Nat /\ Cardinality(A \cup {n + 1}) = Cardinality(A) + 1
  BY <1>1, <1>2, FS_AddElement, FS_CardinalityType
<1>5. CASE S[n + 1].kind = "block_start"
  <2>1. Starts(S, n + 1) = A \cup {n + 1}
    BY <1>3, <1>5
  <2>. QED  BY <1>3, <1>4, <1>5, <2>1 DEF StartsIn, A
<1>6. CASE S[n + 1].kind # "block_start"
  <2>1. Starts(S, n + 1) = A
    BY <1>3, <1>6
  <2>. QED  BY <1>3, <1>4, <1>6, <2>1 DEF StartsIn, A
<1>. QED  BY <1>5, <1>6

\* More frames start no fewer blocks.
LEMMA StartsGrow ==
  ASSUME NEW S, NEW n \in Nat, NEW j \in 0..n
  PROVE  StartsIn(S, j) \in Nat /\ StartsIn(S, n) \in Nat /\ StartsIn(S, j) <= StartsIn(S, n)
<1>1. Starts(S, j) \subseteq Starts(S, n) /\ IsFiniteSet(Starts(S, n))
  <2>1. Starts(S, j) \subseteq Starts(S, n) /\ Starts(S, n) \subseteq 1..n
    BY DEF Starts
  <2>2. IsFiniteSet(1..n)
    BY FS_Interval
  <2>. QED  BY <2>1, <2>2, FS_Subset
<1>. QED  BY <1>1, FS_Subset, FS_CardinalityType DEF StartsIn

\* A block started has a number below that of the next one.
LEMMA StartedBefore ==
  ASSUME NEW S, NEW n \in Nat, NEW j \in Starts(S, n), FrameOk(S, j)
  PROVE  S[j].ix \in 0..(StartsIn(S, n) - 1)
<1>1. j \in 1..n /\ S[j].kind = "block_start" /\ S[j].ix = StartsIn(S, j - 1)
  BY DEF Starts, FrameOk
<1>2. j - 1 \in Nat /\ (j - 1) + 1 = j /\ j \in 0..n
  BY <1>1
<1>3. StartsIn(S, j - 1) \in Nat /\ StartsIn(S, j) = StartsIn(S, j - 1) + 1
  BY <1>1, <1>2, StartsMore
<1>4. StartsIn(S, n) \in Nat /\ StartsIn(S, j) <= StartsIn(S, n)
  BY <1>2, StartsGrow
<1>. QED  BY <1>1, <1>3, <1>4

\* The queue q lists the numbers in P, in order.
Lists(q, P) == IsQueue(q) /\ InOrder(q, P)

\* A list in order goes on with the next number.
LEMMA ListsMore ==
  ASSUME NEW n \in Nat, NEW P \in SUBSET (1..n), NEW q, Lists(q, P)
  PROVE  Lists(Append(q, n + 1), P \cup {n + 1})
<1>1. PICK r, l : r = Append(q, n + 1) /\ l = Len(q)
  OBVIOUS
<1>2. /\ l \in Nat /\ DOMAIN q = 1..l /\ DOMAIN r = 1..(l + 1) /\ IsQueue(r)
      /\ \A i \in 1..l : r[i] = q[i]
      /\ r[l + 1] = n + 1
  BY <1>1, Queued DEF Lists
<1>3. ToSet(q) = P /\ \A i, j \in 1..l : i < j => q[i] < q[j]
  BY <1>2 DEF Lists, InOrder
<1>4. \A i \in 1..l : q[i] \in 1..n
  BY <1>2, <1>3 DEF ToSet
<1>5. ToSet(r) = P \cup {n + 1}
  <2>1. \A i \in 1..(l + 1) : r[i] \in P \cup {n + 1}
    <3>. TAKE i \in 1..(l + 1)
    <3>1. CASE i \in 1..l
      BY <1>2, <1>3, <3>1 DEF ToSet
    <3>2. CASE i = l + 1
      BY <1>2, <3>2
    <3>. QED  BY <1>2, <3>1, <3>2
  <2>2. \A x \in P : \E i \in 1..(l + 1) : r[i] = x
    <3>. TAKE x \in P
    <3>1. PICK i \in 1..l : q[i] = x
      BY <1>2, <1>3 DEF ToSet
    <3>2. i \in 1..(l + 1) /\ r[i] = x
      BY <1>2, <3>1
    <3>. QED  BY <3>2
  <2>3. l + 1 \in 1..(l + 1)
    BY <1>2
  <2>4. ToSet(r) = {r[i] : i \in 1..(l + 1)}
    BY <1>2 DEF ToSet
  <2>5. \A x \in ToSet(r) : x \in P \cup {n + 1}
    BY <2>1, <2>4, Zenon
  <2>6. \A x \in P \cup {n + 1} : x \in ToSet(r)
    <3>. TAKE x \in P \cup {n + 1}
    <3>1. CASE x \in P
      BY <2>2, <2>4, <3>1, Zenon
    <3>2. CASE x = n + 1
      BY <1>2, <2>3, <2>4, <3>2, Zenon
    <3>. QED  BY <3>1, <3>2
  <2>. QED  BY <2>5, <2>6, Zenon
<1>6. \A i, j \in 1..(l + 1) : i < j => r[i] < r[j]
  <2>. TAKE i, j \in 1..(l + 1)
  <2>. HAVE i < j
  <2>1. i \in 1..l
    BY <1>2
  <2>2. CASE j \in 1..l
    BY <1>2, <1>3, <2>1, <2>2
  <2>3. CASE j = l + 1
    <3>1. r[i] = q[i] /\ q[i] \in 1..n /\ r[j] = n + 1
      BY <1>2, <1>4, <2>1, <2>3
    <3>. QED  BY <3>1
  <2>. QED  BY <1>2, <2>2, <2>3
<1>. QED  BY <1>1, <1>2, <1>5, <1>6 DEF Lists, InOrder

\* The empty list.
LEMMA ListsNone == Lists(<<>>, {})
BY EmptyQueue DEF Lists, InOrder, ToSet

\* The blocks are what the first n frames spell.
SpelledBlock(S, n, ix, kind, b) ==
  IsBlock(b) /\ b.kind = kind /\ Lists(b.parts, PartsIn(S, n, ix)) /\ Lists(b.sig, SignsIn(S, n, ix))
Spelled(S, blocks, n) ==
  /\ IsQueue(blocks) /\ Len(blocks) = StartsIn(S, n)
  /\ \A k \in Starts(S, n) : SpelledBlock(S, n, S[k].ix, S[k].what, blocks[S[k].ix + 1])

\* A frame without content.
LEMMA SpellsSame ==
  ASSUME NEW S, NEW n \in Nat, NEW blocks, Spelled(S, blocks, n),
         S[n + 1].kind # "block_start", S[n + 1].kind # "delta"
  PROVE  Spelled(S, blocks, n + 1)
<1>1. Starts(S, n + 1) = Starts(S, n) /\ StartsIn(S, n + 1) = StartsIn(S, n)
  <2>1. /\ StartsIn(S, n) \in Nat
        /\ Starts(S, n + 1) = Starts(S, n) \cup IF S[n + 1].kind = "block_start" THEN {n + 1} ELSE {}
        /\ StartsIn(S, n + 1) = StartsIn(S, n) + IF S[n + 1].kind = "block_start" THEN 1 ELSE 0
    BY StartsMore
  <2>2. S[n + 1].kind # "block_start"
    OBVIOUS
  <2>3. Starts(S, n + 1) = Starts(S, n)
    BY <2>1, <2>2
  <2>4. StartsIn(S, n + 1) = StartsIn(S, n)
    BY <2>3 DEF StartsIn
  <2>. QED  BY <2>3, <2>4
<1>2. \A ix : PartsIn(S, n + 1, ix) = PartsIn(S, n, ix) /\ SignsIn(S, n + 1, ix) = SignsIn(S, n, ix)
  BY DEF PartsIn, SignsIn
<1>. QED  BY <1>1, <1>2 DEF Spelled, SpelledBlock

\* A block starts.
LEMMA SpellsStart ==
  ASSUME NEW S, NEW n \in Nat, NEW blocks, Spelled(S, blocks, n),
         \A k \in 1..(n + 1) : FrameOk(S, k), S[n + 1].kind = "block_start"
  PROVE  Spelled(S, Append(blocks, Block(S[n + 1].what)), n + 1) /\ S[n + 1].ix = Len(blocks)
<1>1. PICK c \in Nat : c = StartsIn(S, n)
  BY StartsMore
<1>2. n + 1 \in 1..(n + 1) /\ (n + 1) - 1 = n
  OBVIOUS
<1>3. S[n + 1].ix = c /\ S[n + 1].what \in Kinds
  BY <1>1, <1>2 DEF FrameOk
<1>4. Starts(S, n + 1) = Starts(S, n) \cup {n + 1} /\ StartsIn(S, n + 1) = c + 1
  BY <1>1, StartsMore
<1>5. \A ix : PartsIn(S, n + 1, ix) = PartsIn(S, n, ix) /\ SignsIn(S, n + 1, ix) = SignsIn(S, n, ix)
  BY DEF PartsIn, SignsIn
<1>6. PICK r : r = Append(blocks, Block(S[n + 1].what))
  OBVIOUS
<1>7. IsQueue(blocks) /\ Len(blocks) = c
  BY <1>1 DEF Spelled
<1>8. /\ IsQueue(r) /\ DOMAIN r = 1..(c + 1)
      /\ \A i \in 1..c : r[i] = blocks[i]
      /\ r[c + 1] = Block(S[n + 1].what)
  BY <1>6, <1>7, Queued
<1>9. Len(r) = c + 1
  BY <1>8, LenProperties DEF IsQueue
<1>10. ASSUME NEW k \in Starts(S, n)
       PROVE  SpelledBlock(S, n + 1, S[k].ix, S[k].what, r[S[k].ix + 1])
  <2>1. k \in 1..(n + 1)
    BY DEF Starts
  <2>2. S[k].ix \in 0..(c - 1)
    BY <1>1, <2>1, StartedBefore
  <2>3. r[S[k].ix + 1] = blocks[S[k].ix + 1]
    BY <1>8, <2>2
  <2>4. SpelledBlock(S, n, S[k].ix, S[k].what, blocks[S[k].ix + 1])
    BY DEF Spelled
  <2>. QED  BY <1>5, <2>3, <2>4 DEF SpelledBlock
<1>11. SpelledBlock(S, n + 1, S[n + 1].ix, S[n + 1].what, r[S[n + 1].ix + 1])
  <2>1. PartsIn(S, n, c) = {} /\ SignsIn(S, n, c) = {}
    <3>1. ASSUME NEW k \in 1..n, S[k].kind = "delta", S[k].ix = c PROVE FALSE
      <4>1. k \in 1..(n + 1) /\ k - 1 \in 0..n
        OBVIOUS
      <4>2. c \in OpenAfter(S, k - 1)
        BY <3>1, <4>1 DEF FrameOk
      <4>3. StartsIn(S, k - 1) \in Nat /\ StartsIn(S, k - 1) <= c
        BY <1>1, <4>1, StartsGrow
      <4>. QED  BY <4>2, <4>3 DEF OpenAfter
    <3>. QED  BY <3>1 DEF PartsIn, SignsIn
  <2>2. PICK b : b = Block(S[n + 1].what)
    OBVIOUS
  <2>3. /\ b = [kind |-> b.kind, parts |-> b.parts, sig |-> b.sig]
        /\ b.kind = S[n + 1].what /\ b.parts = <<>> /\ b.sig = <<>>
    BY <2>2 DEF Block
  <2>4. IsBlock(b)
    BY <1>3, <2>3, EmptyQueue, WireAssumption DEF IsBlock
  <2>. QED  BY <1>3, <1>5, <1>8, <2>1, <2>2, <2>3, <2>4, ListsNone DEF SpelledBlock
<1>12. Spelled(S, r, n + 1)
  BY <1>4, <1>8, <1>9, <1>10, <1>11 DEF Spelled
<1>. QED  BY <1>3, <1>6, <1>7, <1>12

\* The block b is the block o and the piece that frame f, the k-th, brings.
PieceAdded(o, b, f, k) ==
  /\ IsBlock(b) /\ b.kind = o.kind
  /\ f.what = "signature" => b.parts = o.parts /\ b.sig = Append(o.sig, k)
  /\ f.what # "signature" => b.parts = Append(o.parts, k) /\ b.sig = o.sig

\* A block goes on.
LEMMA SpellsPart ==
  ASSUME NEW S, NEW n \in Nat, NEW blocks, Spelled(S, blocks, n),
         S[n + 1].kind = "delta", NEW i, i = S[n + 1].ix + 1,
         NEW b, PieceAdded(blocks[i], b, S[n + 1], n + 1),
         NEW r, IsQueue(r), Len(r) = Len(blocks), r[i] = b,
         \A k \in Starts(S, n) : S[k].ix + 1 # i => r[S[k].ix + 1] = blocks[S[k].ix + 1],
         \A k \in Starts(S, n) : S[k].ix + 1 = i => S[k].ix = S[n + 1].ix
  PROVE  Spelled(S, r, n + 1)
<1>1. PICK ix : ix = S[n + 1].ix
  OBVIOUS
<1>2. Starts(S, n + 1) = Starts(S, n) /\ StartsIn(S, n + 1) = StartsIn(S, n)
  <2>1. Starts(S, n + 1) = Starts(S, n)
    BY DEF Starts
  <2>. QED  BY <2>1 DEF StartsIn
<1>3. \A x : x # ix => PartsIn(S, n + 1, x) = PartsIn(S, n, x) /\ SignsIn(S, n + 1, x) = SignsIn(S, n, x)
  BY <1>1 DEF PartsIn, SignsIn
<1>4. PartsIn(S, n, ix) \in SUBSET (1..n) /\ SignsIn(S, n, ix) \in SUBSET (1..n)
  BY DEF PartsIn, SignsIn
<1>5. ASSUME NEW k \in Starts(S, n) PROVE SpelledBlock(S, n + 1, S[k].ix, S[k].what, r[S[k].ix + 1])
  <2>1. SpelledBlock(S, n, S[k].ix, S[k].what, blocks[S[k].ix + 1])
    BY DEF Spelled
  <2>2. CASE S[k].ix + 1 # i
    BY <1>1, <1>3, <2>1, <2>2 DEF SpelledBlock
  <2>3. CASE S[k].ix + 1 = i
    <3>1. S[k].ix = ix /\ r[S[k].ix + 1] = b
      BY <1>1, <2>3
    <3>2. /\ IsBlock(b) /\ b.kind = S[k].what
          /\ Lists(blocks[i].parts, PartsIn(S, n, ix)) /\ Lists(blocks[i].sig, SignsIn(S, n, ix))
      BY <2>1, <2>3, <3>1 DEF SpelledBlock, PieceAdded
    <3>3. Lists(b.parts, PartsIn(S, n + 1, ix)) /\ Lists(b.sig, SignsIn(S, n + 1, ix))
      <4>1. CASE S[n + 1].what = "signature"
        <5>1. PartsIn(S, n + 1, ix) = PartsIn(S, n, ix) /\ SignsIn(S, n + 1, ix) = SignsIn(S, n, ix) \cup {n + 1}
          BY <1>1, <4>1 DEF PartsIn, SignsIn
        <5>2. Lists(Append(blocks[i].sig, n + 1), SignsIn(S, n, ix) \cup {n + 1})
          BY <1>4, <3>2, ListsMore
        <5>. QED  BY <3>2, <4>1, <5>1, <5>2 DEF PieceAdded
      <4>2. CASE S[n + 1].what # "signature"
        <5>1. PartsIn(S, n + 1, ix) = PartsIn(S, n, ix) \cup {n + 1} /\ SignsIn(S, n + 1, ix) = SignsIn(S, n, ix)
          BY <1>1, <4>2 DEF PartsIn, SignsIn
        <5>2. Lists(Append(blocks[i].parts, n + 1), PartsIn(S, n, ix) \cup {n + 1})
          BY <1>4, <3>2, ListsMore
        <5>. QED  BY <3>2, <4>2, <5>1, <5>2 DEF PieceAdded
      <4>. QED  BY <4>1, <4>2
    <3>. QED  BY <3>1, <3>2, <3>3 DEF SpelledBlock
  <2>. QED  BY <2>2, <2>3
<1>. QED  BY <1>2, <1>5 DEF Spelled

\* Which blocks are open after one frame more.
LEMMA OpenMore ==
  ASSUME NEW S, NEW n \in Nat, \A k \in 1..(n + 1) : FrameOk(S, k)
  PROVE  OpenAfter(S, n + 1) =
           CASE S[n + 1].kind = "block_start" -> OpenAfter(S, n) \cup {S[n + 1].ix}
             [] S[n + 1].kind = "block_stop"  -> OpenAfter(S, n) \ {S[n + 1].ix}
             [] OTHER                         -> OpenAfter(S, n)
<1>1. PICK c \in Nat : c = StartsIn(S, n)
  BY StartsMore
<1>2. StartsIn(S, n + 1) = c + IF S[n + 1].kind = "block_start" THEN 1 ELSE 0
  BY <1>1, StartsMore
<1>3. n + 1 \in 1..(n + 1) /\ (n + 1) - 1 = n
  OBVIOUS
<1>4. CASE S[n + 1].kind = "block_start"
  <2>1. S[n + 1].ix = c /\ StartsIn(S, n + 1) = c + 1
    BY <1>1, <1>2, <1>3, <1>4 DEF FrameOk
  <2>2. ASSUME NEW j \in 1..n, S[j].kind = "block_stop", S[j].ix = c PROVE FALSE
    <3>1. j \in 1..(n + 1) /\ j - 1 \in 0..n
      OBVIOUS
    <3>2. c \in OpenAfter(S, j - 1)
      BY <2>2, <3>1 DEF FrameOk
    <3>3. StartsIn(S, j - 1) \in Nat /\ StartsIn(S, j - 1) <= c
      BY <1>1, <3>1, StartsGrow
    <3>. QED  BY <3>2, <3>3 DEF OpenAfter
  <2>3. \A x : x \in 0..((c + 1) - 1) <=> x \in 0..(c - 1) \/ x = c
    OBVIOUS
  <2>4. \A x : x \in OpenAfter(S, n + 1) <=> x \in OpenAfter(S, n) \/ x = c
    BY <1>1, <1>4, <2>1, <2>2, <2>3 DEF OpenAfter
  <2>. QED  BY <1>4, <2>1, <2>4
<1>5. CASE S[n + 1].kind = "block_stop"
  <2>1. StartsIn(S, n + 1) = c
    BY <1>2, <1>5
  <2>2. \A x : x \in OpenAfter(S, n + 1) <=> x \in OpenAfter(S, n) /\ x # S[n + 1].ix
    BY <1>1, <1>5, <2>1 DEF OpenAfter
  <2>. QED  BY <1>5, <2>2
<1>6. CASE S[n + 1].kind # "block_start" /\ S[n + 1].kind # "block_stop"
  <2>1. StartsIn(S, n + 1) = c
    BY <1>2, <1>6
  <2>2. \A x : x \in OpenAfter(S, n + 1) <=> x \in OpenAfter(S, n)
    BY <1>1, <1>6, <2>1 DEF OpenAfter
  <2>. QED  BY <1>6, <2>2
<1>. QED  BY <1>4, <1>5, <1>6

\* The message after n frames, going on or over.
Live(S, m, n) ==
  Talking(m) /\ m.final = "none" /\ Spelled(S, m.blocks, n) /\ DOMAIN m.open = OpenAfter(S, n)
Finished(S, m, n) ==
  /\ IsNative(m) /\ m.final # "none" /\ Spelled(S, m.blocks, n)
  /\ IsQueue(m.out) /\ Legal(told \o m.out, FALSE)
  /\ m.final \in {"stop", "length", "tool_use"} => n = Len(S) /\ n > 0 /\ S[n].kind = "message_stop"

\* A frame that brings a piece.
LEMMA DeltaTaken ==
  ASSUME IsQueue(told), NEW S, NEW n \in Nat, \A k \in 1..(n + 1) : FrameOk(S, k),
         S[n + 1].kind = "delta", NEW m, Live(S, m, n), NEW r, r = OnBlockDelta(m, S[n + 1], n + 1)
  PROVE  Live(S, r, n + 1)
<1>1. PICK f : f = S[n + 1]
  OBVIOUS
<1>2. PICK ix : ix = f.ix
  OBVIOUS
<1>3. n + 1 \in 1..(n + 1) /\ (n + 1) - 1 = n
  OBVIOUS
<1>4. PICK j \in Starts(S, n) : S[j].ix = ix /\ f.what \in DeltasFor(S[j].what)
  BY <1>1, <1>2, <1>3 DEF FrameOk
<1>5. Talking(m) /\ m.final = "none" /\ Spelled(S, m.blocks, n) /\ DOMAIN m.open = OpenAfter(S, n)
  BY DEF Live
<1>6. ix \in DOMAIN m.open /\ m.open[ix] = ix + 1 /\ ix \in Int
  <2>1. FrameOk(S, n + 1)
    BY <1>3
  <2>2. ix \in OpenAfter(S, n)
    BY <1>1, <1>2, <1>3, <2>1 DEF FrameOk
  <2>. QED  BY <1>5, <2>2 DEF Talking
<1>7. PICK i : i = ix + 1
  OBVIOUS
<1>8. PICK o : o = m.blocks[i]
  OBVIOUS
<1>9. IsBlock(o) /\ o.kind = S[j].what
  BY <1>4, <1>5, <1>7, <1>8 DEF Spelled, SpelledBlock
<1>10. \A k \in Starts(S, n) : S[k].ix \in Int
  <2>. TAKE k \in Starts(S, n)
  <2>1. k \in 1..(n + 1)
    BY DEF Starts
  <2>2. S[k].ix \in 0..(StartsIn(S, n) - 1)
    BY <2>1, StartedBefore
  <2>. QED  BY <2>2
<1>11. OpenAfter(S, n + 1) = OpenAfter(S, n)
  BY OpenMore
\* Whichever piece it is, one block changes.
<1>12. ASSUME NEW b, PieceAdded(o, b, f, n + 1),
              IsNative(r), r.blocks = [m.blocks EXCEPT ![i] = b], r.open = m.open, r.final = m.final,
              r.started <=> m.started, r.out = m.out \/ r.out = Append(m.out, Ev("delta", i))
       PROVE  Live(S, r, n + 1)
  <2>1. Talking(r) /\ ExtendedAt(m, r, i, b)
    BY <1>5, <1>6, <1>7, <1>12, TalkExtended
  <2>2. IsQueue(r.blocks)
    BY <2>1 DEF ExtendedAt
  <2>3. ASSUME NEW k \in Starts(S, n), S[k].ix + 1 # i PROVE r.blocks[S[k].ix + 1] = m.blocks[S[k].ix + 1]
    <3>1. k \in 1..(n + 1)
      BY DEF Starts
    <3>2. S[k].ix \in 0..(StartsIn(S, n) - 1) /\ StartsIn(S, n) = Len(m.blocks)
      BY <1>5, <3>1, StartedBefore DEF Spelled
    <3>3. S[k].ix + 1 \in 1..Len(m.blocks)
      BY <2>1, <3>2 DEF ExtendedAt
    <3>. QED  BY <2>1, <2>3, <3>3 DEF ExtendedAt
  <2>4. \A k \in Starts(S, n) : S[k].ix + 1 = i => S[k].ix = S[n + 1].ix
    BY <1>1, <1>2, <1>6, <1>7, <1>10
  <2>5. PICK q : q = r.blocks
    OBVIOUS
  <2>6. Spelled(S, q, n + 1)
    <3>1. Spelled(S, m.blocks, n) /\ S[n + 1].kind = "delta" /\ i = S[n + 1].ix + 1
          /\ PieceAdded(m.blocks[i], b, S[n + 1], n + 1)
      BY <1>1, <1>2, <1>5, <1>7, <1>8, <1>12
    <3>2. /\ IsQueue(q) /\ Len(q) = Len(m.blocks) /\ q[i] = b
          /\ \A k \in Starts(S, n) : S[k].ix + 1 # i => q[S[k].ix + 1] = m.blocks[S[k].ix + 1]
      BY <2>1, <2>2, <2>3, <2>5 DEF ExtendedAt
    <3>3. n \in Nat
      OBVIOUS
    <3>. QED  BY ONLY <2>4, <3>1, <3>2, <3>3, SpellsPart
  <2>. QED  BY <1>5, <1>11, <1>12, <2>1, <2>5, <2>6 DEF Live
<1>13. IsNative(m)
  BY <1>5 DEF Talking
<1>14. S[j].what \in {"text", "thinking", "tool"}
  BY <1>9 DEF IsBlock
<1>15. CASE f.what = o.kind
  <2>1. r = AddPart(m, i, n + 1)
    BY <1>1, <1>2, <1>6, <1>7, <1>8, <1>15 DEF OnBlockDelta
  <2>2. PICK b : b = [o EXCEPT !.parts = Append(@, n + 1)]
    OBVIOUS
  <2>3. IsBlock(b) /\ b.kind = o.kind /\ b.parts = Append(o.parts, n + 1) /\ b.sig = o.sig
    <3>1. IsQueue(Append(o.parts, n + 1))
      BY <1>9, Queued DEF IsBlock
    <3>. QED  BY <1>9, <2>2, <3>1 DEF IsBlock
  <2>4. f.what # "signature"
    BY <1>9, <1>14, <1>15
  <2>5. /\ IsNative(r) /\ r.blocks = [m.blocks EXCEPT ![i] = [m.blocks[i] EXCEPT !.parts = Append(@, n + 1)]]
        /\ r.open = m.open /\ r.final = m.final
        /\ (r.started <=> m.started) /\ r.out = Append(m.out, Ev("delta", i))
    BY <1>13, <2>1 DEF AddPart, Emit, IsNative
  <2>6. r.blocks = [m.blocks EXCEPT ![i] = b]
    BY <1>8, <2>2, <2>5
  <2>7. PieceAdded(o, b, f, n + 1)
    BY <2>3, <2>4 DEF PieceAdded
  <2>. QED  BY <1>12, <2>5, <2>6, <2>7
<1>16. CASE f.what # o.kind
  <2>1. f.what = "signature" /\ o.kind = "thinking"
    BY <1>4, <1>9, <1>14, <1>16 DEF DeltasFor
  <2>2. r = [m EXCEPT !.blocks[i].sig = Append(@, n + 1)]
    BY <1>1, <1>2, <1>6, <1>7, <1>8, <2>1 DEF OnBlockDelta
  <2>3. PICK b : b = [o EXCEPT !.sig = Append(@, n + 1)]
    OBVIOUS
  <2>4. IsBlock(b) /\ b.kind = o.kind /\ b.parts = o.parts /\ b.sig = Append(o.sig, n + 1)
    <3>1. IsQueue(Append(o.sig, n + 1))
      BY <1>9, Queued DEF IsBlock
    <3>. QED  BY <1>9, <2>3, <3>1 DEF IsBlock
  <2>5. /\ IsNative(r) /\ r.blocks = [m.blocks EXCEPT ![i] = [m.blocks[i] EXCEPT !.sig = Append(@, n + 1)]]
        /\ r.open = m.open /\ r.final = m.final
        /\ (r.started <=> m.started) /\ r.out = m.out
    BY <1>13, <2>2 DEF IsNative
  <2>6. r.blocks = [m.blocks EXCEPT ![i] = b]
    BY <1>8, <2>3, <2>5
  <2>7. PieceAdded(o, b, f, n + 1)
    BY <2>1, <2>4 DEF PieceAdded
  <2>. QED  BY <1>12, <2>5, <2>6, <2>7
<1>. QED  BY <1>15, <1>16

\* The reason a message_delta gives changes nothing else.
LEMMA ReasonTaken ==
  ASSUME NEW m, Talking(m), NEW why, NEW r, r = [m EXCEPT !.reason = why]
  PROVE  Talking(r) /\ r.final = m.final /\ r.blocks = m.blocks /\ r.open = m.open
<1>1. /\ IsNative(r) /\ r.final = m.final /\ r.blocks = m.blocks /\ r.open = m.open
      /\ r.out = m.out /\ (r.started <=> m.started)
  BY DEF Talking, IsNative
<1>2. OpenBlocks(r) = OpenBlocks(m)
  BY <1>1 DEF OpenBlocks
<1>3. Tells(r, OpenBlocks(m), FALSE)
  BY <1>1 DEF Talking, Tells
<1>4. Tells(r, OpenBlocks(r), FALSE)
  BY <1>2, <1>3, Zenon
<1>. QED  BY <1>1, <1>4 DEF Talking

\* The reasons a message can end for.
LEMMA Resolved ==
  ASSUME NEW m
  PROVE  ResolveStop(m) \in {"stop", "tool_use", "length", "error"}
BY DEF ResolveStop

\* After n frames of S the message goes on, or it is over and these were all.
Reached(S, m, n) == Live(S, m, n) \/ (n = Len(S) /\ Finished(S, m, n))

\* The message ends with the last frame.
LEMMA EndTaken ==
  ASSUME IsQueue(told), NEW S, NEW n \in Nat, FrameOk(S, n + 1),
         S[n + 1].kind \in {"message_stop", "error"}, NEW m, Live(S, m, n),
         NEW how, how # "none", how \in {"stop", "length", "tool_use"} => S[n + 1].kind = "message_stop",
         NEW r, r = Ended(m, how)
  PROVE  n + 1 = Len(S) /\ Finished(S, r, n + 1)
<1>1. Talking(m) /\ Spelled(S, m.blocks, n)
  BY DEF Live
<1>2. IsNative(r) /\ r.blocks = m.blocks /\ r.final = how /\ IsQueue(r.out) /\ Legal(told \o r.out, FALSE)
  BY ONLY IsQueue(told), <1>1, r = Ended(m, how), TalkEnded
<1>3. Spelled(S, m.blocks, n + 1)
  BY <1>1, SpellsSame
<1>4. n + 1 = Len(S) /\ n + 1 > 0
  <2>1. S[n + 1].kind \in {"message_stop", "error"} => n + 1 = Len(S)
    BY DEF FrameOk
  <2>. QED  BY <2>1
<1>. QED  BY <1>2, <1>3, <1>4 DEF Finished

\* on_frame, for the frame after the first n.
LEMMA FrameTaken ==
  ASSUME IsQueue(told), NEW S, S = net.sent, NEW n \in Nat, \A k \in 1..(n + 1) : FrameOk(S, k),
         NEW m, Live(S, m, n), NEW r, r = OnFrame(m, n + 1)
  PROVE  Reached(S, r, n + 1)
<1>1. PICK f : f = S[n + 1]
  OBVIOUS
<1>2. FrameOk(S, n + 1) /\ n + 1 \in 1..(n + 1) /\ (n + 1) - 1 = n
  OBVIOUS
<1>3. f.kind \in {"message_start", "block_start", "delta", "block_stop", "message_delta", "message_stop", "error"}
  BY <1>1, <1>2 DEF FrameOk
<1>4. Talking(m) /\ m.final = "none" /\ Spelled(S, m.blocks, n) /\ DOMAIN m.open = OpenAfter(S, n)
  BY DEF Live
<1>5. ASSUME f.kind \in {"message_start", "message_delta", "block_stop"}
      PROVE  Spelled(S, m.blocks, n + 1)
  BY <1>1, <1>4, <1>5, SpellsSame
<1>6. CASE f.kind = "message_start"
  <2>1. r = EnsureStarted(m)
    BY <1>1, <1>4, <1>6 DEF OnFrame
  <2>2. Talking(r) /\ r.blocks = m.blocks /\ r.open = m.open /\ r.final = m.final
    BY <1>4, <2>1, TalkStarted
  <2>3. OpenAfter(S, n + 1) = OpenAfter(S, n)
    BY <1>1, <1>6, OpenMore
  <2>. QED  BY <1>4, <1>5, <1>6, <2>2, <2>3 DEF Reached, Live
<1>7. CASE f.kind = "message_delta"
  <2>1. r = [m EXCEPT !.reason = f.what]
    BY <1>1, <1>4, <1>7 DEF OnFrame
  <2>2. Talking(r) /\ r.blocks = m.blocks /\ r.open = m.open /\ r.final = m.final
    BY <1>4, <2>1, ReasonTaken
  <2>3. OpenAfter(S, n + 1) = OpenAfter(S, n)
    BY <1>1, <1>7, OpenMore
  <2>. QED  BY <1>4, <1>5, <1>7, <2>2, <2>3 DEF Reached, Live
<1>8. CASE f.kind = "block_stop"
  <2>1. f.ix \in OpenAfter(S, n)
    BY <1>1, <1>2, <1>8 DEF FrameOk
  <2>2. f.ix \in DOMAIN m.open
    BY <1>4, <2>1
  <2>3. r = Closed(m, f.ix)
    BY <1>1, <1>4, <1>8, <2>2 DEF OnFrame, OnBlockStop
  <2>4. Talking(r) /\ r.blocks = m.blocks /\ r.final = m.final /\ DOMAIN r.open = DOMAIN m.open \ {f.ix}
    BY <1>4, <2>2, <2>3, TalkClosed
  <2>5. OpenAfter(S, n + 1) = OpenAfter(S, n) \ {f.ix}
    BY <1>1, <1>8, OpenMore
  <2>. QED  BY <1>4, <1>5, <1>8, <2>4, <2>5 DEF Reached, Live
<1>9. CASE f.kind = "block_start"
  <2>1. Spelled(S, Append(m.blocks, Block(f.what)), n + 1) /\ f.ix = Len(m.blocks)
    BY <1>1, <1>4, <1>9, SpellsStart
  <2>2. f.ix < MaxBlocks
    BY <1>1, <1>2, <1>9 DEF FrameOk
  <2>3. r = OnBlockStart(m, f)
    BY <1>1, <1>4, <1>9 DEF OnFrame
  <2>4. /\ Talking(r) /\ r.final = m.final /\ r.blocks = Append(m.blocks, Block(f.what))
        /\ DOMAIN r.open = DOMAIN m.open \cup {f.ix}
    BY <1>4, <2>1, <2>2, <2>3, TalkOpened
  <2>5. OpenAfter(S, n + 1) = OpenAfter(S, n) \cup {f.ix}
    BY <1>1, <1>9, OpenMore
  <2>. QED  BY <1>4, <2>1, <2>4, <2>5 DEF Reached, Live
<1>10. CASE f.kind = "delta"
  <2>1. r = OnBlockDelta(m, f, n + 1)
    BY <1>1, <1>4, <1>10 DEF OnFrame
  <2>2. Live(S, r, n + 1)
    BY <1>1, <1>10, <2>1, DeltaTaken
  <2>. QED  BY <2>2 DEF Reached
<1>11. CASE f.kind = "message_stop"
  <2>1. PICK how : how = ResolveStop(m)
    OBVIOUS
  <2>2. r = Ended(m, how)
    BY <1>1, <1>4, <1>11, <2>1 DEF OnFrame
  <2>3. how # "none"
    BY <2>1, Resolved
  <2>4. n + 1 = Len(S) /\ Finished(S, r, n + 1)
    BY <1>1, <1>2, <1>11, <2>2, <2>3, EndTaken
  <2>. QED  BY <2>4 DEF Reached
<1>12. CASE f.kind = "error"
  <2>1. r = Ended(m, "error")
    BY <1>1, <1>4, <1>12 DEF OnFrame
  <2>2. n + 1 = Len(S) /\ Finished(S, r, n + 1)
    BY <1>1, <1>2, <1>12, <2>1, EndTaken
  <2>. QED  BY <2>2 DEF Reached
<1>. QED  BY <1>3, <1>6, <1>7, <1>8, <1>9, <1>10, <1>11, <1>12

\* The frames of a chunk, one after the other.
LEMMA FramesFollow ==
  ASSUME IsQueue(told), NEW S, S = net.sent, SentInv(S), NEW a \in Nat, NEW b \in Nat, a <= b, b <= Len(S),
         NEW m, Live(S, m, a), NEW r, r = OnFrames(m, Frames(a, b))
  PROVE  Reached(S, r, b)
<1>1. PICK q, l : q = Frames(a, b) /\ l = b - a
  OBVIOUS
<1>2. l \in Nat /\ Len(q) = l /\ \A i \in 1..l : q[i] = a + i
  <2>1. b - a \in Nat
    OBVIOUS
  <2>2. Len(Frames(a, b)) = b - a /\ \A i \in 1..(b - a) : Frames(a, b)[i] = a + i
    BY FramesGrow
  <2>. QED  BY <1>1, <2>1, <2>2
<1>3. PICK f : f[0] = m /\ (\A k \in 1..l : f[k] = OnFrame(f[k - 1], q[k])) /\ r = f[l]
  <2>1. Len(q) \in Nat
    BY <1>2
  <2>2. PICK f : RunsOn(f, m, q) /\ OnFrames(m, q) = f[Len(q)]
    BY ONLY <2>1, FramesRun
  <2>3. f[0] = m /\ \A k \in 1..l : f[k] = OnFrame(f[k - 1], q[k])
    BY <1>2, <2>2 DEF RunsOn
  <2>. QED  BY <1>1, <1>2, <2>2, <2>3
<1>. DEFINE All == {k \in Nat : k <= l => Reached(S, f[k], a + k)}
<1>4. 0 \in All
  <2>1. a + 0 = a
    OBVIOUS
  <2>. QED  BY <1>3, <2>1 DEF Reached
<1>5. ASSUME NEW k \in Nat, k \in All PROVE k + 1 \in All
  <2>1. SUFFICES ASSUME k + 1 <= l PROVE Reached(S, f[k + 1], a + (k + 1))
    OBVIOUS
  <2>2. k <= l /\ k + 1 \in 1..l /\ (k + 1) - 1 = k /\ a + k \in Nat /\ a + (k + 1) = (a + k) + 1
    BY <1>2, <2>1
  <2>3. Len(S) \in Nat /\ a + k < Len(S)
    <3>1. Len(S) \in Nat
      BY LenProperties DEF SentInv, IsQueue
    <3>. QED  BY <1>1, <2>1, <3>1
  <2>4. Live(S, f[k], a + k)
    BY <1>5, <2>2, <2>3 DEF Reached
  <2>5. f[k + 1] = OnFrame(f[k], (a + k) + 1)
    BY <1>2, <1>3, <2>2
  <2>6. \A j \in 1..((a + k) + 1) : FrameOk(S, j)
    BY <2>2, <2>3 DEF SentInv
  <2>7. Reached(S, f[k + 1], (a + k) + 1)
    BY <2>2, <2>4, <2>5, <2>6, FrameTaken
  <2>. QED  BY <2>2, <2>7
<1>6. l \in All
  <2>. HIDE DEF All
  <2>. QED  BY <1>2, <1>4, <1>5, Induction
<1>7. a + l = b
  BY <1>1
<1>. QED  BY <1>2, <1>3, <1>6, <1>7

-----------------------------------------------------------------------------
(***************************************************************************)
(* The server, and the frames that come.                                   *)
(***************************************************************************)

\* S and r begin with the same n frames.
Agree(S, r, n) == \A k \in 1..n : r[k] = S[k]

\* What a frame is made of.
LEMMA FrameOf ==
  ASSUME NEW kind, NEW ix, NEW what, NEW f, f = Fr(kind, ix, what)
  PROVE  f.kind = kind /\ f.ix = ix /\ f.what = what /\ f = Fr(f.kind, f.ix, f.what)
BY DEF Fr

\* What the first frames tell is the same of both.
LEMMA AgreeTell ==
  ASSUME NEW S, NEW r, NEW n \in Nat, Agree(S, r, n), NEW k \in 0..n
  PROVE  /\ Starts(r, k) = Starts(S, k) /\ StartsIn(r, k) = StartsIn(S, k)
         /\ OpenAfter(r, k) = OpenAfter(S, k)
         /\ \A ix : PartsIn(r, k, ix) = PartsIn(S, k, ix) /\ SignsIn(r, k, ix) = SignsIn(S, k, ix)
<1>1. \A j \in 1..k : r[j] = S[j]
  BY DEF Agree
<1>2. Starts(r, k) = Starts(S, k)
  BY <1>1 DEF Starts
<1>3. StartsIn(r, k) = StartsIn(S, k)
  BY <1>2 DEF StartsIn
<1>4. OpenAfter(r, k) = OpenAfter(S, k)
  BY <1>1, <1>3 DEF OpenAfter
<1>5. \A ix : PartsIn(r, k, ix) = PartsIn(S, k, ix) /\ SignsIn(r, k, ix) = SignsIn(S, k, ix)
  BY <1>1 DEF PartsIn, SignsIn
<1>. QED  BY <1>2, <1>3, <1>4, <1>5

\* A message that has taken the first k frames has taken the first k of both.
LEMMA AgreeLive ==
  ASSUME NEW S, NEW r, NEW n \in Nat, Agree(S, r, n), NEW k \in 0..n, NEW m, Live(S, m, k)
  PROVE  Live(r, m, k)
<1>1. /\ Starts(r, k) = Starts(S, k) /\ StartsIn(r, k) = StartsIn(S, k)
      /\ OpenAfter(r, k) = OpenAfter(S, k)
      /\ \A ix : PartsIn(r, k, ix) = PartsIn(S, k, ix) /\ SignsIn(r, k, ix) = SignsIn(S, k, ix)
  BY AgreeTell
<1>2. \A j \in Starts(S, k) : r[j] = S[j]
  BY DEF Agree, Starts
<1>3. Spelled(S, m.blocks, k)
  BY DEF Live
<1>4. Spelled(r, m.blocks, k)
  BY <1>1, <1>2, <1>3 DEF Spelled, SpelledBlock
<1>. QED  BY <1>1, <1>4 DEF Live

\* The server's own counts.
LEMMA Counted ==
  ASSUME NEW S, SentInv(S)
  PROVE  /\ Len(S) \in Nat /\ DOMAIN S = 1..Len(S)
         /\ Count(S, "block_start") = StartsIn(S, Len(S))
         /\ OpenOnWire(S) = OpenAfter(S, Len(S))
         /\ \A ix \in OpenAfter(S, Len(S)) :
              \E j \in Starts(S, Len(S)) : S[j].ix = ix /\ KindOnWire(S, ix) = S[j].what
<1>1. Len(S) \in Nat /\ DOMAIN S = 1..Len(S) /\ ToSet(S) = {S[k] : k \in 1..Len(S)}
  BY LenProperties DEF SentInv, IsQueue, ToSet
<1>2. PICK n \in Nat : n = Len(S)
  BY <1>1
<1>3. Count(S, "block_start") = StartsIn(S, n)
  BY <1>1, <1>2 DEF Count, StartsIn, Starts
<1>4. \A k \in 1..n : FrameOk(S, k)
  BY <1>2 DEF SentInv
<1>5. ASSUME NEW ix PROVE Fr("block_stop", ix, "none") \in ToSet(S) <=> \E j \in 1..n : S[j].kind = "block_stop" /\ S[j].ix = ix
  <2>1. ASSUME NEW j \in 1..n, S[j].kind = "block_stop", S[j].ix = ix PROVE S[j] = Fr("block_stop", ix, "none")
    <3>1. S[j] = Fr(S[j].kind, S[j].ix, S[j].what) /\ S[j].what = "none"
      BY <1>4, <2>1 DEF FrameOk
    <3>. QED  BY <2>1, <3>1
  <2>2. ASSUME NEW j \in 1..n, S[j] = Fr("block_stop", ix, "none") PROVE S[j].kind = "block_stop" /\ S[j].ix = ix
    BY <2>2, FrameOf
  <2>. QED  BY <1>1, <1>2, <2>1, <2>2
<1>6. OpenOnWire(S) = OpenAfter(S, n)
  BY <1>3, <1>5 DEF OpenOnWire, OpenAfter
<1>7. ASSUME NEW ix \in OpenAfter(S, n)
      PROVE  \E j \in Starts(S, n) : S[j].ix = ix /\ KindOnWire(S, ix) = S[j].what
  <2>1. PICK j \in Starts(S, n) : S[j].ix = ix
    BY <1>2 DEF SentInv, OpenAfter
  <2>2. S[j] \in ToSet(S) /\ S[j].kind = "block_start" /\ S[j].ix = ix
    BY <1>1, <1>2, <2>1 DEF Starts
  <2>3. PICK f : f = CHOOSE g \in ToSet(S) : g.kind = "block_start" /\ g.ix = ix
    OBVIOUS
  <2>4. f \in ToSet(S) /\ f.kind = "block_start" /\ f.ix = ix
    BY <2>2, <2>3
  <2>5. PICK i \in 1..n : f = S[i]
    BY <1>1, <1>2, <2>4
  <2>6. i \in Starts(S, n)
    BY <2>4, <2>5 DEF Starts
  <2>. QED  BY <2>3, <2>4, <2>5, <2>6 DEF KindOnWire
<1>. QED  BY <1>1, <1>2, <1>3, <1>6, <1>7

\* None of a kind.
LEMMA NoneOf ==
  ASSUME NEW S, SentInv(S), Count(S, "message_stop") + Count(S, "error") = 0
  PROVE  \A k \in 1..Len(S) : S[k].kind \notin {"message_stop", "error"}
<1>1. Len(S) \in Nat /\ DOMAIN S = 1..Len(S)
  BY Counted
<1>2. ASSUME NEW kind PROVE Count(S, kind) \in Nat /\ (Count(S, kind) = 0 => \A k \in 1..Len(S) : S[k].kind # kind)
  <2>. DEFINE A == {k \in DOMAIN S : S[k].kind = kind}
  <2>1. A \subseteq 1..Len(S) /\ IsFiniteSet(1..Len(S))
    BY <1>1, FS_Interval
  <2>2. Cardinality(A) \in Nat /\ (Cardinality(A) = 0 <=> A = {})
    <3>. HIDE DEF A
    <3>. QED  BY <2>1, FS_Subset, FS_CardinalityType, FS_EmptySet
  <2>. QED  BY <1>1, <2>2 DEF Count
<1>3. /\ Count(S, "message_stop") \in Nat /\ Count(S, "error") \in Nat
      /\ Count(S, "message_stop") = 0 => \A k \in 1..Len(S) : S[k].kind # "message_stop"
      /\ Count(S, "error") = 0 => \A k \in 1..Len(S) : S[k].kind # "error"
  BY <1>2
<1>. QED  BY <1>3

\* A frame that may come next is one that the client expects.
LEMMA NextIsOk ==
  ASSUME NEW S, SentInv(S), NEW f \in Possible(S), NEW r, Agree(S, r, Len(S)), NEW n \in Nat, n = Len(S),
         r[n + 1] = f, Len(r) = n + 1
  PROVE  FrameOk(r, n + 1)
<1>1. /\ Count(S, "block_start") = StartsIn(S, n) /\ OpenOnWire(S) = OpenAfter(S, n)
      /\ \A ix \in OpenAfter(S, n) :
              \E j \in Starts(S, n) : S[j].ix = ix /\ KindOnWire(S, ix) = S[j].what
  BY Counted
<1>2. Starts(r, n) = Starts(S, n) /\ StartsIn(r, n) = StartsIn(S, n) /\ OpenAfter(r, n) = OpenAfter(S, n)
  BY AgreeTell
<1>3. (n + 1) - 1 = n
  OBVIOUS
<1>4. \A j \in Starts(S, n) : r[j] = S[j]
  BY DEF Agree, Starts
<1>5. \/ f = Fr("message_start", 0, "none")
      \/ \E k \in Kinds : Count(S, "block_start") < MaxBlocks /\ f = Fr("block_start", Count(S, "block_start"), k)
      \/ \E ix \in OpenOnWire(S) : \E d \in DeltasFor(KindOnWire(S, ix)) : f = Fr("delta", ix, d)
      \/ \E ix \in OpenOnWire(S) : f = Fr("block_stop", ix, "none")
      \/ \E why : f = Fr("message_delta", 0, why)
      \/ f = Fr("error", 0, "none") \/ f = Fr("message_stop", 0, "none")
  <2>1. CASE S = <<>>
    BY <2>1 DEF Possible
  <2>2. CASE S # <<>> /\ Count(S, "message_delta") = 0
    <3>. DEFINE A == {Fr("block_start", Count(S, "block_start"), k) :
                        k \in IF Count(S, "block_start") < MaxBlocks THEN Kinds ELSE {}}
                B == UNION {{Fr("delta", ix, d) : d \in DeltasFor(KindOnWire(S, ix))} : ix \in OpenOnWire(S)}
                C == {Fr("block_stop", ix, "none") : ix \in OpenOnWire(S)}
                D == {Fr("message_delta", 0, why) : why \in {"end_turn", "tool_use", "max_tokens", "refusal"}}
    <3>0. Possible(S) = A \cup B \cup C \cup D \cup {Fr("error", 0, "none")}
      BY <2>2 DEF Possible
    <3>1. f \in A \/ f \in B \/ f \in C \/ f \in D \/ f = Fr("error", 0, "none")
      <4>. HIDE DEF A, B, C, D
      <4>. QED  BY <3>0
    <3>. QED  BY <3>1
  <2>3. CASE S # <<>> /\ Count(S, "message_delta") # 0
    BY <2>3 DEF Possible
  <2>. QED  BY <2>1, <2>2, <2>3
<1>6. CASE f \in {Fr("message_start", 0, "none"), Fr("error", 0, "none"), Fr("message_stop", 0, "none")} \/ \E why : f = Fr("message_delta", 0, why)
  <2>1. f = Fr(f.kind, f.ix, f.what) /\ f.kind \in {"message_start", "error", "message_stop", "message_delta"}
    BY <1>6, FrameOf
  <2>. QED  BY <2>1 DEF FrameOk
<1>7. CASE \E k \in Kinds : Count(S, "block_start") < MaxBlocks /\ f = Fr("block_start", Count(S, "block_start"), k)
  BY <1>1, <1>2, <1>3, <1>7 DEF FrameOk, Fr
<1>8. CASE \E ix \in OpenOnWire(S) : \E d \in DeltasFor(KindOnWire(S, ix)) : f = Fr("delta", ix, d)
  <2>1. PICK ix \in OpenAfter(S, n) : \E d \in DeltasFor(KindOnWire(S, ix)) : f = Fr("delta", ix, d)
    BY <1>1, <1>8
  <2>2. PICK j \in Starts(S, n) : S[j].ix = ix /\ KindOnWire(S, ix) = S[j].what
    BY <1>1
  <2>5. PICK d : d \in DeltasFor(KindOnWire(S, ix)) /\ f = Fr("delta", ix, d)
    BY <2>1
  <2>3. f.kind = "delta" /\ f.ix = ix /\ f.what = d /\ f = Fr(f.kind, f.ix, f.what)
    BY <2>5, FrameOf
  <2>4. j \in Starts(r, n) /\ r[j].ix = ix /\ d \in DeltasFor(r[j].what)
    BY <1>2, <1>4, <2>5, <2>2
  <2>. QED  BY <1>2, <1>3, <2>3, <2>4 DEF FrameOk
<1>9. CASE \E ix \in OpenOnWire(S) : f = Fr("block_stop", ix, "none")
  <2>1. PICK ix \in OpenAfter(S, n) : f = Fr("block_stop", ix, "none")
    BY <1>1, <1>9
  <2>2. f.kind = "block_stop" /\ f.ix = ix /\ f.what = "none" /\ f = Fr(f.kind, f.ix, f.what)
    BY <2>1, FrameOf
  <2>. QED  BY <1>2, <1>3, <2>2 DEF FrameOk
<1>. QED  BY <1>5, <1>6, <1>7, <1>8, <1>9

\* A frame more is sent.
LEMMA SentMore ==
  ASSUME NEW S, SentInv(S), Count(S, "message_stop") + Count(S, "error") = 0,
         NEW f \in Possible(S), NEW r, r = Append(S, f)
  PROVE  SentInv(r) /\ Agree(S, r, Len(S)) /\ Len(r) = Len(S) + 1 /\ Len(S) \in Nat
<1>1. PICK n \in Nat : n = Len(S)
  BY Counted
<1>2. /\ IsQueue(r) /\ DOMAIN r = 1..(n + 1) /\ r[n + 1] = f
      /\ \A k \in 1..n : r[k] = S[k]
  BY <1>1, Queued DEF SentInv
<1>3. Len(r) = n + 1
  BY <1>2, LenProperties DEF IsQueue
<1>4. Agree(S, r, n)
  BY <1>2 DEF Agree
<1>5. FrameOk(r, n + 1)
  BY <1>1, <1>2, <1>3, <1>4, NextIsOk
<1>6. ASSUME NEW k \in 1..n PROVE FrameOk(r, k)
  <2>1. k - 1 \in 0..n /\ r[k] = S[k]
    BY <1>2
  <2>2. /\ Starts(r, k - 1) = Starts(S, k - 1) /\ StartsIn(r, k - 1) = StartsIn(S, k - 1)
        /\ OpenAfter(r, k - 1) = OpenAfter(S, k - 1)
    BY <1>4, <2>1, AgreeTell
  <2>3. \A j \in Starts(S, k - 1) : r[j] = S[j]
    BY <1>2 DEF Starts
  <2>4. FrameOk(S, k) /\ S[k].kind \notin {"message_stop", "error"}
    BY <1>1, NoneOf DEF SentInv
  <2>. QED  BY <2>1, <2>2, <2>3, <2>4 DEF FrameOk
<1>7. ASSUME NEW ix \in 0..(StartsIn(r, n + 1) - 1) PROVE \E j \in Starts(r, n + 1) : r[j].ix = ix
  <2>1. PICK c \in Nat : c = StartsIn(S, n)
    BY StartsMore
  <2>2. StartsIn(r, n) = c /\ Starts(r, n) = Starts(S, n)
    BY <1>4, <2>1, AgreeTell
  <2>3. /\ Starts(r, n + 1) = Starts(r, n) \cup IF f.kind = "block_start" THEN {n + 1} ELSE {}
        /\ StartsIn(r, n + 1) = c + IF f.kind = "block_start" THEN 1 ELSE 0
    <3>1. /\ Starts(r, n + 1) = Starts(r, n) \cup IF r[n + 1].kind = "block_start" THEN {n + 1} ELSE {}
          /\ StartsIn(r, n + 1) = StartsIn(r, n) + IF r[n + 1].kind = "block_start" THEN 1 ELSE 0
      BY StartsMore
    <3>. QED  BY <1>2, <2>2, <3>1
  <2>4. CASE ix \in 0..(c - 1)
    <3>1. PICK j \in Starts(S, n) : S[j].ix = ix
      BY <1>1, <2>1, <2>4 DEF SentInv
    <3>2. r[j] = S[j]
      BY <1>2 DEF Starts
    <3>. QED  BY <2>2, <2>3, <3>1, <3>2
  <2>5. CASE ix \notin 0..(c - 1)
    <3>1. f.kind = "block_start" /\ ix = c
      BY <2>3, <2>5
    <3>2. r[n + 1].ix = c
      <4>1. (n + 1) - 1 = n
        OBVIOUS
      <4>. QED  BY <1>2, <1>5, <2>2, <3>1, <4>1 DEF FrameOk
    <3>3. n + 1 \in Starts(r, n + 1)
      BY <2>3, <3>1
    <3>. QED  BY <3>1, <3>2, <3>3
  <2>. QED  BY <2>4, <2>5
<1>8. \A k \in 1..(n + 1) : FrameOk(r, k)
  <2>. TAKE k \in 1..(n + 1)
  <2>1. CASE k \in 1..n
    BY <1>6, <2>1
  <2>2. CASE k = n + 1
    BY <1>5, <2>2
  <2>. QED  BY <2>1, <2>2
<1>9. SentInv(r)
  BY <1>2, <1>3, <1>7, <1>8 DEF SentInv
<1>. QED  BY <1>1, <1>3, <1>4, <1>9

\* Before the first frame.
LEMMA SentNone == SentInv(<<>>)
<1>1. StartsIn(<<>>, 0) = 0
  <2>1. Starts(<<>>, 0) = {}
    BY DEF Starts
  <2>. QED  BY <2>1, FS_EmptySet DEF StartsIn
<1>2. IsQueue(<<>>) /\ Len(<<>>) = 0
  BY EmptyQueue
<1>. QED  BY <1>1, <1>2 DEF SentInv

\* The bytes of the frames sent are bytes of these frames.
LEMMA Sized ==
  ASSUME NEW nl \in Styles, NEW S, Len(S) \in Nat \ {0}
  PROVE  /\ Bytes(nl, S) \in Nat /\ Width(nl) \in Nat
         /\ Width(nl) * (Len(S) - 1) <= Bytes(nl, S) /\ Bytes(nl, S) <= Width(nl) * Len(S)
<1>1. PICK n \in Nat \ {0} : n = Len(S)
  OBVIOUS
<1>2. PICK w \in {6, 9}, e \in {1, 2} : Width(nl) = w /\ EmptyLine(nl) = e
  BY Layouts DEF Styles, EmptyLine
<1>3. Bytes(nl, S) = n * w - (IF Last(S).kind = "message_stop" THEN e ELSE 0)
  BY <1>1, <1>2 DEF Bytes, Width
<1>4. PICK y \in {0, 1, 2} : Bytes(nl, S) = n * w - y
  BY <1>3
<1>5. CASE w = 6
  BY <1>1, <1>2, <1>4, <1>5
<1>6. CASE w = 9
  BY <1>1, <1>2, <1>4, <1>6
<1>. QED  BY <1>5, <1>6

\* No more frames come than are sent.
LEMMA ComeOfSent ==
  ASSUME NEW nl \in Styles, NEW p \in Nat, NEW n \in Nat, p <= Width(nl) * n
  PROVE  /\ FramesIn(nl, p) \in Nat /\ TextsIn(nl, p) \in Nat
         /\ FramesIn(nl, p) <= TextsIn(nl, p) /\ TextsIn(nl, p) <= n
<1>1. PICK s \in 0..4 :
        /\ FramesIn(nl, p) \in Nat /\ LettersIn(nl, p) \in Nat
        /\ TextsIn(nl, p) = FramesIn(nl, p) + IF s >= 3 THEN 1 ELSE 0
  BY TextsAndFrames
<1>2. PICK w \in {6, 9} : Width(nl) = w
  BY Layouts DEF Styles
<1>3. ASSUME n + 1 <= TextsIn(nl, p) PROVE FALSE
  <2>1. n + 1 \in Nat \ {0} /\ (n + 1) - 1 = n
    OBVIOUS
  <2>2. PICK j \in DOMAIN Layout(nl) : Layout(nl)[j] = "tail" /\ n * Width(nl) + j <= p
    BY <1>3, <2>1, TextHasCome
  <2>3. j \in Nat \ {0}
    BY Layouts DEF Styles, Layout
  <2>4. CASE w = 6
    BY <1>2, <2>2, <2>3, <2>4
  <2>5. CASE w = 9
    BY <1>2, <2>2, <2>3, <2>5
  <2>. QED  BY <2>4, <2>5
<1>. QED  BY <1>1, <1>3

-----------------------------------------------------------------------------
(***************************************************************************)
(* The invariant of the native route.                                      *)
(***************************************************************************)

\* The response, and what the decoder and the message have of it.
IsResponse(w) ==
  /\ w = [sent |-> w.sent, bytes |-> w.bytes, came |-> w.came, closed |-> w.closed, newline |-> w.newline]
  /\ w.newline \in Styles /\ w.came \in Nat /\ w.bytes \in Nat
  /\ w.came <= w.bytes /\ w.bytes <= Width(w.newline) * Len(w.sent)
  /\ SentInv(w.sent)
Heard(w) == FramesIn(w.newline, w.came)
Read(w) == TextsIn(w.newline, w.came)
Relays(w, m) == Live(w.sent, m, Heard(w)) \/ \E n \in {Heard(w), Read(w)} : Finished(w.sent, m, n)

WireInv ==
  /\ IsQueue(told) /\ IsResponse(net) /\ DecodedTo(dec, net.newline, net.came)
  /\ Relays(net, asm)

\* No more frames were heard than sent.
LEMMA HeardOfSent ==
  ASSUME NEW w, IsResponse(w)
  PROVE  /\ Heard(w) \in Nat /\ Read(w) \in Nat /\ Len(w.sent) \in Nat
         /\ Heard(w) <= Read(w) /\ Read(w) <= Len(w.sent)
<1>1. PICK n \in Nat : n = Len(w.sent)
  BY Counted DEF IsResponse
<1>2. PICK l \in {6, 9} : Width(w.newline) = l
  BY Layouts DEF IsResponse, Styles
<1>3. w.came <= Width(w.newline) * n
  <2>1. CASE l = 6
    BY <1>1, <1>2, <2>1 DEF IsResponse
  <2>2. CASE l = 9
    BY <1>1, <1>2, <2>2 DEF IsResponse
  <2>. QED  BY <2>1, <2>2
<1>4. w.newline \in Styles /\ w.came \in Nat
  BY DEF IsResponse
<1>5. /\ FramesIn(w.newline, w.came) \in Nat /\ TextsIn(w.newline, w.came) \in Nat
      /\ FramesIn(w.newline, w.came) <= TextsIn(w.newline, w.came) /\ TextsIn(w.newline, w.came) <= n
  BY <1>3, <1>4, ComeOfSent
<1>. QED  BY <1>1, <1>5 DEF Heard, Read

\* What there is to say is said whatever is told of it.
LEMMA RelaysOn ==
  ASSUME NEW w, NEW m, Relays(w, m), told' = told
  PROVE  Relays(w, m)'
BY DEF Relays, Live, Talking, Tells, Finished

\* The message ends before the server's end.
LEMMA EndedEarly ==
  ASSUME IsQueue(told), NEW w, NEW n \in {Heard(w), Read(w)}, NEW m, Live(w.sent, m, n),
         NEW how \in {"error", "aborted"}, NEW r, r = Ended(m, how)
  PROVE  Relays(w, r)
<1>1. Talking(m) /\ Spelled(w.sent, m.blocks, n)
  BY DEF Live
<1>2. IsNative(r) /\ r.blocks = m.blocks /\ r.final = how /\ IsQueue(r.out) /\ Legal(told \o r.out, FALSE)
  <2>1. PICK h : h = how
    OBVIOUS
  <2>2. r = Ended(m, h)
    BY <2>1
  <2>3. IsNative(r) /\ r.blocks = m.blocks /\ r.final = h /\ IsQueue(r.out) /\ Legal(told \o r.out, FALSE)
    BY ONLY IsQueue(told), <1>1, <2>2, TalkEnded
  <2>. QED  BY <2>1, <2>3
<1>3. Finished(w.sent, r, n)
  BY <1>1, <1>2 DEF Finished
<1>. QED  BY <1>3 DEF Relays

\* The server sends.
LEMMA SendsWire ==
  ASSUME WireInv, ServerSends
  PROVE  WireInv'
<1>1. PICK w : w = net
  OBVIOUS
<1>2. PICK S : S = w.sent
  OBVIOUS
<1>3. PICK f \in Possible(S) : net' = [w EXCEPT !.sent = Append(@, f), !.bytes = Bytes(w.newline, Append(S, f))]
  BY <1>1, <1>2 DEF ServerSends
<1>4. PICK r : r = Append(S, f)
  OBVIOUS
<1>5. PICK v : v = net'
  OBVIOUS
<1>6. IsResponse(w)
  BY <1>1 DEF WireInv
<1>7. /\ v = [sent |-> v.sent, bytes |-> v.bytes, came |-> v.came, closed |-> v.closed, newline |-> v.newline]
      /\ v.sent = r /\ v.bytes = Bytes(w.newline, r) /\ v.came = w.came /\ v.newline = w.newline
  BY <1>2, <1>3, <1>4, <1>5, <1>6 DEF IsResponse
<1>8. SentInv(r) /\ Agree(S, r, Len(S)) /\ Len(r) = Len(S) + 1 /\ Len(S) \in Nat
  <2>1. SentInv(S) /\ Count(S, "message_stop") + Count(S, "error") = 0
    BY <1>1, <1>2, <1>6 DEF ServerSends, IsResponse
  <2>. QED  BY <1>4, <2>1, SentMore
<1>9. w.bytes <= v.bytes /\ v.bytes \in Nat /\ v.bytes <= Width(v.newline) * Len(v.sent)
  <2>1. Len(r) \in Nat \ {0} /\ Len(r) - 1 = Len(S)
    BY <1>8
  <2>2. /\ Bytes(w.newline, r) \in Nat /\ Width(w.newline) \in Nat
        /\ Width(w.newline) * (Len(r) - 1) <= Bytes(w.newline, r) /\ Bytes(w.newline, r) <= Width(w.newline) * Len(r)
    BY <1>6, <2>1, Sized DEF IsResponse
  <2>3. w.bytes \in Nat /\ w.bytes <= Width(w.newline) * Len(S)
    BY <1>2, <1>6 DEF IsResponse
  <2>4. Width(w.newline) * Len(S) \in Nat
    BY <1>8, <2>2
  <2>. QED  BY <1>7, <2>1, <2>2, <2>3, <2>4
<1>10. IsResponse(v)
  BY <1>6, <1>7, <1>8, <1>9 DEF IsResponse
<1>11. Heard(v) = Heard(w) /\ Heard(w) \in 0..Len(S)
  <2>1. Heard(v) = Heard(w)
    BY <1>7 DEF Heard
  <2>2. Heard(w) \in Nat /\ Heard(w) <= Len(S)
    BY <1>2, <1>6, HeardOfSent
  <2>. QED  BY <1>8, <2>1, <2>2
<1>12. PICK m : m = asm
  OBVIOUS
<1>13. asm' = m /\ told' = told /\ dec' = dec /\ m.final = "none"
  BY <1>12 DEF ServerSends, Ready
<1>14. Live(S, m, Heard(w))
  BY <1>1, <1>2, <1>12, <1>13 DEF WireInv, Relays, Finished
<1>15. Live(r, m, Heard(w))
  BY <1>8, <1>11, <1>14, AgreeLive
<1>16. Relays(v, m)
  BY <1>7, <1>11, <1>15 DEF Relays
<1>17. Relays(v, m)'
  BY <1>13, <1>16, RelaysOn
<1>18. DecodedTo(dec', v.newline, v.came)
  BY <1>1, <1>7, <1>13 DEF WireInv
<1>. QED  BY <1>5, <1>10, <1>13, <1>17, <1>18 DEF WireInv

\* The body is closed.
LEMMA ClosesWire ==
  ASSUME WireInv, ServerCloses
  PROVE  WireInv'
<1>1. PICK w, v, m : w = net /\ v = net' /\ m = asm
  OBVIOUS
<1>2. IsResponse(w) /\ Relays(w, m) /\ DecodedTo(dec, w.newline, w.came)
  BY <1>1 DEF WireInv
<1>3. PICK n \in w.came..w.bytes : v = [w EXCEPT !.closed = TRUE, !.bytes = n]
  BY <1>1 DEF ServerCloses
<1>4. asm' = m /\ told' = told /\ dec' = dec
  BY <1>1 DEF ServerCloses
<1>5. /\ v = [sent |-> v.sent, bytes |-> v.bytes, came |-> v.came, closed |-> v.closed, newline |-> v.newline]
      /\ v.sent = w.sent /\ v.bytes = n /\ v.came = w.came /\ v.newline = w.newline
  BY <1>2, <1>3 DEF IsResponse
<1>6. IsResponse(v)
  <2>1. n \in Nat /\ v.came <= n
    BY <1>2, <1>5 DEF IsResponse
  <2>2. n <= Width(w.newline) * Len(w.sent)
    <3>1. Len(w.sent) \in Nat
      BY <1>2, HeardOfSent
    <3>2. PICK l \in {6, 9} : Width(w.newline) = l
      BY <1>2, Layouts DEF IsResponse, Styles
    <3>3. PICK y : y = l * Len(w.sent)
      OBVIOUS
    <3>4. w.bytes <= y /\ y \in Nat /\ w.bytes \in Nat
      BY <1>2, <3>1, <3>2, <3>3 DEF IsResponse
    <3>. QED  BY <3>2, <3>3, <3>4
  <2>. QED  BY <1>2, <1>5, <2>1, <2>2 DEF IsResponse
<1>7. Relays(v, m)
  BY <1>2, <1>5 DEF Relays, Heard, Read
<1>8. Relays(v, m)'
  BY <1>4, <1>7, RelaysOn
<1>. QED  BY <1>1, <1>2, <1>4, <1>5, <1>6, <1>8 DEF WireInv

\* Bytes come.
LEMMA ReceivesWire ==
  ASSUME WireInv, Receive
  PROVE  WireInv'
<1>1. PICK w, v, m, d : w = net /\ v = net' /\ m = asm /\ d = dec
  OBVIOUS
<1>2. IsResponse(w) /\ Relays(w, m) /\ DecodedTo(d, w.newline, w.came) /\ IsQueue(told)
  BY <1>1 DEF WireInv
<1>3. PICK nl \in Styles, p \in Nat : nl = w.newline /\ p = w.came
  BY <1>2 DEF IsResponse
<1>4. PICK n \in 1..(w.bytes - p) :
        LET got == PushBytes(d, [i \in 1..n |-> Byte(nl, p + i)])
        IN  dec' = got.dec /\ asm' = OnFrames(m, got.frames) /\ net' = [w EXCEPT !.came = @ + n]
  BY <1>1, <1>3 DEF Receive
<1>5. PICK chunk, got : chunk = [i \in 1..n |-> Byte(nl, p + i)] /\ got = PushBytes(d, chunk)
  OBVIOUS
<1>6. dec' = got.dec /\ asm' = OnFrames(m, got.frames) /\ v = [w EXCEPT !.came = @ + n] /\ told' = told
  BY <1>1, <1>4, <1>5 DEF Receive
<1>7. n \in Nat \ {0} /\ p + n <= w.bytes /\ p + n \in Nat
  BY <1>2, <1>3, <1>4 DEF IsResponse
<1>8. /\ v = [sent |-> v.sent, bytes |-> v.bytes, came |-> v.came, closed |-> v.closed, newline |-> v.newline]
      /\ v.sent = w.sent /\ v.bytes = w.bytes /\ v.came = p + n /\ v.newline = nl
  BY <1>2, <1>3, <1>6 DEF IsResponse
<1>9. IsResponse(v)
  BY <1>2, <1>3, <1>7, <1>8 DEF IsResponse
<1>10. IsQueue(chunk) /\ Len(chunk) = n /\ \A i \in 1..n : chunk[i] = Byte(nl, p + i)
  <2>1. chunk \in [1..n -> {chunk[i] : i \in 1..n}] /\ DOMAIN chunk = 1..n
    BY <1>5
  <2>2. chunk \in Seq({chunk[i] : i \in DOMAIN chunk})
    BY <1>7, <2>1, SeqDef
  <2>3. IsQueue(chunk)
    BY <2>2 DEF IsQueue
  <2>4. Len(chunk) = n
    BY <1>7, <2>1, <2>3, LenProperties DEF IsQueue
  <2>. QED  BY <1>5, <2>3, <2>4
<1>11. /\ DecodedTo(got.dec, nl, p + n)
       /\ FramesIn(nl, p) \in Nat /\ FramesIn(nl, p + n) \in Nat /\ FramesIn(nl, p) <= FramesIn(nl, p + n)
       /\ got.frames = Frames(FramesIn(nl, p), FramesIn(nl, p + n))
  BY <1>2, <1>3, <1>5, <1>7, <1>10, BytesPushed
<1>12. PICK a \in Nat, b \in Nat : a = Heard(w) /\ b = Heard(v) /\ a <= b /\ got.frames = Frames(a, b)
  BY <1>3, <1>8, <1>11 DEF Heard
<1>13. b <= Len(w.sent)
  <2>1. Heard(v) <= Read(v) /\ Read(v) <= Len(v.sent) /\ Heard(v) \in Nat /\ Read(v) \in Nat /\ Len(v.sent) \in Nat
    BY <1>9, HeardOfSent
  <2>. QED  BY <1>8, <1>12, <2>1
<1>14. Live(w.sent, m, a)
  <2>1. m.final = "none"
    BY <1>1 DEF Receive, Ready
  <2>. QED  BY <1>2, <1>12, <2>1 DEF Relays, Finished
<1>15. PICK r : r = OnFrames(m, Frames(a, b))
  OBVIOUS
<1>16. Reached(w.sent, r, b)
  <2>1. SentInv(w.sent) /\ w.sent = net.sent
    BY <1>1, <1>2 DEF IsResponse
  <2>. QED  BY <1>2, <1>12, <1>13, <1>14, <1>15, <2>1, FramesFollow
<1>17. Relays(v, r)
  BY <1>8, <1>12, <1>16 DEF Reached, Relays
<1>18. Relays(v, r)'
  BY <1>6, <1>17, RelaysOn
<1>19. asm' = r
  BY <1>6, <1>12, <1>15
<1>. QED  BY <1>1, <1>2, <1>6, <1>8, <1>9, <1>11, <1>18, <1>19 DEF WireInv

\* The body is over.
LEMMA EndsWire ==
  ASSUME WireInv, BodyEnds
  PROVE  WireInv'
<1>1. PICK w, m, d : w = net /\ m = asm /\ d = dec
  OBVIOUS
<1>2. IsResponse(w) /\ Relays(w, m) /\ DecodedTo(d, w.newline, w.came) /\ IsQueue(told)
  BY <1>1 DEF WireInv
<1>3. PICK nl \in Styles, p \in Nat : nl = w.newline /\ p = w.came
  BY <1>2 DEF IsResponse
<1>4. PICK a \in Nat, b \in Nat : a = Heard(w) /\ b = Read(w) /\ a <= b /\ b <= Len(w.sent)
  BY <1>2, HeardOfSent
<1>5. Flush(d) = Frames(a, b)
  BY <1>2, <1>3, <1>4, Flushed DEF Heard, Read
<1>6. PICK r : r = OnFrames(m, Frames(a, b))
  OBVIOUS
<1>7. PICK e : e = IF r.final = "none" THEN Ended(r, "error") ELSE r
  OBVIOUS
<1>8. asm' = e /\ told' = told /\ net' = w /\ dec' = d
  BY <1>1, <1>5, <1>6, <1>7 DEF BodyEnds
<1>9. Live(w.sent, m, a)
  <2>1. m.final = "none"
    BY <1>1 DEF BodyEnds, Ready
  <2>. QED  BY <1>2, <1>4, <2>1 DEF Relays, Finished
<1>10. Reached(w.sent, r, b)
  <2>1. SentInv(w.sent) /\ w.sent = net.sent
    BY <1>1, <1>2 DEF IsResponse
  <2>. QED  BY <1>2, <1>4, <1>6, <1>9, <2>1, FramesFollow
<1>11. Relays(w, e)
  <2>1. CASE Live(w.sent, r, b)
    <3>1. e = Ended(r, "error")
      BY <1>7, <2>1 DEF Live
    <3>. QED  BY <1>2, <1>4, <2>1, <3>1, EndedEarly
  <2>2. CASE Finished(w.sent, r, b)
    <3>1. e = r
      BY <1>7, <2>2 DEF Finished
    <3>. QED  BY <1>4, <2>2, <3>1 DEF Relays
  <2>. QED  BY <1>10, <2>1, <2>2 DEF Reached
<1>12. Relays(w, e)'
  BY <1>8, <1>11, RelaysOn
<1>. QED  BY <1>2, <1>8, <1>12 DEF WireInv

\* The stream breaks, or is broken off.
LEMMA BreaksWire ==
  ASSUME WireInv, OneShotError \/ ReceiveFails \/ CancelNative
  PROVE  WireInv'
<1>1. PICK w, m : w = net /\ m = asm
  OBVIOUS
<1>2. IsResponse(w) /\ Relays(w, m) /\ IsQueue(told)
  BY <1>1 DEF WireInv
<1>3. PICK how \in {"error", "aborted"} : asm' = Ended(m, how)
  BY <1>1 DEF OneShotError, ReceiveFails, CancelNative
<1>4. told' = told /\ net' = net /\ dec' = dec /\ m.final = "none"
  BY <1>1 DEF OneShotError, ReceiveFails, CancelNative, Ready
<1>5. Live(w.sent, m, Heard(w))
  BY <1>2, <1>4 DEF Relays, Finished
<1>6. PICK r : r = Ended(m, how)
  OBVIOUS
<1>7. Relays(w, r)
  BY <1>2, <1>5, <1>6, EndedEarly
<1>8. Relays(w, r)'
  BY <1>4, <1>7, RelaysOn
<1>. QED  BY <1>1, <1>3, <1>4, <1>6, <1>8 DEF WireInv

\* The consumer is told the next event.
LEMMA YieldsWire ==
  ASSUME WireInv, Yield
  PROVE  WireInv'
<1>1. PICK w, m, r : w = net /\ m = asm /\ r = asm'
  OBVIOUS
<1>2. IsResponse(w) /\ Relays(w, m) /\ DecodedTo(dec, w.newline, w.came) /\ IsQueue(told)
  BY <1>1 DEF WireInv
<1>3. /\ m.out # <<>> /\ told' = Append(told, Head(m.out)) /\ net' = w /\ dec' = dec
      /\ r = [m EXCEPT !.out = Tail(@)]
  BY <1>1 DEF Yield, YieldEvent
<1>4. IsNative(m) /\ IsQueue(m.out)
  BY <1>2 DEF Relays, Live, Talking, Tells, Finished
<1>5. IsQueue(told') /\ IsQueue(Tail(m.out)) /\ told' \o Tail(m.out) = told \o m.out
  BY <1>2, <1>3, <1>4, YieldTold
<1>6. /\ IsNative(r) /\ r.out = Tail(m.out) /\ r.blocks = m.blocks /\ r.open = m.open
      /\ (r.started <=> m.started) /\ r.final = m.final
  BY <1>3, <1>4 DEF IsNative
<1>7. told' \o r.out = told \o m.out /\ IsQueue(r.out)
  BY <1>5, <1>6
<1>8. ASSUME NEW n, Live(w.sent, m, n) PROVE Live(w.sent, r, n)'
  <2>1. Talking(m) /\ m.final = "none" /\ Spelled(w.sent, m.blocks, n) /\ DOMAIN m.open = OpenAfter(w.sent, n)
    BY <1>8 DEF Live
  <2>2. OpenBlocks(r) = OpenBlocks(m)
    BY <1>6 DEF OpenBlocks
  <2>3. Story(told \o m.out, Len(m.blocks), OpenBlocks(m), FALSE) /\ (m.started <=> told \o m.out # <<>>)
    BY <2>1 DEF Talking, Tells
  <2>4. Story(told' \o r.out, Len(r.blocks), OpenBlocks(r), FALSE)
    BY <1>6, <1>7, <2>2, <2>3, Zenon
  <2>5. r.started <=> told' \o r.out # <<>>
    BY <1>6, <1>7, <2>3, Zenon
  <2>6. Tells(r, OpenBlocks(r), FALSE)'
    BY <1>7, <2>4, <2>5 DEF Tells
  <2>7. Talking(r)'
    BY <1>6, <2>1, <2>6 DEF Talking
  <2>. QED  BY <1>6, <2>1, <2>7 DEF Live
<1>9. ASSUME NEW n, Finished(w.sent, m, n) PROVE Finished(w.sent, r, n)'
  BY <1>6, <1>7, <1>9 DEF Finished
<1>10. Relays(w, r)'
  BY <1>2, <1>8, <1>9 DEF Relays
<1>. QED  BY <1>1, <1>2, <1>3, <1>5, <1>10 DEF WireInv

\* The message of the server's frames, on that route.
NativeInv == route = "native" => WireInv

\* On the native route the message is what the frames heard make.
LEMMA NativeInvHolds == StreamSpec => []NativeInv
<1>1. StreamInit => NativeInv
  <2>. SUFFICES ASSUME StreamInit, route = "native" PROVE WireInv
    BY DEF NativeInv
  <2>1. told = <<>> /\ NativeInit
    BY DEF StreamInit
  <2>2. PICK w, m, d : w = net /\ m = asm /\ d = dec
    OBVIOUS
  <2>3. PICK nl \in Newlines : w = [sent |-> <<>>, bytes |-> 0, came |-> 0, closed |-> FALSE, newline |-> nl]
    BY <2>1, <2>2 DEF NativeInit
  <2>4. nl \in Styles
    BY WireAssumption DEF Styles
  <2>5. IsResponse(w)
    <3>1. Len(<<>>) = 0
      BY EmptyQueue
    <3>2. 0 <= Width(nl) * 0
      BY <2>4, Layouts DEF Styles
    <3>. QED  BY <2>3, <2>4, <3>1, <3>2, SentNone DEF IsResponse
  <2>6. LettersIn(nl, 0) = 0 /\ ~CrAt(nl, 0) /\ ~HeadAt(nl, 0) /\ FramesIn(nl, 0) = 0
    <3>1. LettersIn(nl, 0) = 0
      BY <2>4, Layouts DEF LettersIn, Letters, Styles
    <3>. QED  BY <3>1 DEF CrAt, HeadAt, FramesIn
  <2>7. DecodedTo(d, nl, 0)
    <3>1. d = [pending |-> <<>>, buf |-> <<>>, cr |-> FALSE]
      BY <2>1, <2>2 DEF NativeInit, NoBytes
    <3>2. Text(0, 0) = <<>>
      <4>1. IsQueue(Text(0, 0)) /\ Len(Text(0, 0)) = 0
        BY TextIs
      <4>. QED  BY <4>1, EmptyQueue, SameQueue
    <3>3. d.pending = <<>> /\ d.buf = <<>> /\ ~d.cr /\ IsDecoder(d)
      BY <3>1 DEF IsDecoder
    <3>. QED  BY <2>6, <3>2, <3>3 DEF DecodedTo
  <2>8. /\ m.blocks = <<>> /\ m.open = <<>> /\ ~m.started /\ m.out = <<>> /\ m.final = "none" /\ IsNative(m)
    BY <2>1, <2>2 DEF NativeInit, NewState, IsNative
  <2>9. Talking(m)
    <3>1. told \o m.out = <<>> /\ IsQueue(m.out) /\ Len(m.blocks) = 0 /\ IsQueue(m.blocks)
      BY <2>1, <2>8, EmptyQueue, Concats
    <3>2. Tells(m, {}, FALSE)
      BY <2>8, <3>1, StoryNone DEF Tells
    <3>3. DOMAIN m.open = {}
      BY <2>8, EmptyQueue
    <3>4. OpenBlocks(m) = {}
      BY <3>3 DEF OpenBlocks
    <3>5. Tells(m, OpenBlocks(m), FALSE)
      BY <3>2, <3>4, Zenon
    <3>. QED  BY <2>8, <3>1, <3>3, <3>5 DEF Talking
  <2>10. Live(<<>>, m, 0)
    <3>1. Starts(<<>>, 0) = {}
      BY DEF Starts
    <3>2. StartsIn(<<>>, 0) = 0
      BY <3>1, FS_EmptySet DEF StartsIn
    <3>3. OpenAfter(<<>>, 0) = {} /\ DOMAIN m.open = {}
      BY <2>8, <3>2, EmptyQueue DEF OpenAfter
    <3>4. Spelled(<<>>, m.blocks, 0)
      BY <2>8, <3>1, <3>2, EmptyQueue DEF Spelled
    <3>. QED  BY <2>8, <2>9, <3>3, <3>4 DEF Live
  <2>11. Heard(w) = 0 /\ w.sent = <<>> /\ w.newline = nl /\ w.came = 0
    BY <2>3, <2>6 DEF Heard
  <2>. QED  BY <2>1, <2>2, <2>5, <2>7, <2>10, <2>11, EmptyQueue DEF WireInv, Relays
<1>2. NativeInv /\ [StreamNext]_streamVars => NativeInv'
  <2>. SUFFICES ASSUME NativeInv, [StreamNext]_streamVars, route' = "native" PROVE WireInv'
    BY DEF NativeInv
  <2>1. CASE Native
    <3>1. WireInv /\ NativeNext
      BY <2>1 DEF Native, NativeInv
    <3>. QED  BY <3>1, SendsWire, ClosesWire, ReceivesWire, EndsWire, BreaksWire DEF NativeNext
  <2>2. CASE Genai
    BY <2>2 DEF Genai
  <2>3. CASE Yield
    BY <2>3, YieldsWire DEF Yield, NativeInv
  <2>4. CASE UNCHANGED streamVars
    <3>1. told' = told /\ net' = net /\ asm' = asm /\ dec' = dec /\ WireInv
      BY <2>4 DEF streamVars, NativeInv
    <3>2. Relays(net, asm)'
      <4>1. PICK w, m : w = net /\ m = asm
        OBVIOUS
      <4>2. Relays(w, m)'
        BY <3>1, <4>1, RelaysOn DEF WireInv
      <4>. QED  BY <3>1, <4>1, <4>2
    <3>. QED  BY <3>1, <3>2 DEF WireInv
  <2>. QED  BY <2>1, <2>2, <2>3, <2>4 DEF StreamNext
<1>. QED  BY <1>1, <1>2, PTL DEF StreamSpec

-----------------------------------------------------------------------------
(***************************************************************************)
(* What the two routes promise.                                            *)
(***************************************************************************)

\* The one route or the other is taken.
RouteOk == route \in {"native", "genai"}

\* The route is one of the two.
LEMMA RouteHolds == StreamSpec => []RouteOk
<1>1. StreamInit => RouteOk
  BY DEF StreamInit, RouteOk
<1>2. RouteOk /\ [StreamNext]_streamVars => RouteOk'
  BY DEF StreamNext, Native, Genai, Yield, streamVars, RouteOk
<1>. QED  BY <1>1, <1>2, PTL DEF StreamSpec

\* Both routes keep the contract of stream.rs.
THEOREM ImplementsProtocolHolds == StreamSpec => ImplementsProtocol
<1>1. StreamInit => Protocol!Init
  <2>. SUFFICES ASSUME StreamInit PROVE Protocol!Init
    OBVIOUS
  <2>1. told = <<>>
    BY DEF StreamInit
  <2>2. \A kind : Told(kind) = {}
    BY <2>1, EmptyQueue DEF Told
  <2>3. Cardinality(Told("open")) = 0 /\ At("open") \ At("close") = {}
    BY <2>2, FS_EmptySet DEF At
  <2>. QED  BY <2>1, <2>3 DEF Protocol!Init, Protocol!Ev, Ev
<1>2. NativeInv /\ GenaiInv /\ RouteOk /\ [StreamNext]_streamVars => [Protocol!Next]_(Protocol!vars)
  <2>. SUFFICES ASSUME NativeInv, GenaiInv, RouteOk, [StreamNext]_streamVars
                PROVE  [Protocol!Next]_(Protocol!vars)
    OBVIOUS
  <2>1. CASE Yield
    <3>1. PICK out : out = asm.out
      OBVIOUS
    <3>2. out # <<>> /\ told' = Append(told, Head(out)) /\ route' = route
      BY <2>1, <3>1 DEF Yield, YieldEvent
    <3>3. CASE route = "native"
      <4>1. IsQueue(told) /\ IsQueue(out) /\ Legal(told \o out, FALSE)
        BY <3>1, <3>3 DEF NativeInv, WireInv, Relays, Live, Talking, Tells, Story, Finished
      <4>2. Legal(told \o out, route = "genai")
        BY <3>3, <4>1
      <4>. QED  BY <3>2, <4>1, <4>2, YieldsStep
    <3>4. CASE route = "genai"
      <4>1. IsQueue(told) /\ IsQueue(out) /\ Legal(told \o out, TRUE)
        BY <3>1, <3>4 DEF GenaiInv, InboundInv, Assembled, Going, Tells, Story, Over
      <4>2. Legal(told \o out, route = "genai")
        BY <3>4, <4>1
      <4>. QED  BY <3>2, <4>1, <4>2, YieldsStep
    <3>. QED  BY <3>3, <3>4 DEF RouteOk
  <2>2. CASE told' = told /\ route' = route
    <3>1. \A kind : Told(kind)' = Told(kind) /\ At(kind)' = At(kind)
      BY <2>2 DEF Told, At
    <3>. QED  BY <2>2, <3>1 DEF Protocol!vars
  <2>3. Yield \/ (told' = told /\ route' = route)
    BY DEF StreamNext, Native, Genai, streamVars, NativeNext, InboundNext, ServerSends, ServerCloses,
                OneShotError, Receive, ReceiveFails, BodyEnds, CancelNative,
                GenaiRefuses, OnStart, OnEvent, OnEnd, GenaiFails, CancelInbound
  <2>. QED  BY <2>1, <2>2, <2>3
<1>. QED  BY <1>1, <1>2, NativeInvHolds, GenaiInvHolds, RouteHolds, PTL DEF StreamSpec, ImplementsProtocol, Protocol!Spec

\* The blocks that the first n frames spell are those a reader of the frames writes down.
LEMMA SpelledSpells ==
  ASSUME SentInv(net.sent), NEW n \in 0..Len(net.sent), NEW blocks, Spelled(net.sent, blocks, n)
  PROVE  Spells(blocks, 1..n)
<1>1. PICK S : S = net.sent
  OBVIOUS
<1>2. n \in Nat /\ Len(S) \in Nat /\ \A k \in 1..n : FrameOk(S, k)
  BY <1>1, Counted DEF SentInv
<1>3. ASSUME NEW k \in Starts(S, n)
      PROVE  Cardinality({j \in Starts(S, n) : j <= k}) = S[k].ix + 1
  <2>1. k \in 1..n /\ k - 1 \in Nat /\ (k - 1) + 1 = k
    BY DEF Starts
  <2>2. {j \in Starts(S, n) : j <= k} = Starts(S, k)
    BY <1>2, <2>1 DEF Starts
  <2>3. S[k].kind = "block_start" /\ S[k].ix = StartsIn(S, k - 1)
    BY <1>2, <2>1 DEF Starts, FrameOk
  <2>4. StartsIn(S, k) = StartsIn(S, k - 1) + 1
    BY <2>1, <2>3, StartsMore
  <2>. QED  BY <2>2, <2>3, <2>4 DEF StartsIn
<1>. DEFINE starts == {k \in 1..n : net.sent[k].kind = "block_start"}
            pieces(ix, sig) == {k \in 1..n : /\ net.sent[k].kind = "delta" /\ net.sent[k].ix = ix
                                             /\ (net.sent[k].what = "signature") = sig}
<1>4. starts = Starts(S, n)
  BY <1>1 DEF Starts
<1>5. \A ix : pieces(ix, FALSE) = PartsIn(S, n, ix) /\ pieces(ix, TRUE) = SignsIn(S, n, ix)
  BY <1>1 DEF PartsIn, SignsIn
<1>6. Len(blocks) = Cardinality(starts)
  BY <1>1, <1>4 DEF Spelled, StartsIn
<1>7. ASSUME NEW k \in starts
      PROVE  LET f == net.sent[k]
                 b == blocks[Cardinality({j \in starts : j <= k})]
             IN  b.kind = f.what /\ InOrder(b.parts, pieces(f.ix, FALSE)) /\ InOrder(b.sig, pieces(f.ix, TRUE))
  <2>1. SpelledBlock(S, n, S[k].ix, S[k].what, blocks[S[k].ix + 1])
    BY <1>1, <1>4 DEF Spelled
  <2>2. Cardinality({j \in starts : j <= k}) = S[k].ix + 1
    BY <1>3, <1>4
  <2>3. PICK f, b : f = S[k] /\ b = blocks[S[k].ix + 1]
    OBVIOUS
  <2>4. b.kind = f.what /\ InOrder(b.parts, pieces(f.ix, FALSE)) /\ InOrder(b.sig, pieces(f.ix, TRUE))
    <3>. HIDE DEF pieces
    <3>. QED  BY <1>5, <2>1, <2>3 DEF SpelledBlock, Lists
  <2>. HIDE DEF starts, pieces
  <2>. QED  BY <1>1, <2>2, <2>3, <2>4
<1>. QED  BY <1>6, <1>7, Zenon DEF Spells

\* SseDecoder and AnthropicState: however the body was cut, the message is what the frames
\* received say, less at most the last; and it is Done only after message_stop.
THEOREM DeliversTheWireHolds == StreamSpec => []DeliversTheWire
<1>1. NativeInv => DeliversTheWire
  <2>. SUFFICES ASSUME WireInv, route = "native" PROVE DeliversTheWire
    BY DEF NativeInv, DeliversTheWire
  <2>0. PICK S : S = net.sent
    OBVIOUS
  <2>1. PICK nl \in Styles, p \in Nat : S = net.sent /\ nl = net.newline /\ p = net.came
    BY <2>0 DEF WireInv, IsResponse
  <2>2. SentInv(S) /\ Len(S) \in Nat /\ DOMAIN S = 1..Len(S)
    BY <2>1, Counted DEF WireInv, IsResponse
  <2>3. PICK h \in Nat, t \in Nat : h = Heard(net) /\ t = Read(net) /\ h <= t /\ t <= Len(S) /\ h \in {t, t - 1}
    <3>1. /\ Heard(net) \in Nat /\ Read(net) \in Nat /\ Heard(net) <= Read(net) /\ Read(net) <= Len(S)
      BY <2>1, HeardOfSent DEF WireInv
    <3>2. PICK s \in 0..4 : TextsIn(nl, p) = FramesIn(nl, p) + IF s >= 3 THEN 1 ELSE 0
      BY TextsAndFrames
    <3>3. Read(net) = Heard(net) + IF s >= 3 THEN 1 ELSE 0
      BY <2>1, <3>2 DEF Heard, Read
    <3>. QED  BY <3>1, <3>3
  <2>4. Received = 1..t
    <3>1. ASSUME NEW k \in 1..Len(S)
          PROVE  (\E j \in DOMAIN Layout(nl) : Layout(nl)[j] = "tail" /\ (k - 1) * Width(nl) + j <= p) <=> k <= t
      <4>1. k \in Nat \ {0}
        OBVIOUS
      <4>. QED  BY <2>1, <2>3, <4>1, TextHasCome DEF Read
    <3>2. Received = {k \in 1..Len(S) : k <= t}
      BY <2>1, <2>2, <3>1 DEF Received, Width
    <3>. QED  BY <2>2, <2>3, <3>2
  <2>5. ASSUME NEW n \in {h, t}, Spelled(S, asm.blocks, n)
        PROVE  \/ Spells(asm.blocks, Received)
               \/ Received # {} /\ Spells(asm.blocks, Received \ {Max(Received)})
    <3>1. Spells(asm.blocks, 1..n)
      <4>1. n \in 0..Len(net.sent)
        BY <2>1, <2>2, <2>3
      <4>. QED  BY <2>1, <2>2, <2>5, <4>1, SpelledSpells
    <3>2. CASE n = t
      BY <2>4, <3>1, <3>2
    <3>3. CASE n # t
      <4>1. n = t - 1 /\ t \in 1..t
        BY <2>3, <3>3
      <4>2. Max(1..t) = t
        <5>1. \A x \in 1..t : (\A y \in 1..t : x >= y) <=> x = t
          BY <4>1
        <5>2. (CHOOSE x \in 1..t : \A y \in 1..t : x >= y) = t
          BY <4>1, <5>1
        <5>. QED  BY <5>2 DEF Max
      <4>3. (1..t) \ {t} = 1..n
        BY <4>1
      <4>. QED  BY <2>4, <3>1, <4>1, <4>2, <4>3
    <3>. QED  BY <3>2, <3>3
  <2>6. CASE Live(S, asm, h)
    <3>1. Spelled(S, asm.blocks, h) /\ asm.final = "none"
      BY <2>6 DEF Live
    <3>. QED  BY <2>5, <3>1 DEF DeliversTheWire
  <2>7. ASSUME NEW n \in {h, t}, Finished(S, asm, n) PROVE DeliversTheWire
    <3>1. Spelled(S, asm.blocks, n)
      BY <2>7 DEF Finished
    <3>2. ASSUME asm.final \in {"stop", "length", "tool_use"}
          PROVE  (\E k \in Received : net.sent[k].kind = "message_stop") /\ Spells(asm.blocks, Received)
      <4>1. n = Len(S) /\ n > 0 /\ S[n].kind = "message_stop"
        BY <2>7, <3>2 DEF Finished
      <4>2. n = t /\ n \in Received
        BY <2>2, <2>3, <2>4, <4>1
      <4>3. Spells(asm.blocks, 1..n)
        <5>1. n \in 0..Len(net.sent)
          BY <2>1, <2>2, <2>3
        <5>. QED  BY <2>1, <2>2, <3>1, <5>1, SpelledSpells
      <4>. QED  BY <2>1, <2>4, <4>1, <4>2, <4>3
    <3>. QED  BY <2>5, <3>1, <3>2 DEF DeliversTheWire
  <2>. QED  BY <2>1, <2>3, <2>6, <2>7 DEF WireInv, Relays
<1>. QED  BY <1>1, NativeInvHolds, PTL
=============================================================================

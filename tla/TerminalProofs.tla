--------------------------- MODULE TerminalProofs ---------------------------
(***************************************************************************)
(* What the screen of Terminal shows is backed by the runs behind it, the  *)
(* second Delete meets the session of the first one, and the session in    *)
(* use keeps its directory: for any number of commands, sessions and       *)
(* harnesses.                                                              *)
(***************************************************************************)
EXTENDS Terminal, Lemmas

-----------------------------------------------------------------------------
(***************************************************************************)
(* The picker and the directories                                          *)
(***************************************************************************)

\* What is newly shown has no row armed.
LEMMA ShownUnarmed ==
  ASSUME NEW kind, NEW rows
  PROVE  IsOverlay(Shows(kind, rows)) /\ Shows(kind, rows).confirm = FALSE
BY DEF Shows, IsOverlay

\* What the keys make of the overlay.
LEMMA RowKeys == RowInv /\ Keys => RowInv'
<1>. SUFFICES ASSUME RowInv, Keys PROVE RowInv'
  OBVIOUS
<1>. USE DEF RowInv, ArmedRowStays, Row
<1>1. CASE Submit \/ SlashCommand \/ CtrlC
  BY <1>1 DEF Submit, SlashCommand, CtrlC, IsOverlay
<1>2. CASE SlashResume \/ Escape \/ PickNothing \/ Pick \/ PickLocked \/ Choose
  <2>1. PICK kind, rows : overlay' = Shows(kind, rows)
    BY <1>2 DEF SlashResume, Escape, PickNothing, Pick, PickLocked, Choose, NoOverlay, Picker, Conflict
  <2>. QED  BY <2>1, ShownUnarmed
<1>3. CASE MoveFocus
  <2>1. PICK i : overlay' = [overlay EXCEPT !.focus = i, !.confirm = FALSE, !.armed = 0]
    BY <1>3 DEF MoveFocus
  <2>. QED  BY <2>1 DEF IsOverlay
<1>4. CASE Arm
  BY <1>4 DEF Arm, IsOverlay
<1>5. CASE Fire
  BY <1>5 DEF Fire, IsOverlay
<1>. QED  BY <1>1, <1>2, <1>3, <1>4, <1>5 DEF Keys

\* What an event makes of it.
LEMMA RowScreen == RowInv /\ Screen => RowInv'
<1>. SUFFICES ASSUME RowInv, Screen PROVE RowInv'
  OBVIOUS
<1>. USE DEF RowInv, ArmedRowStays, Row
<1>1. CASE OnAgentStart \/ OnAgentEnd \/ OnToolStart \/ OnToolEnd \/ OnLine \/ OnReplaced
  BY <1>1 DEF OnAgentStart, OnAgentEnd, OnToolStart, OnToolEnd, OnLine, OnReplaced, IsOverlay
<1>2. CASE OnListed
  <2>1. overlay' = Picker(Arg) \/ overlay' = Refill(Arg) \/ overlay' = overlay
    BY <1>2 DEF OnListed
  <2>2. CASE overlay' = Refill(Arg)
    BY <2>2 DEF Refill, IsOverlay
  <2>3. CASE overlay' = Picker(Arg)
    BY <2>3, ShownUnarmed DEF Picker
  <2>. QED  BY <2>1, <2>2, <2>3 DEF IsOverlay
<1>3. CASE OnLockedAtBoot
  <2>1. \A source, p : IsOverlay(Conflict(source, p)) /\ Conflict(source, p).confirm = FALSE
    BY ShownUnarmed, Zenon DEF Conflict
  <2>2. overlay' = Conflict("boot", Arg[1])
    BY <1>3 DEF OnLockedAtBoot
  <2>3. PICK p : p = Arg[1]
    OBVIOUS
  <2>4. IsOverlay(overlay') /\ overlay'.confirm = FALSE
    BY <2>1, <2>2, <2>3, Zenon
  <2>. QED  BY <2>4
<1>. QED  BY <1>1, <1>2, <1>3 DEF Screen

\* The worker and the runs do not reach the screen but through its events.
LEMMA FrontKept == Worker \/ Runs => UNCHANGED screenVars
BY DEF Worker, ReceivePrompt, ReceiveAbort, ReceiveSessions, ReceiveReplace, ReceiveDelete,
       ReceiveCompact, Settle, OpenFails, Replace, Compacted, Runs, RunStep, PromptBegins,
       PromptRefused, CallTool, ToolEnds, NextTurn, RunEnds, RunFinishes, runFrame, frontVars

\* The second Delete deletes the session the first one was pressed on
\* (on_key_session_resume), for any number of sessions and commands.
THEOREM ArmedRowStaysHolds == Spec => []ArmedRowStays
<1>1. Init => RowInv
  <2>1. Init => overlay = NoOverlay
    BY DEF Init
  <2>. QED  BY <2>1, ShownUnarmed DEF NoOverlay, RowInv, ArmedRowStays
<1>2. ASSUME RowInv, UNCHANGED overlay PROVE RowInv'
  BY <1>2 DEF RowInv, IsOverlay, ArmedRowStays, Row
<1>3. RowInv /\ [Next]_vars => RowInv'
  BY <1>2, RowKeys, RowScreen, FrontKept DEF Next, vars, screenVars
<1>4. RowInv => ArmedRowStays
  BY DEF RowInv
<1>. QED  BY <1>1, <1>3, <1>4, PTL DEF Spec

\* The session in use keeps its directory, whatever is deleted (delete_session),
\* for any number of sessions and commands.
THEOREM SessionInUseIsThereHolds == Spec => []SessionInUseIsThere
<1>. USE DEF SessionInUseIsThere
<1>1. Init => SessionInUseIsThere
  BY DEF Init
<1>2. SessionInUseIsThere /\ [Next]_vars => SessionInUseIsThere'
  <2>. SUFFICES ASSUME SessionInUseIsThere, [Next]_vars PROVE SessionInUseIsThere'
    OBVIOUS
  <2>1. CASE Keys
    <3>1. path' = path /\ dirs' = dirs
      BY <2>1 DEF Keys, Submit, SlashCommand, SlashResume, CtrlC, Escape, MoveFocus, Arm, Fire,
                  PickNothing, Pick, PickLocked, Choose, backVars, workerVars, diskVars
    <3>. QED  BY <3>1
  <2>2. CASE Screen
    <3>1. path' = path /\ dirs' = dirs
      BY <2>2 DEF Screen, OnAgentStart, OnAgentEnd, OnToolStart, OnToolEnd, OnLine, OnReplaced,
                  OnListed, OnLockedAtBoot, Takes, workerVars, diskVars
    <3>. QED  BY <3>1
  <2>3. CASE Replace
    <3>1. path' = Target /\ Target \in dirs'
      BY <2>3 DEF Replace
    <3>. QED  BY <3>1
  <2>4. CASE ReceiveDelete
    <3>1. path' = path /\ Head(commands).arg[1] # path
      BY <2>4 DEF ReceiveDelete, Receives, Replaces, workerVars
    <3>2. dirs' = dirs \ {Head(commands).arg[1]} \/ dirs' = dirs
      BY <2>4 DEF ReceiveDelete
    <3>. QED  BY <3>1, <3>2
  <2>5. CASE Worker /\ ~Replace /\ ~ReceiveDelete
    <3>1. path' = path /\ dirs' = dirs
      BY <2>5 DEF Worker, ReceivePrompt, ReceiveAbort, ReceiveSessions, ReceiveReplace,
                  ReceiveCompact, Settle, OpenFails, Compacted, workerVars, diskVars
    <3>. QED  BY <3>1
  <2>6. CASE Runs
    <3>1. path' = path /\ dirs' = dirs
      BY <2>6 DEF Runs, RunStep, PromptBegins, PromptRefused, CallTool, ToolEnds, NextTurn,
                  RunEnds, RunFinishes, runFrame, workerVars, diskVars
    <3>. QED  BY <3>1
  <2>. QED  BY <2>1, <2>2, <2>3, <2>4, <2>5, <2>6 DEF Next, vars, workerVars, diskVars
<1>. QED  BY <1>1, <1>2, PTL DEF Spec

-----------------------------------------------------------------------------
(***************************************************************************)
(* The spinner                                                             *)
(***************************************************************************)

\* The runs, whatever a step did to them.
IsRuns(r) == r = [h \in 1 .. MaxHarnesses |-> r[h]] /\ \A h \in DOMAIN r : IsRun(r[h])

\* A step of one run leaves the others alone.
LEMMA RunChanged ==
  ASSUME NEW r, IsRuns(r), NEW h, NEW v, IsRun(v), NEW n, n = [r EXCEPT ![h] = v]
  PROVE  IsRuns(n) /\ DOMAIN n = DOMAIN r /\ \A k \in DOMAIN r : n[k] = IF k = h THEN v ELSE r[k]
<1>1. DOMAIN r = 1 .. MaxHarnesses /\ r = [k \in 1 .. MaxHarnesses |-> r[k]]
  BY DEF IsRuns
<1>2. n = [k \in DOMAIN r |-> IF k = h THEN v ELSE r[k]]
  BY <1>1
<1>3. \A k \in DOMAIN n : IsRun(n[k])
  BY <1>2 DEF IsRuns
<1>. QED  BY <1>1, <1>2, <1>3 DEF IsRuns

\* News that start nothing.
Calm(news) == IsQueue(news) /\ \A i \in DOMAIN news : ~Starts(news[i])

LEMMA CalmOne ==
  ASSUME NEW m, ~Starts(m)
  PROVE  Calm(<<m>>)
<1>1. PICK news : news = <<m>>
  OBVIOUS
<1>2. IsQueue(news) /\ DOMAIN news = 1..1 /\ news[1] = m
  BY <1>1, One, Zenon
<1>3. Calm(news)
  BY <1>2 DEF Calm
<1>. QED  BY <1>1, <1>3, Zenon

LEMMA CalmThree ==
  ASSUME NEW a, NEW b, NEW c, ~Starts(a), ~Starts(b), ~Starts(c)
  PROVE  Calm(<<a, b, c>>)
<1>1. PICK news : news = <<a, b, c>>
  OBVIOUS
<1>2. IsQueue(news) /\ \A i \in DOMAIN news : news[i] \in {a, b, c}
  BY <1>1, Three, Zenon
<1>3. Calm(news)
  BY <1>2 DEF Calm
<1>. QED  BY <1>1, <1>3, Zenon

LEMMA CalmTwo ==
  ASSUME NEW a, NEW b, ~Starts(a), ~Starts(b)
  PROVE  Calm(<<a, b>>)
<1>1. PICK news : news = <<a, b>>
  OBVIOUS
<1>2. IsQueue(news) /\ \A i \in DOMAIN news : news[i] \in {a, b}
  BY <1>1, Two, Zenon
<1>3. Calm(news)
  BY <1>2 DEF Calm
<1>. QED  BY <1>1, <1>3, Zenon

\* While a run goes on, anything may be queued.
LEMMA SpinnerBusy ==
  ASSUME SpinnerInv, NEW m, Emits(<<m>>), IsRuns(run'), Busy', tools' = tools
  PROVE  SpinnerInv'
<1>1. PICK news : news = <<m>>
  OBVIOUS
<1>2. IsQueue(news) /\ events' = events \o news
  BY <1>1, One, Zenon DEF Emits
<1>3. IsQueue(events')
  BY <1>2, Joined DEF SpinnerInv, Joins
<1>. QED  BY <1>3 DEF SpinnerInv, SpinnerIsBacked, Busy, IsRuns

\* Calm news change nothing of what is shown, if the runs go on.
LEMMA SpinnerCalm ==
  ASSUME SpinnerInv, NEW news, Calm(news), Emits(news), IsRuns(run'), Busy => Busy',
         UNCHANGED <<streaming, tools>>
  PROVE  SpinnerInv'
<1>1. /\ IsQueue(events') /\ Len(events) \in Nat /\ DOMAIN events = 1..Len(events)
      /\ Len(news) \in Nat /\ DOMAIN news = 1..Len(news)
      /\ DOMAIN events' = 1..(Len(events) + Len(news))
      /\ \A i \in 1..Len(events) : events'[i] = events[i]
      /\ \A i \in 1..Len(news) : events'[Len(events) + i] = news[i]
  <2>1. IsQueue(events) /\ IsQueue(news) /\ events' = events \o news
    BY Zenon DEF SpinnerInv, Calm, Emits
  <2>2. Joins(events, news, events')
    BY <2>1, Joined, Zenon
  <2>. QED  BY <2>2 DEF Joins
<1>2. \A i \in DOMAIN events : i \in DOMAIN events' /\ events'[i] = events[i]
  BY <1>1
<1>3. ASSUME NEW i \in DOMAIN events', Starts(events'[i])
      PROVE  i \in DOMAIN events /\ Starts(events[i])
  <2>1. CASE i > Len(events)
    <3>1. i - Len(events) \in DOMAIN news /\ events'[i] = news[i - Len(events)]
      BY <1>1, <2>1
    <3>. QED  BY <1>3, <3>1 DEF Calm
  <2>. QED  BY <1>1, <1>3, <2>1
<1>4. SpinnerIsBacked'
  BY <1>2 DEF SpinnerInv, SpinnerIsBacked, Busy
<1>5. \A i \in DOMAIN events' :
        Starts(events'[i]) => Busy' \/ \E j \in DOMAIN events' : j > i /\ Ends(events'[j])
  BY <1>2, <1>3 DEF SpinnerInv
<1>. QED  BY <1>1, <1>4, <1>5 DEF SpinnerInv, IsRuns

\* Nothing is said.
LEMMA SpinnerQuiet ==
  ASSUME SpinnerInv, events' = events, IsRuns(run'), Busy => Busy', UNCHANGED <<streaming, tools>>
  PROVE  SpinnerInv'
BY DEF SpinnerInv, SpinnerIsBacked, Busy, IsRuns

\* A run ends by saying so.
LEMMA SpinnerEnds ==
  ASSUME SpinnerInv, NEW m, Ends(m), Emits(<<m>>), IsRuns(run'), tools' = tools
  PROVE  SpinnerInv'
<1>0. PICK news : news = <<m>>
  OBVIOUS
<1>1. IsQueue(news) /\ events' = events \o news /\ Len(news) = 1 /\ news[1] = m
  BY <1>0, One, Zenon DEF Emits
<1>2. /\ IsQueue(events') /\ Len(events) \in Nat /\ DOMAIN events = 1..Len(events)
      /\ DOMAIN events' = 1..(Len(events) + 1)
      /\ events'[Len(events) + 1] = m
  <2>1. IsQueue(events)
    BY DEF SpinnerInv
  <2>2. Joins(events, news, events')
    BY <1>1, <2>1, Joined, Zenon
  <2>. QED  BY <1>1, <2>2 DEF Joins
<1>3. ~Starts(m)
  BY DEF Starts, Ends
<1>4. \A i \in DOMAIN events' : Starts(events'[i]) => Len(events) + 1 > i
  BY <1>2, <1>3
<1>5. Len(events) + 1 \in DOMAIN events' /\ Ends(events'[Len(events) + 1])
  BY <1>2
<1>6. SpinnerIsBacked'
  BY <1>5 DEF SpinnerIsBacked, Ends
<1>. QED  BY <1>2, <1>4, <1>5, <1>6 DEF SpinnerInv, IsRuns

\* The screen takes an event: an end clears what it shows.
LEMMA SpinnerTaken ==
  ASSUME SpinnerInv, events # <<>>, events' = Tail(events), run' = run, tools' \in Nat,
         Ends(Head(events)) => streaming' = FALSE /\ tools' = 0,
         streaming' \/ tools' > 0 => streaming \/ tools > 0 \/ Starts(Head(events))
  PROVE  SpinnerInv'
<1>1. /\ IsQueue(events') /\ Len(events) \in Nat /\ Len(events) >= 1
      /\ DOMAIN events = 1..Len(events) /\ DOMAIN events' = 1..(Len(events) - 1)
      /\ \A i \in 1..(Len(events) - 1) : events'[i] = events[i + 1]
      /\ Head(events) = events[1]
  BY Taken DEF SpinnerInv
<1>2. ASSUME NEW j \in DOMAIN events, j > 1
      PROVE  j - 1 \in DOMAIN events' /\ events'[j - 1] = events[j]
  BY <1>1, <1>2
<1>3. Busy' = Busy
  BY DEF Busy
<1>4. ASSUME NEW i \in DOMAIN events', Starts(events'[i]), ~Busy
      PROVE  \E j \in DOMAIN events' : j > i /\ Ends(events'[j])
  <2>1. i + 1 \in DOMAIN events /\ Starts(events[i + 1])
    BY <1>1, <1>4
  <2>2. PICK j \in DOMAIN events : j > i + 1 /\ Ends(events[j])
    BY <1>4, <2>1 DEF SpinnerInv
  <2>3. j - 1 \in DOMAIN events' /\ j - 1 > i /\ events'[j - 1] = events[j]
    BY <1>1, <2>2
  <2>. QED  BY <2>2, <2>3
<1>5. ASSUME streaming' \/ tools' > 0, ~Busy
      PROVE  \E j \in DOMAIN events' : Ends(events'[j])
  <2>1. 1 \in DOMAIN events /\ ~Ends(events[1])
    BY <1>1, <1>5
  <2>2. \E j \in DOMAIN events : j > 1 /\ Ends(events[j])
    <3>1. CASE Starts(Head(events))
      BY <1>1, <1>5, <2>1, <3>1 DEF SpinnerInv
    <3>2. CASE streaming \/ tools > 0
      <4>1. PICK j \in DOMAIN events : Ends(events[j])
        BY <1>5, <3>2 DEF SpinnerInv, SpinnerIsBacked, Busy, Ends
      <4>2. j > 1
        BY <1>1, <2>1, <4>1
      <4>. QED  BY <4>1, <4>2
    <3>. QED  BY <1>5, <3>1, <3>2
  <2>. QED  BY <1>2, <2>2
<1>6. SpinnerIsBacked'
  BY <1>3, <1>5 DEF SpinnerIsBacked, Busy, Ends
<1>. QED  BY <1>1, <1>3, <1>4, <1>6 DEF SpinnerInv, IsRuns

LEMMA Kinds ==
  ASSUME NEW kind, NEW arg
  PROVE  /\ Starts(Message(kind, arg)) <=> kind \in {"start", "toolStart"}
         /\ Ends(Message(kind, arg)) <=> kind = "end"
BY DEF Starts, Ends, Message

\* What one message says of nothing that starts.
LEMMA ScreenSays ==
  ASSUME NEW kind, NEW arg, kind \notin {"start", "toolStart"}
  PROVE  Calm(<<Message(kind, arg)>>)
<1>1. PICK m : m = Message(kind, arg)
  OBVIOUS
<1>2. ~Starts(m)
  BY <1>1, Kinds
<1>. QED  BY <1>1, <1>2, CalmOne, Zenon

\* Nothing is shown and nothing runs; what is queued at boot starts nothing.
LEMMA SpinnerInit == Init => SpinnerInv
<1>. SUFFICES ASSUME Init PROVE SpinnerInv
  OBVIOUS
<1>1. IsRuns(run) /\ streaming = FALSE /\ tools = 0
  BY DEF Init, IsRuns, IsRun, NoRun
<1>2. PICK boot, listed :
        /\ Calm(boot) /\ Calm(listed)
        /\ events = boot \o listed
  <2>1. PICK held \in BOOLEAN :
          events = (IF held THEN <<Message("lockedAtBoot", <<1>>)>> ELSE <<>>)
                     \o <<Message("listed", <<[path |-> 1, locked |-> held]>>)>>
    BY Zenon DEF Init
  <2>2. PICK boot : boot = IF held THEN <<Message("lockedAtBoot", <<1>>)>> ELSE <<>>
    OBVIOUS
  <2>3. Calm(<<>>)
    <3>1. IsQueue(<<>>)
      BY SeqIsQueue, EmptySeq
    <3>2. DOMAIN <<>> = {}
      OBVIOUS
    <3>. QED  BY <3>1, <3>2, Zenon DEF Calm
  <2>4. Calm(<<Message("lockedAtBoot", <<1>>)>>)
    BY ScreenSays
  <2>5. Calm(boot)
    BY <2>2, <2>3, <2>4, Zenon
  <2>6. \A arg : Calm(<<Message("listed", arg)>>)
    BY ScreenSays
  <2>. QED  BY <2>1, <2>2, <2>5, <2>6, Zenon
<1>3. Joins(boot, listed, events)
  BY <1>2, Joined, Zenon DEF Calm
<1>4. ASSUME NEW i \in DOMAIN events PROVE ~Starts(events[i])
  <2>1. CASE i \in DOMAIN boot
    BY <1>2, <1>3, <2>1 DEF Joins, Calm
  <2>2. CASE i > Len(boot)
    <3>1. i - Len(boot) \in DOMAIN listed /\ events[i] = listed[i - Len(boot)]
      BY <1>3, <2>2 DEF Joins
    <3>. QED  BY <1>2, <3>1 DEF Calm
  <2>. QED  BY <1>3, <2>1, <2>2 DEF Joins
<1>. QED  BY <1>1, <1>3, <1>4 DEF SpinnerInv, SpinnerIsBacked, IsRuns, Joins

\* The screen starts to show a run, or a tool, when it takes its start.
LEMMA SpinnerScreen == SpinnerInv /\ Screen => SpinnerInv'
<1>. SUFFICES ASSUME SpinnerInv, Screen PROVE SpinnerInv'
  OBVIOUS
<1>1. tools \in Nat
  BY DEF SpinnerInv
<1>2. events # <<>> /\ events' = Tail(events) /\ run' = run
  BY DEF Screen, OnAgentStart, OnAgentEnd, OnToolStart, OnToolEnd, OnLine, OnReplaced, OnListed,
         OnLockedAtBoot, Takes
<1>3. /\ tools' \in Nat
      /\ Ends(Head(events)) => streaming' = FALSE /\ tools' = 0
      /\ streaming' \/ tools' > 0 => streaming \/ tools > 0 \/ Starts(Head(events))
  BY <1>1 DEF Screen, OnAgentStart, OnAgentEnd, OnToolStart, OnToolEnd, OnLine, OnReplaced,
              OnListed, OnLockedAtBoot, Takes, Starts, Ends
<1>. QED  BY <1>2, <1>3, SpinnerTaken

\* A worker cancels runs, ends none, and starts none.
LEMMA SpinnerWorker == SpinnerInv /\ Worker => SpinnerInv'
<1>. SUFFICES ASSUME SpinnerInv, Worker PROVE SpinnerInv'
  OBVIOUS
<1>1. streaming' = streaming /\ tools' = tools
  BY FrontKept DEF screenVars
<1>2. run' = run \/ run' = Cancelled
  BY DEF Worker, ReceivePrompt, ReceiveAbort, ReceiveSessions, ReceiveReplace, ReceiveDelete,
         ReceiveCompact, Settle, OpenFails, Replace, Compacted
<1>3. IsRuns(run') /\ (Busy => Busy')
  <2>1. IsRuns(run)
    BY DEF SpinnerInv, IsRuns
  <2>2. CASE run' = run
    BY <2>1, <2>2 DEF Busy
  <2>3. CASE run' = [run EXCEPT ![harness].cancelled = TRUE]
    <3>1. CASE harness \in DOMAIN run
      <4>0. PICK yes : yes = TRUE
        OBVIOUS
      <4>1. PICK v : v = [run[harness] EXCEPT !.cancelled = yes]
        OBVIOUS
      <4>2. IsRun(v) /\ v.at = run[harness].at
        BY <2>1, <3>1, <4>1 DEF IsRuns, IsRun
      <4>3. run' = [run EXCEPT ![harness] = v]
        BY <2>3, <4>0, <4>1, Zenon
      <4>. QED  BY <2>1, <4>2, <4>3, RunChanged DEF Busy
    <3>2. CASE harness \notin DOMAIN run
      <4>1. run' = run
        BY <2>1, <2>3, <3>2 DEF IsRuns
      <4>. QED  BY <2>1, <4>1 DEF Busy
    <3>. QED  BY <3>1, <3>2
  <2>. QED  BY <1>2, <2>2, <2>3 DEF Cancelled
<1>4. ASSUME NEW news, Calm(news), Emits(news)
      PROVE  SpinnerInv'
  BY <1>1, <1>3, <1>4, SpinnerCalm, Zenon
<1>5. CASE events' = events
  BY <1>1, <1>3, <1>5, SpinnerQuiet, Zenon
<1>6. ASSUME NEW kind, NEW arg, kind \notin {"start", "toolStart"}, Emits(<<Message(kind, arg)>>)
      PROVE  SpinnerInv'
  BY <1>4, <1>6, ScreenSays, Zenon
<1>7. ASSUME NEW arg, NEW left, Emits(<<Line, Message("listed", arg), Message("resumed", left)>>)
      PROVE  SpinnerInv'
  <2>1. PICK a, b, c : a = Line /\ b = Message("listed", arg) /\ c = Message("resumed", left)
    OBVIOUS
  <2>2. ~Starts(a) /\ ~Starts(b) /\ ~Starts(c)
    BY <2>1, Kinds DEF Line
  <2>3. Calm(<<a, b, c>>)
    BY <2>2, CalmThree, Zenon
  <2>. QED  BY <1>4, <1>7, <2>1, <2>3, Zenon
<1>8. ASSUME NEW arg, Emits(<<Line, Message("listed", arg)>>)
      PROVE  SpinnerInv'
  <2>1. PICK a, b : a = Line /\ b = Message("listed", arg)
    OBVIOUS
  <2>2. ~Starts(a) /\ ~Starts(b)
    BY <2>1, Kinds DEF Line
  <2>3. Calm(<<a, b>>)
    BY <2>2, CalmTwo, Zenon
  <2>. QED  BY <1>4, <1>8, <2>1, <2>3, Zenon
<1>9. CASE ReceivePrompt \/ ReceiveAbort \/ ReceiveReplace \/ ReceiveCompact \/ Settle
  BY <1>5, <1>9 DEF ReceivePrompt, ReceiveAbort, ReceiveReplace, ReceiveCompact, Settle, workerVars
<1>10. CASE ReceiveSessions
  BY <1>6, <1>10 DEF ReceiveSessions
<1>11. CASE ReceiveDelete
  <2>1. (\E arg : Emits(<<Line, Message("listed", arg)>>)) \/ Emits(<<Line>>)
    BY <1>11, Zenon DEF ReceiveDelete
  <2>. QED  BY <1>6, <1>8, <2>1 DEF Line
<1>12. CASE OpenFails
  BY <1>6, <1>12 DEF OpenFails, Line
<1>13. CASE Replace
  <2>1. \/ Emits(<<Line>>)
        \/ \E arg, left : Emits(<<Line, Message("listed", arg), Message("resumed", left)>>)
        \/ \E arg : Emits(<<Message("resumed", arg)>>)
    BY <1>13, Zenon DEF Replace
  <2>2. CASE \E arg, left : Emits(<<Line, Message("listed", arg), Message("resumed", left)>>)
    BY <1>7, <2>2, Zenon
  <2>3. CASE Emits(<<Line>>) \/ \E arg : Emits(<<Message("resumed", arg)>>)
    BY <1>6, <2>3 DEF Line
  <2>. QED  BY <2>1, <2>2, <2>3
<1>14. CASE Compacted
  <2>1. (\E arg : Emits(<<Message("compacted", arg)>>)) \/ Emits(<<Line>>)
    BY <1>14, Zenon DEF Compacted
  <2>. QED  BY <1>6, <2>1 DEF Line
<1>. QED  BY <1>9, <1>10, <1>11, <1>12, <1>13, <1>14 DEF Worker

\* A run says that it starts while it goes on, and that it ends in the step that ends it.
LEMMA SpinnerRuns == SpinnerInv /\ Runs => SpinnerInv'
<1>. SUFFICES ASSUME SpinnerInv, NEW h \in DOMAIN run, RunStep(h) PROVE SpinnerInv'
  BY DEF Runs
<1>1. streaming' = streaming /\ tools' = tools
  BY FrontKept DEF Runs, screenVars
<1>2. /\ DOMAIN run = 1 .. MaxHarnesses /\ run = [k \in 1 .. MaxHarnesses |-> run[k]]
      /\ \A k \in DOMAIN run : IsRun(run[k])
  BY DEF SpinnerInv
<1>3. IsRuns(run')
  <2>1. IsRuns(run) /\ IsRun(run[h])
    BY <1>2 DEF IsRuns
  <2>2. ASSUME NEW v, IsRun(v), run' = [run EXCEPT ![h] = v] PROVE IsRuns(run')
    BY <2>1, <2>2, RunChanged, Zenon
  <2>3. CASE PromptRefused(h)
    BY <2>1, <2>3 DEF PromptRefused
  <2>4. CASE PromptBegins(h) \/ RunFinishes(h)
    <3>1. IsRun(NoRun) /\ IsRun([at |-> "says", turn |-> 1, cancelled |-> FALSE])
      BY DEF IsRun, NoRun
    <3>. QED  BY <2>2, <2>4, <3>1, Zenon DEF PromptBegins, RunFinishes
  <2>5. CASE CallTool(h) \/ ToolEnds(h) \/ RunEnds(h)
    <3>1. PICK at : run' = [run EXCEPT ![h].at = at]
      BY <2>5 DEF CallTool, ToolEnds, RunEnds, RunGoes
    <3>2. PICK v : v = [run[h] EXCEPT !.at = at]
      OBVIOUS
    <3>3. IsRun(v)
      BY <2>1, <3>2 DEF IsRun
    <3>4. run' = [run EXCEPT ![h] = v]
      BY <3>1, <3>2, Zenon
    <3>. QED  BY <2>2, <3>3, <3>4
  <2>6. CASE NextTurn(h)
    <3>1. run' = [run EXCEPT ![h] = [at |-> "says", turn |-> run[h].turn + 1, cancelled |-> FALSE]]
      BY <2>6 DEF NextTurn
    <3>2. IsRun([at |-> "says", turn |-> run[h].turn + 1, cancelled |-> FALSE])
      BY DEF IsRun
    <3>. QED  BY <2>2, <3>1, <3>2, Zenon
  <2>. QED  BY <2>3, <2>4, <2>5, <2>6 DEF RunStep
<1>4. ASSUME NEW kind, NEW arg, kind \notin {"start", "toolStart"}, Busy => Busy',
             Emits(<<Message(kind, arg)>>)
      PROVE  SpinnerInv'
  BY <1>1, <1>3, <1>4, ScreenSays, SpinnerCalm, Zenon
<1>5. ASSUME Busy', NEW kind, NEW arg, Emits(<<Message(kind, arg)>>)
      PROVE  SpinnerInv'
  BY <1>1, <1>3, <1>5, SpinnerBusy, Zenon
<1>6. CASE PromptBegins(h)
  <2>1. Busy'
    BY <1>2, <1>6 DEF PromptBegins, Busy
  <2>. QED  BY <1>5, <1>6, <2>1 DEF PromptBegins
<1>7. CASE PromptRefused(h)
  <2>1. Busy => Busy'
    BY <1>7 DEF PromptRefused, Busy
  <2>. QED  BY <1>4, <1>7, <2>1 DEF PromptRefused, Line
<1>8. CASE CallTool(h)
  <2>1. Busy'
    BY <1>2, <1>8 DEF CallTool, RunGoes, Busy
  <2>. QED  BY <1>5, <1>8, <2>1 DEF CallTool
<1>9. CASE ToolEnds(h)
  <2>1. Busy'
    BY <1>2, <1>9 DEF ToolEnds, RunGoes, Busy
  <2>. QED  BY <1>5, <1>9, <2>1 DEF ToolEnds
<1>10. CASE NextTurn(h)
  <2>1. Busy'
    BY <1>2, <1>10 DEF NextTurn, Busy
  <2>2. events' = events \/ \E arg : Emits(<<Message("compacted", arg)>>)
    BY <1>10, Zenon DEF NextTurn
  <2>. QED  BY <1>1, <1>3, <1>5, <2>1, <2>2, SpinnerQuiet
<1>11. CASE RunEnds(h)
  <2>1. Ends(Message("end", <<>>))
    BY Kinds
  <2>2. Emits(<<Message("end", <<>>)>>)
    BY <1>11 DEF RunEnds
  <2>. QED  BY <1>1, <1>3, <2>1, <2>2, SpinnerEnds, Zenon
<1>12. CASE RunFinishes(h)
  <2>1. events' = events
    BY <1>12 DEF RunFinishes
  <2>2. Busy => Busy'
    BY <1>2, <1>12 DEF RunFinishes, RunAt, NoRun, Busy
  <2>. QED  BY <1>1, <1>3, <2>1, <2>2, SpinnerQuiet
<1>. QED  BY <1>6, <1>7, <1>8, <1>9, <1>10, <1>11, <1>12 DEF RunStep

\* No spinner stays for good (on_agent_event, set_session): what the screen
\* shows as going on has its end before it, for any number of runs.
THEOREM SpinnerIsBackedHolds == Spec => []SpinnerIsBacked
<1>1. SpinnerInv /\ Keys => SpinnerInv'
  <2>. SUFFICES ASSUME SpinnerInv, Keys PROVE SpinnerInv'
    OBVIOUS
  <2>1. UNCHANGED <<events, run, streaming, tools>>
    BY DEF Keys, Submit, SlashCommand, SlashResume, CtrlC, Escape, MoveFocus, Arm, Fire,
           PickNothing, Pick, PickLocked, Choose, backVars
  <2>. QED  BY <2>1, SpinnerQuiet DEF IsRuns, Busy, SpinnerInv
<1>2. ASSUME SpinnerInv, UNCHANGED vars PROVE SpinnerInv'
  BY <1>2, SpinnerQuiet DEF vars, screenVars, IsRuns, Busy, SpinnerInv
<1>3. SpinnerInv /\ [Next]_vars => SpinnerInv'
  BY <1>1, <1>2, SpinnerScreen, SpinnerWorker, SpinnerRuns DEF Next
<1>4. SpinnerInv => SpinnerIsBacked
  BY DEF SpinnerInv
<1>. QED  BY <1>3, <1>4, SpinnerInit, PTL DEF Spec

=============================================================================

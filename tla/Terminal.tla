------------------------------ MODULE Terminal ------------------------------
(***************************************************************************)
(* The terminal (grain-ai-agent-tui): the screen's state, which keys and   *)
(* events change (app.rs); the worker, which serves the commands of the    *)
(* screen one after the other and replaces the harness it works with       *)
(* (agent_worker.rs); and the tasks that prompt a harness while the worker *)
(* goes on.  Screen and worker meet in two unbounded queues.               *)
(*                                                                         *)
(* A harness is what module Harness shows of it: one run at a time, a      *)
(* prompt during a run is refused.  Sessions and harnesses are numbered in *)
(* the order they are made.                                                *)
(***************************************************************************)
EXTENDS Queue, FiniteSets

CONSTANTS
  Compacts,       \* contexts are compacted: by the user, or between two turns
  Fails,          \* a directory may fail to open or to be removed
  MaxCommands,    \* bound: commands the screen sends
  MaxSessions,    \* bound: session directories
  MaxHarnesses,   \* bound: harnesses
  MaxTurns        \* bound: turns of a run

ASSUME TerminalAssumption ==
  /\ {Compacts, Fails} \subseteq BOOLEAN
  /\ {MaxCommands, MaxTurns} \subseteq Nat
  /\ {MaxSessions, MaxHarnesses} \subseteq Nat \ {0, 1}

VARIABLES
  lines,          \* lines of the transcript, as far as they are counted
  streaming,      \* AppState.streaming
  tools,          \* AppState.pending_tool_calls
  overlay,        \* the overlay, if any
  commands,       \* the queue from screen to worker
  events,         \* the queue back, into which the harnesses' events go too
  worker,         \* what the worker is doing, and for which command
  harness,        \* the harness it works with
  path,           \* active_session_path
  session,        \* the session of each harness
  run,            \* the run of each harness
  tasks,          \* prompts being handed to each harness, in tasks of their own
  dirs,           \* session directories on disk
  foreign,        \* those another process holds
  made,           \* session directories made so far
  sent            \* commands sent so far

screenVars == <<lines, streaming, tools, overlay>>
workerVars == <<worker, harness, path, session>>
diskVars == <<dirs, foreign, made>>
vars == <<screenVars, commands, events, workerVars, run, tasks, diskVars, sent>>

\* At boot the picker opens over a transcript of no more than Welcome lines;
\* more are not told apart.
Welcome == 3
Longer(n) == IF lines + n > Welcome THEN Welcome + 1 ELSE lines + n

Message(kind, arg) == [kind |-> kind, arg |-> arg]
Shows(kind, rows) == [kind |-> kind, rows |-> rows, focus |-> 1, confirm |-> FALSE, armed |-> 0]
NoOverlay == Shows("none", <<>>)
Picker(rows) == Shows("picker", rows)
Conflict(source, p) == Shows(source, <<[path |-> p, locked |-> TRUE]>>)

NoRun == [at |-> "none", turn |-> 0, cancelled |-> FALSE]
Running(h) == run[h].at # "none"

\* A session's lock is held as long as somebody holds its harness.
Alive(h) == h \in DOMAIN session /\ (h = harness \/ Running(h) \/ tasks[h] > 0)
Locked(p) == p \in foreign \/ \E h \in DOMAIN session : Alive(h) /\ session[h] = p

\* list_sessions, the youngest first.
Listing(shown) ==
  LET Rank(p) == Cardinality({q \in shown : q >= p})
  IN [i \in 1 .. Cardinality(shown) |->
        LET p == CHOOSE p \in shown : Rank(p) = i IN [path |-> p, locked |-> Locked(p)]]

\* The last session of an earlier launch is resumed, or found locked.
Init ==
  \E held \in BOOLEAN :
    /\ dirs = {1, 2} /\ foreign = IF held THEN {1} ELSE {}
    /\ path = 2 /\ harness = 1 /\ session = <<2>>
    /\ made = 2
    /\ events = (IF held THEN <<Message("lockedAtBoot", <<1>>)>> ELSE <<>>)
                  \o <<Message("listed", <<[path |-> 1, locked |-> held]>>)>>
    /\ worker = [at |-> "recv", command |-> <<>>]
    /\ run = [h \in 1 .. MaxHarnesses |-> NoRun]
    /\ lines = 0 /\ streaming = FALSE /\ tools = 0 /\ overlay = NoOverlay
    /\ commands = <<>> /\ tasks = [h \in 1 .. MaxHarnesses |-> 0]
    /\ sent = 0

-----------------------------------------------------------------------------
(***************************************************************************)
(* Keys                                                                    *)
(***************************************************************************)

Send(kind, arg) ==
  /\ sent < MaxCommands /\ sent' = sent + 1
  /\ commands' = Append(commands, Message(kind, arg))

backVars == <<events, workerVars, run, tasks, diskVars>>

Submit ==
  /\ overlay.kind = "none"
  /\ Send("prompt", <<>>)
  /\ lines' = Longer(1)
  /\ UNCHANGED <<streaming, tools, overlay, backVars>>

\* /clear and /compact.
SlashCommand ==
  /\ overlay.kind = "none"
  /\ \/ Send("reset", <<>>)
     \/ Compacts /\ Send("compact", <<>>)
  /\ lines' = Longer(2)
  /\ UNCHANGED <<streaming, tools, overlay, backVars>>

SlashResume ==
  /\ overlay.kind = "none"
  /\ Send("sessions", <<>>)
  /\ overlay' = Picker(<<>>) /\ lines' = Longer(1)
  /\ UNCHANGED <<streaming, tools, backVars>>

\* Ctrl-C aborts what the screen believes to be running.  Otherwise it quits,
\* and so does Escape without an overlay: the process ends and takes no step.
CtrlC ==
  /\ streaming \/ tools > 0
  /\ Send("abort", <<>>)
  /\ UNCHANGED <<lines, streaming, tools, overlay, backVars>>

Escape ==
  /\ overlay.kind # "none"
  /\ overlay' = NoOverlay
  /\ UNCHANGED <<lines, streaming, tools, commands, backVars, sent>>

\* The picker of sessions.
HasRow == overlay.kind = "picker" /\ overlay.focus \in DOMAIN overlay.rows
Row == overlay.rows[overlay.focus]

MoveFocus ==
  /\ overlay.kind = "picker"
  /\ \E i \in DOMAIN overlay.rows :
       overlay' = [overlay EXCEPT !.focus = i, !.confirm = FALSE, !.armed = 0]
  /\ UNCHANGED <<lines, streaming, tools, commands, backVars, sent>>

\* The first Delete arms the row, the second one fires.
Arm ==
  /\ HasRow /\ ~overlay.confirm
  /\ overlay' = [overlay EXCEPT !.confirm = TRUE, !.armed = Row.path]
  /\ UNCHANGED <<lines, streaming, tools, commands, backVars, sent>>

Fire ==
  /\ HasRow /\ overlay.confirm
  /\ Send("delete", <<Row.path>>)
  /\ overlay' = [overlay EXCEPT !.confirm = FALSE, !.armed = 0]
  /\ UNCHANGED <<lines, streaming, tools, backVars>>

PickNothing ==
  /\ overlay.kind = "picker" /\ ~HasRow
  /\ overlay' = NoOverlay
  /\ UNCHANGED <<lines, streaming, tools, commands, backVars, sent>>

Pick ==
  /\ HasRow
  /\ ~Row.locked /\ Send("resume", <<Row.path>>)
  /\ overlay' = NoOverlay /\ lines' = Longer(1)
  /\ UNCHANGED <<streaming, tools, backVars>>

PickLocked ==
  /\ HasRow /\ Row.locked
  /\ overlay' = Conflict("conflict", Row.path)
  /\ UNCHANGED <<lines, streaming, tools, commands, backVars, sent>>

\* A fresh session, a copy, or another look at the list.  At boot the session
\* is fresh already; that choice, and to cancel, are what Escape does.
Choose ==
  /\ overlay.kind \in {"conflict", "boot"}
  /\ \/ /\ overlay.kind = "conflict" /\ Send("reset", <<>>)
        /\ overlay' = NoOverlay /\ lines' = Longer(1)
     \/ /\ Send("fork", <<overlay.rows[1].path>>)
        /\ overlay' = NoOverlay /\ lines' = Longer(1)
     \/ /\ Send("sessions", <<>>)
        /\ overlay' = Picker(<<>>) /\ UNCHANGED lines
  /\ UNCHANGED <<streaming, tools, backVars>>

Keys == \/ Submit \/ SlashCommand \/ SlashResume \/ CtrlC \/ Escape \/ MoveFocus
        \/ Arm \/ Fire \/ PickNothing \/ Pick \/ PickLocked \/ Choose

-----------------------------------------------------------------------------
(***************************************************************************)
(* Events the screen takes                                                 *)
(***************************************************************************)

Takes(kind) ==
  /\ events # <<>> /\ Head(events).kind = kind
  /\ events' = Tail(events)
  /\ UNCHANGED <<commands, workerVars, run, tasks, diskVars, sent>>

Arg == Head(events).arg

OnAgentStart ==
  /\ Takes("start")
  /\ streaming' = TRUE
  /\ UNCHANGED <<lines, tools, overlay>>

\* Faulty: a run without a reply is not seen to end.
OnAgentEndTools ==
  /\ Takes("end")
  /\ lines' = Longer(2) /\ tools' = 0
  /\ streaming' = (streaming /\ tools = 0)
  /\ UNCHANGED overlay

OnAgentEnd ==
  /\ Takes("end")
  /\ lines' = Longer(2) /\ streaming' = FALSE /\ tools' = 0
  /\ UNCHANGED overlay

OnToolStart ==
  /\ Takes("toolStart")
  /\ lines' = Longer(2) /\ tools' = tools + 1
  /\ UNCHANGED <<streaming, overlay>>

OnToolEnd ==
  /\ Takes("toolEnd")
  /\ lines' = Longer(1) /\ tools' = IF tools > 0 THEN tools - 1 ELSE 0
  /\ UNCHANGED <<streaming, overlay>>

\* An info or an error.  What a reply says is counted with the event after it.
OnLine ==
  /\ Takes("line")
  /\ lines' = Longer(1)
  /\ UNCHANGED <<streaming, tools, overlay>>

\* SessionResumed and SessionCompacted replace the transcript by the lines of
\* the messages they bring; an info or two follow.
OnReplaced ==
  /\ Takes("resumed") \/ Takes("compacted")
  /\ lines' = IF Arg[1] + 2 > Welcome THEN Welcome + 1 ELSE Arg[1] + 2
  /\ streaming' = FALSE /\ tools' = 0
  /\ UNCHANGED overlay

Focused(rows) ==
  CASE rows = <<>> -> 1
    [] overlay.focus \in DOMAIN rows -> overlay.focus
    [] OTHER -> Len(rows)

\* Faulty: the armed row is not disarmed.
RefillArmed(rows) ==
  [overlay EXCEPT !.rows = rows, !.focus = Focused(rows), !.confirm = @ /\ rows # <<>>]

Refill(rows) ==
  [overlay EXCEPT !.rows = rows, !.focus = Focused(rows), !.confirm = FALSE, !.armed = 0]

OnListed ==
  /\ Takes("listed")
  /\ overlay' = IF overlay.kind = "none" /\ lines <= Welcome /\ Arg # <<>> THEN Picker(Arg)
                ELSE IF overlay.kind = "picker" THEN Refill(Arg)
                ELSE overlay
  /\ UNCHANGED <<lines, streaming, tools>>

OnLockedAtBoot ==
  /\ Takes("lockedAtBoot")
  /\ overlay' = Conflict("boot", Arg[1]) /\ lines' = Longer(1)
  /\ UNCHANGED <<streaming, tools>>

Screen == \/ OnAgentStart \/ OnAgentEnd \/ OnToolStart \/ OnToolEnd \/ OnLine
          \/ OnReplaced \/ OnListed \/ OnLockedAtBoot

-----------------------------------------------------------------------------
(***************************************************************************)
(* The worker                                                              *)
(***************************************************************************)

Emits(news) == events' = events \o news
Line == Message("line", <<>>)
WorkerAt(at) == worker.at = at
Goes(at) == worker' = [worker EXCEPT !.at = at]
Serves(at, c) == worker' = [at |-> at, command |-> c]
Done == Serves("recv", <<>>)
frontVars == <<screenVars, sent>>

Receives(kind) ==
  /\ WorkerAt("recv") /\ commands # <<>> /\ Head(commands).kind = kind
  /\ commands' = Tail(commands)

Cancelled == IF Running(harness) THEN [run EXCEPT ![harness].cancelled = TRUE] ELSE run

ReceivePrompt ==
  /\ Receives("prompt")
  /\ tasks' = [tasks EXCEPT ![harness] = @ + 1]
  /\ UNCHANGED <<frontVars, events, workerVars, run, diskVars>>

\* abort returns when the run it cancelled, if any, has settled.
ReceiveAbort ==
  /\ Receives("abort")
  /\ run' = Cancelled
  /\ Serves("settle", <<Head(commands)>>)
  /\ UNCHANGED <<frontVars, events, harness, path, session, tasks, diskVars>>

ReceiveSessions ==
  /\ Receives("sessions")
  /\ Emits(<<Message("listed", Listing(dirs \ {path}))>>)
  /\ UNCHANGED <<frontVars, workerVars, run, tasks, diskVars>>

\* Faulty: the session in use is deleted like any other.
ReplacesUnchecked(c) == c.kind \in {"reset", "resume", "fork"}

\* What replaces the harness first aborts its run and waits for its end.
Replaces(c) == c.kind \in {"reset", "resume", "fork"} \/ (c.kind = "delete" /\ c.arg[1] = path)

ReceiveReplace ==
  /\ commands # <<>> /\ Replaces(Head(commands))
  /\ Receives(Head(commands).kind)
  /\ run' = Cancelled
  /\ Serves("settle", <<Head(commands)>>)
  /\ UNCHANGED <<frontVars, events, harness, path, session, tasks, diskVars>>

\* wait_for_idle.
Settle ==
  /\ WorkerAt("settle") /\ ~Running(harness)
  /\ IF worker.command[1].kind = "abort" THEN Done ELSE Goes("open")
  /\ UNCHANGED <<frontVars, commands, events, harness, path, session, run, tasks, diskVars>>

\* The session to go on with is opened under its lock, copied first, or made.
Command == worker.command[1]
Kind == Command.kind
Target == IF Kind = "resume" THEN Command.arg[1] ELSE made + 1

CanOpen ==
  /\ Len(session) < MaxHarnesses
  /\ CASE Kind = "resume" -> Target \in dirs /\ ~Locked(Target)
       [] Kind = "fork" -> made < MaxSessions /\ Command.arg[1] \in dirs
       [] OTHER -> made < MaxSessions

\* Faulty: the command is not given up.
OpenFailsOpen ==
  /\ WorkerAt("open")
  /\ Fails \/ ~CanOpen
  /\ Emits(<<Line>>)
  /\ UNCHANGED <<frontVars, commands, workerVars, run, tasks, diskVars>>

OpenFails ==
  /\ WorkerAt("open")
  /\ Fails \/ ~CanOpen
  /\ Emits(<<Line>>) /\ Done
  /\ UNCHANGED <<frontVars, commands, harness, path, session, run, tasks, diskVars>>

\* The new harness takes over; a deleted session loses its directory then.
Replace ==
  /\ WorkerAt("open") /\ CanOpen
  /\ session' = Append(session, Target) /\ harness' = Len(session') /\ path' = Target
  /\ made' = IF Kind = "resume" THEN made ELSE made + 1
  /\ \E shown \in {0, Welcome + 1}, left \in IF Fails THEN {{}, {path}} ELSE {{}} :
       /\ dirs' = IF Kind = "delete" THEN (dirs \ {path}) \cup left \cup {Target} ELSE dirs \cup {Target}
       /\ CASE Kind = "reset" -> shown = 0 /\ Emits(<<Line>>)
            [] Kind = "delete" ->
                 /\ shown = 0
                 /\ Emits(<<Line, Message("listed", Listing(dirs' \ {Target})), Message("resumed", <<0>>)>>)
            [] OTHER -> Emits(<<Message("resumed", <<shown>>)>>)
  /\ Done
  /\ UNCHANGED <<frontVars, commands, run, tasks, foreign>>

\* Another session is deleted at once, whoever holds it.
ReceiveDelete ==
  /\ commands # <<>> /\ ~Replaces(Head(commands))
  /\ Receives("delete")
  /\ LET p == Head(commands).arg[1]
     IN \/ /\ p \in dirs
           /\ dirs' = dirs \ {p}
           /\ Emits(<<Line, Message("listed", Listing(dirs' \ {path}))>>)
        \/ /\ p \notin dirs \/ Fails
           /\ Emits(<<Line>>) /\ UNCHANGED dirs
  /\ UNCHANGED <<frontVars, workerVars, run, tasks, foreign, made>>

\* The worker is busy until the summary has come or failed.
ReceiveCompact ==
  /\ Receives("compact")
  /\ Serves("compact", <<>>)
  /\ UNCHANGED <<frontVars, events, harness, path, session, run, tasks, diskVars>>

Compacted ==
  /\ WorkerAt("compact")
  /\ \/ \E shown \in {1, Welcome + 1} : Emits(<<Message("compacted", <<shown>>)>>)
     \/ Emits(<<Line>>)
  /\ Done
  /\ UNCHANGED <<frontVars, commands, harness, path, session, run, tasks, diskVars>>

Worker == \/ ReceivePrompt \/ ReceiveAbort \/ ReceiveSessions \/ ReceiveReplace \/ ReceiveDelete
          \/ ReceiveCompact \/ Settle \/ OpenFails \/ Replace \/ Compacted

-----------------------------------------------------------------------------
(***************************************************************************)
(* Prompts and runs                                                        *)
(***************************************************************************)

runFrame == <<frontVars, commands, workerVars, diskVars>>

PromptBegins(h) ==
  /\ tasks[h] > 0 /\ ~Running(h)
  /\ run' = [run EXCEPT ![h] = [at |-> "says", turn |-> 1, cancelled |-> FALSE]]
  /\ Emits(<<Message("start", <<>>)>>)
  /\ tasks' = [tasks EXCEPT ![h] = @ - 1]
  /\ UNCHANGED runFrame

\* AlreadyRunning, or the tools of the prompt could not be recorded.
PromptRefused(h) ==
  /\ tasks[h] > 0 /\ (Running(h) \/ Fails)
  /\ Emits(<<Line>>)
  /\ tasks' = [tasks EXCEPT ![h] = @ - 1]
  /\ UNCHANGED <<runFrame, run>>

RunAt(h, at) == run[h].at = at
RunGoes(h, at) == run' = [run EXCEPT ![h].at = at]

CallTool(h) ==
  /\ RunAt(h, "says") /\ ~run[h].cancelled /\ run[h].turn < MaxTurns
  /\ Emits(<<Message("toolStart", <<>>)>>)
  /\ RunGoes(h, "tools")
  /\ UNCHANGED <<runFrame, tasks>>

ToolEnds(h) ==
  /\ RunAt(h, "tools")
  /\ Emits(<<Message("toolEnd", <<>>)>>)
  /\ RunGoes(h, "between")
  /\ UNCHANGED <<runFrame, tasks>>

\* The hooks before the next turn may compact and show what is left.
NextTurn(h) ==
  /\ RunAt(h, "between") /\ ~run[h].cancelled
  /\ \/ UNCHANGED events
     \/ Compacts /\ \E shown \in {1, Welcome + 1} : Emits(<<Message("compacted", <<shown>>)>>)
  /\ run' = [run EXCEPT ![h] = [at |-> "says", turn |-> @.turn + 1, cancelled |-> FALSE]]
  /\ UNCHANGED <<runFrame, tasks>>

\* The last reply, an error, or the cancellation that was asked for.
RunEnds(h) ==
  /\ RunAt(h, "says") \/ (RunAt(h, "between") /\ run[h].cancelled)
  /\ Emits(<<Message("end", <<>>)>>)
  /\ RunGoes(h, "ends")
  /\ UNCHANGED <<runFrame, tasks>>

\* finish_run, after the listeners have seen the end.
RunFinishes(h) ==
  /\ RunAt(h, "ends")
  /\ run' = [run EXCEPT ![h] = NoRun]
  /\ UNCHANGED <<runFrame, events, tasks>>

RunStep(h) == \/ PromptBegins(h) \/ PromptRefused(h)
              \/ CallTool(h) \/ ToolEnds(h) \/ NextTurn(h) \/ RunEnds(h) \/ RunFinishes(h)
Runs == \E h \in DOMAIN run : RunStep(h)

Next == Keys \/ Screen \/ Worker \/ Runs

\* The tasks are scheduled, the provider and the tools answer, and the screen
\* takes what reaches it.
Fairness == WF_vars(Worker) /\ WF_vars(Screen) /\ \A h \in 1 .. MaxHarnesses : WF_vars(RunStep(h))

Spec == Init /\ [][Next]_vars
FairSpec == Spec /\ Fairness

-----------------------------------------------------------------------------
(***************************************************************************)
(* Properties                                                              *)
(***************************************************************************)

\* The screen shows a run or a tool as going on only while some run still has
\* its AgentEnd to send or the screen to take it: no spinner stays for good,
\* whatever was cleared, resumed or deleted meanwhile.
SpinnerIsBacked ==
  streaming \/ tools > 0 =>
    \/ \E h \in DOMAIN run : run[h].at \in {"says", "tools", "between"}
    \/ \E i \in DOMAIN events : events[i].kind = "end"

\* The second Delete deletes the session the first one was pressed on, also
\* when another list arrived in between (on_key_session_resume and the arm
\* for SessionsListed).
ArmedRowStays == overlay.confirm => Row.path = overlay.armed

\* The directory of the session in use is there, whatever was deleted: lists
\* are old when they are shown, and the worker compares paths only when it
\* serves the command.
SessionInUseIsThere == path \in dirs

\* The worker gets to every command, also to those behind one that waits for a
\* run or a summary.
CommandsServed == commands # <<>> ~> commands = <<>>

\* While a run of the worker's harness goes on, and the screen has taken its
\* AgentStart, Ctrl-C aborts it and does not quit (on_key).
CtrlCAborts ==
  Running(harness) /\ run[harness].at # "ends" /\ (\A i \in DOMAIN events : events[i].kind # "start")
    => streaming \/ tools > 0

\* Nothing runs on a harness the worker has replaced: its events would show up
\* in the next session, and no abort would reach it.
NoLateEvents == \A h \in DOMAIN run : Running(h) => h = harness

-----------------------------------------------------------------------------
(***************************************************************************)
(* The inductive invariants                                                *)
(***************************************************************************)

IsRun(r) == r = [at |-> r.at, turn |-> r.turn, cancelled |-> r.cancelled]
IsOverlay(o) ==
  o = [kind |-> o.kind, rows |-> o.rows, focus |-> o.focus, confirm |-> o.confirm, armed |-> o.armed]

\* Some run has yet to send its end.
Busy == \E h \in DOMAIN run : run[h].at \in {"says", "tools", "between"}
Starts(m) == m.kind \in {"start", "toolStart"}
Ends(m) == m.kind = "end"

\* Behind every start in the queue comes an end, or a run goes on.
SpinnerInv ==
  /\ IsQueue(events)
  /\ run = [h \in 1 .. MaxHarnesses |-> run[h]] /\ \A h \in DOMAIN run : IsRun(run[h])
  /\ tools \in Nat
  /\ SpinnerIsBacked
  /\ \A i \in DOMAIN events :
       Starts(events[i]) => Busy \/ \E j \in DOMAIN events : j > i /\ Ends(events[j])

RowInv == IsOverlay(overlay) /\ ArmedRowStays

=============================================================================

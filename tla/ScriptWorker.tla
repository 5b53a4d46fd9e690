---------------------------- MODULE ScriptWorker ----------------------------
(***************************************************************************)
(* The thread that owns the JavaScript context (grain-script-boa): it      *)
(* serves the commands of one queue, and a script that asks for a modal    *)
(* holds it until the host answers that request.  The extension builds the *)
(* worker, loads the scripts through it, hands out tools that keep a       *)
(* sender of their own, and shuts the worker down when it is dropped.      *)
(*                                                                         *)
(* What a script computes is left out: while one is evaluated it registers *)
(* functions, notifies, asks, and returns or throws.                       *)
(***************************************************************************)
EXTENDS Naturals, Sequences, SequencesExt, FiniteSets

CONSTANTS
  Callers,      \* tasks that run tools, send events and list descriptors
  Scripts,      \* number of script files
  LoadModals,   \* a script may ask while it is loaded
  MaxCalls,     \* bound: calls
  MaxModals,    \* bound: requests of the scripts
  MaxAnswers    \* bound: answers, fitting or not

ASSUME ScriptWorkerAssumption ==
  /\ {Scripts, MaxCalls, MaxModals, MaxAnswers} \subseteq Nat
  /\ LoadModals \in BOOLEAN

VARIABLES
  handle,         \* of the BoaExtension: is it built, open, dropped?
  loaded,         \* scripts loaded so far
  tools,          \* BoaExtension.tools: the tool is among them
  queue,          \* the commands
  worker,         \* where the thread is, for which command and request
  registered,     \* WorkerState.fns and .callbacks
  nextModal,      \* WorkerState.next_modal_id
  notifications,  \* the channel to the host
  shown,          \* requests the host has drained and not answered
  answers,        \* the channel modal_rx
  answered,       \* answers sent so far
  calls,          \* what each caller waits for
  made            \* calls made so far

hostVars == <<shown, answers, answered>>
scriptVars == <<registered, nextModal, notifications>>
callVars == <<calls, made>>
vars == <<handle, loaded, tools, queue, worker, scriptVars, hostVars, callVars>>

Owner == "owner"
Command(kind, from, call) == [kind |-> kind, from |-> from, call |-> call]
NoCommand == Command("none", Owner, 0)
Idle == [kind |-> "idle", call |-> 0]
Waits(c) == calls[c].kind # "idle"

Init ==
  /\ handle = "building" /\ loaded = 0 /\ tools = FALSE
  /\ queue = <<>>
  /\ worker = [at |-> "recv", command |-> NoCommand, request |-> 0]
  /\ registered = {} /\ nextModal = 1 /\ notifications = <<>>
  /\ shown = {} /\ answers = <<>> /\ answered = 0
  /\ calls = [c \in Callers \cup {Owner} |-> Idle] /\ made = 0

WorkerAt(at) == worker.at = at
Goes(at) == worker' = [worker EXCEPT !.at = at]
Replied(c) == [calls EXCEPT ![c.from] = IF @.call = c.call THEN Idle ELSE @]

-----------------------------------------------------------------------------
(***************************************************************************)
(* The extension                                                           *)
(***************************************************************************)

\* A sender whose receiver is gone learns so at once; it does not wait.
Calls(c, kind) ==
  IF WorkerAt("ended")
  THEN UNCHANGED <<calls, queue>>
  ELSE /\ calls' = [calls EXCEPT ![c] = [kind |-> kind, call |-> made']]
       /\ queue' = Append(queue, Command(kind, c, made'))

\* from_scripts_dirs: the scripts one after the other, then the tools.
Load ==
  /\ handle = "building" /\ ~Waits(Owner) /\ loaded <= Scripts
  /\ made' = made + 1 /\ loaded' = loaded + 1
  /\ Calls(Owner, IF loaded < Scripts THEN "load" ELSE "list")
  /\ UNCHANGED <<handle, tools, worker, scriptVars, hostVars>>

Open ==
  /\ handle = "building" /\ ~Waits(Owner) /\ loaded = Scripts + 1
  /\ handle' = "open"
  /\ UNCHANGED <<loaded, tools, queue, worker, scriptVars, hostVars, callVars>>

\* The handle is dropped, which tells the worker to stop.
LetsGo ==
  /\ handle' = "dropping"
  /\ queue' = Append(queue, Command("shutdown", Owner, 0))

\* A directory or a script cannot be read.
ReadFails ==
  /\ handle = "building" /\ ~Waits(Owner) /\ loaded < Scripts
  /\ LetsGo
  /\ UNCHANGED <<loaded, tools, worker, scriptVars, hostVars, callVars>>

\* A tool outlives the extension, which the other calls borrow.
Call(c) ==
  /\ c \in Callers /\ ~Waits(c)
  /\ made < Scripts + 1 + MaxCalls /\ made' = made + 1
  /\ \E kind \in {"tool", "callback", "metas"} :
       /\ IF kind = "tool" THEN tools ELSE handle = "open"
       /\ Calls(c, kind)
  /\ UNCHANGED <<handle, loaded, tools, worker, scriptVars, hostVars>>

\* The future of an asynchronous call is dropped; the command stays queued.
GiveUp(c) ==
  /\ calls[c].kind \in {"tool", "callback"}
  /\ calls' = [calls EXCEPT ![c] = Idle]
  /\ UNCHANGED <<handle, loaded, tools, queue, worker, scriptVars, hostVars, made>>

\* The last holder lets go of the extension.
Borrowed == \E c \in Callers : calls[c].kind \in {"callback", "metas"}

Drop ==
  /\ handle = "open" /\ ~Borrowed
  /\ LetsGo
  /\ UNCHANGED <<loaded, tools, worker, scriptVars, hostVars, callVars>>

\* The thread is joined; only then the senders of the handle go.
Joined ==
  /\ handle = "dropping" /\ WorkerAt("ended")
  /\ handle' = "dropped"
  /\ UNCHANGED <<loaded, tools, queue, worker, scriptVars, hostVars, callVars>>

-----------------------------------------------------------------------------
(***************************************************************************)
(* The host                                                                *)
(***************************************************************************)

\* drain_notifications, which does not need the worker.
Drain ==
  /\ handle = "open" /\ notifications # <<>>
  /\ shown' = shown \cup (ToSet(notifications) \ {0})
  /\ notifications' = <<>>
  /\ UNCHANGED <<handle, loaded, tools, queue, worker, registered, nextModal,
                 answers, answered, callVars>>

Answers(id) ==
  /\ handle = "open" /\ ~WorkerAt("ended")
  /\ answers' = Append(answers, id)
  /\ UNCHANGED <<handle, loaded, tools, queue, worker, scriptVars, callVars>>

ResolveShown ==
  \E id \in shown : Answers(id) /\ shown' = shown \ {id} /\ UNCHANGED answered

\* An answer given twice, or to a request that does not exist.
ResolveOther ==
  /\ answered < MaxAnswers /\ answered' = answered + 1
  /\ \E id \in 1 .. MaxModals : Answers(id)
  /\ UNCHANGED shown

-----------------------------------------------------------------------------
(***************************************************************************)
(* The worker                                                              *)
(***************************************************************************)

workerFrame == <<handle, loaded, hostVars, made>>

Receives(kind) == /\ WorkerAt("recv") /\ queue # <<>> /\ Head(queue).kind = kind
                  /\ queue' = Tail(queue)

Evaluates == worker' = [at |-> "script", command |-> Head(queue), request |-> 0]

ReceiveScript ==
  /\ Receives("load")
  /\ Evaluates
  /\ UNCHANGED <<workerFrame, tools, scriptVars, calls>>

\* A name nobody registered: an error for a tool, nothing for an event.
ReceiveCall ==
  /\ \E kind \in {"tool", "callback"} :
       /\ Receives(kind)
       /\ IF kind \in registered THEN Evaluates /\ UNCHANGED calls
          ELSE calls' = Replied(Head(queue)) /\ UNCHANGED worker
  /\ UNCHANGED <<workerFrame, tools, scriptVars>>

ReceiveList ==
  /\ \/ Receives("list") /\ tools' = ("tool" \in registered)
     \/ Receives("metas") /\ UNCHANGED tools
  /\ calls' = Replied(Head(queue))
  /\ UNCHANGED <<workerFrame, worker, scriptVars>>

\* The receiver goes, and with it what is still queued and its reply senders.
ReceiveShutdown ==
  /\ WorkerAt("recv") /\ queue # <<>> /\ Head(queue).kind = "shutdown"
  /\ queue' = <<>> /\ Goes("ended")
  /\ calls' = [c \in DOMAIN calls |-> Idle]
  /\ UNCHANGED <<workerFrame, tools, scriptVars>>

-----------------------------------------------------------------------------
(***************************************************************************)
(* A script                                                                *)
(***************************************************************************)

scriptFrame == <<workerFrame, tools, queue>>

Register ==
  /\ WorkerAt("script")
  /\ \E kind \in {"tool", "callback"} : registered' = registered \cup {kind}
  /\ UNCHANGED <<scriptFrame, worker, nextModal, notifications, calls>>

Notify ==
  /\ WorkerAt("script") /\ ~Contains(notifications, 0)   \* bound: one at a time
  /\ notifications' = Append(notifications, 0)
  /\ UNCHANGED <<scriptFrame, worker, registered, nextModal, calls>>

\* modal_request.
Ask ==
  /\ WorkerAt("script") /\ nextModal <= MaxModals
  /\ LoadModals \/ worker.command.kind # "load"
  /\ worker' = [worker EXCEPT !.at = "modal", !.request = nextModal]
  /\ nextModal' = nextModal + 1
  /\ notifications' = Append(notifications, nextModal)
  /\ UNCHANGED <<scriptFrame, registered, calls>>

Fits == Head(answers) = worker.request

\* Faulty: an answer to another request is left in the channel.
HearOwn ==
  /\ WorkerAt("modal") /\ answers # <<>> /\ Fits
  /\ answers' = Tail(answers)
  /\ Goes("script")
  /\ UNCHANGED <<handle, loaded, made, shown, answered, tools, queue, scriptVars, calls>>

\* Answers to other requests are dropped.
Hear ==
  /\ WorkerAt("modal") /\ answers # <<>>
  /\ answers' = Tail(answers)
  /\ IF Fits THEN Goes("script") ELSE UNCHANGED worker
  /\ UNCHANGED <<handle, loaded, made, shown, answered, tools, queue, scriptVars, calls>>

\* A value or an exception; a script that throws while it is loaded ends the
\* construction, and the handle is dropped.
Returns ==
  /\ WorkerAt("script")
  /\ worker' = [at |-> "recv", command |-> NoCommand, request |-> 0]
  /\ calls' = Replied(worker.command)
  /\ \/ UNCHANGED <<handle, queue>>
     \/ worker.command.kind = "load" /\ LetsGo
  /\ UNCHANGED <<loaded, hostVars, made, tools, scriptVars>>

Construction == Load \/ Open
Host == Drain \/ ResolveShown
Worker == \/ ReceiveScript \/ ReceiveCall \/ ReceiveList \/ ReceiveShutdown \/ Hear \/ Returns
Next ==
  \/ Construction \/ Host \/ Worker \/ Register \/ Notify \/ Ask
  \/ \E c \in Callers : Call(c) \/ GiveUp(c)
  \/ ReadFails \/ ResolveOther \/ Drop \/ Joined

\* Scripts end, the thread is scheduled, and the host, while it holds the
\* extension, drains the notifications and answers what it shows.
Fairness ==
  /\ WF_vars(Construction) /\ WF_vars(Worker) /\ WF_vars(Joined)
  /\ WF_vars(Drain) /\ WF_vars(ResolveShown)

Spec == Init /\ [][Next]_vars /\ Fairness

-----------------------------------------------------------------------------
(***************************************************************************)
(* Properties                                                              *)
(***************************************************************************)

\* No answer can reach the request the worker waits in.
Orphaned ==
  /\ WorkerAt("modal") /\ handle # "open"
  /\ ~Contains(answers, worker.request)

\* Every call returns, also behind a request for a modal and across a
\* shutdown, unless the worker waits in a request nobody can answer.
CallsReturn == \A c \in Callers \cup {Owner} : Waits(c) ~> ~Waits(c) \/ Orphaned

\* Dropping the handle sends Shutdown and joins the thread (worker.rs, on
\* WorkerHandle).
DropReturns == handle = "dropping" ~> handle = "dropped"

=============================================================================

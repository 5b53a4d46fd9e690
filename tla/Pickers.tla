------------------------------- MODULE Pickers -------------------------------
(***************************************************************************)
(* The overlays of the terminal that ask the worker for something and show *)
(* what comes back: reports, plugins and their widgets, the pickers of     *)
(* providers and models, and the login panel (app.rs, agent_worker.rs,     *)
(* oauth.rs).  Answers come through one queue, but lists of models and     *)
(* widgets are fetched in tasks of their own, and the overlay may be       *)
(* another one by the time they arrive.                                    *)
(*                                                                         *)
(* A model is named by the profile that offers it: what tells models apart *)
(* here is the endpoint they belong to.                                    *)
(***************************************************************************)
EXTENDS Queue

CONSTANTS
  Vendors,      \* profiles of vendors that are logged in to with a browser
  Compat,       \* profiles of OpenAI-compatible endpoints
  MaxCommands   \* bound: commands the screen sends

ASSUME PickersAssumption == MaxCommands \in Nat /\ Vendors \cap Compat = {}

VARIABLES
  overlay,    \* AppState.overlay
  header,     \* the profile and the model the screen shows as current
  commands,   \* the queue from screen to worker
  events,     \* the queue back
  worker,     \* what the worker is doing: receiving, or logging in to a vendor
  fetches,    \* fetches of models under way, by endpoint
  handlers,   \* handlers of plugin widgets under way
  current,    \* current_model: its provider and its id
  guard,      \* active_model_handle, which context guard and budget read
  tokens,     \* vendors with tokens on disk
  sent        \* commands sent so far

screenVars == <<overlay, header>>
taskVars == <<fetches, handlers>>
modelVars == <<current, guard>>
vars == <<screenVars, commands, events, worker, taskVars, modelVars, tokens, sent>>

Profiles == Vendors \cup Compat

NoOverlay == [kind |-> "none", models |-> {}, status |-> "none"]
Shows(kind) == [NoOverlay EXCEPT !.kind = kind]
Login(status) == [Shows("login") EXCEPT !.status = status]
Idle == [at |-> "recv", vendor |-> "none"]

Message(kind, arg) == [kind |-> kind, arg |-> arg]

\* A key comes from the environment, tokens from an earlier login.
Ready(p) == p \in Compat \cup tokens

Init ==
  /\ \E p \in Profiles :
       /\ tokens \in SUBSET Vendors /\ Ready(p)
       /\ header = [profile |-> p, model |-> p]
       /\ current = [provider |-> p, id |-> p] /\ guard = p
  /\ overlay = NoOverlay
  /\ commands = <<>> /\ events = <<>> /\ worker = Idle
  /\ fetches = [p \in Compat |-> 0] /\ handlers = 0
  /\ sent = 0

-----------------------------------------------------------------------------
(***************************************************************************)
(* Keys                                                                    *)
(***************************************************************************)

backVars == <<events, worker, taskVars, modelVars, tokens>>

Send(kind, arg) ==
  /\ sent < MaxCommands /\ sent' = sent + 1
  /\ commands' = Append(commands, Message(kind, arg))
  /\ UNCHANGED <<header, backVars>>

Reports == {"doctor", "skills"}

\* Function keys and slash commands: every overlay keeps the keys to itself.
OpenReport ==
  /\ overlay.kind = "none"
  /\ \E r \in Reports : overlay' = Shows(r) /\ Send(r, "")

OpenPlugins ==
  /\ overlay.kind = "none"
  /\ overlay' = Shows("plugins") /\ Send("plugins", "")

OpenProviders ==
  /\ overlay.kind = "none"
  /\ overlay' = Shows("providers")
  /\ UNCHANGED <<header, commands, sent, backVars>>

OpenModels ==
  /\ overlay.kind = "none"
  /\ overlay' = Shows("models") /\ Send("models", header.profile)

\* Without a provider the panel lets the user select one first.
OpenLogin ==
  /\ overlay.kind = "none"
  /\ \/ overlay' = Login("selecting") /\ UNCHANGED <<header, commands, sent, backVars>>
     \/ overlay' = Login("running") /\ \E v \in Vendors : Send("login", v)

ChooseProvider ==
  /\ overlay.kind = "providers"
  /\ overlay' = NoOverlay
  /\ \E p \in Profiles :
       IF Ready(p) THEN Send("apply", p) ELSE UNCHANGED <<header, commands, sent, backVars>>

ChooseModel ==
  /\ overlay.kind = "models"
  /\ overlay' = NoOverlay
  /\ \E m \in overlay.models : Send("set", m)

ChooseLogin ==
  /\ overlay = Login("selecting")
  /\ overlay' = Login("running")
  /\ \E v \in Vendors : Send("login", v)

\* A slash command of a plugin, or a key it has in the panel of plugins.
PluginKey ==
  /\ overlay.kind \in {"none", "plugins"}
  /\ Send("ui", "") /\ UNCHANGED overlay

\* What was filled in, confirmed or selected goes to a handler.
AnswerWidget ==
  /\ overlay.kind = "widget"
  /\ overlay' = NoOverlay /\ Send("ui", "")

\* Escape; Enter where there is nothing left to choose does the same.
Close ==
  /\ overlay.kind # "none"
  /\ overlay' = NoOverlay
  /\ UNCHANGED <<header, commands, sent, backVars>>

Keys == \/ OpenReport \/ OpenPlugins \/ OpenProviders \/ OpenModels \/ OpenLogin
        \/ ChooseProvider \/ ChooseModel \/ ChooseLogin \/ PluginKey \/ AnswerWidget
        \/ Close

-----------------------------------------------------------------------------
(***************************************************************************)
(* Events the screen takes                                                 *)
(***************************************************************************)

Takes(kind) ==
  /\ events # <<>> /\ Head(events).kind = kind
  /\ events' = Tail(events)
  /\ UNCHANGED <<commands, worker, taskVars, modelVars, tokens, sent>>

Arg == Head(events).arg

\* A report and a widget open their overlay, whatever is shown meanwhile.
OnReport ==
  /\ \E r \in Reports : Takes(r) /\ overlay' = Shows(r)
  /\ UNCHANGED header

OnWidget ==
  /\ Takes("widget")
  /\ overlay' = Shows("widget")
  /\ UNCHANGED header

\* A list only fills the overlay that is still there for it.
OnModels ==
  /\ Takes("models")
  /\ overlay' = IF overlay.kind = "models" THEN [overlay EXCEPT !.models = Arg] ELSE overlay
  /\ UNCHANGED header

\* The list of plugins, and what ends up as a line of the transcript.
OnOther ==
  /\ Takes("plugins") \/ Takes("line")
  /\ UNCHANGED screenVars

OnApplied ==
  /\ Takes("applied")
  /\ header' = [profile |-> Arg, model |-> Arg]
  /\ UNCHANGED overlay

OnSet ==
  /\ Takes("set")
  /\ header' = [header EXCEPT !.model = Arg]
  /\ UNCHANGED overlay

\* A panel, whichever login it was opened for, shows how the current one goes.
LoginShows(status) ==
  overlay' = IF overlay.kind = "login" THEN Login(status) ELSE overlay

OnProgress ==
  /\ Takes("progress") /\ LoginShows("running")
  /\ UNCHANGED header

\* Faulty: a failure does not end the panel's progress.
OnLoginEndedWell ==
  /\ \/ Takes("succeeded") /\ LoginShows("succeeded")
     \/ Takes("failed") /\ UNCHANGED overlay
  /\ UNCHANGED header

OnLoginEnded ==
  /\ \/ Takes("succeeded") /\ LoginShows("succeeded")
     \/ Takes("failed") /\ LoginShows("failed")
  /\ UNCHANGED header

Screen == \/ OnReport \/ OnWidget \/ OnModels \/ OnOther \/ OnApplied \/ OnSet
          \/ OnProgress \/ OnLoginEnded

-----------------------------------------------------------------------------
(***************************************************************************)
(* The worker                                                              *)
(***************************************************************************)

Emits(kind, arg) == events' = Append(events, Message(kind, arg))

Receives(kind) ==
  /\ worker.at = "recv" /\ commands # <<>> /\ Head(commands).kind = kind
  /\ commands' = Tail(commands)
  /\ UNCHANGED <<screenVars, tokens, sent>>

Asked == Head(commands).arg

ReceiveReport ==
  /\ \E kind \in Reports \cup {"plugins"} :
       /\ Receives(kind)
       /\ \/ Emits(kind, "")
          \/ kind = "skills" /\ Emits("line", "")
  /\ UNCHANGED <<worker, taskVars, modelVars>>

\* Faulty: the guard goes on with the model before.
ReceiveApplyUnguarded ==
  /\ Receives("apply")
  /\ current' = [provider |-> Asked, id |-> Asked]
  /\ Emits("applied", Asked)
  /\ UNCHANGED <<guard, worker, taskVars>>

ReceiveApply ==
  /\ Receives("apply")
  /\ IF Ready(Asked)
     THEN /\ current' = [provider |-> Asked, id |-> Asked] /\ guard' = Asked
          /\ Emits("applied", Asked)
     ELSE Emits("line", "") /\ UNCHANGED modelVars
  /\ UNCHANGED <<worker, taskVars>>

\* The registry knows the models of a vendor; an endpoint is asked for its own.
ReceiveModels ==
  /\ Receives("models")
  /\ IF Asked \in Compat
     THEN fetches' = [fetches EXCEPT ![Asked] = @ + 1] /\ UNCHANGED events
     ELSE Emits("models", {Asked}) /\ UNCHANGED fetches
  /\ UNCHANGED <<worker, handlers, modelVars>>

\* A model the registry does not know is the current one under another id.
ReceiveSet ==
  /\ Receives("set")
  /\ current' = [provider |-> IF Asked \in Compat THEN current.provider ELSE Asked, id |-> Asked]
  /\ guard' = Asked
  /\ Emits("set", Asked)
  /\ UNCHANGED <<worker, taskVars>>

\* The handler runs on a thread of its own, if a script has it.
ReceiveUi ==
  /\ Receives("ui")
  /\ \/ handlers' = handlers + 1 /\ UNCHANGED events
     \/ Emits("line", "") /\ UNCHANGED handlers
  /\ UNCHANGED <<worker, fetches, modelVars>>

\* start_login_flow, which the worker awaits: a port to listen on first.
ReceiveLogin ==
  /\ Receives("login")
  /\ \/ worker' = [at |-> "listen", vendor |-> Asked] /\ Emits("progress", Asked)
     \/ Emits("failed", Asked) /\ UNCHANGED worker
  /\ UNCHANGED <<taskVars, modelVars>>

LoginAt(at) == worker.at = at
LoginGoes(at) == worker' = [worker EXCEPT !.at = at] /\ UNCHANGED events
loginFrame == <<screenVars, commands, sent, taskVars, modelVars>>

\* The browser is redirected to the port, or somebody else connects.
Redirect ==
  /\ LoginAt("listen") /\ LoginGoes("read")
  /\ UNCHANGED <<loginFrame, tokens>>

LoginReads ==
  /\ LoginAt("read") /\ LoginGoes("exchange")
  /\ UNCHANGED <<loginFrame, tokens>>

\* Faulty: nothing limits the time to wait for the redirect.
LoginFailsLate ==
  /\ worker.at \in {"read", "exchange"}
  /\ Emits("failed", worker.vendor) /\ worker' = Idle
  /\ UNCHANGED <<loginFrame, tokens>>

\* Five minutes without a redirect, a request that cannot be used, no tokens.
LoginFails ==
  /\ worker.at # "recv"
  /\ Emits("failed", worker.vendor) /\ worker' = Idle
  /\ UNCHANGED <<loginFrame, tokens>>

LoginStores ==
  /\ LoginAt("exchange")
  /\ tokens' = tokens \cup {worker.vendor}
  /\ Emits("succeeded", worker.vendor) /\ worker' = Idle
  /\ UNCHANGED loginFrame

Worker == \/ ReceiveReport \/ ReceiveApply \/ ReceiveModels \/ ReceiveSet \/ ReceiveUi
          \/ ReceiveLogin \/ LoginReads \/ LoginFails \/ LoginStores

-----------------------------------------------------------------------------
(***************************************************************************)
(* Tasks                                                                   *)
(***************************************************************************)

taskFrame == <<screenVars, commands, sent, worker, modelVars, tokens>>

\* An error is a line, and an empty list.
FetchEnds ==
  /\ \E p \in Compat :
       /\ fetches[p] > 0 /\ fetches' = [fetches EXCEPT ![p] = @ - 1]
       /\ \/ Emits("models", {p})
          \/ events' = Append(Append(events, Message("line", "")), Message("models", {}))
  /\ UNCHANGED <<taskFrame, handlers>>

HandlerEnds ==
  /\ handlers > 0 /\ handlers' = handlers - 1
  /\ Emits("widget", "") \/ Emits("line", "")
  /\ UNCHANGED <<taskFrame, fetches>>

Next == Keys \/ Screen \/ Worker \/ Redirect \/ FetchEnds \/ HandlerEnds

\* The screen takes events and the worker commands; a user may never come to be
\* redirected, but whoever connects sends a line and the vendor answers.
Fairness == WF_vars(Screen) /\ WF_vars(Worker)

Spec == Init /\ [][Next]_vars /\ Fairness

-----------------------------------------------------------------------------
(***************************************************************************)
(* Properties                                                              *)
(***************************************************************************)

\* The panel says a login is running only while one is queued or under way, or
\* its end is on the way to the screen, also when the panel was closed, opened
\* again for another vendor, or replaced meanwhile.
LoginIsBacked ==
  overlay = Login("running") =>
    \/ \E i \in DOMAIN commands : commands[i].kind = "login"
    \/ worker.at # "recv"
    \/ \E i \in DOMAIN events : events[i].kind \in {"succeeded", "failed"}

\* When nothing is queued, the model the screen shows is the one the next
\* session gets and the one whose window is guarded.
ScreenFollowsWorker ==
  commands = <<>> /\ events = <<>> => header.model = current.id /\ header.model = guard

\* A login that is shown as running ends, also when nobody is ever redirected,
\* the panel is replaced, or another login is queued behind it (start_login_flow
\* and the panel of on_event).
LoginEnds == overlay = Login("running") ~> overlay # Login("running")

\* The picker offers the models of the current provider (app.rs, on
\* Overlay::ModelPicker): the model in use belongs to the provider in use.
\* A list that arrives late breaks this.
ModelFitsProvider == current.id = current.provider

-----------------------------------------------------------------------------
(***************************************************************************)
(* The inductive invariants                                                *)
(***************************************************************************)

Announces(m) == m.kind \in {"applied", "set"}
EndsLogin(m) == m.kind \in {"succeeded", "failed"}

\* The last change of model on its way to the screen is the current model; with
\* none on its way the screen shows it.
HeaderInv ==
  /\ IsQueue(events) /\ guard = current.id
  /\ \A i \in DOMAIN events :
       /\ Announces(events[i])
       /\ \A j \in DOMAIN events : j > i => ~Announces(events[j])
       => events[i].arg = current.id
  /\ (\A i \in DOMAIN events : ~Announces(events[i])) => header.model = current.id

LoginQueued == \E i \in DOMAIN commands : commands[i].kind = "login"
IsWorker(w) == w = [at |-> w.at, vendor |-> w.vendor]

\* Behind every sign of progress of a login comes its end, or the login goes on.
LoginInv ==
  /\ IsQueue(events) /\ IsQueue(commands) /\ IsWorker(worker)
  /\ LoginIsBacked
  /\ \A i \in DOMAIN events :
       events[i].kind = "progress" =>
         \/ worker.at # "recv"
         \/ \E j \in DOMAIN events : j > i /\ EndsLogin(events[j])

=============================================================================

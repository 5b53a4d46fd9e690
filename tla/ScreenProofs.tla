---------------------------- MODULE ScreenProofs ----------------------------
(***************************************************************************)
(* The screen and the worker of Pickers, which only talk through two       *)
(* queues, agree on the model in use and on the login under way, for any   *)
(* number of profiles and commands.  And the line the user writes on, of   *)
(* InputLine, keeps its offsets and what was written last, whatever is     *)
(* typed, recalled, completed and submitted.                               *)
(***************************************************************************)
EXTENDS Pickers, InputLine, Lemmas

-----------------------------------------------------------------------------
(***************************************************************************)
(* The model in use                                                        *)
(***************************************************************************)

\* What does not announce a model can be queued at any time.
LEMMA HeaderUntold ==
  ASSUME HeaderInv, NEW m, ~Announces(m), events' = Append(events, m),
         header' = header, current' = current, guard' = guard
  PROVE  HeaderInv'
<1>1. /\ IsQueue(events') /\ Len(events) \in Nat /\ DOMAIN events = 1..Len(events)
      /\ DOMAIN events' = 1..(Len(events) + 1)
      /\ \A i \in 1..Len(events) : events'[i] = events[i]
      /\ events'[Len(events) + 1] = m
  BY Queued DEF HeaderInv
<1>2. ASSUME NEW i \in DOMAIN events', Announces(events'[i]),
             \A j \in DOMAIN events' : j > i => ~Announces(events'[j])
      PROVE  events'[i].arg = current'.id
  <2>1. i \in DOMAIN events /\ Announces(events[i])
    BY <1>1, <1>2
  <2>2. \A j \in DOMAIN events : j > i => ~Announces(events[j])
    BY <1>1, <1>2
  <2>. QED  BY <1>1, <2>1, <2>2 DEF HeaderInv
<1>3. ASSUME \A i \in DOMAIN events' : ~Announces(events'[i])
      PROVE  header'.model = current'.id
  BY <1>1, <1>3 DEF HeaderInv
<1>. QED  BY <1>1, <1>2, <1>3 DEF HeaderInv

\* Nor do two messages at once, if neither announces a model.
LEMMA HeaderUntoldTwice ==
  ASSUME HeaderInv, NEW m, NEW n, ~Announces(m), ~Announces(n), events' = Append(Append(events, m), n),
         header' = header, current' = current, guard' = guard
  PROVE  HeaderInv'
<1>0. IsQueue(events)
  BY DEF HeaderInv
<1>1. /\ IsQueue(events') /\ Len(events) \in Nat /\ DOMAIN events = 1..Len(events)
      /\ DOMAIN events' = 1..(Len(events) + 2)
      /\ \A i \in 1..Len(events) : events'[i] = events[i]
      /\ events'[Len(events) + 1] = m /\ events'[Len(events) + 2] = n
  <2>. DEFINE p == Append(events, m)
  <2>1. /\ IsQueue(p) /\ Len(events) \in Nat /\ DOMAIN events = 1..Len(events)
        /\ DOMAIN p = 1..(Len(events) + 1)
        /\ \A i \in 1..Len(events) : p[i] = events[i]
        /\ p[Len(events) + 1] = m
    BY <1>0, Queued
  <2>2. events' = Append(p, n)
    OBVIOUS
  <2>. HIDE DEF p
  <2>3. /\ IsQueue(events') /\ Len(p) \in Nat /\ DOMAIN p = 1..Len(p)
        /\ DOMAIN events' = 1..(Len(p) + 1)
        /\ \A i \in 1..Len(p) : events'[i] = p[i]
        /\ events'[Len(p) + 1] = n
    BY <2>1, <2>2, Queued
  <2>4. Len(p) = Len(events) + 1
    BY <2>1, <2>3
  <2>. QED  BY <2>1, <2>3, <2>4
<1>2. \A i \in DOMAIN events' : Announces(events'[i]) => i \in DOMAIN events
  BY <1>1
<1>3. ASSUME NEW i \in DOMAIN events', Announces(events'[i]),
             \A j \in DOMAIN events' : j > i => ~Announces(events'[j])
      PROVE  events'[i].arg = current'.id
  <2>1. i \in DOMAIN events /\ Announces(events[i])
    BY <1>1, <1>2, <1>3
  <2>2. \A j \in DOMAIN events : j > i => ~Announces(events[j])
    BY <1>1, <1>3
  <2>. QED  BY <1>1, <2>1, <2>2 DEF HeaderInv
<1>4. ASSUME \A i \in DOMAIN events' : ~Announces(events'[i])
      PROVE  header'.model = current'.id
  BY <1>1, <1>4 DEF HeaderInv
<1>. QED  BY <1>1, <1>3, <1>4 DEF HeaderInv

\* A change of model is announced in the step that makes it.
LEMMA HeaderTold ==
  ASSUME HeaderInv, NEW m, Announces(m), events' = Append(events, m),
         m.arg = current'.id, guard' = current'.id
  PROVE  HeaderInv'
<1>1. /\ IsQueue(events') /\ Len(events) \in Nat /\ DOMAIN events = 1..Len(events)
      /\ DOMAIN events' = 1..(Len(events) + 1)
      /\ events'[Len(events) + 1] = m
  BY Queued DEF HeaderInv
<1>2. \A i \in DOMAIN events' : i = Len(events) + 1 \/ Len(events) + 1 > i
  BY <1>1
<1>. QED  BY <1>1, <1>2 DEF HeaderInv

\* The screen follows what it takes from the queue.
LEMMA HeaderTaken ==
  ASSUME HeaderInv, events # <<>>, events' = Tail(events),
         current' = current, guard' = guard,
         Announces(Head(events)) => header'.model = Head(events).arg,
         ~Announces(Head(events)) => header'.model = header.model
  PROVE  HeaderInv'
<1>1. /\ IsQueue(events') /\ Len(events) \in Nat /\ Len(events) >= 1
      /\ DOMAIN events = 1..Len(events) /\ DOMAIN events' = 1..(Len(events) - 1)
      /\ \A i \in 1..(Len(events) - 1) : events'[i] = events[i + 1]
      /\ Head(events) = events[1]
  BY Taken DEF HeaderInv
<1>2. ASSUME NEW i \in DOMAIN events', Announces(events'[i]),
             \A j \in DOMAIN events' : j > i => ~Announces(events'[j])
      PROVE  events'[i].arg = current'.id
  <2>1. i + 1 \in DOMAIN events /\ Announces(events[i + 1])
    BY <1>1, <1>2
  <2>2. ASSUME NEW j \in DOMAIN events, j > i + 1 PROVE ~Announces(events[j])
    <3>1. j - 1 \in DOMAIN events' /\ j - 1 > i /\ events'[j - 1] = events[j]
      BY <1>1, <1>2, <2>2
    <3>. QED  BY <1>2, <3>1
  <2>. QED  BY <1>1, <2>1, <2>2 DEF HeaderInv
<1>3. ASSUME \A i \in DOMAIN events' : ~Announces(events'[i])
      PROVE  header'.model = current'.id
  <2>1. ASSUME NEW j \in DOMAIN events, j > 1 PROVE ~Announces(events[j])
    <3>1. j - 1 \in DOMAIN events' /\ events'[j - 1] = events[j]
      BY <1>1, <2>1
    <3>. QED  BY <1>3, <3>1
  <2>2. CASE Announces(Head(events))
    BY <1>1, <2>1, <2>2 DEF HeaderInv
  <2>3. CASE ~Announces(Head(events))
    <3>1. \A j \in DOMAIN events : ~Announces(events[j])
      BY <1>1, <2>1, <2>3
    <3>. QED  BY <2>3, <3>1 DEF HeaderInv
  <2>. QED  BY <2>2, <2>3
<1>. QED  BY <1>1, <1>2, <1>3 DEF HeaderInv

\* A step that leaves events, header and model alone.
LEMMA HeaderSame ==
  ASSUME HeaderInv, UNCHANGED <<events, header, current, guard>>
  PROVE  HeaderInv'
BY DEF HeaderInv, IsQueue, Announces

\* The screen and the worker start with the same model and empty queues.
LEMMA HeaderInit == Init => HeaderInv
<1>. SUFFICES ASSUME Init PROVE HeaderInv
  OBVIOUS
<1>1. IsQueue(events)
  BY SeqIsQueue, EmptySeq DEF Init
<1>2. guard = current.id /\ header.model = current.id /\ DOMAIN events = {}
  BY DEF Init
<1>. QED  BY <1>1, <1>2 DEF HeaderInv

\* No key touches events, header or model.
LEMMA HeaderKeys == HeaderInv /\ Keys => HeaderInv'
<1>. SUFFICES ASSUME HeaderInv, Keys PROVE HeaderInv'
  OBVIOUS
<1>1. UNCHANGED <<events, header, current, guard>>
  BY DEF Keys, OpenReport, OpenPlugins, OpenProviders, OpenModels, OpenLogin, ChooseProvider,
         ChooseModel, ChooseLogin, PluginKey, AnswerWidget, Close, Send, backVars, modelVars
<1>. QED  BY <1>1, HeaderSame

\* Of the events, those that announce a model change the header, and nothing else.
LEMMA HeaderScreen == HeaderInv /\ Screen => HeaderInv'
<1>. SUFFICES ASSUME HeaderInv, Screen PROVE HeaderInv'
  OBVIOUS
<1>. USE DEF Takes, modelVars, screenVars, Announces, Arg
<1>1. CASE OnApplied
  BY <1>1, HeaderTaken DEF OnApplied
<1>2. CASE OnSet
  <2>1. header'.model = Arg
    BY <1>2 DEF OnSet
  <2>. QED  BY <1>2, <2>1, HeaderTaken DEF OnSet
<1>3. CASE OnReport \/ OnWidget \/ OnModels \/ OnOther \/ OnProgress \/ OnLoginEnded
  <2>1. events # <<>> /\ events' = Tail(events) /\ UNCHANGED <<header, current, guard>>
    BY <1>3 DEF OnReport, OnWidget, OnModels, OnOther, OnProgress, OnLoginEnded
  <2>2. ~Announces(Head(events))
    BY <1>3 DEF OnReport, OnWidget, OnModels, OnOther, OnProgress, OnLoginEnded, Reports
  <2>. QED  BY <2>1, <2>2, HeaderTaken
<1>. QED  BY <1>1, <1>2, <1>3 DEF Screen

\* The worker announces the models it sets.
LEMMA HeaderWorker == HeaderInv /\ Worker => HeaderInv'
<1>. SUFFICES ASSUME HeaderInv, Worker PROVE HeaderInv'
  OBVIOUS
<1>. USE DEF Receives, modelVars, screenVars, Announces, Message, Emits
<1>1. CASE ReceiveApply
  <2>1. CASE Ready(Asked)
    BY <1>1, <2>1, HeaderTold DEF ReceiveApply
  <2>2. CASE ~Ready(Asked)
    BY <1>1, <2>2, HeaderUntold DEF ReceiveApply
  <2>. QED  BY <2>1, <2>2
<1>2. CASE ReceiveSet
  BY <1>2, HeaderTold DEF ReceiveSet
<1>3. CASE ReceiveReport
  BY <1>3, HeaderUntold DEF ReceiveReport, Reports
<1>4. CASE ReceiveModels
  BY <1>4, HeaderUntold, HeaderSame DEF ReceiveModels
<1>5. CASE ReceiveUi
  BY <1>5, HeaderUntold, HeaderSame DEF ReceiveUi
<1>6. CASE ReceiveLogin
  BY <1>6, HeaderUntold DEF ReceiveLogin
<1>7. CASE LoginReads
  BY <1>7, HeaderSame DEF LoginReads, LoginGoes, loginFrame
<1>8. CASE LoginFails
  BY <1>8, HeaderUntold DEF LoginFails, loginFrame
<1>9. CASE LoginStores
  BY <1>9, HeaderUntold DEF LoginStores, loginFrame
<1>. QED  BY <1>1, <1>2, <1>3, <1>4, <1>5, <1>6, <1>7, <1>8, <1>9 DEF Worker

\* A list of models is not about the model in use.
LEMMA HeaderFetches == HeaderInv /\ FetchEnds => HeaderInv'
<1>. SUFFICES ASSUME HeaderInv, FetchEnds PROVE HeaderInv'
  OBVIOUS
<1>1. header' = header /\ current' = current /\ guard' = guard
  BY DEF FetchEnds, taskFrame, modelVars, screenVars
<1>2. \A x : ~Announces(Message("models", x)) /\ ~Announces(Message("line", x))
  BY DEF Announces, Message
<1>3. ASSUME NEW p, events' = Append(events, Message("models", {p}))
      PROVE  HeaderInv'
  BY <1>1, <1>2, <1>3, HeaderUntold, Zenon
<1>4. ASSUME events' = Append(Append(events, Message("line", "")), Message("models", {}))
      PROVE  HeaderInv'
  BY <1>1, <1>2, <1>4, HeaderUntoldTwice, Zenon
<1>5. \/ \E p \in Compat : events' = Append(events, Message("models", {p}))
      \/ events' = Append(Append(events, Message("line", "")), Message("models", {}))
  BY DEF FetchEnds, Emits
<1>. QED  BY <1>3, <1>4, <1>5

\* Nor is a widget, or a browser that is redirected.
LEMMA HeaderTasks == HeaderInv /\ (Redirect \/ HandlerEnds) => HeaderInv'
<1>. SUFFICES ASSUME HeaderInv, Redirect \/ HandlerEnds PROVE HeaderInv'
  OBVIOUS
<1>. USE DEF modelVars, screenVars, Message, Emits, taskFrame, Announces
<1>1. CASE Redirect
  BY <1>1, HeaderSame DEF Redirect, LoginGoes, loginFrame
<1>2. CASE HandlerEnds
  BY <1>2, HeaderUntold DEF HandlerEnds
<1>. QED  BY <1>1, <1>2

\* The screen shows the model in use once everything under way has arrived
\* (ProviderApplied and ModelApplied), for any profiles and number of commands.
THEOREM ScreenFollowsWorkerHolds == Spec => []ScreenFollowsWorker
<1>1. HeaderInv /\ [Next]_vars => HeaderInv'
  BY HeaderKeys, HeaderScreen, HeaderWorker, HeaderFetches, HeaderTasks, HeaderSame
  DEF Next, vars, screenVars, modelVars
<1>2. HeaderInv => ScreenFollowsWorker
  BY DEF HeaderInv, ScreenFollowsWorker
<1>. QED  BY <1>1, <1>2, HeaderInit, PTL DEF Spec

-----------------------------------------------------------------------------
(***************************************************************************)
(* The login under way                                                     *)
(***************************************************************************)

\* The panel of a login that runs is no other overlay.
LEMMA RunningIsShown ==
  /\ \A k : Shows(k) = Login("running") => k = "login"
  /\ NoOverlay # Login("running")
  /\ \A s : Login(s) = Login("running") => s = "running"
  /\ Login("running").kind = "login"
BY DEF Shows, Login, NoOverlay

\* The worker can say anything while it keeps what it was doing, and more when
\* what it says ends the login or it goes on with one.
LEMMA LoginEmits ==
  ASSUME LoginInv, NEW m, events' = Append(events, m), overlay' = overlay, IsQueue(commands'),
         IsWorker(worker'),
         \/ EndsLogin(m)
         \/ worker'.at # "recv"
         \/ worker' = worker /\ m.kind # "progress" /\ (LoginQueued => LoginQueued')
  PROVE  LoginInv'
<1>1. /\ IsQueue(events') /\ Len(events) \in Nat /\ DOMAIN events = 1..Len(events)
      /\ DOMAIN events' = 1..(Len(events) + 1)
      /\ \A i \in 1..Len(events) : events'[i] = events[i]
      /\ events'[Len(events) + 1] = m
  BY Queued DEF LoginInv
<1>2. CASE worker'.at # "recv"
  BY <1>1, <1>2 DEF LoginInv, LoginIsBacked
<1>3. CASE EndsLogin(m) /\ worker'.at = "recv"
  <2>1. Len(events) + 1 \in DOMAIN events' /\ events'[Len(events) + 1].kind \in {"succeeded", "failed"}
    BY <1>1, <1>3 DEF EndsLogin
  <2>2. LoginIsBacked'
    BY <2>1 DEF LoginIsBacked
  <2>3. \A i \in DOMAIN events' : events'[i].kind = "progress" => Len(events) + 1 > i
    <3>1. \A i \in DOMAIN events' : i = Len(events) + 1 \/ Len(events) + 1 > i
      BY <1>1
    <3>. QED  BY <2>1, <3>1
  <2>. QED  BY <1>1, <2>1, <2>2, <2>3 DEF LoginInv, EndsLogin
<1>4. CASE worker' = worker /\ m.kind # "progress" /\ (LoginQueued => LoginQueued')
  <2>1. LoginIsBacked'
    BY <1>1, <1>4 DEF LoginInv, LoginIsBacked, LoginQueued
  <2>2. ASSUME NEW i \in DOMAIN events', events'[i].kind = "progress", worker'.at = "recv"
        PROVE  \E j \in DOMAIN events' : j > i /\ EndsLogin(events'[j])
    <3>1. i \in DOMAIN events /\ events[i].kind = "progress"
      BY <1>1, <1>4, <2>2
    <3>2. PICK j \in DOMAIN events : j > i /\ EndsLogin(events[j])
      BY <1>4, <2>2, <3>1 DEF LoginInv
    <3>3. j \in DOMAIN events' /\ events'[j] = events[j]
      BY <1>1
    <3>. QED  BY <3>2, <3>3
  <2>. QED  BY <1>1, <2>1, <2>2 DEF LoginInv
<1>. QED  BY <1>2, <1>3, <1>4

\* Two messages at once, neither of them about a login.
LEMMA LoginEmitsTwo ==
  ASSUME LoginInv, NEW m, NEW n, m.kind # "progress", n.kind # "progress",
         events' = Append(Append(events, m), n), UNCHANGED <<overlay, commands, worker>>
  PROVE  LoginInv'
<1>0. IsQueue(events)
  BY DEF LoginInv
<1>1. /\ IsQueue(events') /\ Len(events) \in Nat /\ DOMAIN events = 1..Len(events)
      /\ DOMAIN events' = 1..(Len(events) + 2)
      /\ \A i \in 1..Len(events) : events'[i] = events[i]
      /\ events'[Len(events) + 1] = m /\ events'[Len(events) + 2] = n
  <2>. DEFINE p == Append(events, m)
  <2>1. /\ IsQueue(p) /\ Len(events) \in Nat /\ DOMAIN events = 1..Len(events)
        /\ DOMAIN p = 1..(Len(events) + 1)
        /\ \A i \in 1..Len(events) : p[i] = events[i]
        /\ p[Len(events) + 1] = m
    BY <1>0, Queued
  <2>2. events' = Append(p, n)
    OBVIOUS
  <2>. HIDE DEF p
  <2>3. /\ IsQueue(events') /\ Len(p) \in Nat /\ DOMAIN p = 1..Len(p)
        /\ DOMAIN events' = 1..(Len(p) + 1)
        /\ \A i \in 1..Len(p) : events'[i] = p[i]
        /\ events'[Len(p) + 1] = n
    BY <2>1, <2>2, Queued
  <2>4. Len(p) = Len(events) + 1
    BY <2>1, <2>3
  <2>. QED  BY <2>1, <2>3, <2>4
<1>2. \A i \in DOMAIN events' : events'[i].kind = "progress" => i \in DOMAIN events
  BY <1>1
<1>3. LoginIsBacked'
  BY <1>1 DEF LoginInv, LoginIsBacked
<1>4. ASSUME NEW i \in DOMAIN events', events'[i].kind = "progress", worker'.at = "recv"
      PROVE  \E j \in DOMAIN events' : j > i /\ EndsLogin(events'[j])
  <2>1. i \in DOMAIN events /\ events[i].kind = "progress"
    BY <1>1, <1>2, <1>4
  <2>2. PICK j \in DOMAIN events : j > i /\ EndsLogin(events[j])
    BY <1>4, <2>1 DEF LoginInv
  <2>3. j \in DOMAIN events' /\ events'[j] = events[j]
    BY <1>1
  <2>. QED  BY <2>2, <2>3
<1>. QED  BY <1>1, <1>3, <1>4 DEF LoginInv

\* Nothing is said, and a login that is queued or under way stays so.
LEMMA LoginQuiet ==
  ASSUME LoginInv, events' = events, IsQueue(commands'), IsWorker(worker'),
         overlay' = Login("running") => overlay = Login("running") \/ LoginQueued',
         worker.at # "recv" => worker'.at # "recv",
         LoginQueued => LoginQueued' \/ worker'.at # "recv"
  PROVE  LoginInv'
<1>1. LoginIsBacked'
  BY DEF LoginInv, LoginIsBacked, LoginQueued
<1>. QED  BY <1>1 DEF LoginInv

\* The screen takes a message: one that ends a login ends the panel's.
LEMMA LoginTaken ==
  ASSUME LoginInv, events # <<>>, events' = Tail(events), UNCHANGED <<commands, worker>>,
         EndsLogin(Head(events)) => overlay' # Login("running"),
         overlay' = Login("running") =>
           overlay = Login("running") \/ Head(events).kind = "progress"
  PROVE  LoginInv'
<1>1. /\ IsQueue(events') /\ Len(events) \in Nat /\ Len(events) >= 1
      /\ DOMAIN events = 1..Len(events) /\ DOMAIN events' = 1..(Len(events) - 1)
      /\ \A i \in 1..(Len(events) - 1) : events'[i] = events[i + 1]
      /\ Head(events) = events[1]
  BY Taken DEF LoginInv
<1>2. ASSUME NEW j \in DOMAIN events, j > 1
      PROVE  j - 1 \in DOMAIN events' /\ events'[j - 1] = events[j]
  BY <1>1, <1>2
<1>3. ASSUME NEW i \in DOMAIN events', events'[i].kind = "progress", worker'.at = "recv"
      PROVE  \E j \in DOMAIN events' : j > i /\ EndsLogin(events'[j])
  <2>1. i + 1 \in DOMAIN events /\ events[i + 1].kind = "progress"
    BY <1>1, <1>3
  <2>2. PICK j \in DOMAIN events : j > i + 1 /\ EndsLogin(events[j])
    BY <1>3, <2>1 DEF LoginInv
  <2>3. j - 1 \in DOMAIN events' /\ j - 1 > i /\ events'[j - 1] = events[j]
    BY <1>1, <2>2
  <2>. QED  BY <2>2, <2>3
<1>4. ASSUME overlay' = Login("running"), ~LoginQueued, worker.at = "recv"
      PROVE  \E j \in DOMAIN events' : EndsLogin(events'[j])
  <2>1. 1 \in DOMAIN events /\ ~EndsLogin(events[1])
    BY <1>1, <1>4
  <2>2. \E j \in DOMAIN events : j > 1 /\ EndsLogin(events[j])
    <3>1. CASE Head(events).kind = "progress"
      BY <1>1, <1>4, <2>1, <3>1 DEF LoginInv
    <3>2. CASE overlay = Login("running")
      <4>1. PICK j \in DOMAIN events : EndsLogin(events[j])
        BY <1>4, <3>2 DEF LoginInv, LoginIsBacked, LoginQueued, EndsLogin
      <4>2. j > 1
        BY <1>1, <2>1, <4>1
      <4>. QED  BY <4>1, <4>2
    <3>. QED  BY <1>4, <3>1, <3>2
  <2>. QED  BY <1>2, <2>2
<1>5. LoginIsBacked'
  BY <1>4 DEF LoginIsBacked, LoginQueued, EndsLogin
<1>. QED  BY <1>1, <1>3, <1>5 DEF LoginInv

\* A command is queued, and no login is lost from the queue.
LEMMA LoginSent ==
  ASSUME LoginInv, NEW m, commands' = Append(commands, m)
  PROVE  /\ IsQueue(commands')
         /\ m.kind = "login" \/ LoginQueued => LoginQueued'
<1>1. /\ IsQueue(commands') /\ Len(commands) \in Nat /\ DOMAIN commands = 1..Len(commands)
      /\ DOMAIN commands' = 1..(Len(commands) + 1)
      /\ \A i \in 1..Len(commands) : commands'[i] = commands[i]
      /\ commands'[Len(commands) + 1] = m
  BY Queued DEF LoginInv
<1>2. Len(commands) + 1 \in DOMAIN commands'
  BY <1>1
<1>3. \A i \in DOMAIN commands : i \in DOMAIN commands' /\ commands'[i] = commands[i]
  BY <1>1
<1>. QED  BY <1>1, <1>2, <1>3 DEF LoginQueued

\* A command that is no login is taken, and no login is lost from the queue.
LEMMA LoginUnsent ==
  ASSUME LoginInv, commands # <<>>, commands' = Tail(commands)
  PROVE  /\ IsQueue(commands')
         /\ Head(commands).kind # "login" /\ LoginQueued => LoginQueued'
<1>1. /\ IsQueue(commands') /\ Len(commands) \in Nat /\ Len(commands) >= 1
      /\ DOMAIN commands = 1..Len(commands) /\ DOMAIN commands' = 1..(Len(commands) - 1)
      /\ \A i \in 1..(Len(commands) - 1) : commands'[i] = commands[i + 1]
      /\ Head(commands) = commands[1]
  BY Taken DEF LoginInv
<1>2. ASSUME Head(commands).kind # "login", LoginQueued
      PROVE  LoginQueued'
  <2>1. PICK i \in DOMAIN commands : commands[i].kind = "login"
    BY <1>2 DEF LoginQueued
  <2>2. i > 1
    BY <1>1, <1>2, <2>1
  <2>3. i - 1 \in DOMAIN commands' /\ commands'[i - 1] = commands[i]
    BY <1>1, <2>2
  <2>. QED  BY <2>1, <2>3 DEF LoginQueued
<1>. QED  BY <1>1, <1>2

\* A login starts with nothing queued.
LEMMA LoginInit == Init => LoginInv
<1>. SUFFICES ASSUME Init PROVE LoginInv
  OBVIOUS
<1>1. IsQueue(events) /\ IsQueue(commands)
  BY SeqIsQueue, EmptySeq DEF Init
<1>2. DOMAIN events = {} /\ IsWorker(worker)
  BY DEF Init, IsWorker, Idle
<1>3. overlay # Login("running")
  BY RunningIsShown DEF Init
<1>. QED  BY <1>1, <1>2, <1>3 DEF LoginInv, LoginIsBacked

\* A panel that shows a login as running has just sent the command for it.
LEMMA LoginKeys == LoginInv /\ Keys => LoginInv'
<1>. SUFFICES ASSUME LoginInv, Keys PROVE LoginInv'
  OBVIOUS
<1>1. events' = events /\ worker' = worker /\ IsWorker(worker')
  BY DEF Keys, OpenReport, OpenPlugins, OpenProviders, OpenModels, OpenLogin, ChooseProvider,
         ChooseModel, ChooseLogin, PluginKey, AnswerWidget, Close, Send, backVars, LoginInv
<1>2. ASSUME commands' = commands
      PROVE  IsQueue(commands') /\ (LoginQueued => LoginQueued')
  BY <1>2 DEF LoginInv, LoginQueued
<1>3. ASSUME overlay' # Login("running") \/ overlay' = overlay,
             commands' = commands \/ \E kind, arg : commands' = Append(commands, Message(kind, arg))
      PROVE  LoginInv'
  BY <1>1, <1>2, <1>3, LoginSent, LoginQuiet
<1>4. ASSUME overlay' = Login("running"),
             \E arg : commands' = Append(commands, Message("login", arg))
      PROVE  LoginInv'
  <2>1. PICK arg : commands' = Append(commands, Message("login", arg))
    BY <1>4
  <2>2. Message("login", arg).kind = "login"
    BY DEF Message
  <2>. QED  BY <1>1, <2>1, <2>2, LoginSent, LoginQuiet
<1>5. CASE OpenLogin \/ ChooseLogin
  <2>1. \/ overlay' # Login("running") /\ commands' = commands
        \/ overlay' = Login("running") /\ \E arg : commands' = Append(commands, Message("login", arg))
    BY <1>5, RunningIsShown DEF OpenLogin, ChooseLogin, Send
  <2>. QED  BY <1>3, <1>4, <2>1
<1>6. CASE OpenReport \/ OpenPlugins \/ OpenProviders \/ OpenModels
  <2>1. overlay' # Login("running")
    BY <1>6, RunningIsShown DEF OpenReport, OpenPlugins, OpenProviders, OpenModels, Reports
  <2>2. commands' = commands \/ \E kind, arg : commands' = Append(commands, Message(kind, arg))
    BY <1>6 DEF OpenReport, OpenPlugins, OpenProviders, OpenModels, Send
  <2>. QED  BY <1>3, <2>1, <2>2
<1>7. CASE ChooseProvider \/ ChooseModel \/ AnswerWidget \/ Close \/ PluginKey
  <2>1. overlay' # Login("running") \/ overlay' = overlay
    BY <1>7, RunningIsShown DEF ChooseProvider, ChooseModel, AnswerWidget, Close, PluginKey
  <2>2. commands' = commands \/ \E kind, arg : commands' = Append(commands, Message(kind, arg))
    BY <1>7 DEF ChooseProvider, ChooseModel, AnswerWidget, Close, PluginKey, Send
  <2>. QED  BY <1>3, <2>1, <2>2
<1>. QED  BY <1>5, <1>6, <1>7 DEF Keys

\* The panel stops running with the message that ends the login.
LEMMA LoginScreen == LoginInv /\ Screen => LoginInv'
<1>. SUFFICES ASSUME LoginInv, Screen PROVE LoginInv'
  OBVIOUS
<1>. USE DEF Takes, EndsLogin
<1>1. CASE OnReport \/ OnWidget
  <2>1. overlay' # Login("running")
    BY <1>1, RunningIsShown DEF OnReport, OnWidget, Reports
  <2>. QED  BY <1>1, <2>1, LoginTaken DEF OnReport, OnWidget
<1>2. CASE OnModels
  <2>1. overlay' = Login("running") => overlay = Login("running")
    <3>1. CASE overlay.kind = "models"
      <4>1. ASSUME overlay' = Login("running") PROVE FALSE
        BY <1>2, <3>1, <4>1 DEF OnModels, Login, Shows, NoOverlay
      <4>. QED  BY <4>1
    <3>. QED  BY <1>2, <3>1 DEF OnModels
  <2>. QED  BY <1>2, <2>1, LoginTaken DEF OnModels
<1>3. CASE OnOther
  BY <1>3, LoginTaken DEF OnOther, screenVars
<1>4. CASE OnApplied \/ OnSet
  BY <1>4, LoginTaken DEF OnApplied, OnSet
<1>5. CASE OnProgress
  BY <1>5, LoginTaken DEF OnProgress
<1>6. CASE OnLoginEnded
  <2>1. overlay' # Login("running")
    BY <1>6, RunningIsShown DEF OnLoginEnded, LoginShows
  <2>. QED  BY <1>6, <2>1, LoginTaken DEF OnLoginEnded
<1>. QED  BY <1>1, <1>2, <1>3, <1>4, <1>5, <1>6 DEF Screen

\* A worker that takes another command keeps the logins queued behind it.
LEMMA LoginReceives ==
  ASSUME LoginInv, NEW k, k # "login", Receives(k), worker' = worker,
         events' = events \/ \E m : m.kind # "progress" /\ events' = Append(events, m)
  PROVE  LoginInv'
<1>1. IsQueue(commands') /\ (LoginQueued => LoginQueued')
  BY LoginUnsent DEF Receives
<1>2. overlay' = overlay /\ IsWorker(worker')
  BY DEF Receives, screenVars, LoginInv
<1>3. CASE events' = events
  BY <1>1, <1>2, <1>3, LoginQuiet
<1>4. CASE \E m : m.kind # "progress" /\ events' = Append(events, m)
  BY <1>1, <1>2, <1>4, LoginEmits
<1>. QED  BY <1>3, <1>4

\* The worker says how a login it took ends, in the step that ends it.
LEMMA LoginWorker == LoginInv /\ Worker => LoginInv'
<1>. SUFFICES ASSUME LoginInv, Worker PROVE LoginInv'
  OBVIOUS
<1>0. \A kind, arg : Message(kind, arg).kind = kind
  BY DEF Message
<1>1. CASE ReceiveReport
  <2>1. PICK kind \in {"doctor", "skills", "plugins"} :
          Receives(kind) /\ (Emits(kind, "") \/ Emits("line", ""))
    BY <1>1 DEF ReceiveReport, Reports
  <2>2. \E m : m.kind # "progress" /\ events' = Append(events, m)
    BY <2>1 DEF Emits, Message
  <2>3. worker' = worker /\ kind # "login"
    BY <1>1 DEF ReceiveReport
  <2>. QED  BY <2>1, <2>2, <2>3, LoginReceives
<1>2. CASE ReceiveApply
  BY <1>2, LoginReceives DEF ReceiveApply, Emits, Message
<1>3. CASE ReceiveModels
  BY <1>3, LoginReceives DEF ReceiveModels, Emits, Message
<1>4. CASE ReceiveSet
  BY <1>4, LoginReceives DEF ReceiveSet, Emits, Message
<1>5. CASE ReceiveUi
  BY <1>5, LoginReceives DEF ReceiveUi, Emits, Message
<1>6. CASE ReceiveLogin
  <2>1. IsQueue(commands') /\ overlay' = overlay
    BY <1>6, LoginUnsent DEF ReceiveLogin, Receives, screenVars
  <2>2. CASE worker' = [at |-> "listen", vendor |-> Asked] /\ Emits("progress", Asked)
    <3>1. IsWorker(worker') /\ worker'.at # "recv"
      BY <2>2 DEF IsWorker
    <3>. QED  BY <2>1, <2>2, <3>1, LoginEmits DEF Emits
  <2>3. CASE Emits("failed", Asked) /\ worker' = worker
    <3>1. EndsLogin(Message("failed", Asked)) /\ IsWorker(worker')
      BY <1>0, <2>3 DEF EndsLogin, LoginInv
    <3>. QED  BY <2>1, <2>3, <3>1, LoginEmits DEF Emits
  <2>. QED  BY <1>6, <2>2, <2>3 DEF ReceiveLogin
<1>7. CASE LoginReads
  <2>1. worker' = [worker EXCEPT !.at = "exchange"] /\ events' = events
        /\ overlay' = overlay /\ commands' = commands
    BY <1>7 DEF LoginReads, LoginGoes, loginFrame, screenVars
  <2>2. IsWorker(worker') /\ worker'.at # "recv"
    BY <2>1 DEF LoginInv, IsWorker
  <2>. QED  BY <2>1, <2>2, LoginQuiet DEF LoginInv
<1>8. CASE LoginFails \/ LoginStores
  <2>1. overlay' = overlay /\ commands' = commands /\ worker' = Idle
    BY <1>8 DEF LoginFails, LoginStores, loginFrame, screenVars
  <2>2. PICK m : EndsLogin(m) /\ events' = Append(events, m)
    BY <1>0, <1>8 DEF LoginFails, LoginStores, Emits, EndsLogin
  <2>3. IsWorker(worker') /\ IsQueue(commands')
    BY <2>1 DEF IsWorker, Idle, LoginInv
  <2>. QED  BY <2>1, <2>2, <2>3, LoginEmits
<1>. QED  BY <1>1, <1>2, <1>3, <1>4, <1>5, <1>6, <1>7, <1>8 DEF Worker

\* The tasks and the browser end no login and begin none.
LEMMA LoginTasks == LoginInv /\ (Redirect \/ FetchEnds \/ HandlerEnds) => LoginInv'
<1>. SUFFICES ASSUME LoginInv, Redirect \/ FetchEnds \/ HandlerEnds PROVE LoginInv'
  OBVIOUS
<1>0. \A kind, arg : Message(kind, arg).kind = kind
  BY DEF Message
<1>1. CASE Redirect
  <2>1. worker' = [worker EXCEPT !.at = "read"] /\ events' = events
        /\ overlay' = overlay /\ commands' = commands
    BY <1>1 DEF Redirect, LoginGoes, loginFrame, screenVars
  <2>2. IsWorker(worker') /\ worker'.at # "recv"
    BY <2>1 DEF LoginInv, IsWorker
  <2>. QED  BY <2>1, <2>2, LoginQuiet DEF LoginInv
<1>2. CASE FetchEnds \/ HandlerEnds
  <2>1. UNCHANGED <<overlay, commands, worker>>
    BY <1>2 DEF FetchEnds, HandlerEnds, taskFrame, screenVars
  <2>2. IsQueue(commands') /\ IsWorker(worker') /\ (LoginQueued => LoginQueued')
    BY <2>1 DEF LoginInv, LoginQueued
  <2>3. ASSUME NEW m, m.kind # "progress", events' = Append(events, m)
        PROVE  LoginInv'
    BY <2>1, <2>2, <2>3, LoginEmits
  <2>4. ASSUME events' = Append(Append(events, Message("line", "")), Message("models", {}))
        PROVE  LoginInv'
    <3>1. Message("line", "").kind # "progress" /\ Message("models", {}).kind # "progress"
      BY DEF Message
    <3>. QED  BY <2>1, <2>4, <3>1, LoginEmitsTwo, Zenon
  <2>5. \/ \E m : m.kind # "progress" /\ events' = Append(events, m)
        \/ events' = Append(Append(events, Message("line", "")), Message("models", {}))
    BY <1>2 DEF FetchEnds, HandlerEnds, Emits, Message
  <2>. QED  BY <2>3, <2>4, <2>5
<1>. QED  BY <1>1, <1>2

\* A login the panel shows as running is queued, under way, or its end is on the
\* way to the screen (start_login_flow), for any vendors and number of commands.
THEOREM LoginIsBackedHolds == Spec => []LoginIsBacked
<1>1. ASSUME LoginInv, UNCHANGED vars PROVE LoginInv'
  BY <1>1 DEF vars, screenVars, LoginInv, LoginIsBacked, IsQueue, IsWorker, EndsLogin
<1>2. LoginInv /\ [Next]_vars => LoginInv'
  BY <1>1, LoginKeys, LoginScreen, LoginWorker, LoginTasks DEF Next
<1>3. LoginInv => LoginIsBacked
  BY DEF LoginInv
<1>. QED  BY <1>2, <1>3, LoginInit, PTL DEF Spec

-----------------------------------------------------------------------------
(***************************************************************************)
(* Texts and their byte offsets                                            *)
(***************************************************************************)

\* A part of a text.
LEMMA Part ==
  ASSUME NEW s, IsQueue(s), NEW a \in Nat, NEW b \in Nat, a <= b, b <= Len(s)
  PROVE  /\ IsQueue(SubSeq(s, a + 1, b)) /\ Len(SubSeq(s, a + 1, b)) = b - a
         /\ \A i \in 1..(b - a) : SubSeq(s, a + 1, b)[i] = s[a + i]
<1>. DEFINE T == {s[i] : i \in DOMAIN s}
<1>1. Len(s) \in Nat /\ DOMAIN s = 1..Len(s)
  BY Queued
<1>2. a + 1 \in Int /\ b \in Int /\ \A i \in (a + 1)..b : s[i] \in T
  BY <1>1
<1>. HIDE DEF T
<1>3. /\ SubSeq(s, a + 1, b) \in Seq(T)
      /\ Len(SubSeq(s, a + 1, b)) = IF a + 1 <= b THEN b - (a + 1) + 1 ELSE 0
      /\ \A i \in 1..(b - (a + 1) + 1) : SubSeq(s, a + 1, b)[i] = s[(a + 1) + i - 1]
  BY <1>2, SubSeqProperties
<1>4. IsQueue(SubSeq(s, a + 1, b))
  BY <1>3, SeqIsQueue
<1>5. ASSUME NEW i \in 1..(b - a) PROVE i \in 1..(b - (a + 1) + 1) /\ (a + 1) + i - 1 = a + i
  OBVIOUS
<1>6. \A i \in 1..(b - a) : SubSeq(s, a + 1, b)[i] = s[a + i]
  BY <1>3, <1>5
<1>7. Len(SubSeq(s, a + 1, b)) = b - a
  BY <1>3
<1>. QED  BY <1>4, <1>6, <1>7

Wide(s, n) == {i \in 1..n : s[i] = "w"}
Width(c) == IF c = "w" THEN 2 ELSE 1

\* An offset counts the characters before it, and the wide ones again.
LEMMA OffsetCounts ==
  ASSUME NEW s, IsQueue(s), NEW n \in Nat, n <= Len(s)
  PROVE  /\ Offset(s, n) = n + Cardinality(Wide(s, n))
         /\ IsFiniteSet(Wide(s, n)) /\ Cardinality(Wide(s, n)) \in Nat
<1>1. PICK p : p = SubSeq(s, 1, n)
  OBVIOUS
<1>2. IsQueue(p) /\ Len(p) = n /\ \A i \in 1..n : p[i] = s[i]
  <2>1. 0 + 1 = 1 /\ n - 0 = n /\ \A i \in 1..n : 0 + i = i
    OBVIOUS
  <2>. QED  BY <1>1, <2>1, Part
<1>3. DOMAIN p = 1..n
  BY <1>2, Queued
<1>4. {i \in DOMAIN p : p[i] = "w"} = Wide(s, n)
  BY <1>2, <1>3 DEF Wide
<1>5. IsFiniteSet(Wide(s, n)) /\ Cardinality(Wide(s, n)) \in Nat
  <2>1. IsFiniteSet(1..n)
    BY FS_Interval
  <2>2. Wide(s, n) \in SUBSET (1..n)
    BY DEF Wide
  <2>. QED  BY <2>1, <2>2, FS_Subset, FS_CardinalityType
<1>6. ByteLen(p) = Len(p) + Cardinality({i \in DOMAIN p : p[i] = "w"})
  BY DEF ByteLen
<1>7. Offset(s, n) = ByteLen(p)
  BY <1>1 DEF Offset
<1>8. Offset(s, n) = n + Cardinality(Wide(s, n))
  BY ONLY <1>2, <1>4, <1>6, <1>7
<1>. QED  BY <1>5, <1>8

\* An offset is a number that grows by the width of each character.
LEMMA OffsetSteps ==
  ASSUME NEW s, IsQueue(s)
  PROVE  /\ Offset(s, 0) = 0
         /\ \A n \in 0..Len(s) : Offset(s, n) \in Nat
         /\ \A n \in Nat : n + 1 <= Len(s) => Offset(s, n + 1) = Offset(s, n) + Width(s[n + 1])
<1>0. Len(s) \in Nat
  BY Queued
<1>1. Offset(s, 0) = 0
  <2>1. Wide(s, 0) = {}
    BY DEF Wide
  <2>. QED  BY <1>0, <2>1, OffsetCounts, FS_EmptySet
<1>2. ASSUME NEW n \in 0..Len(s) PROVE Offset(s, n) \in Nat
  BY <1>0, OffsetCounts
<1>3. ASSUME NEW n \in Nat, n + 1 <= Len(s)
      PROVE  Offset(s, n + 1) = Offset(s, n) + Width(s[n + 1])
  <2>1. n <= Len(s) /\ n + 1 \in Nat
    BY <1>0, <1>3
  <2>2. /\ Offset(s, n) = n + Cardinality(Wide(s, n))
        /\ Offset(s, n + 1) = (n + 1) + Cardinality(Wide(s, n + 1))
        /\ IsFiniteSet(Wide(s, n)) /\ Cardinality(Wide(s, n)) \in Nat
    BY <1>3, <2>1, OffsetCounts
  <2>3. CASE s[n + 1] = "w"
    <3>1. Wide(s, n + 1) = Wide(s, n) \cup {n + 1} /\ n + 1 \notin Wide(s, n)
      BY <2>3 DEF Wide
    <3>2. Cardinality(Wide(s, n + 1)) = Cardinality(Wide(s, n)) + 1
      BY <2>2, <3>1, FS_AddElement
    <3>. QED  BY <2>2, <2>3, <3>2 DEF Width
  <2>4. CASE s[n + 1] # "w"
    <3>1. Wide(s, n + 1) = Wide(s, n)
      BY <2>4 DEF Wide
    <3>. QED  BY <2>2, <2>4, <3>1 DEF Width
  <2>. QED  BY <2>3, <2>4
<1>. QED  BY <1>1, <1>2, <1>3

\* The bytes of a text are the offset of its end.
LEMMA ByteLenIsOffset ==
  ASSUME NEW s, IsQueue(s)
  PROVE  ByteLen(s) = Offset(s, Len(s))
<1>1. Len(s) \in Nat
  BY Queued
<1>2. PICK p : p = SubSeq(s, 1, Len(s))
  OBVIOUS
<1>3. IsQueue(p) /\ Len(p) = Len(s) /\ \A i \in 1..Len(s) : p[i] = s[i]
  <2>1. 0 + 1 = 1 /\ Len(s) - 0 = Len(s) /\ \A i \in 1..Len(s) : 0 + i = i
    BY <1>1
  <2>. QED  BY <1>1, <1>2, <2>1, Part
<1>4. p = s
  BY <1>3, SameQueue
<1>. QED  BY <1>2, <1>4 DEF Offset

\* Further on, an offset is greater.
LEMMA OffsetsRise ==
  ASSUME NEW s, IsQueue(s), NEW a \in Nat, NEW b \in Nat, a <= b, b <= Len(s)
  PROVE  Offset(s, a) \in Nat /\ Offset(s, b) \in Nat
         /\ Offset(s, a) + (b - a) <= Offset(s, b)
<1>0. Len(s) \in Nat
  BY Queued
<1>. DEFINE Good == {d \in Nat : a + d <= Len(s) => Offset(s, a) + d <= Offset(s, a + d)}
<1>1. \A n \in 0..Len(s) : Offset(s, n) \in Nat
  BY OffsetSteps
<1>2. 0 \in Good
  BY <1>0, <1>1
<1>3. ASSUME NEW d \in Nat, d \in Good PROVE d + 1 \in Good
  <2>. SUFFICES ASSUME a + (d + 1) <= Len(s)
                PROVE  Offset(s, a) + (d + 1) <= Offset(s, a + (d + 1))
    OBVIOUS
  <2>1. a + d \in Nat /\ (a + d) + 1 = a + (d + 1) /\ a + d \in 0..Len(s) /\ a \in 0..Len(s)
    BY <1>0
  <2>2. Offset(s, a + (d + 1)) = Offset(s, a + d) + Width(s[a + (d + 1)])
    BY <2>1, OffsetSteps
  <2>3. Width(s[a + (d + 1)]) \in {1, 2}
    BY DEF Width
  <2>4. Offset(s, a) + d <= Offset(s, a + d)
    BY <1>0, <1>3, <2>1
  <2>5. Offset(s, a) \in Nat /\ Offset(s, a + d) \in Nat
    BY <1>1, <2>1
  <2>. QED  BY <2>2, <2>3, <2>4, <2>5
<1>. HIDE DEF Good
<1>4. b - a \in Good
  <2>1. b - a \in Nat
    OBVIOUS
  <2>. QED  BY <1>2, <1>3, <2>1, Induction
<1>5. a + (b - a) = b /\ a \in 0..Len(s) /\ b \in 0..Len(s)
  BY <1>0
<1>. QED  BY <1>1, <1>4, <1>5 DEF Good

\* So an offset tells the characters before it.
LEMMA CharsAt ==
  ASSUME NEW s, IsQueue(s), NEW n \in 0..Len(s)
  PROVE  CharsBefore(s, Offset(s, n)) = n
<1>0. Len(s) \in Nat /\ n \in Nat
  BY Queued
<1>1. ASSUME NEW m \in 0..Len(s), Offset(s, m) = Offset(s, n) PROVE m = n
  <2>1. CASE m < n
    <3>1. Offset(s, m) + (n - m) <= Offset(s, n) /\ Offset(s, n) \in Nat
      BY <1>0, <2>1, OffsetsRise
    <3>. QED  BY <1>1, <2>1, <3>1
  <2>2. CASE n < m
    <3>1. Offset(s, n) + (m - n) <= Offset(s, m) /\ Offset(s, n) \in Nat
      BY <1>0, <2>2, OffsetsRise
    <3>. QED  BY <1>1, <2>2, <3>1
  <2>. QED  BY <1>0, <2>1, <2>2
<1>2. \E m \in 0..Len(s) : Offset(s, m) = Offset(s, n)
  OBVIOUS
<1>. QED  BY <1>1, <1>2 DEF CharsBefore

\* Two stretches of the same characters have as many bytes.
Alike(s, p, r, q, d) ==
  /\ IsQueue(s) /\ IsQueue(r) /\ p \in Nat /\ q \in Nat /\ d \in Nat
  /\ p + d <= Len(s) /\ q + d <= Len(r) /\ \A i \in 1..d : s[p + i] = r[q + i]

LEMMA SameBytes ==
  ASSUME NEW s, NEW p, NEW r, NEW q, NEW d, Alike(s, p, r, q, d)
  PROVE  Offset(s, p + d) + Offset(r, q) = Offset(r, q + d) + Offset(s, p)
<1>. USE DEF Alike
<1>0. Len(s) \in Nat /\ Len(r) \in Nat
  BY Queued
<1>. DEFINE Good == {e \in Nat : e <= d =>
       Offset(s, p + e) + Offset(r, q) = Offset(r, q + e) + Offset(s, p)}
<1>1. /\ \A n \in 0..Len(s) : Offset(s, n) \in Nat
      /\ \A n \in 0..Len(r) : Offset(r, n) \in Nat
  BY OffsetSteps
<1>2. 0 \in Good
  <2>1. p + 0 = p /\ q + 0 = q /\ p \in 0..Len(s) /\ q \in 0..Len(r)
    BY <1>0
  <2>. QED  BY <1>1, <2>1
<1>3. ASSUME NEW e \in Nat, e \in Good PROVE e + 1 \in Good
  <2>. SUFFICES ASSUME e + 1 <= d
                PROVE  Offset(s, p + (e + 1)) + Offset(r, q)
                         = Offset(r, q + (e + 1)) + Offset(s, p)
    OBVIOUS
  <2>1. /\ p + e \in Nat /\ (p + e) + 1 = p + (e + 1) /\ (p + e) + 1 <= Len(s) /\ p + e \in 0..Len(s)
        /\ q + e \in Nat /\ (q + e) + 1 = q + (e + 1) /\ (q + e) + 1 <= Len(r) /\ q + e \in 0..Len(r)
        /\ p \in 0..Len(s) /\ q \in 0..Len(r) /\ e + 1 \in 1..d
    BY <1>0
  <2>2. /\ Offset(s, p + (e + 1)) = Offset(s, p + e) + Width(s[p + (e + 1)])
        /\ Offset(r, q + (e + 1)) = Offset(r, q + e) + Width(r[q + (e + 1)])
    BY <2>1, OffsetSteps
  <2>3. Width(s[p + (e + 1)]) = Width(r[q + (e + 1)]) /\ Width(s[p + (e + 1)]) \in Nat
    BY <2>1 DEF Width
  <2>4. Offset(s, p + e) + Offset(r, q) = Offset(r, q + e) + Offset(s, p)
    BY <1>3
  <2>5. /\ Offset(s, p + e) \in Nat /\ Offset(r, q) \in Nat
        /\ Offset(r, q + e) \in Nat /\ Offset(s, p) \in Nat
    BY <1>1, <2>1
  <2>6. PICK u, v, x, y, w \in Nat :
          /\ u = Offset(s, p + e) /\ v = Offset(r, q) /\ x = Offset(r, q + e)
          /\ y = Offset(s, p) /\ w = Width(r[q + (e + 1)])
    BY <2>3, <2>5
  <2>7. u + v = x + y
    BY <2>4, <2>6
  <2>8. (u + w) + v = (x + w) + y
    BY <2>7
  <2>. QED  BY <2>2, <2>3, <2>6, <2>8
<1>. HIDE DEF Good
<1>4. d \in Good
  BY <1>2, <1>3, Induction
<1>. QED  BY <1>4 DEF Good

\* What a text becomes when the characters between two places are replaced.
Replaces(r, s, a, b, new) ==
  /\ IsQueue(r) /\ Len(r) = a + Len(new) + (Len(s) - b)
  /\ \A i \in 1..a : r[i] = s[i]
  /\ \A i \in 1..Len(new) : r[a + i] = new[i]
  /\ \A i \in 1..(Len(s) - b) : r[a + Len(new) + i] = s[b + i]

\* ReplaceRange does it, given the offsets of the two places.
LEMMA Replaced ==
  ASSUME NEW s, IsQueue(s), NEW new, IsQueue(new), NEW a \in Nat, NEW b \in Nat, a <= b, b <= Len(s)
  PROVE  Replaces(ReplaceRange(s, Offset(s, a), Offset(s, b), new), s, a, b, new)
<1>1. PICK l, n \in Nat : l = Len(s) /\ n = Len(new)
  BY Queued
<1>2. PICK p, q : p = SubSeq(s, 0 + 1, a) /\ q = SubSeq(s, b + 1, l)
  OBVIOUS
<1>3. IsQueue(p) /\ Len(p) = a /\ \A i \in 1..a : p[i] = s[i]
  <2>1. a - 0 = a /\ 0 <= a /\ a <= Len(s) /\ \A i \in 1..a : 0 + i = i
    BY <1>1
  <2>. QED  BY <1>2, <2>1, Part
<1>4. IsQueue(q) /\ Len(q) = l - b /\ \A i \in 1..(l - b) : q[i] = s[b + i]
  BY <1>1, <1>2, Part
<1>5. PICK u : u = p \o new
  OBVIOUS
<1>6. IsQueue(u) /\ Len(u) = a + n /\ (\A i \in 1..a : u[i] = p[i]) /\ \A i \in 1..n : u[a + i] = new[i]
  <2>1. Joins(p, new, u) /\ Len(u) = a + n
    BY <1>1, <1>3, <1>5, Joined, Concats
  <2>. QED  BY <1>1, <1>3, <2>1 DEF Joins
<1>7. PICK r : r = u \o q
  OBVIOUS
<1>8. /\ IsQueue(r) /\ Len(r) = (a + n) + (l - b) /\ (\A i \in 1..(a + n) : r[i] = u[i])
      /\ \A i \in 1..(l - b) : r[(a + n) + i] = q[i]
  <2>1. Joins(u, q, r) /\ Len(r) = Len(u) + Len(q)
    BY <1>4, <1>6, <1>7, Joined, Concats
  <2>. QED  BY <1>4, <1>6, <2>1 DEF Joins
<1>9. /\ CharsBefore(s, 0) = 0 /\ CharsBefore(s, Offset(s, a)) = a
      /\ CharsBefore(s, Offset(s, b)) = b /\ CharsBefore(s, ByteLen(s)) = l
  <2>1. 0 \in 0..Len(s) /\ a \in 0..Len(s) /\ b \in 0..Len(s) /\ l \in 0..Len(s)
    BY <1>1
  <2>. QED  BY <1>1, <2>1, CharsAt, ByteLenIsOffset, OffsetSteps
<1>10. ReplaceRange(s, Offset(s, a), Offset(s, b), new) = r
  BY <1>2, <1>5, <1>7, <1>9 DEF ReplaceRange, Slice
<1>11. \A i \in 1..a : r[i] = s[i]
  <2>1. \A i \in 1..a : i \in 1..(a + n)
    OBVIOUS
  <2>. QED  BY <1>3, <1>6, <1>8, <2>1
<1>12. \A i \in 1..n : r[a + i] = new[i]
  <2>1. \A i \in 1..n : a + i \in 1..(a + n)
    OBVIOUS
  <2>. QED  BY <1>6, <1>8, <2>1
<1>13. \A i \in 1..(l - b) : r[a + n + i] = s[b + i]
  BY <1>4, <1>8
<1>14. Replaces(r, s, a, b, new)
  BY <1>1, <1>8, <1>11, <1>12, <1>13 DEF Replaces
<1>. QED  BY <1>10, <1>14

\* Offsets before the replaced place stay, and those behind it move.
LEMMA ReplacedOffsets ==
  ASSUME NEW s, IsQueue(s), NEW new, IsQueue(new), NEW a \in Nat, NEW b \in Nat, a <= b, b <= Len(s),
         NEW r, Replaces(r, s, a, b, new)
  PROVE  /\ \A k \in 0..a : Offset(r, k) = Offset(s, k)
         /\ Offset(r, a + Len(new)) = Offset(s, a) + ByteLen(new)
         /\ \A k \in 0..(Len(s) - b) :
              Offset(r, a + Len(new) + k) + Offset(s, b)
                = Offset(s, b + k) + (Offset(s, a) + ByteLen(new))
<1>1. PICK l, n \in Nat : l = Len(s) /\ n = Len(new)
  BY Queued
<1>2. /\ IsQueue(r) /\ Len(r) = a + n + (l - b)
      /\ \A i \in 1..a : r[i] = s[i]
      /\ \A i \in 1..n : r[a + i] = new[i]
      /\ \A i \in 1..(l - b) : r[a + n + i] = s[b + i]
  BY <1>1 DEF Replaces
<1>3. Offset(s, 0) = 0 /\ Offset(r, 0) = 0 /\ Offset(new, 0) = 0
  BY <1>2, OffsetSteps
<1>4. ASSUME NEW k \in 0..a PROVE Offset(r, k) = Offset(s, k) /\ Offset(s, k) \in Nat
  <2>1. k \in Nat /\ 0 + k = k /\ 0 + k <= Len(s) /\ 0 + k <= Len(r) /\ k \in 0..Len(s) /\ k \in 0..Len(r)
    BY <1>1, <1>2
  <2>2. \A i \in 1..k : r[0 + i] = s[0 + i]
    <3>1. \A i \in 1..k : i \in 1..a /\ 0 + i = i
      OBVIOUS
    <3>. QED  BY <1>2, <3>1
  <2>3. Alike(r, 0, s, 0, k)
    BY <1>2, <2>1, <2>2 DEF Alike
  <2>5. Offset(r, 0 + k) + Offset(s, 0) = Offset(s, 0 + k) + Offset(r, 0)
    BY <2>3, SameBytes
  <2>4. Offset(s, k) \in Nat /\ Offset(r, k) \in Nat
    BY <1>2, <2>1, OffsetSteps
  <2>. QED  BY <1>3, <2>1, <2>4, <2>5
<1>5. /\ Offset(r, a + n) = Offset(s, a) + ByteLen(new)
      /\ Offset(r, a + n) \in Nat
  <2>1. /\ a + n <= Len(r) /\ 0 + n = n /\ 0 + n <= Len(new)
        /\ a + n \in 0..Len(r) /\ n \in 0..Len(new) /\ a \in 0..a
    BY <1>1, <1>2
  <2>2. \A i \in 1..n : r[a + i] = new[0 + i]
    <3>1. \A i \in 1..n : 0 + i = i
      OBVIOUS
    <3>. QED  BY <1>2, <3>1
  <2>7. Alike(r, a, new, 0, n)
    BY <1>2, <2>1, <2>2 DEF Alike
  <2>3. Offset(r, a + n) + Offset(new, 0) = Offset(new, 0 + n) + Offset(r, a)
    BY <2>7, SameBytes
  <2>4. Offset(r, a) = Offset(s, a) /\ Offset(s, a) \in Nat
    BY <1>4, <2>1
  <2>5. ByteLen(new) = Offset(new, n)
    BY <1>1, ByteLenIsOffset
  <2>6. Offset(r, a + n) \in Nat /\ Offset(new, n) \in Nat
    BY <1>2, <2>1, OffsetSteps
  <2>. QED  BY <1>3, <2>1, <2>3, <2>4, <2>5, <2>6
<1>6. ASSUME NEW k \in 0..(l - b)
      PROVE  Offset(r, a + n + k) + Offset(s, b)
               = Offset(s, b + k) + (Offset(s, a) + ByteLen(new))
  <2>1. k \in Nat /\ a + n \in Nat /\ (a + n) + k <= Len(r) /\ b + k <= Len(s)
    BY <1>1, <1>2
  <2>2. \A i \in 1..k : r[(a + n) + i] = s[b + i]
    <3>1. \A i \in 1..k : i \in 1..(l - b)
      BY <1>1
    <3>. QED  BY <1>2, <3>1
  <2>3. Offset(r, (a + n) + k) + Offset(s, b) = Offset(s, b + k) + Offset(r, a + n)
    <3>1. Alike(r, a + n, s, b, k)
      BY <1>2, <2>1, <2>2 DEF Alike
    <3>. QED  BY <3>1, SameBytes
  <2>. QED  BY <1>5, <2>3
<1>. QED  BY <1>1, <1>4, <1>5, <1>6

-----------------------------------------------------------------------------
(***************************************************************************)
(* The skill                                                               *)
(***************************************************************************)

\* The skill's label stands behind p characters of the text.
SkillAt(s, t, p) ==
  /\ p \in Nat /\ p + 2 <= Len(s) /\ s[p + 1] = "/" /\ s[p + 2] = "w"
  /\ t = [start |-> Offset(s, p), end |-> Offset(s, p + 2)]

\* What is replaced behind it leaves it where it is.
LEMMA SkillStays ==
  ASSUME NEW s, IsQueue(s), NEW new, IsQueue(new), NEW a \in Nat, NEW b \in Nat, a <= b, b <= Len(s),
         NEW r, Replaces(r, s, a, b, new), NEW t, NEW p, SkillAt(s, t, p), p + 2 <= a
  PROVE  SkillAt(r, t, p)
<1>1. PICK l, n \in Nat : l = Len(s) /\ n = Len(new)
  BY Queued
<1>2. Len(r) = a + n + (l - b) /\ \A i \in 1..a : r[i] = s[i]
  BY <1>1 DEF Replaces
<1>3. p \in Nat /\ p + 1 \in 1..a /\ p + 2 \in 1..a /\ p \in 0..a /\ p + 2 \in 0..a /\ p + 2 <= Len(r)
  BY <1>1, <1>2 DEF SkillAt
<1>4. r[p + 1] = s[p + 1] /\ r[p + 2] = s[p + 2]
  BY <1>2, <1>3
<1>5. Offset(r, p) = Offset(s, p) /\ Offset(r, p + 2) = Offset(s, p + 2)
  BY <1>3, ReplacedOffsets
<1>. QED  BY <1>3, <1>4, <1>5 DEF SkillAt

\* What is replaced before it moves it.
LEMMA SkillMoves ==
  ASSUME NEW s, IsQueue(s), NEW new, IsQueue(new), NEW a \in Nat, NEW b \in Nat, a <= b, b <= Len(s),
         NEW r, Replaces(r, s, a, b, new), NEW t, NEW p, SkillAt(s, t, p), b <= p,
         NEW u, u = [start |-> t.start + ByteLen(new) - (Offset(s, b) - Offset(s, a)),
                     end |-> t.end + ByteLen(new) - (Offset(s, b) - Offset(s, a))]
  PROVE  SkillAt(r, u, a + Len(new) + (p - b))
<1>1. PICK l, n \in Nat : l = Len(s) /\ n = Len(new)
  BY Queued
<1>2. /\ Len(r) = a + n + (l - b) /\ IsQueue(r)
      /\ \A i \in 1..(l - b) : r[a + n + i] = s[b + i]
  BY <1>1 DEF Replaces
<1>3. PICK k \in Nat : k = p - b
  BY DEF SkillAt
<1>4. /\ p \in Nat /\ p = b + k /\ p + 1 = b + (k + 1) /\ p + 2 = b + (k + 2) /\ p + 2 <= l
      /\ s[p + 1] = "/" /\ s[p + 2] = "w"
      /\ t.start = Offset(s, p) /\ t.end = Offset(s, p + 2)
  BY <1>1, <1>3 DEF SkillAt
<1>5. /\ k + 1 \in 1..(l - b) /\ k + 2 \in 1..(l - b) /\ k \in 0..(l - b) /\ k + 2 \in 0..(l - b)
      /\ a + n + (k + 1) = (a + n + k) + 1 /\ a + n + (k + 2) = (a + n + k) + 2
      /\ (a + n + k) + 2 <= Len(r) /\ a + n + k \in 0..Len(r) /\ a + n + (k + 2) \in 0..Len(r)
      /\ a + n + k \in Nat
      /\ p \in 0..Len(s) /\ p + 2 \in 0..Len(s) /\ a \in 0..Len(s) /\ b \in 0..Len(s)
  BY <1>1, <1>2, <1>4
<1>6. r[(a + n + k) + 1] = "/" /\ r[(a + n + k) + 2] = "w"
  BY <1>2, <1>4, <1>5
<1>7. /\ Offset(r, a + n + k) + Offset(s, b)
           = Offset(s, p) + (Offset(s, a) + ByteLen(new))
      /\ Offset(r, a + n + (k + 2)) + Offset(s, b)
           = Offset(s, p + 2) + (Offset(s, a) + ByteLen(new))
  <2>1. \A j \in 0..(l - b) : Offset(r, a + n + j) + Offset(s, b)
                                = Offset(s, b + j) + (Offset(s, a) + ByteLen(new))
    BY <1>1, ReplacedOffsets
  <2>. QED  BY <1>4, <1>5, <2>1
<1>8. PICK x, y, oa, ob, w, x1, y1 \in Nat :
        /\ x = Offset(s, p) /\ y = Offset(s, p + 2) /\ oa = Offset(s, a)
        /\ ob = Offset(s, b) /\ w = ByteLen(new)
        /\ x1 = Offset(r, a + n + k) /\ y1 = Offset(r, a + n + (k + 2))
  <2>1. ByteLen(new) \in Nat
    <3>1. Len(new) \in 0..Len(new)
      BY <1>1
    <3>. QED  BY <3>1, OffsetSteps, ByteLenIsOffset
  <2>2. \A m \in 0..Len(s) : Offset(s, m) \in Nat
    BY OffsetSteps
  <2>3. \A m \in 0..Len(r) : Offset(r, m) \in Nat
    BY <1>2, OffsetSteps
  <2>. QED  BY <1>5, <2>1, <2>2, <2>3
<1>9. x1 = x + w - (ob - oa) /\ y1 = y + w - (ob - oa)
  <2>1. x1 + ob = x + (oa + w) /\ y1 + ob = y + (oa + w)
    BY <1>7, <1>8
  <2>. QED  BY <2>1
<1>10. u = [start |-> Offset(r, a + n + k), end |-> Offset(r, (a + n + k) + 2)]
  BY <1>4, <1>5, <1>8, <1>9
<1>. QED  BY <1>1, <1>3, <1>5, <1>6, <1>10 DEF SkillAt

\* What a line is made of: a text, a cursor between two of its characters, and
\* at most one skill, whose label stands in it.
Holds(text, at, ts) ==
  /\ IsQueue(text)
  /\ \E n \in 0..Len(text) : at = Offset(text, n)
  /\ ts = {} \/ \E t, p : ts = {t} /\ SkillAt(text, t, p)

\* The cursor behind a text without a skill.
LEMMA HoldsAtEnd ==
  ASSUME NEW s, IsQueue(s)
  PROVE  Holds(s, ByteLen(s), {})
<1>1. Len(s) \in 0..Len(s)
  BY Queued
<1>. QED  BY <1>1, ByteLenIsOffset DEF Holds

\* The empty line.
LEMMA HoldsNothing == Holds(<<>>, 0, {})
<1>1. IsQueue(<<>>) /\ Len(<<>>) = 0
  BY EmptyQueue
<1>2. Offset(<<>>, 0) = 0
  BY <1>1, OffsetSteps
<1>. QED  BY <1>1, <1>2 DEF Holds

\* The bytes of a text are a number, of the empty one 0.
LEMMA ByteLenType ==
  ASSUME NEW s, IsQueue(s)
  PROVE  ByteLen(s) \in Nat /\ (s = <<>> => ByteLen(s) = 0)
<1>1. Len(s) \in 0..Len(s)
  BY Queued
<1>2. s = <<>> => Len(s) = 0
  BY EmptyQueue
<1>. QED  BY <1>1, <1>2, ByteLenIsOffset, OffsetSteps

\* A character is typed.
LEMMA TypeHolds ==
  ASSUME Holds(input, cursor, skills), Type
  PROVE  Holds(input', cursor', skills')
<1>1. PICK n \in 0..Len(input) : cursor = Offset(input, n)
  BY DEF Holds
<1>2. PICK c : /\ input' = ReplaceRange(input, cursor, cursor, <<c>>)
               /\ cursor' = cursor + ByteLen(<<c>>)
               /\ skills' = ShiftAfterInsert(skills, cursor, ByteLen(<<c>>))
  BY DEF Type, Writes
<1>3. PICK new : new = <<c>>
  OBVIOUS
<1>4. IsQueue(new) /\ Len(new) = 1 /\ IsQueue(input) /\ Len(input) \in Nat
      /\ n \in Nat /\ n <= n /\ n <= Len(input)
  BY <1>3, One, Queued DEF Holds
<1>5. Replaces(input', input, n, n, new)
  BY <1>1, <1>2, <1>3, <1>4, Replaced
<1>6. IsQueue(input') /\ n + 1 \in 0..Len(input')
  BY <1>4, <1>5 DEF Replaces
<1>7. cursor' = Offset(input', n + 1)
  <2>1. Offset(input', n + Len(new)) = Offset(input, n) + ByteLen(new)
    <3>1. IsQueue(new) /\ IsQueue(input) /\ n \in Nat /\ n <= n /\ n <= Len(input)
      BY <1>4
    <3>. QED  BY ONLY <1>5, <3>1, ReplacedOffsets
  <2>. QED  BY <1>1, <1>2, <1>3, <1>4, <2>1
<1>8. skills' = {} \/ \E t, p : skills' = {t} /\ SkillAt(input', t, p)
  <2>1. CASE skills = {}
    BY <1>2, <2>1 DEF ShiftAfterInsert
  <2>2. ASSUME NEW t, NEW p, skills = {t}, SkillAt(input, t, p)
        PROVE  skills' = {} \/ \E u, q : skills' = {u} /\ SkillAt(input', u, q)
    <3>1. /\ p \in Nat /\ p + 2 <= Len(input) /\ t.start = Offset(input, p)
          /\ t.end = Offset(input, p + 2)
      BY <2>2 DEF SkillAt
    <3>2. PICK st, en, at, w \in Nat :
            st = t.start /\ en = t.end /\ at = cursor /\ w = ByteLen(new)
      <4>1. p \in 0..Len(input) /\ p + 2 \in 0..Len(input)
        BY <1>4, <3>1
      <4>. QED  BY <1>1, <1>4, <3>1, <4>1, OffsetSteps, ByteLenType
    <3>3. skills' = {} \/ skills' = {IF st >= at THEN Ahead(t, w) ELSE t}
      BY <1>2, <1>3, <2>2, <3>2 DEF ShiftAfterInsert
    <3>4. CASE ~(at <= st \/ at >= en)
      <4>1. skills' = {}
        BY <1>2, <1>3, <2>2, <3>2, <3>4 DEF ShiftAfterInsert
      <4>. QED  BY <4>1
    <3>5. CASE n <= p
      <4>1. at <= st
        <5>1. p <= Len(input) /\ p - n \in Nat
          BY <1>4, <3>1, <3>5
        <5>2. at + (p - n) <= st
          BY <1>1, <1>4, <3>1, <3>2, <3>5, <5>1, OffsetsRise
        <5>. QED  BY <5>1, <5>2
      <4>2. PICK u : u = [start |-> t.start + ByteLen(new)
                                      - (Offset(input, n) - Offset(input, n)),
                          end |-> t.end + ByteLen(new)
                                    - (Offset(input, n) - Offset(input, n))]
        OBVIOUS
      <4>3. SkillAt(input', u, n + Len(new) + (p - n))
        BY <1>4, <1>5, <2>2, <3>5, <4>2, SkillMoves
      <4>4. st + w - (at - at) = st + w /\ en + w - (at - at) = en + w
        OBVIOUS
      <4>5. u = Ahead(t, w)
        BY <1>1, <3>2, <4>2, <4>4 DEF Ahead
      <4>. QED  BY <3>3, <4>1, <4>3, <4>5
    <3>6. CASE p + 2 <= n
      <4>1. SkillAt(input', t, p)
        BY <1>4, <1>5, <2>2, <3>6, SkillStays
      <4>2. st + 2 <= en /\ en <= at
        <5>1. p + 2 \in Nat /\ p <= p + 2
          BY <3>1
        <5>2. st + ((p + 2) - p) <= en
          BY <1>4, <3>1, <3>2, <5>1, OffsetsRise
        <5>3. en + (n - (p + 2)) <= at
          BY <1>1, <1>4, <3>1, <3>2, <3>6, <5>1, OffsetsRise
        <5>. QED  BY <1>4, <3>1, <3>6, <5>2, <5>3
      <4>3. ~(st >= at)
        BY <4>2
      <4>. QED  BY <3>3, <4>1, <4>3
    <3>7. CASE n = p + 1
      <4>1. st + 1 <= at /\ at + 1 <= en
        <5>1. p + 1 \in Nat /\ p + 2 \in Nat /\ p <= p + 1 /\ p + 1 <= p + 2 /\ p + 1 <= Len(input)
          BY <1>4, <3>1
        <5>2. st + ((p + 1) - p) <= at
          BY <1>1, <1>4, <3>1, <3>2, <3>7, <5>1, OffsetsRise
        <5>3. at + ((p + 2) - (p + 1)) <= en
          BY <1>1, <1>4, <3>1, <3>2, <3>7, <5>1, OffsetsRise
        <5>. QED  BY <3>1, <5>2, <5>3
      <4>. QED  BY <3>4, <4>1
    <3>. QED  BY <1>4, <3>1, <3>5, <3>6, <3>7
  <2>. QED  BY <2>1, <2>2 DEF Holds
<1>. QED  BY <1>6, <1>7, <1>8 DEF Holds

\* Characters are deleted.
LEMMA RangeDeleted ==
  ASSUME Holds(input, cursor, skills), NEW a \in Nat, NEW b \in Nat, a <= b, b <= Len(input),
         NEW from, NEW to, from = Offset(input, a), to = Offset(input, b),
         DeleteRange(from, to, from)
  PROVE  Holds(input', cursor', skills')
<1>1. /\ input' = ReplaceRange(input, from, to, <<>>) /\ cursor' = from
      /\ skills' = ShiftAfterDelete(skills, from, to)
  BY DEF DeleteRange, Writes
<1>2. PICK new : new = <<>>
  OBVIOUS
<1>3. IsQueue(new) /\ Len(new) = 0 /\ IsQueue(input) /\ Len(input) \in Nat
  BY <1>2, EmptyQueue, Queued DEF Holds
<1>4. Replaces(input', input, a, b, new)
  BY <1>1, <1>2, <1>3, Replaced
<1>5. IsQueue(input') /\ a \in 0..Len(input')
  BY <1>3, <1>4 DEF Replaces
<1>6. cursor' = Offset(input', a)
  <2>1. a \in 0..a
    OBVIOUS
  <2>. QED  BY <1>1, <1>3, <1>4, <2>1, ReplacedOffsets
<1>7. skills' = {} \/ \E t, p : skills' = {t} /\ SkillAt(input', t, p)
  <2>1. CASE skills = {}
    BY <1>1, <2>1 DEF ShiftAfterDelete
  <2>2. ASSUME NEW t, NEW p, skills = {t}, SkillAt(input, t, p)
        PROVE  skills' = {} \/ \E u, q : skills' = {u} /\ SkillAt(input', u, q)
    <3>1. /\ p \in Nat /\ p + 2 <= Len(input) /\ t.start = Offset(input, p)
          /\ t.end = Offset(input, p + 2)
      BY <2>2 DEF SkillAt
    <3>2. PICK st, en, fr, en2 \in Nat :
            st = t.start /\ en = t.end /\ fr = from /\ en2 = to
      <4>1. p \in 0..Len(input) /\ p + 2 \in 0..Len(input) /\ a \in 0..Len(input) /\ b \in 0..Len(input)
        BY <1>3, <3>1
      <4>. QED  BY <1>3, <3>1, <4>1, OffsetSteps
    <3>3. CASE ~(en2 <= st \/ fr >= en)
      <4>1. skills' = {}
        BY <1>1, <2>2, <3>2, <3>3 DEF ShiftAfterDelete
      <4>. QED  BY <4>1
    <3>4. CASE en2 <= st
      <4>1. b <= p
        <5>1. CASE p < b
          <6>1. st + (b - p) <= en2
            BY <1>3, <3>1, <3>2, <5>1, OffsetsRise
          <6>. QED  BY <3>1, <3>4, <5>1, <6>1
        <5>. QED  BY <3>1, <5>1
      <4>2. skills' = {Back(t, to - from)}
        BY <1>1, <2>2, <3>2, <3>4 DEF ShiftAfterDelete
      <4>3. PICK u :
              u = [start |-> t.start + ByteLen(new) - (Offset(input, b) - Offset(input, a)),
                   end |-> t.end + ByteLen(new) - (Offset(input, b) - Offset(input, a))]
        OBVIOUS
      <4>4. SkillAt(input', u, a + Len(new) + (p - b))
        BY <1>3, <1>4, <2>2, <4>1, <4>3, SkillMoves
      <4>5. st + 0 - (en2 - fr) = st - (en2 - fr) /\ en + 0 - (en2 - fr) = en - (en2 - fr)
        OBVIOUS
      <4>6. u = Back(t, to - from)
        <5>1. ByteLen(new) = 0
          BY <1>2, <1>3, ByteLenType
        <5>. QED  BY <3>2, <4>3, <4>5, <5>1 DEF Back
      <4>. QED  BY <4>2, <4>4, <4>6
    <3>5. CASE fr >= en
      <4>1. p + 2 <= a
        <5>1. CASE a < p + 2
          <6>1. p + 2 \in Nat
            BY <3>1
          <6>2. fr + ((p + 2) - a) <= en
            BY <1>3, <3>1, <3>2, <5>1, <6>1, OffsetsRise
          <6>. QED  BY <3>1, <3>5, <5>1, <6>2
        <5>. QED  BY <3>1, <5>1
      <4>2. SkillAt(input', t, p)
        BY <1>3, <1>4, <2>2, <4>1, SkillStays
      <4>3. fr <= en2
        BY <1>3, <3>2, OffsetsRise
      <4>4. st + 2 <= en
        <5>1. p + 2 \in Nat /\ p <= p + 2
          BY <3>1
        <5>2. st + ((p + 2) - p) <= en
          BY <1>3, <3>1, <3>2, <5>1, OffsetsRise
        <5>. QED  BY <3>1, <5>2
      <4>5. ~(st >= en2)
        BY <3>5, <4>3, <4>4
      <4>6. skills' = {t}
        BY <1>1, <2>2, <3>2, <3>5, <4>5 DEF ShiftAfterDelete
      <4>. QED  BY <4>2, <4>6
    <3>. QED  BY <3>3, <3>4, <3>5
  <2>. QED  BY <2>1, <2>2 DEF Holds
<1>. QED  BY <1>5, <1>6, <1>7 DEF Holds

\* The skill is deleted.
LEMMA SkillDeleted ==
  ASSUME Holds(input, cursor, skills), NEW t \in skills, DeleteToken(t)
  PROVE  Holds(input', cursor', skills')
<1>1. PICK p : skills = {t} /\ SkillAt(input, t, p)
  BY DEF Holds
<1>2. /\ p \in Nat /\ p + 2 \in Nat /\ p <= p + 2 /\ p + 2 <= Len(input)
      /\ t.start = Offset(input, p) /\ t.end = Offset(input, p + 2)
  BY <1>1 DEF SkillAt
<1>3. /\ input' = ReplaceRange(input, t.start, t.end, <<>>) /\ cursor' = t.start
      /\ skills' = {}
  BY <1>1 DEF DeleteToken, Writes
<1>4. IsQueue(<<>>) /\ Len(<<>>) = 0 /\ IsQueue(input) /\ Len(input) \in Nat
  BY EmptyQueue, Queued DEF Holds
<1>5. Replaces(input', input, p, p + 2, <<>>)
  BY <1>2, <1>3, <1>4, Replaced
<1>6. IsQueue(input') /\ p \in 0..Len(input') /\ p \in 0..p
  BY <1>2, <1>4, <1>5 DEF Replaces
<1>7. cursor' = Offset(input', p)
  BY <1>2, <1>3, <1>4, <1>5, <1>6, ReplacedOffsets
<1>. QED  BY <1>3, <1>6, <1>7 DEF Holds

-----------------------------------------------------------------------------
(***************************************************************************)
(* Where the cursor goes                                                   *)
(***************************************************************************)

\* The place before a cursor and the one behind it are places in the text.
LEMMA PlaceBefore ==
  ASSUME NEW s, IsQueue(s), NEW n \in 0..Len(s), NEW b, b = Offset(s, n), b > 0
  PROVE  \E a \in 0..Len(s) : a <= n /\ PrevBoundary(s, b) = Offset(s, a)
<1>0. Len(s) \in Nat /\ n \in Nat /\ b \in Nat /\ 0 \in 0..Len(s) /\ Offset(s, 0) = 0
  BY Queued, OffsetSteps
<1>1. PICK T : T = {0} \cup {o \in Boundaries(s) : o < b}
  OBVIOUS
<1>2. \A o \in T : \E a \in 0..Len(s) : o = Offset(s, a) /\ o < b /\ o \in Nat
  BY <1>0, <1>1, OffsetSteps DEF Boundaries
<1>3. T \in SUBSET (0..b) /\ T # {}
  <2>1. \A o \in T : o \in 0..b
    BY <1>0, <1>2
  <2>2. 0 \in T
    BY <1>1
  <2>. QED  BY <2>1, <2>2
<1>4. Max(T) \in T
  BY <1>0, <1>3, Greatest
<1>5. PrevBoundary(s, b) = Max(T)
  BY <1>1 DEF PrevBoundary
<1>6. PICK a \in 0..Len(s) : Max(T) = Offset(s, a) /\ Max(T) < b
  BY <1>2, <1>4
<1>7. a <= n
  <2>1. CASE n < a
    <3>1. Offset(s, n) + (a - n) <= Offset(s, a) /\ Offset(s, a) \in Nat
      BY <1>0, <2>1, OffsetsRise
    <3>. QED  BY <1>0, <1>6, <2>1, <3>1
  <2>. QED  BY <1>0, <2>1
<1>. QED  BY <1>5, <1>6, <1>7

LEMMA PlaceBehind ==
  ASSUME NEW s, IsQueue(s), NEW n \in 0..Len(s), NEW b, b = Offset(s, n), b < ByteLen(s)
  PROVE  \E a \in 0..Len(s) : n <= a /\ NextBoundary(s, b) = Offset(s, a)
<1>0. /\ Len(s) \in Nat /\ n \in Nat /\ b \in Nat
      /\ Len(s) \in 0..Len(s) /\ Offset(s, Len(s)) = ByteLen(s)
  BY Queued, OffsetSteps, ByteLenIsOffset
<1>1. PICK T : T = {ByteLen(s)} \cup {o \in Boundaries(s) : o > b}
  OBVIOUS
<1>2. \A o \in T : \E a \in 0..Len(s) : o = Offset(s, a) /\ b < o /\ o \in Nat
  BY <1>0, <1>1, OffsetSteps DEF Boundaries
<1>3. T \in SUBSET Nat /\ T # {}
  BY <1>1, <1>2
<1>4. Min(T) \in T
  BY <1>3, Smallest
<1>5. NextBoundary(s, b) = Min(T)
  BY <1>1 DEF NextBoundary
<1>6. PICK a \in 0..Len(s) : Min(T) = Offset(s, a) /\ b < Min(T)
  BY <1>2, <1>4
<1>7. n <= a
  <2>1. CASE a < n
    <3>1. Offset(s, a) + (n - a) <= Offset(s, n) /\ Offset(s, a) \in Nat
      BY <1>0, <2>1, OffsetsRise
    <3>. QED  BY <1>0, <1>6, <2>1, <3>1
  <2>. QED  BY <1>0, <2>1
<1>. QED  BY <1>5, <1>6, <1>7

\* Backspace and Delete take the skill or a character.
LEMMA BackspaceHolds ==
  ASSUME Holds(input, cursor, skills), Backspace
  PROVE  Holds(input', cursor', skills')
<1>1. PICK n \in 0..Len(input) : cursor = Offset(input, n)
  BY DEF Holds
<1>2. CASE \E t \in ForBackspace : DeleteToken(t)
  <2>1. ForBackspace \subseteq skills
    BY DEF ForBackspace
  <2>. QED  BY <1>2, <2>1, SkillDeleted
<1>3. ASSUME NEW from, from = PrevBoundary(input, cursor), cursor > 0,
             DeleteRange(from, cursor, from)
      PROVE  Holds(input', cursor', skills')
  <2>1. IsQueue(input) /\ Len(input) \in Nat
    BY Queued DEF Holds
  <2>2. PICK a \in 0..Len(input) : a <= n /\ from = Offset(input, a)
    BY <1>1, <1>3, <2>1, PlaceBefore
  <2>3. a \in Nat /\ n \in Nat /\ n <= Len(input)
    BY <2>1
  <2>. QED  BY <1>1, <1>3, <2>2, <2>3, RangeDeleted
<1>. QED  BY <1>2, <1>3 DEF Backspace

LEMMA DeleteHolds ==
  ASSUME Holds(input, cursor, skills), Delete
  PROVE  Holds(input', cursor', skills')
<1>1. PICK n \in 0..Len(input) : cursor = Offset(input, n)
  BY DEF Holds
<1>2. CASE \E t \in ForDelete : DeleteToken(t)
  <2>1. ForDelete \subseteq skills
    BY DEF ForDelete
  <2>. QED  BY <1>2, <2>1, SkillDeleted
<1>3. ASSUME NEW to, to = NextBoundary(input, cursor), cursor < ByteLen(input),
             DeleteRange(cursor, to, cursor)
      PROVE  Holds(input', cursor', skills')
  <2>1. IsQueue(input) /\ Len(input) \in Nat
    BY Queued DEF Holds
  <2>2. PICK b \in 0..Len(input) : n <= b /\ to = Offset(input, b)
    BY <1>1, <1>3, <2>1, PlaceBehind
  <2>3. b \in Nat /\ n \in Nat /\ b <= Len(input)
    BY <2>1
  <2>. QED  BY <1>1, <1>3, <2>2, <2>3, RangeDeleted
<1>. QED  BY <1>2, <1>3 DEF Delete

\* The arrows move the cursor.
LEMMA ArrowsHold ==
  ASSUME Holds(input, cursor, skills), Left \/ Right
  PROVE  Holds(input', cursor', skills')
<1>1. PICK n \in 0..Len(input) : cursor = Offset(input, n)
  BY DEF Holds
<1>2. IsQueue(input)
  BY DEF Holds
<1>3. input' = input /\ skills' = skills
  BY DEF Left, Right
<1>4. \E a \in 0..Len(input) : cursor' = Offset(input, a)
  <2>1. CASE Left
    BY <1>1, <1>2, <2>1, PlaceBefore DEF Left
  <2>2. CASE Right
    BY <1>1, <1>2, <2>2, PlaceBehind DEF Right
  <2>. QED  BY <2>1, <2>2
<1>. QED  BY <1>3, <1>4 DEF Holds

-----------------------------------------------------------------------------
(***************************************************************************)
(* The palette                                                             *)
(***************************************************************************)

\* The word the cursor is in is a stretch of the line.
LEMMA FilePlaces ==
  ASSUME Holds(input, cursor, skills), NEW t \in FileToken
  PROVE  \E a, b \in Nat : /\ a <= b /\ b <= Len(input)
                           /\ t.start = Offset(input, a) /\ t.end = Offset(input, b)
<1>1. PICK n \in 0..Len(input) : cursor = Offset(input, n)
  BY DEF Holds
<1>2. IsQueue(input) /\ Len(input) \in Nat /\ n \in Nat
  BY Queued DEF Holds
<1>3. CharsBefore(input, cursor) = n
  BY <1>1, <1>2, CharsAt
<1>4. PICK S : S = {0} \cup {i \in 1..n : input[i] = " "}
  OBVIOUS
<1>5. PICK E : E = {Len(input)} \cup {i - 1 : i \in {j \in (n + 1)..Len(input) : input[j] = " "}}
  OBVIOUS
<1>6. S \in SUBSET (0..n) /\ S # {}
  <2>1. \A i \in S : i \in 0..n
    <3>1. 0 \in 0..n /\ \A i \in 1..n : i \in 0..n
      BY <1>2
    <3>2. \A i \in S : i = 0 \/ i \in 1..n
      BY <1>4
    <3>. QED  BY <3>1, <3>2
  <2>2. 0 \in S
    BY <1>4
  <2>. QED  BY <2>1, <2>2
<1>7. PICK a : a = Max(S)
  OBVIOUS
<1>8. a \in 0..n
  BY <1>2, <1>6, <1>7, Greatest
<1>9. E \in SUBSET (n..Len(input)) /\ E # {}
  <2>1. \A i \in (n + 1)..Len(input) : i - 1 \in n..Len(input)
    BY <1>2
  <2>2. Len(input) \in n..Len(input)
    BY <1>2
  <2>. QED  BY <1>5, <2>1, <2>2
<1>10. PICK b : b = Min(E)
  OBVIOUS
<1>11. b \in n..Len(input)
  <2>1. E \in SUBSET Nat
    BY <1>2, <1>9
  <2>. QED  BY <1>9, <1>10, <2>1, Smallest
<1>12. t = [start |-> Offset(input, a), end |-> Offset(input, b)]
  BY <1>3, <1>4, <1>7, <1>10, <1>5 DEF FileToken
<1>13. a \in Nat /\ b \in Nat /\ a <= b /\ b <= Len(input)
  BY <1>2, <1>8, <1>11
<1>. QED  BY <1>12, <1>13

\* A file is named there.
LEMMA InsertFileHolds ==
  ASSUME Holds(input, cursor, skills), InsertFile
  PROVE  Holds(input', cursor', skills')
<1>1. PICK t \in FileToken :
        /\ input' = ReplaceRange(input, t.start, t.end, File)
        /\ cursor' = t.start + ByteLen(File) /\ skills' = {}
  BY DEF InsertFile, Writes
<1>2. PICK a, b \in Nat : /\ a <= b /\ b <= Len(input)
                          /\ t.start = Offset(input, a) /\ t.end = Offset(input, b)
  BY FilePlaces
<1>3. PICK new : new = File
  OBVIOUS
<1>4. IsQueue(new) /\ IsQueue(input) /\ Len(new) \in Nat /\ Len(input) \in Nat
  BY <1>3, Two, Queued DEF File, Holds
<1>5. Replaces(input', input, a, b, new)
  BY <1>1, <1>2, <1>3, <1>4, Replaced
<1>6. IsQueue(input') /\ a + Len(new) \in 0..Len(input')
  BY <1>2, <1>4, <1>5 DEF Replaces
<1>7. Offset(input', a + Len(new)) = Offset(input, a) + ByteLen(new)
  BY <1>2, <1>4, <1>5, ReplacedOffsets
<1>8. cursor' = Offset(input', a + Len(new))
  BY <1>1, <1>2, <1>3, <1>7
<1>. QED  BY <1>1, <1>6, <1>8 DEF Holds

\* The skill is injected.
LEMMA EnterSkillHolds ==
  ASSUME EnterSkill
  PROVE  Holds(input', cursor', skills')
<1>1. PICK s : s = Label
  OBVIOUS
<1>2. input' = s /\ cursor' = ByteLen(s) /\ skills' = {[start |-> 0, end |-> ByteLen(s)]}
  BY <1>1 DEF EnterSkill, Writes
<1>3. IsQueue(s) /\ Len(s) = 2 /\ s[1] = "/" /\ s[2] = "w"
  BY <1>1, Two DEF Label
<1>4. ByteLen(s) = Offset(s, 2) /\ Offset(s, 0) = 0 /\ 2 \in 0..Len(s)
  <2>1. ByteLen(s) = Offset(s, Len(s)) /\ Offset(s, 0) = 0
    BY <1>3, ByteLenIsOffset, OffsetSteps
  <2>. QED  BY <1>3, <2>1
<1>5. SkillAt(s, [start |-> 0, end |-> ByteLen(s)], 0)
  BY <1>3, <1>4 DEF SkillAt
<1>. QED  BY <1>2, <1>3, <1>4, <1>5 DEF Holds

-----------------------------------------------------------------------------
(***************************************************************************)
(* The prompts sent before                                                 *)
(***************************************************************************)

Prompts(h) == IsQueue(h) /\ \A i \in DOMAIN h : IsQueue(h[i])

\* What is trimmed is still a text.
LEMMA TrimIsText ==
  ASSUME NEW s, IsQueue(s)
  PROVE  IsQueue(Trim(s))
<1>0. Len(s) \in Nat /\ DOMAIN s = 1..Len(s)
  BY Queued
<1>1. PICK T : T = {i \in DOMAIN s : s[i] # " "}
  OBVIOUS
<1>2. CASE T = {}
  BY <1>1, <1>2, EmptyQueue DEF Trim
<1>3. CASE T # {}
  <2>1. T \in SUBSET (0..Len(s)) /\ T \in SUBSET Nat /\ T \in SUBSET (1..Len(s))
    <3>1. \A i \in 1..Len(s) : i \in 0..Len(s) /\ i \in Nat
      BY <1>0
    <3>2. \A i \in T : i \in 1..Len(s)
      BY <1>0, <1>1
    <3>. QED  BY <3>1, <3>2
  <2>2. PICK a, b : a = Min(T) /\ b = Max(T)
    OBVIOUS
  <2>3. a \in T /\ b \in T /\ a <= b
    <3>1. a \in T /\ \A y \in T : a <= y
      BY <1>3, <2>1, <2>2, Smallest
    <3>2. b \in T
      BY <1>0, <1>3, <2>1, <2>2, Greatest
    <3>. QED  BY <3>1, <3>2
  <2>4. PICK c \in Nat : c + 1 = a /\ c <= b /\ b \in Nat /\ b <= Len(s)
    <3>1. a \in 1..Len(s) /\ b \in 1..Len(s)
      BY <2>1, <2>3
    <3>2. a - 1 \in Nat /\ (a - 1) + 1 = a /\ a - 1 <= b
      BY <1>0, <2>3, <3>1
    <3>. QED  BY <1>0, <3>1, <3>2
  <2>5. IsQueue(SubSeq(s, c + 1, b))
    BY <2>4, Part
  <2>6. Trim(s) = SubSeq(s, a, b)
    BY <1>1, <1>3, <2>2 DEF Trim
  <2>. QED  BY <2>4, <2>5, <2>6
<1>. QED  BY <1>2, <1>3

\* What is assumed of the constants.
LineConstants == MaxHistory \in Nat \ {0} /\ \A texts \in Resumable : Prompts(texts)

\* The module's own assumption is as strong.
LEMMA ConstantsAssumed == LineConstants
<1>1. PICK T : \A texts \in Resumable : texts \in Seq(Seq(T))
  BY InputLineAssumption, Zenon
<1>2. MaxHistory \in Nat \ {0}
  BY InputLineAssumption, Zenon
<1>3. ASSUME NEW texts \in Resumable PROVE Prompts(texts)
  <2>1. texts \in Seq(Seq(T))
    BY <1>1
  <2>2. IsQueue(texts) /\ DOMAIN texts = 1..Len(texts) /\ \A k \in 1..Len(texts) : texts[k] \in Seq(T)
    BY ONLY <2>1, LenProperties, SeqIsQueue
  <2>3. \A k \in 1..Len(texts) : IsQueue(texts[k])
    BY ONLY <2>2, SeqIsQueue
  <2>. QED  BY ONLY <2>2, <2>3 DEF Prompts
<1>. QED  BY ONLY <1>2, <1>3 DEF LineConstants

\* A line more, and maybe the oldest less.
LEMMA PushedPrompts ==
  ASSUME LineConstants, NEW h, Prompts(h), NEW line, IsQueue(line)
  PROVE  Prompts(PushHistory(h, line))
<1>1. PICK all : all = Append(h, line)
  OBVIOUS
<1>2. /\ Len(h) \in Nat /\ IsQueue(all) /\ DOMAIN all = 1..(Len(h) + 1)
      /\ DOMAIN all = 1..Len(all) /\ Len(all) \in Nat
  BY <1>1, Queued DEF Prompts
<1>3. \A i \in 1..Len(all) : IsQueue(all[i])
  <2>1. /\ \A i \in 1..Len(h) : all[i] = h[i] /\ i \in DOMAIN h
        /\ all[Len(h) + 1] = line
    BY <1>1, Queued DEF Prompts
  <2>2. \A i \in 1..(Len(h) + 1) : i \in 1..Len(h) \/ i = Len(h) + 1
    BY <1>2
  <2>. QED  BY <1>2, <2>1, <2>2 DEF Prompts
<1>4. PICK from : from = IF Len(all) > MaxHistory THEN Len(all) - MaxHistory + 1 ELSE 1
  OBVIOUS
<1>5. PICK a \in Nat : from = a + 1 /\ a <= Len(all)
  <2>1. MaxHistory \in Nat
    BY DEF LineConstants
  <2>2. CASE Len(all) > MaxHistory
    <3>1. Len(all) - MaxHistory \in Nat /\ Len(all) - MaxHistory <= Len(all)
      BY <1>2, <2>1, <2>2
    <3>. QED  BY <1>4, <2>2, <3>1
  <2>3. CASE ~(Len(all) > MaxHistory)
    <3>1. 0 \in Nat /\ 0 + 1 = 1 /\ 0 <= Len(all)
      BY <1>2
    <3>. QED  BY <1>4, <2>3, <3>1
  <2>. QED  BY <2>2, <2>3
<1>6. PICK p : p = SubSeq(all, from, Len(all))
  OBVIOUS
<1>7. Prompts(p)
  <2>1. /\ IsQueue(p) /\ Len(p) = Len(all) - a
        /\ \A i \in 1..(Len(all) - a) : p[i] = all[a + i]
    BY <1>2, <1>5, <1>6, Part
  <2>2. \A i \in 1..(Len(all) - a) : a + i \in 1..Len(all)
    BY <1>2
  <2>3. DOMAIN p = 1..(Len(all) - a)
    BY <2>1, Queued
  <2>. QED  BY <1>3, <2>1, <2>2, <2>3 DEF Prompts
<1>8. PushHistory(h, line) = h \/ PushHistory(h, line) = p
  BY <1>1, <1>4, <1>6 DEF PushHistory
<1>. QED  BY <1>7, <1>8

\* The history of a session is made of its prompts, one after the other.
LEMMA RefillPrompts ==
  ASSUME LineConstants, NEW texts \in Resumable
  PROVE  Prompts(Refill(texts))
<1>. DEFINE n == Len(texts)
            Step(f, k) == IF k = 0 THEN <<>> ELSE PushHistory(f[k - 1], texts[k])
            Fills(f, m) == f = [k \in 0..m |-> Step(f, k)]
            pushed == CHOOSE f : f = [k \in 0..n |-> Step(f, k)]
            Defined == {m \in Nat : \E f : Fills(f, m)}
<1>0. Refill(texts) = pushed[n]
  BY DEF Refill
<1>1. n \in Nat /\ \A k \in 1..n : IsQueue(texts[k])
  BY Queued DEF LineConstants, Prompts
<1>2. Nat \subseteq Defined
  <2>1. 0 \in Defined
    <3>1. Fills([k \in 0..0 |-> <<>>], 0)
      <4>1. \A k \in 0..0 : k = 0
        OBVIOUS
      <4>. QED  BY <4>1
    <3>. HIDE DEF Fills
    <3>. QED  BY <3>1
  <2>2. ASSUME NEW m \in Nat, m \in Defined PROVE m + 1 \in Defined
    <3>1. PICK g : Fills(g, m)
      BY <2>2
    <3>. DEFINE h == [k \in 0..(m + 1) |-> IF k <= m THEN g[k] ELSE Step(g, m + 1)]
    <3>2. ASSUME NEW k \in 0..(m + 1) PROVE h[k] = Step(h, k)
      <4>1. k # 0 => k - 1 \in 0..m /\ k - 1 \in 0..(m + 1) /\ k - 1 <= m
        OBVIOUS
      <4>2. k # 0 => h[k - 1] = g[k - 1]
        BY <4>1
      <4>3. CASE k <= m
        <5>1. k \in 0..m
          BY <4>3
        <5>2. g[k] = Step(g, k)
          BY <3>1, <5>1
        <5>. QED  BY <4>2, <4>3, <5>2
      <4>4. CASE ~(k <= m)
        <5>1. k = m + 1
          BY <4>4
        <5>. QED  BY <4>2, <4>4, <5>1
      <4>. QED  BY <4>3, <4>4
    <3>3. Fills(h, m + 1)
      <4>. HIDE DEF Step
      <4>. QED  BY <3>2
    <3>. HIDE DEF Fills
    <3>. QED  BY <3>3
  <2>. HIDE DEF Defined
  <2>. QED  BY <2>1, <2>2, Induction
<1>3. pushed = [k \in 0..n |-> Step(pushed, k)]
  <2>1. \E f : Fills(f, n)
    <3>1. n \in Defined
      BY <1>1, <1>2
    <3>. HIDE DEF Fills
    <3>. QED  BY <3>1
  <2>. HIDE DEF Step
  <2>. QED  BY <2>1
<1>4. PICK f : f = pushed
  OBVIOUS
<1>. HIDE DEF pushed, Fills, Defined
<1>. DEFINE Good == {k \in Nat : k <= n => Prompts(f[k])}
<1>5. 0 \in Good
  <2>1. f[0] = <<>>
    BY <1>1, <1>3, <1>4
  <2>2. Prompts(<<>>)
    BY EmptyQueue DEF Prompts
  <2>. QED  BY <2>1, <2>2
<1>6. ASSUME NEW k \in Nat, k \in Good PROVE k + 1 \in Good
  <2>. SUFFICES ASSUME k + 1 <= n PROVE Prompts(f[k + 1])
    OBVIOUS
  <2>1. k + 1 \in 0..n /\ k + 1 \in 1..n /\ k + 1 # 0 /\ (k + 1) - 1 = k /\ k <= n
    BY <1>1
  <2>2. f[k + 1] = PushHistory(f[k], texts[k + 1])
    BY <1>3, <1>4, <2>1
  <2>3. Prompts(f[k]) /\ IsQueue(texts[k + 1])
    BY <1>1, <1>6, <2>1
  <2>. QED  BY <2>2, <2>3, PushedPrompts
<1>. HIDE DEF Good
<1>7. n \in Good
  BY <1>1, <1>5, <1>6, Induction
<1>8. Prompts(f[n])
  BY <1>1, <1>7 DEF Good
<1>. QED  BY <1>0, <1>4, <1>8

-----------------------------------------------------------------------------
(***************************************************************************)
(* The invariant                                                           *)
(***************************************************************************)

\* The prompts sent before, and how far the user walked back.
WalkInv == Prompts(history) /\ recall \in 0..Len(history) /\ IsQueue(draft)

LineInv == Holds(input, cursor, skills) /\ WalkInv /\ TextIsKept

\* The cursor and the skill's offsets fit the text.
LEMMA HoldsFits ==
  ASSUME Holds(input, cursor, skills)
  PROVE  OffsetsFit
<1>0. IsQueue(input) /\ Len(input) \in Nat
  BY Queued DEF Holds
<1>1. CursorOnBoundary
  BY DEF Holds, CursorOnBoundary, Boundaries
<1>2. CASE skills = {}
  <2>1. Cardinality(skills) = 0
    BY <1>2, FS_EmptySet
  <2>. QED  BY <1>1, <1>2, <2>1 DEF OffsetsFit, TokenHoldsLabel
<1>3. ASSUME NEW t, NEW p, skills = {t}, SkillAt(input, t, p) PROVE OffsetsFit
  <2>1. /\ p \in Nat /\ p + 2 \in Nat /\ p <= p + 2 /\ p + 2 <= Len(input)
        /\ p \in 0..Len(input) /\ p + 2 \in 0..Len(input)
        /\ input[p + 1] = "/" /\ input[p + 2] = "w"
        /\ t.start = Offset(input, p) /\ t.end = Offset(input, p + 2)
    BY <1>0, <1>3 DEF SkillAt
  <2>2. Cardinality(skills) = 1
    BY <1>3, FS_Singleton
  <2>3. {t.start, t.end} \subseteq Boundaries(input)
    BY <2>1 DEF Boundaries
  <2>4. t.start < t.end
    <3>1. /\ Offset(input, p) \in Nat /\ Offset(input, p + 2) \in Nat
          /\ Offset(input, p) + ((p + 2) - p) <= Offset(input, p + 2)
      BY <1>0, <2>1, OffsetsRise
    <3>. QED  BY <2>1, <3>1
  <2>5. Slice(input, t.start, t.end) = Label
    <3>1. CharsBefore(input, t.start) = p /\ CharsBefore(input, t.end) = p + 2
      BY <1>0, <2>1, CharsAt
    <3>2. PICK s : s = SubSeq(input, p + 1, p + 2)
      OBVIOUS
    <3>3. (p + 2) - p = 2 /\ 1 \in 1..2 /\ 2 \in 1..2
      BY <2>1
    <3>4. IsQueue(s) /\ Len(s) = 2 /\ s[1] = input[p + 1] /\ s[2] = input[p + 2]
      BY <1>0, <2>1, <3>2, <3>3, Part
    <3>5. PICK u : u = Label
      OBVIOUS
    <3>6. IsQueue(u) /\ Len(u) = 2 /\ u[1] = "/" /\ u[2] = "w"
      BY <3>5, Two DEF Label
    <3>7. \A i \in 1..2 : s[i] = u[i]
      BY <2>1, <3>4, <3>6
    <3>8. s = u
      BY <3>4, <3>6, <3>7, SameQueue
    <3>. QED  BY <3>1, <3>2, <3>5, <3>8 DEF Slice
  <2>. QED  BY <1>1, <1>3, <2>2, <2>3, <2>4, <2>5 DEF OffsetsFit, TokenHoldsLabel
<1>. QED  BY <1>2, <1>3 DEF Holds

\* An edit makes the text the user's own and ends the walk.
LEMMA EditKeeps ==
  ASSUME LineInv, Holds(input', cursor', skills'), input' = written'.text,
         history' = history, recall' = 0, draft' \in {<<>>, draft}
  PROVE  LineInv'
<1>1. Len(history) \in Nat
  BY Queued DEF LineInv, WalkInv, Prompts
<1>2. WalkInv'
  BY <1>1, EmptyQueue DEF LineInv, WalkInv
<1>. QED  BY <1>2 DEF LineInv, TextIsKept

\* Detaching from the history leaves no walk, and no draft but one that is not used.
LEMMA Detached ==
  ASSUME DetachHistory
  PROVE  recall' = 0 /\ draft' \in {<<>>, draft}
BY DEF DetachHistory

\* A text taken from the history, or put back, without a skill.
LEMMA PutHolds ==
  ASSUME IsQueue(input'), cursor' = ByteLen(input'), skills' = {}
  PROVE  Holds(input', cursor', skills')
BY HoldsAtEnd

\* Each key keeps the invariant.
LEMMA TypeInv ==
  ASSUME LineInv, Type
  PROVE  LineInv'
<1>1. Holds(input', cursor', skills')
  BY TypeHolds DEF LineInv
<1>2. history' = history /\ DetachHistory /\ input' = written'.text
  BY DEF Type, Writes
<1>. QED  BY <1>1, <1>2, Detached, EditKeeps

LEMMA BackspaceInv ==
  ASSUME LineInv, Backspace
  PROVE  LineInv'
<1>1. Holds(input', cursor', skills')
  BY BackspaceHolds DEF LineInv
<1>2. history' = history /\ DetachHistory /\ input' = written'.text
  BY DEF Backspace, DeleteToken, DeleteRange, Writes
<1>. QED  BY <1>1, <1>2, Detached, EditKeeps

LEMMA DeleteInv ==
  ASSUME LineInv, Delete
  PROVE  LineInv'
<1>1. Holds(input', cursor', skills')
  BY DeleteHolds DEF LineInv
<1>2. history' = history /\ DetachHistory /\ input' = written'.text
  BY DEF Delete, DeleteToken, DeleteRange, Writes
<1>. QED  BY <1>1, <1>2, Detached, EditKeeps

LEMMA ArrowsInv ==
  ASSUME LineInv, Left \/ Right
  PROVE  LineInv'
<1>1. Holds(input', cursor', skills')
  BY ArrowsHold DEF LineInv
<1>2. UNCHANGED <<input, history, recall, draft, written>>
  BY DEF Left, Right
<1>. QED  BY <1>1, <1>2 DEF LineInv, WalkInv, TextIsKept

LEMMA EscapeInv ==
  ASSUME LineInv, Escape
  PROVE  LineInv'
<1>1. CASE UNCHANGED <<input, cursor, skills, history, recall, draft, written>>
  BY <1>1 DEF LineInv, WalkInv, TextIsKept
<1>2. CASE Blank /\ history' = history
  <2>1. Holds(input', cursor', skills') /\ input' = written'.text
    BY <1>2, HoldsNothing DEF Blank, Writes
  <2>2. recall' = 0 /\ draft' = <<>>
    BY <1>2 DEF Blank
  <2>. QED  BY <1>2, <2>1, <2>2, EditKeeps
<1>. QED  BY <1>1, <1>2 DEF Escape

LEMMA FileInv ==
  ASSUME LineInv, InsertFile
  PROVE  LineInv'
<1>1. Holds(input', cursor', skills')
  BY InsertFileHolds DEF LineInv
<1>2. history' = history /\ DetachHistory /\ input' = written'.text
  BY DEF InsertFile, Writes
<1>. QED  BY <1>1, <1>2, Detached, EditKeeps

\* Completing a command on the walk leaves the walk and what was written alone.
LEMMA TabInv ==
  ASSUME LineInv, Tab
  PROVE  LineInv'
<1>1. CASE InsertFile
  BY <1>1, FileInv
<1>2. CASE ~InsertFile
  <2>1. /\ input' = Trigger /\ cursor' = ByteLen(Trigger) /\ skills' = {}
        /\ UNCHANGED <<history, recall, draft>>
        /\ recall = 0 => written'.text = Trigger
        /\ recall # 0 => written' = written
    BY <1>2 DEF Tab
  <2>2. IsQueue(Trigger)
    BY Two DEF Trigger
  <2>3. Holds(input', cursor', skills')
    BY <2>1, <2>2, PutHolds
  <2>. QED  BY <2>1, <2>3 DEF LineInv, WalkInv, TextIsKept
<1>. QED  BY <1>1, <1>2

\* The skill takes the place of the line.
LEMMA SkillInv ==
  ASSUME LineInv, EnterSkill
  PROVE  LineInv'
<1>1. Holds(input', cursor', skills')
  BY EnterSkillHolds
<1>2. history' = history /\ recall' = 0 /\ draft' = <<>> /\ input' = written'.text
  BY DEF EnterSkill, Writes
<1>. QED  BY <1>1, <1>2, EditKeeps

\* A line is submitted.
LEMMA EnterInv ==
  ASSUME LineConstants, LineInv, Enter
  PROVE  LineInv'
<1>1. PICK line : IsQueue(line) /\ \E ts : SubmitLine(line, ts)
  <2>1. IsQueue(Trigger) /\ IsQueue(input)
    BY Two DEF Trigger, LineInv, Holds
  <2>. QED  BY <2>1 DEF Enter
<1>2. Blank /\ history' = PushHistory(history, Trim(line))
  BY <1>1 DEF SubmitLine
<1>3. Prompts(history')
  BY <1>1, <1>2, TrimIsText, PushedPrompts DEF LineInv, WalkInv
<1>4. Holds(input', cursor', skills') /\ input' = written'.text /\ recall' = 0 /\ draft' = <<>>
  BY <1>2, HoldsNothing DEF Blank, Writes
<1>5. Len(history') \in Nat
  BY <1>3, Queued DEF Prompts
<1>. QED  BY <1>3, <1>4, <1>5, EmptyQueue DEF LineInv, WalkInv, TextIsKept

\* Up: the first step keeps what was written.
LEMMA HistoryUpInv ==
  ASSUME LineInv, HistoryUp
  PROVE  LineInv'
<1>1. /\ Prompts(history) /\ recall \in 0..Len(history) /\ Len(history) \in Nat
      /\ DOMAIN history = 1..Len(history) /\ IsQueue(draft) /\ IsQueue(input)
  BY Queued DEF LineInv, WalkInv, Holds, Prompts
<1>2. /\ history # <<>> /\ draft' = IF recall = 0 THEN input ELSE draft
      /\ recall' = CASE recall = 0 -> Len(history) [] recall = 1 -> 1 [] OTHER -> recall - 1
      /\ input' = history[recall'] /\ cursor' = ByteLen(input') /\ skills' = {}
      /\ history' = history /\ written' = written
  BY DEF HistoryUp
<1>3. recall' \in 1..Len(history)
  <2>1. Len(history) # 0
    BY <1>1, <1>2, EmptySeq DEF Prompts, IsQueue
  <2>2. CASE recall = 0
    BY <1>1, <1>2, <2>1, <2>2
  <2>3. CASE recall = 1
    BY <1>1, <1>2, <2>1, <2>3
  <2>4. CASE recall # 0 /\ recall # 1
    BY <1>1, <1>2, <2>1, <2>4
  <2>. QED  BY <2>2, <2>3, <2>4
<1>4. Holds(input', cursor', skills')
  <2>1. IsQueue(input')
    BY <1>1, <1>2, <1>3 DEF Prompts
  <2>. QED  BY <1>2, <2>1, PutHolds
<1>5. IsQueue(draft') /\ draft' = written'.text
  BY <1>1, <1>2 DEF LineInv, TextIsKept
<1>6. recall' \in 0..Len(history') /\ recall' # 0 /\ recall' \in DOMAIN history'
  BY <1>1, <1>2, <1>3
<1>7. WalkInv'
  BY <1>1, <1>2, <1>5, <1>6 DEF WalkInv
<1>. QED  BY <1>4, <1>5, <1>6, <1>7 DEF LineInv, TextIsKept

\* Down: behind the youngest prompt is what was written.
LEMMA HistoryDownInv ==
  ASSUME LineInv, HistoryDown
  PROVE  LineInv'
<1>1. /\ Prompts(history) /\ recall \in 0..Len(history) /\ Len(history) \in Nat
      /\ DOMAIN history = 1..Len(history) /\ IsQueue(draft) /\ IsQueue(input)
  BY Queued DEF LineInv, WalkInv, Holds, Prompts
<1>2. /\ recall # 0 /\ cursor' = ByteLen(input') /\ skills' = {}
      /\ history' = history /\ written' = written
  BY DEF HistoryDown
<1>3. draft = written.text
  BY <1>2 DEF LineInv, TextIsKept
<1>4. CASE recall < Len(history)
  <2>1. recall' = recall + 1 /\ input' = history[recall'] /\ draft' = draft
    BY <1>1, <1>4 DEF HistoryDown
  <2>2. recall' \in 1..Len(history) /\ recall' # 0 /\ recall' \in 0..Len(history')
    BY <1>1, <1>2, <1>4, <2>1
  <2>3. IsQueue(input')
    BY <1>1, <2>1, <2>2 DEF Prompts
  <2>4. Holds(input', cursor', skills')
    BY <1>2, <2>3, PutHolds
  <2>5. WalkInv'
    BY <1>1, <1>2, <2>1, <2>2 DEF WalkInv
  <2>. QED  BY <1>1, <1>2, <1>3, <2>1, <2>2, <2>4, <2>5 DEF LineInv, TextIsKept
<1>5. CASE ~(recall < Len(history))
  <2>1. recall' = 0 /\ input' = draft /\ draft' = <<>>
    BY <1>5 DEF HistoryDown
  <2>2. Holds(input', cursor', skills')
    BY <1>1, <1>2, <2>1, PutHolds
  <2>3. WalkInv'
    BY <1>1, <1>2, <2>1, EmptyQueue DEF WalkInv
  <2>. QED  BY <1>2, <1>3, <2>1, <2>2, <2>3 DEF LineInv, TextIsKept
<1>. QED  BY <1>4, <1>5

\* A session's prompts take the place of the history.
LEMMA ResumedInv ==
  ASSUME LineConstants, LineInv, SessionResumed
  PROVE  LineInv'
<1>1. /\ \E texts \in Resumable : history' = Refill(texts)
      /\ recall' = 0 /\ draft' = <<>> /\ UNCHANGED <<input, cursor, skills>>
      /\ IF recall # 0 THEN written'.text = input ELSE written' = written
  BY DEF SessionResumed
<1>2. Prompts(history')
  BY <1>1, RefillPrompts
<1>3. Len(history') \in Nat
  BY <1>2, Queued DEF Prompts
<1>4. WalkInv'
  BY <1>1, <1>2, <1>3, EmptyQueue DEF WalkInv
<1>. QED  BY <1>1, <1>4 DEF LineInv, TextIsKept

\* Whatever sequence of edits, recalls, completions and submissions came before, the
\* line's offsets fit its text and what the user wrote last is kept.
LEMMA LineInvHolds == LineSpec => []LineInv
<1>1. LineInit => LineInv
  <2>. SUFFICES ASSUME LineInit PROVE LineInv
    OBVIOUS
  <2>1. Holds(input, cursor, skills)
    BY ONLY LineInit, HoldsNothing DEF LineInit
  <2>2. WalkInv
    BY ONLY LineInit, EmptyQueue DEF LineInit, WalkInv, Prompts
  <2>. QED  BY ONLY LineInit, <2>1, <2>2 DEF LineInit, LineInv, TextIsKept
<1>2. LineInv /\ [LineNext]_lineVars => LineInv'
  <2>. SUFFICES ASSUME LineInv, [LineNext]_lineVars PROVE LineInv'
    OBVIOUS
  <2>1. CASE UNCHANGED lineVars
    BY <2>1 DEF lineVars, LineInv, WalkInv, TextIsKept
  <2>2. CASE Help
    BY <2>2 DEF Help, LineInv, WalkInv, TextIsKept
  <2>3. CASE ~UNCHANGED lineVars /\ ~Help
    <3>1. \/ Type \/ Backspace \/ Delete \/ Left \/ Right \/ Escape
          \/ Tab \/ EnterFile \/ EnterSkill \/ Enter
          \/ HistoryUp \/ HistoryDown \/ SessionResumed
      BY <2>3 DEF LineNext
    <3>2. EnterFile => InsertFile
      BY DEF EnterFile
    <3>. QED  BY ConstantsAssumed, <3>1, <3>2, TypeInv, BackspaceInv, DeleteInv, ArrowsInv, EscapeInv, TabInv,
                 FileInv, SkillInv, EnterInv, HistoryUpInv, HistoryDownInv, ResumedInv
  <2>. QED  BY <2>1, <2>2, <2>3
<1>. QED  BY <1>1, <1>2, PTL DEF LineSpec

\* The cursor and the skill's offsets are offsets into the line they are kept with,
\* whatever edit, recall or completion put them there.
THEOREM OffsetsFitHolds == LineSpec => []OffsetsFit
<1>1. LineInv => OffsetsFit
  BY HoldsFits DEF LineInv
<1>. QED  BY <1>1, LineInvHolds, PTL

\* What the user wrote last is in the line, or kept while they walk the prompts sent
\* before.
THEOREM TextIsKeptHolds == LineSpec => []TextIsKept
<1>1. LineInv => TextIsKept
  BY DEF LineInv
<1>. QED  BY <1>1, LineInvHolds, PTL
=============================================================================

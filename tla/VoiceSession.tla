----------------------------- MODULE VoiceSession -----------------------------
(***************************************************************************)
(* A voice typing session seen from the keyboard process: the panel        *)
(* (VianVoiceModalView), its VoiceInputConnection, the messages both ways, *)
(* and the binding and restarting Android does, composed with the service  *)
(* of module VoiceService.                                                 *)
(*                                                                         *)
(* Each process has one main looper, a FIFO of messages.  A service event  *)
(* passes the keyboard's looper twice: handleServiceMessage, then the      *)
(* runnable that the listener posts.  The views and the connections are    *)
(* numbered in the order of their creation.                                *)
(***************************************************************************)
EXTENDS Naturals, Sequences, FiniteSets

CONSTANTS
    MaxViews,   \* bound: panels ever opened
    MaxConns,   \* bound: VoiceInputConnection objects ever created
    MaxTaps,    \* bound: taps on the panel's buttons
    MaxCrashes, \* bound: deaths of the :voice process
    MaxTexts,   \* bound: texts the service ever sends
    Trouble     \* what may go wrong or come early, a subset of TroubleKinds

\* "early": the user does not wait until the panel is connected; "unasked":
\* the microphone permission has not been granted yet; "mic": AudioRecord.read
\* fails; "gain": the gain pill is tapped.
TroubleKinds == {"early", "unasked", "mic", "gain"}

ASSUME SessionAssumption ==
    /\ MaxViews \in Nat /\ MaxConns \in Nat /\ MaxTaps \in Nat
    /\ MaxCrashes \in Nat /\ MaxTexts \in Nat
    /\ Trouble \subseteq TroubleKinds

Views == 1..MaxViews
Conns == 1..MaxConns
NoView == 0
NoConn == 0     \* a null voiceConnection, also a null clientMessenger
NoGain == 0     \* a null pendingStartGain

VARIABLES
    panel,              \* activeModalView, when it is a voice panel
    views, conns, taps, crashes,    \* created or happened so far
    \* VianVoiceModalView, per view
    voiceConnection, isRecording, isPaused, currentGain, timer,
    \* VoiceInputConnection, per connection
    listener,           \* the view that created it
    isBound,            \* isBound, and serviceMessenger # null with it
    pendingStartGain,
    looper,             \* the keyboard's main looper
    \* the system
    bindings,           \* connections bound by bindService
    published,          \* the service's binder is known to the system
    dead,               \* connections whose death notice is on its way
    permission, onPermissionResult,
    \* the service
    inbox,              \* the main looper of the :voice process
    alive, client, idleArmed, state, busy, pass, texts,
    gainMultiplier,     \* AudioRecordPipeline's gain
    speaker,            \* history: the connection whose speech was recorded last
    passSpeaker,        \* history: ... and whose speech the final pass holds
    typed               \* history: texts written to the editor

viewVars == <<voiceConnection, isRecording, isPaused, currentGain, timer>>
connVars == <<listener, isBound, pendingStartGain>>
systemVars == <<bindings, published, dead, permission, onPermissionResult>>
serviceVars == <<alive, client, idleArmed, state, busy, pass, texts>>
speechVars == <<gainMultiplier, speaker, passSpeaker>>
boundVars == <<views, conns, taps, crashes>>
vars == <<panel, boundVars, viewVars, connVars, looper, systemVars, inbox,
          serviceVars, speechVars, typed>>

Service == INSTANCE VoiceService WITH Clients <- Conns, MaxText <- 1

\* A message of the keyboard's looper.  "event" is at its first passage, "post"
\* at its second; "connected" and "disconnected" come from the system, which
\* drops a binder whose process died in the meantime; "start" comes from the
\* permission callback (to a view).
Message == [kind : {"event", "post", "connected", "disconnected", "start"},
            to : Nat,                       \* connection, or view
            state : {"IDLE", "RECORDING", "PAUSED", "ERROR", "none"},
            from : Nat]                     \* whose speech a text is, or which
                                            \* process, by its number, is connected
StateOf(kind, c, st) == [kind |-> kind, to |-> c, state |-> st, from |-> 0]
TextOf(kind, c, from) == [kind |-> kind, to |-> c, state |-> "none", from |-> from]
Signal(kind, c) == StateOf(kind, c, "none")
Connected(c) == [Signal("connected", c) EXCEPT !.from = crashes]
Disconnected(c) == Signal("disconnected", c)

\* A message of the service's looper.
Command(cmd, c, gain) == [cmd |-> cmd, conn |-> c, gain |-> gain]

Init ==
    /\ panel = NoView /\ views = 0 /\ conns = 0 /\ taps = 0 /\ crashes = 0
    /\ voiceConnection = [v \in Views |-> NoConn]
    /\ isRecording = [v \in Views |-> FALSE] /\ isPaused = [v \in Views |-> FALSE]
    /\ currentGain = [v \in Views |-> 1] /\ timer = [v \in Views |-> FALSE]
    /\ listener = [c \in Conns |-> NoView]
    /\ isBound = [c \in Conns |-> FALSE]
    /\ pendingStartGain = [c \in Conns |-> NoGain]
    /\ looper = <<>> /\ inbox = <<>>
    /\ bindings = {} /\ published = FALSE /\ dead = {}
    /\ permission = ("unasked" \notin Trouble) /\ onPermissionResult = NoView
    /\ Service!Init
    /\ gainMultiplier = 1 /\ speaker = NoConn /\ passSpeaker = NoConn
    /\ typed = {}

-----------------------------------------------------------------------------
\* VoiceInputConnection.

\* What a connection's messenger delivers: nothing to a process that is gone.
Reaches(c) == isBound[c] /\ c \notin dead
Sent(c, commands) == IF Reaches(c) THEN commands ELSE <<>>

\* bindService: the first binding creates the service; a binder that is
\* published already is delivered at once, and at most once per connection.
\* "rest" is what the current step leaves of the looper.
BindService(c, rest) ==
    /\ bindings' = bindings \union {c}
    /\ inbox' = IF bindings = {}
                THEN inbox \o <<Command("create", NoConn, NoGain)>> ELSE inbox
    /\ looper' = IF published /\ c \notin bindings
                 THEN Append(rest, Connected(c)) ELSE rest

\* bind() and startRecording(gain), which remembers the gain and binds again
\* while there is no service to send the command to.
BindAndStart(c, gain, rest) ==
    IF isBound[c]
    THEN /\ inbox' = inbox \o Sent(c, <<Command("start", c, gain)>>)
         /\ looper' = rest
         /\ UNCHANGED <<pendingStartGain, bindings>>
    ELSE /\ pendingStartGain' = [pendingStartGain EXCEPT ![c] = gain]
         /\ BindService(c, rest)

\* stopRecording() and unbind() of the connections c and then d, which may be
\* missing.  A connection that is not bound yet is left alone: still bound with
\* the system, its start pending.
Goodbye(c) == Sent(c, <<Command("stop", c, NoGain), Command("stop", c, NoGain),
                        Command("unregister", c, NoGain)>>)
UnbindsWhenRecording(c) == isBound[c] /\ isRecording[listener[c]]    \* mutant
Unbinds(c) == isBound[c]

LetGo(c, d) ==
    LET leaving == {e \in {c, d} \ {NoConn} : Unbinds(e)}
        left == bindings \ leaving
        Words(e) == IF e \in leaving THEN Goodbye(e) ELSE <<>> IN
    /\ isBound' = [e \in Conns |-> isBound[e] /\ e \notin leaving]
    /\ pendingStartGain' = [e \in Conns |-> IF e \in leaving THEN NoGain
                                            ELSE pendingStartGain[e]]
    /\ dead' = dead \ leaving
    /\ bindings' = left
    /\ published' = (published /\ left # {})
    /\ inbox' = inbox \o Words(c) \o Words(d)
        \o IF bindings # {} /\ left = {}
           THEN <<Command("unbind", NoConn, NoGain), Command("destroy", NoConn, NoGain)>>
           ELSE <<>>

-----------------------------------------------------------------------------
\* VianVoiceModalView and the keyboard around it.

\* startVoiceInput() on view v, with a valid model.  Without the permission it
\* asks for it and leaves a callback behind.
StartVoiceInput(v, rest) ==
    IF permission
    THEN LET c == IF voiceConnection[v] = NoConn THEN conns + 1
                  ELSE voiceConnection[v] IN
         /\ c \in Conns
         /\ conns' = IF c > conns THEN c ELSE conns
         /\ voiceConnection' = [voiceConnection EXCEPT ![v] = c]
         /\ listener' = [listener EXCEPT ![c] = v]
         /\ timer' = [timer EXCEPT ![v] = TRUE]
         /\ BindAndStart(c, currentGain[v], rest)
         /\ UNCHANGED onPermissionResult
    ELSE /\ onPermissionResult' = v
         /\ looper' = rest
         /\ UNCHANGED <<conns, voiceConnection, listener, timer, pendingStartGain,
                        bindings, inbox>>

\* showVoiceModal(); the key that opens it is hidden behind an open panel.
ShowVoiceModal ==
    /\ panel = NoView /\ views < MaxViews
    /\ views' = views + 1 /\ panel' = views'
    /\ StartVoiceInput(views', looper)
    /\ UNCHANGED <<taps, crashes, isRecording, isPaused, currentGain, isBound,
                   published, dead, permission, serviceVars, speechVars,
                   typed>>

Tap == panel # NoView /\ taps < MaxTaps /\ taps' = taps + 1

\* The mic button, togglePauseResume(): sends the command and shows its effect
\* before the service has confirmed it.
TapMicStarts ==
    /\ Tap /\ ~isRecording[panel] /\ ~isPaused[panel]
    /\ StartVoiceInput(panel, looper)
    /\ UNCHANGED <<panel, views, crashes, isRecording, isPaused, currentGain, isBound,
                   published, dead, permission, serviceVars, speechVars,
                   typed>>

Toggle(cmd, paused) ==
    LET c == voiceConnection[panel] IN
    /\ isPaused' = [isPaused EXCEPT ![panel] = paused]
    /\ inbox' = IF c = NoConn THEN inbox
                ELSE inbox \o Sent(c, <<Command(cmd, c, NoGain)>>)
    /\ UNCHANGED <<panel, views, conns, crashes, voiceConnection, isRecording,
                   currentGain, timer, connVars, looper, systemVars, serviceVars,
                   speechVars, typed>>

TapMicResumes == Tap /\ isPaused[panel] /\ Toggle("resume", FALSE)
TapMicPauses ==
    Tap /\ isRecording[panel] /\ ~isPaused[panel] /\ Toggle("pause", TRUE)

\* Without "early", the user waits for the permission to be answered and the
\* service to be connected before closing the panel or tapping the gain pill.
Patient(v) ==
    LET c == voiceConnection[v] IN
    "early" \notin Trouble =>
        /\ c # NoConn => isBound[c]
        /\ onPermissionResult # v
        /\ \A i \in 1..Len(looper) : looper[i].kind = "start" => looper[i].to # v

\* The gain pill, 1x -> 2x -> 4x -> 1x.
NextGain(g) == IF g = 4 THEN 1 ELSE 2 * g

TapGain ==
    /\ "gain" \in Trouble /\ Tap /\ Patient(panel)
    /\ currentGain' = [currentGain EXCEPT ![panel] = NextGain(@)]
    /\ LET c == voiceConnection[panel] IN
       inbox' = IF c = NoConn THEN inbox
                ELSE inbox \o Sent(c, <<Command("gain", c, NextGain(currentGain[panel]))>>)
    /\ UNCHANGED <<panel, views, conns, crashes, voiceConnection, isRecording, isPaused,
                   timer, connVars, looper, systemVars, serviceVars, speechVars, typed>>

\* stopVoiceInput() on view v and then on view w, if there is one.
ConnectionOf(v) == IF v = NoView THEN NoConn ELSE voiceConnection[v]
StopVoiceInput(v, w) ==
    /\ LetGo(ConnectionOf(v), ConnectionOf(w))
    /\ voiceConnection' = [u \in Views |-> IF u \in {v, w} THEN NoConn ELSE voiceConnection[u]]
    /\ isRecording' = [u \in Views |-> isRecording[u] /\ u \notin {v, w}]
    /\ isPaused' = [u \in Views |-> isPaused[u] /\ u \notin {v, w}]
    /\ timer' = [u \in Views |-> timer[u] /\ u \notin {v, w}]
    /\ UNCHANGED <<views, conns, crashes, currentGain, listener, looper, permission,
                   onPermissionResult, serviceVars, speechVars, typed>>

\* Cancel, and Confirm: stop, unbind, dismiss the panel.
TapCancel == Tap /\ Patient(panel) /\ StopVoiceInput(panel, NoView) /\ panel' = NoView
TapConfirm == Tap /\ Patient(panel) /\ StopVoiceInput(panel, NoView) /\ panel' = NoView

\* The settings button and the no-model banner leave the panel where it is.
TapSettings == Tap /\ Patient(panel) /\ StopVoiceInput(panel, NoView) /\ UNCHANGED panel

\* [ABC], onFinishInputView and every other modal: dismissActiveModal().
Dismiss ==
    /\ panel # NoView /\ Patient(panel)
    /\ StopVoiceInput(panel, NoView) /\ panel' = NoView /\ UNCHANGED taps

\* timerRunnable, one second after it was posted: it goes on only while the
\* view is recording.
Tick(v) ==
    /\ timer[v] /\ ~isRecording[v]
    /\ timer' = [timer EXCEPT ![v] = FALSE]
    /\ UNCHANGED <<panel, boundVars, voiceConnection, isRecording, isPaused, currentGain,
                   connVars, looper, systemVars, inbox, serviceVars, speechVars, typed>>

\* The 30th second under the legacy limit: confirmAndFinish(), which also
\* dismisses whatever panel is open.
TimeUp(v) ==
    /\ timer[v] /\ isRecording[v] /\ ~isPaused[v]
    /\ Patient(v) /\ (panel = NoView \/ Patient(panel))
    /\ StopVoiceInput(v, IF panel = v THEN NoView ELSE panel)
    /\ panel' = NoView /\ UNCHANGED taps

\* VoicePermissionActivity's answer.
AnswerPermission(granted) ==
    /\ onPermissionResult # NoView
    /\ permission' = granted /\ onPermissionResult' = NoView
    /\ looper' = IF granted THEN Append(looper, Signal("start", onPermissionResult))
                 ELSE looper
    /\ UNCHANGED <<panel, boundVars, viewVars, connVars, bindings, published, dead,
                   inbox, serviceVars, speechVars, typed>>

-----------------------------------------------------------------------------
\* The keyboard's looper.

Receives(kind) == looper # <<>> /\ Head(looper).kind = kind
Got == Head(looper)

\* Mutant: the start that waited is forgotten.
StartNothing(c) == <<>>
\* A start that waited for the connection.
WaitingStart(c) == IF pendingStartGain[c] = NoGain THEN <<>>
                   ELSE <<Command("start", c, pendingStartGain[c])>>

\* onServiceConnected registers the client, then sends a start that waited.
OnServiceConnected ==
    /\ Receives("connected") /\ Got.from = crashes
    /\ isBound' = [isBound EXCEPT ![Got.to] = TRUE]
    /\ inbox' = inbox \o <<Command("register", Got.to, NoGain)>> \o WaitingStart(Got.to)
    /\ pendingStartGain' = [pendingStartGain EXCEPT ![Got.to] = NoGain]
    /\ looper' = Tail(looper)
    /\ UNCHANGED <<panel, boundVars, viewVars, listener, systemVars,
                   serviceVars, speechVars, typed>>

DropDeadBinder ==
    /\ Receives("connected") /\ Got.from # crashes
    /\ looper' = Tail(looper)
    /\ UNCHANGED <<panel, boundVars, viewVars, connVars, systemVars, inbox,
                   serviceVars, speechVars, typed>>

OnServiceDisconnected ==
    /\ Receives("disconnected")
    /\ LET c == Got.to IN
       IF c \in bindings
       THEN /\ isBound' = [isBound EXCEPT ![c] = FALSE]
            /\ looper' = Append(Tail(looper), StateOf("post", c, "IDLE"))
       ELSE looper' = Tail(looper) /\ UNCHANGED isBound
    /\ UNCHANGED <<panel, boundVars, viewVars, listener, pendingStartGain, systemVars,
                   inbox, serviceVars, speechVars, typed>>

\* deathRecipient runs on a binder thread, at once, not on the looper.
DeathNotice(c) ==
    /\ c \in dead
    /\ dead' = dead \ {c}
    /\ isBound' = [isBound EXCEPT ![c] = FALSE]
    /\ looper' = Append(looper, StateOf("post", c, "ERROR"))
    /\ UNCHANGED <<panel, boundVars, viewVars, listener, pendingStartGain, bindings,
                   published, permission, onPermissionResult, inbox, serviceVars,
                   speechVars, typed>>

\* handleServiceMessage: the listener posts.
HandleServiceMessage ==
    /\ Receives("event")
    /\ looper' = Append(Tail(looper), [Got EXCEPT !.kind = "post"])
    /\ UNCHANGED <<panel, boundVars, viewVars, connVars, systemVars, inbox, serviceVars,
                   speechVars, typed>>

\* The listener's runnables, on the view behind the connection.
ShowState ==
    /\ Receives("post") /\ Got.state # "none"
    /\ LET v == listener[Got.to] IN
       /\ isRecording' = [isRecording EXCEPT ![v] =
                            CASE Got.state = "RECORDING" -> TRUE
                              [] Got.state = "PAUSED" -> @
                              [] OTHER -> FALSE]
       /\ isPaused' = [isPaused EXCEPT ![v] =
                            CASE Got.state = "PAUSED" -> TRUE
                              [] Got.state = "ERROR" -> @
                              [] OTHER -> FALSE]
    /\ looper' = Tail(looper)
    /\ UNCHANGED <<panel, boundVars, voiceConnection, currentGain, timer, connVars,
                   systemVars, inbox, serviceVars, speechVars, typed>>

CommitText ==
    /\ Receives("post") /\ Got.state = "none"
    /\ typed' = typed \union {[speaker |-> Got.from, to |-> Got.to]}
    /\ looper' = Tail(looper)
    /\ UNCHANGED <<panel, boundVars, viewVars, connVars, systemVars, inbox, serviceVars,
                   speechVars>>

\* The permission callback's startVoiceInput(), whatever became of the view.
StartWhenGranted ==
    /\ Receives("start")
    /\ StartVoiceInput(Got.to, Tail(looper))
    /\ UNCHANGED <<panel, views, taps, crashes, isRecording, isPaused, currentGain,
                   isBound, published, dead, permission, serviceVars,
                   speechVars, typed>>

-----------------------------------------------------------------------------
\* The looper of the :voice process.

\* The same to each connection, in the order of their creation.
Nth(cs, i) == CHOOSE c \in cs : Cardinality({d \in cs : d <= c}) = i
ToEach(cs, Say(_)) == [i \in 1..Cardinality(cs) |-> Say(Nth(cs, i))]

Commanded(cmd) ==
    /\ inbox # <<>> /\ Head(inbox).cmd = cmd /\ busy = "no"
    /\ inbox' = Tail(inbox)
Given == Head(inbox)

Tell(st) == looper' = IF client = NoConn THEN looper
                      ELSE Append(looper, StateOf("event", client, st))

ServiceSide ==
    UNCHANGED <<panel, boundVars, viewVars, connVars, bindings, dead, permission,
                onPermissionResult, typed>>

\* A new service, published to everybody bound, unless the last binding is gone
\* again and the system has forgotten it.  Death notices of the old process are
\* taken to arrive before a new one is up.
Forgotten == \E i \in 1..Len(inbox) : inbox[i].cmd = "destroy"
Create ==
    /\ Commanded("create") /\ dead = {}
    /\ Service!Connect
    /\ gainMultiplier' = 1
    /\ IF Forgotten THEN UNCHANGED <<published, looper>>
       ELSE /\ published' = TRUE
            /\ looper' = looper \o ToEach(bindings, Connected)
    /\ ServiceSide /\ UNCHANGED <<speaker, passSpeaker>>

RegisterClient ==
    /\ Commanded("register")
    /\ Service!Register(Given.conn)
    /\ looper' = Append(looper, StateOf("event", Given.conn, state))
    /\ ServiceSide /\ UNCHANGED <<published, speechVars>>

StartRecording ==
    /\ Commanded("start")
    /\ IF state = "RECORDING"
       THEN Service!Attend /\ UNCHANGED <<gainMultiplier, speaker>>
       ELSE /\ Service!BeginStart
            /\ gainMultiplier' = Given.gain /\ speaker' = Given.conn
    /\ ServiceSide /\ UNCHANGED <<looper, published, passSpeaker>>

RecordingStarted ==
    /\ Service!EndStart /\ Tell(state')
    /\ ServiceSide /\ UNCHANGED <<inbox, published, speechVars>>

PauseRecording ==
    /\ Commanded("pause")
    /\ IF state = "RECORDING" THEN Service!Pause /\ Tell("PAUSED")
       ELSE Service!Attend /\ UNCHANGED looper
    /\ ServiceSide /\ UNCHANGED <<published, speechVars>>

\* Mutant: the state change is not sent.
ResumeSilently ==
    /\ Commanded("resume")
    /\ IF state = "PAUSED" THEN Service!Resume ELSE Service!Attend
    /\ ServiceSide /\ UNCHANGED <<looper, published, speechVars>>

ResumeRecording ==
    /\ Commanded("resume")
    /\ IF state = "PAUSED" THEN Service!Resume /\ Tell("RECORDING")
       ELSE Service!Attend /\ UNCHANGED looper
    /\ ServiceSide /\ UNCHANGED <<published, speechVars>>

\* Mutant: the gain is not handed to the pipeline.
SetGainIgnored ==
    /\ Commanded("gain") /\ Service!Attend
    /\ ServiceSide /\ UNCHANGED <<looper, published, speechVars>>

SetGain ==
    /\ Commanded("gain")
    /\ Service!Attend /\ gainMultiplier' = Given.gain
    /\ ServiceSide /\ UNCHANGED <<looper, published, speaker, passSpeaker>>

StopRecording ==
    /\ Commanded("stop") /\ Service!Stop
    /\ ServiceSide /\ UNCHANGED <<looper, published, speechVars>>

UnregisterClient ==
    /\ Commanded("unregister") /\ Service!Unregister
    /\ ServiceSide /\ UNCHANGED <<looper, published, speechVars>>

OnUnbind ==
    /\ Commanded("unbind") /\ Service!Disconnect
    /\ ServiceSide /\ UNCHANGED <<looper, published, speechVars>>

OnDestroy ==
    /\ Commanded("destroy") /\ Service!Destroy
    /\ ServiceSide /\ UNCHANGED <<looper, published, speechVars>>

RecordingStopped ==
    /\ Service!EndStop /\ Tell("IDLE")
    /\ ServiceSide /\ UNCHANGED <<inbox, published, speechVars>>

IdleTimeout ==
    /\ Service!IdleFires
    /\ ServiceSide /\ UNCHANGED <<looper, inbox, published, speechVars>>

MicFails ==
    /\ "mic" \in Trouble /\ state # "ERROR"
    /\ Service!MicFails /\ Tell("ERROR")
    /\ ServiceSide /\ UNCHANGED <<inbox, published, speechVars>>

BeginPass ==
    /\ texts < MaxTexts
    /\ Service!BeginPass /\ passSpeaker' = speaker
    /\ ServiceSide /\ UNCHANGED <<looper, inbox, published, gainMultiplier, speaker>>

SendFinalCommit ==
    /\ Service!Deliver(1)
    /\ looper' = Append(looper, TextOf("event", client, passSpeaker))
    /\ ServiceSide /\ UNCHANGED <<inbox, published, speechVars>>

LoseText ==
    /\ Service!LoseText
    /\ ServiceSide /\ UNCHANGED <<looper, inbox, published, speechVars>>

\* The process dies with all it held.  A binder that had not been delivered
\* yet never is, and whoever is still bound gets a new process.
ProcessDies ==
    /\ alive /\ crashes < MaxCrashes /\ crashes' = crashes + 1
    /\ alive' = FALSE /\ client' = NoConn /\ idleArmed' = TRUE /\ state' = "IDLE"
    /\ busy' = "no" /\ pass' = FALSE
    /\ published' = FALSE
    /\ dead' = {c \in bindings : isBound[c]}
    /\ looper' = looper \o ToEach(dead', Disconnected)
    /\ inbox' = IF bindings = {} THEN <<>> ELSE <<Command("create", NoConn, NoGain)>>
    /\ UNCHANGED <<panel, views, conns, taps, viewVars, connVars, bindings, permission,
                   onPermissionResult, texts, speechVars, typed>>

-----------------------------------------------------------------------------
User ==
    \/ ShowVoiceModal \/ TapMicStarts \/ TapMicResumes \/ TapMicPauses \/ TapGain
    \/ TapCancel \/ TapConfirm \/ TapSettings \/ Dismiss
    \/ \E granted \in BOOLEAN : AnswerPermission(granted)

Keyboard ==
    \/ OnServiceConnected \/ DropDeadBinder \/ OnServiceDisconnected
    \/ HandleServiceMessage \/ ShowState \/ CommitText \/ StartWhenGranted

VoiceProcess ==
    \/ Create \/ RegisterClient \/ StartRecording \/ RecordingStarted
    \/ PauseRecording \/ ResumeRecording \/ SetGain \/ StopRecording
    \/ UnregisterClient \/ OnUnbind \/ OnDestroy \/ RecordingStopped

Next ==
    \/ User \/ Keyboard \/ VoiceProcess
    \/ \E v \in Views : Tick(v) \/ TimeUp(v)
    \/ \E c \in Conns : DeathNotice(c)
    \/ IdleTimeout \/ MicFails \/ BeginPass \/ SendFinalCommit \/ LoseText
    \/ ProcessDies

Spec == Init /\ [][Next]_vars

\* Both loopers and the binder threads keep running; nobody has to tap.
Fairness ==
    /\ WF_vars(Keyboard) /\ WF_vars(VoiceProcess)
    /\ \A c \in Conns : WF_vars(DeathNotice(c))

FairSpec == Spec /\ Fairness

-----------------------------------------------------------------------------
(***************************************************************************)
(* Properties.                                                             *)
(***************************************************************************)

\* Every variable has the shape its declaration promises.
TypeOK ==
    /\ panel \in 0..MaxViews /\ views \in 0..MaxViews /\ conns \in 0..MaxConns
    /\ voiceConnection \in [Views -> 0..MaxConns]
    /\ isRecording \in [Views -> BOOLEAN] /\ isPaused \in [Views -> BOOLEAN]
    /\ currentGain \in [Views -> {1, 2, 4}] /\ timer \in [Views -> BOOLEAN]
    /\ listener \in [Conns -> 0..MaxViews] /\ isBound \in [Conns -> BOOLEAN]
    /\ pendingStartGain \in [Conns -> {NoGain, 1, 2, 4}]
    /\ \A i \in 1..Len(looper) : looper[i] \in Message
    /\ bindings \subseteq Conns /\ dead \subseteq Conns /\ published \in BOOLEAN
    /\ client \in 0..MaxConns /\ speaker \in 0..MaxConns
    /\ \A t \in typed : t.speaker \in Conns /\ t.to \in Conns

\* Nothing is on its way between the keyboard and the service.
Quiet == looper = <<>> /\ inbox = <<>> /\ busy = "no" /\ dead = {}

Recording == state \in {"RECORDING", "PAUSED"}

\* Once messages have settled, an open panel shows whether the service is
\* recording, however fast the mic button was tapped and although it shows a
\* pause or a resume before the service has agreed.  (A panel that let go of its
\* connection hears of the end of the recording only from a service that lives.)
RecordingShown ==
    Quiet /\ panel # NoView /\ (crashes = 0 \/ voiceConnection[panel] # NoConn) =>
        (isRecording[panel] <=> Recording /\ client = voiceConnection[panel])

\* ... and whether it is paused, unless the service could not go on: an error
\* leaves isPaused as it was.
PauseShown ==
    Quiet /\ panel # NoView /\ voiceConnection[panel] # NoConn /\ state # "ERROR" =>
        (isPaused[panel] <=> state = "PAUSED")

\* Panel and service agree, whatever was tapped in between.
PanelAgrees == TypeOK /\ RecordingShown /\ PauseShown

\* Once messages have settled, a microphone that is open belongs to the panel
\* on the screen: nothing records behind the keyboard.
MicHasPanel ==
    Quiet /\ Recording =>
        panel # NoView /\ voiceConnection[panel] # NoConn /\ client = voiceConnection[panel]

\* Text is written for the session its speech was recorded in, never for a
\* later one whose client happens to be registered when inference ends.
OwnSpeech == \A t \in typed : t.to = t.speaker

\* "When closed, it unbinds": once messages have settled, only the connection
\* of the open panel keeps the voice process alive.
ClosedUnbinds ==
    Quiet => \A c \in bindings : panel # NoView /\ voiceConnection[panel] = c

\* Closing lets go of both: neither the microphone nor the process stays behind.
ClosedLetsGo == MicHasPanel /\ ClosedUnbinds

\* "Tap cycles gain in real-time": once messages have settled, the recording has
\* the gain the panel shows, if the pill was only tapped on a connected panel.
GainShown ==
    Quiet /\ Recording /\ panel # NoView => gainMultiplier = currentGain[panel]

\* A panel that is closed stops the microphone, unless it is opened again.
ClosingStopsMic == panel = NoView ~> (~Recording \/ panel # NoView)

\* A start that waits for the service, or is on its way to it, is answered:
\* the panel shows a recording, or lets go, or the service reports an error.
StartAnswered ==
    \A v \in Views :
        panel = v /\ voiceConnection[v] # NoConn ~>
            isRecording[v] \/ voiceConnection[v] = NoConn \/ state = "ERROR"

=============================================================================

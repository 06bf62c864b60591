--------------------------- MODULE VoicePanelProofs ---------------------------
(***************************************************************************)
(* That the panel shows what the service does: whether it records, whether *)
(* it pauses, and with which gain.  Checked by TLAPS on top of the         *)
(* invariant of VoiceSessionProofs.                                        *)
(***************************************************************************)
EXTENDS VoiceSessionProofs

-----------------------------------------------------------------------------
(***************************************************************************)
(* The gain: the inductive invariants.                                     *)
(***************************************************************************)

\* Connections are numbered in the order of their creation.  A service that
\* talks to the connection of the open panel, or is about to, is the present one.
Talks(c) == c = client \/ \E i \in 1..Len(inbox) : inbox[i].conn = c
Known ==
    /\ \A v \in Views : voiceConnection[v] <= conns
    /\ Cur # NoConn => listener[Cur] = panel
    /\ \A c \in 0..MaxConns : Talks(c) => c <= conns /\ (c # NoConn /\ c = Cur => published)

\* The gain that the panel shows is that of the last command with a gain, or
\* what the recording has already.
LastGain(q, i) ==
    /\ q[i].cmd \in {"start", "gain"}
    /\ \A j \in 1..Len(q) : j > i => q[j].cmd # "gain"
NoGainIn(q) == \A i \in 1..Len(q) : q[i].cmd # "gain"
GainAhead(q, c, g) == \A i \in 1..Len(q) : q[i].conn = c /\ LastGain(q, i) => q[i].gain = g
GainInv ==
    Cur # NoConn =>
        /\ pendingStartGain[Cur] \in {NoGain, currentGain[panel]}
        /\ isBound[Cur] => pendingStartGain[Cur] = NoGain
        /\ GainAhead(inbox, Cur, currentGain[panel])
        /\ client = Cur /\ (Recording \/ busy = "starting") /\ NoGainIn(inbox)
              => gainMultiplier = currentGain[panel]

-----------------------------------------------------------------------------
(***************************************************************************)
(* What the steps do, in more detail.                                      *)
(***************************************************************************)
LEMMA StartDetails ==
  ASSUME SessionTypes, PanelInv, NEW v \in Views, NEW rest,
         voiceConnection[v] = Cur, StartVoiceInput(v, rest), permission
  PROVE  \E c \in Conns :
            /\ c = IF Cur = NoConn THEN conns + 1 ELSE Cur
            /\ conns' = IF c > conns THEN c ELSE conns
            /\ voiceConnection' = [voiceConnection EXCEPT ![v] = c]
            /\ listener' = [listener EXCEPT ![c] = v]
            /\ IF isBound[c] THEN pendingStartGain' = pendingStartGain
               ELSE pendingStartGain' = [pendingStartGain EXCEPT ![c] = currentGain[v]]
<1> DEFINE k == IF voiceConnection[v] = NoConn THEN conns + 1 ELSE voiceConnection[v]
<1>1. PICK c : c = k
  OBVIOUS
<1>2. /\ c \in Conns
      /\ conns' = IF c > conns THEN c ELSE conns
      /\ voiceConnection' = [voiceConnection EXCEPT ![v] = c]
      /\ listener' = [listener EXCEPT ![c] = v]
      /\ BindAndStart(c, currentGain[v], rest)
  BY <1>1 DEF StartVoiceInput
<1>3. IF isBound[c] THEN pendingStartGain' = pendingStartGain
      ELSE pendingStartGain' = [pendingStartGain EXCEPT ![c] = currentGain[v]]
  BY <1>2 DEF BindAndStart
<1> QED
  BY <1>1, <1>2, <1>3

\* The mic button and the gain pill: the command, its gain, and what they show.
Shown(cmd, g) ==
    \/ /\ cmd = "gain" /\ isPaused' = isPaused
       /\ currentGain' = [currentGain EXCEPT ![panel] = g]
       /\ Cur # NoConn => isBound[Cur]
    \/ /\ cmd \in {"pause", "resume"} /\ currentGain' = currentGain
       /\ isPaused' = [isPaused EXCEPT ![panel] = (cmd = "pause")]
       /\ cmd = "pause" => isRecording[panel] /\ ~isPaused[panel]
       /\ cmd = "resume" => isPaused[panel]
Said(cmd, c, g) ==
    inbox' = IF Cur # NoConn /\ Reaches(Cur) THEN Append(inbox, Command(cmd, c, g)) ELSE inbox

LEMMA AsksDetails ==
  ASSUME "early" \notin Trouble, SessionTypes, Asks
  PROVE  /\ panel \in Views
         /\ \E cmd \in {"pause", "resume", "gain"}, g \in {NoGain, 1, 2, 4} :
              Shown(cmd, g) /\ Said(cmd, Cur, g)
<1> USE DEF SessionTypes
<1>1. panel \in Views /\ Cur = voiceConnection[panel]
  BY ConnFacts DEF Asks, TapMicResumes, TapMicPauses, TapGain, Tap
<1>2. inbox \in Seq(CommandType) /\ inbox \o <<>> = inbox /\ (Cur = NoConn \/ Cur \in Conns)
  BY ConnFacts DEF QueueTypes
<1>3. ASSUME NEW cmd \in {"pause", "resume", "gain"}, NEW g \in {NoGain, 1, 2, 4},
             inbox' = IF Cur = NoConn THEN inbox
                      ELSE inbox \o Sent(Cur, <<Command(cmd, Cur, g)>>)
      PROVE  Said(cmd, Cur, g)
  <2>1. CASE Cur = NoConn
    BY <1>3, <2>1 DEF Said
  <2>2. CASE Cur \in Conns /\ ~Reaches(Cur)
    BY <1>2, <1>3, <2>2 DEF Said, Sent
  <2>3. CASE Cur \in Conns /\ Reaches(Cur)
    <3>1. PICK c \in Conns : c = Cur
      BY <2>3
    <3>2. PICK e \in CommandType : e = Command(cmd, c, g)
      BY CommandFacts DEF Told
    <3>3. c # NoConn
      BY DEF Conns, NoConn
    <3>4. inbox' = inbox \o <<e>>
      BY <1>3, <2>3, <3>1, <3>2, <3>3 DEF Sent
    <3>5. inbox' = Append(inbox, e)
      BY <1>2, <3>4, Joined
    <3> QED
      BY <2>3, <3>1, <3>2, <3>3, <3>5 DEF Said
  <2> QED
    BY <1>2, <2>1, <2>2, <2>3
<1>4. CASE TapMicResumes
  <2>1. Shown("resume", NoGain)
    BY <1>4 DEF TapMicResumes, Toggle, Shown
  <2>2. inbox' = IF Cur = NoConn THEN inbox
                 ELSE inbox \o Sent(Cur, <<Command("resume", Cur, NoGain)>>)
    BY <1>1, <1>4 DEF TapMicResumes, Toggle
  <2>3. Said("resume", Cur, NoGain)
    BY <1>3, <2>2
  <2> QED
    BY <1>1, <2>1, <2>3
<1>5. CASE TapMicPauses
  <2>1. Shown("pause", NoGain)
    BY <1>5 DEF TapMicPauses, Toggle, Shown
  <2>2. inbox' = IF Cur = NoConn THEN inbox
                 ELSE inbox \o Sent(Cur, <<Command("pause", Cur, NoGain)>>)
    BY <1>1, <1>5 DEF TapMicPauses, Toggle
  <2>3. Said("pause", Cur, NoGain)
    BY <1>3, <2>2
  <2> QED
    BY <1>1, <2>1, <2>3
<1>6. CASE TapGain
  <2>1. PICK g \in {1, 2, 4} : g = NextGain(currentGain[panel])
    BY <1>1 DEF NextGain, ViewTypes
  <2>2. Shown("gain", g)
    BY <1>1, <1>6, <2>1 DEF TapGain, Patient, Shown
  <2>3. inbox' = IF Cur = NoConn THEN inbox
                 ELSE inbox \o Sent(Cur, <<Command("gain", Cur, g)>>)
    BY <1>1, <1>6, <2>1 DEF TapGain
  <2>4. Said("gain", Cur, g)
    BY <1>3, <2>3
  <2> QED
    BY <1>1, <2>2, <2>4
<1> QED
  BY <1>4, <1>5, <1>6 DEF Asks

\* A binder arrives: the service gets to know the connection of the panel, and
\* the start that waited.
LEMMA ConnectedDetails ==
  ASSUME SessionInv, OnServiceConnected
  PROVE  \E c \in Conns :
            /\ c = Cur /\ Cur' = Cur /\ published /\ Fresh /\ inbox = <<>>
            /\ isBound' = [isBound EXCEPT ![c] = TRUE]
            /\ pendingStartGain' = [pendingStartGain EXCEPT ![c] = NoGain]
            /\ \E r \in CommandType : r = Command("register", c, NoGain) /\
                 \/ inbox' = <<r>>
                 \/ \E s \in CommandType :
                      /\ s = Command("start", c, pendingStartGain[c])
                      /\ pendingStartGain[c] # NoGain /\ inbox' = <<r, s>>
<1>1. /\ BindingInv /\ ViewTypes /\ ConnTypes
      /\ looper \in Seq(MessageType) /\ inbox \in Seq(CommandType)
  BY DEF SessionInv, SessionTypes, QueueTypes
<1>2. PICK m : m = Head(looper)
  OBVIOUS
<1>3. /\ looper # <<>> /\ m.kind = "connected" /\ m.from = crashes
      /\ isBound' = [isBound EXCEPT ![m.to] = TRUE]
      /\ inbox' = inbox \o <<Command("register", m.to, NoGain)>> \o WaitingStart(m.to)
      /\ pendingStartGain' = [pendingStartGain EXCEPT ![m.to] = NoGain]
      /\ panel' = panel /\ UNCHANGED viewVars
  BY <1>2 DEF OnServiceConnected, Receives, Got
<1>4. Live(m, crashes)
  BY <1>3 DEF Live
<1>5. ~NoneLive(looper, crashes)
  <2>1. 1 \in 1..Len(looper) /\ looper[1] = m
    BY <1>1, <1>2, <1>3, Shorter
  <2> QED
    BY <1>4, <2>1 DEF NoneLive
<1>6. PICK c \in Conns : c = Cur /\ c # NoConn
  <2>1. Cur # NoConn
    BY <1>1, <1>5 DEF BindingInv, NoService
  <2> QED
    BY <1>1, <2>1, ConnFacts
<1>7. Arriving(c)
  BY <1>1, <1>5, <1>6 DEF BindingInv, Awaited, Served
<1>8. m.to = c
  <2>1. OneLive(looper, crashes, c)
    BY <1>7 DEF Arriving
  <2> QED
    BY <1>1, <1>2, <1>3, <1>4, <2>1, BinderTaken
<1>9. inbox = <<>> /\ published /\ Fresh
  BY <1>7 DEF Arriving
<1>10. PICK r \in CommandType : r = Command("register", c, NoGain)
  BY CommandFacts
<1>11. \/ inbox' = <<r>>
       \/ \E s \in CommandType :
            /\ s = Command("start", c, pendingStartGain[c])
            /\ pendingStartGain[c] # NoGain /\ inbox' = <<r, s>>
  <2>1. inbox' = <<>> \o <<r>> \o WaitingStart(c)
    BY <1>3, <1>8, <1>9, <1>10
  <2>2. CASE pendingStartGain[c] = NoGain
    <3>1. WaitingStart(c) = <<>>
      BY <2>2 DEF WaitingStart
    <3>2. <<>> \o <<r>> \o <<>> = <<r>>
      OBVIOUS
    <3> QED
      BY <2>1, <3>1, <3>2
  <2>3. CASE pendingStartGain[c] # NoGain
    <3>1. PICK g \in {NoGain, 1, 2, 4} : g = pendingStartGain[c]
      BY <1>1 DEF ConnTypes
    <3>2. PICK s \in CommandType : s = Command("start", c, g)
      BY CommandFacts DEF Told
    <3>3. WaitingStart(c) = <<s>>
      BY <2>3, <3>1, <3>2 DEF WaitingStart
    <3>4. <<>> \o <<r>> \o <<s>> = <<r, s>>
      BY TwoInTurn
    <3>5. inbox' = <<r, s>>
      BY <2>1, <3>3, <3>4
    <3> QED
      BY <2>3, <3>1, <3>2, <3>5
  <2> QED
    BY <2>2, <2>3
<1>12. Cur' = Cur
  BY <1>3 DEF Cur, ConnectionOf, viewVars
<1> QED
  BY <1>3, <1>6, <1>8, <1>9, <1>10, <1>11, <1>12

\* The service's commands.
Quits == {"stop", "unregister", "unbind", "destroy"}
Stopping == busy' = IF state = "IDLE" THEN "no" ELSE "stopping"
Handled(h) ==
    \/ /\ h.cmd = "register" /\ Fresh /\ client' = h.conn
       /\ UNCHANGED <<state, busy, gainMultiplier>>
       /\ looper' = Append(looper, StateOf("event", h.conn, state))
    \/ /\ h.cmd = "start" /\ UNCHANGED <<looper, client, state>>
       /\ \/ state = "RECORDING" /\ UNCHANGED <<busy, gainMultiplier>>
          \/ state # "RECORDING" /\ busy' = "starting" /\ gainMultiplier' = h.gain
    \/ /\ h.cmd = "gain" /\ UNCHANGED <<looper, client, state, busy>>
       /\ gainMultiplier' = h.gain
    \/ /\ h.cmd \in {"pause", "resume"} /\ UNCHANGED <<client, busy, gainMultiplier>>
       /\ \/ h.cmd = "pause" /\ state = "RECORDING" /\ state' = "PAUSED" /\ Tell("PAUSED")
          \/ h.cmd = "resume" /\ state = "PAUSED" /\ state' = "RECORDING" /\ Tell("RECORDING")
          \/ /\ h.cmd = "pause" => state # "RECORDING"
             /\ h.cmd = "resume" => state # "PAUSED"
             /\ UNCHANGED <<state, looper>>
    \/ /\ h.cmd \in Quits /\ UNCHANGED <<state, gainMultiplier, looper>> /\ Stopping
       /\ client' = IF h.cmd \in {"unregister", "unbind"} THEN NoConn ELSE client

LEMMA CommandsDetails ==
  ASSUME SessionInv, Commands
  PROVE  \E h \in CommandType :
            /\ inbox # <<>> /\ h = Head(inbox) /\ h = inbox[1] /\ inbox' = Tail(inbox)
            /\ busy = "no" /\ ServiceSide /\ published' = published
            /\ h.cmd \in Told => h.conn = client
            /\ Handled(h)
<1>1. inbox \in Seq(CommandType) /\ (inbox # <<>> => Expected(inbox[1]))
  BY DEF SessionInv, SessionTypes, QueueTypes, InboxInv
<1>2. inbox # <<>> /\ inbox' = Tail(inbox) /\ busy = "no" /\ ServiceSide /\ published' = published
  BY DEF Commands, RegisterClient, StartRecording, PauseRecording, ResumeRecording, SetGain,
     StopRecording, UnregisterClient, OnUnbind, OnDestroy, Commanded, ServiceSide
<1>3. PICK h \in CommandType : h = Head(inbox) /\ h = inbox[1]
  BY <1>1, <1>2, Shorter
<1>4. Expected(h)
  BY <1>1, <1>2, <1>3
<1>5. Handled(h)
  <2>1. CASE RegisterClient
    <3>1. h.cmd = "register"
      BY <1>3, <2>1 DEF RegisterClient, Commanded
    <3>2. Fresh
      BY <1>4, <3>1 DEF Expected
    <3> QED
      BY <1>3, <2>1, <3>1, <3>2
         DEF RegisterClient, Given, Service!Register, speechVars, Handled
  <2>2. CASE StartRecording
    BY <1>3, <2>2 DEF StartRecording, Commanded, Given, Service!Attend, Service!BeginStart, Handled
  <2>3. CASE PauseRecording
    BY <1>3, <2>3 DEF PauseRecording, Commanded, Service!Attend, Service!Pause, speechVars, Handled
  <2>4. CASE ResumeRecording
    BY <1>3, <2>4 DEF ResumeRecording, Commanded, Service!Attend, Service!Resume, speechVars, Handled
  <2>5. CASE SetGain
    BY <1>3, <2>5 DEF SetGain, Commanded, Given, Service!Attend, Handled
  <2>6. CASE StopRecording
    BY <1>3, <2>6 DEF StopRecording, Commanded, Service!Stop, Service!BeginStop, speechVars,
       Handled, Quits, Stopping
  <2>7. CASE UnregisterClient
    BY <1>3, <2>7 DEF UnregisterClient, Commanded, Service!Unregister, Service!BeginStop,
       Service!NoClient, NoConn, speechVars, Handled, Quits, Stopping
  <2>8. CASE OnUnbind
    BY <1>3, <2>8 DEF OnUnbind, Commanded, Service!Disconnect, Service!BeginStop,
       Service!NoClient, NoConn, speechVars, Handled, Quits, Stopping
  <2>9. CASE OnDestroy
    BY <1>3, <2>9 DEF OnDestroy, Commanded, Service!Destroy, Service!BeginStop, speechVars,
       Handled, Quits, Stopping
  <2> QED
    BY <2>1, <2>2, <2>3, <2>4, <2>5, <2>6, <2>7, <2>8, <2>9 DEF Commands
<1> QED
  BY <1>2, <1>3, <1>4, <1>5 DEF Expected

\* ... and what it does between them.
Runs ==
    \/ /\ busy = "starting" /\ busy' = "no" /\ state' \in {"RECORDING", "ERROR"}
       /\ Tell(state')
    \/ busy = "stopping" /\ busy' = "no" /\ state' = "IDLE" /\ Tell("IDLE")
    \/ busy = "no" /\ Stopping /\ UNCHANGED <<state, looper>>
    \/ /\ state # "IDLE" \/ busy = "starting"
       /\ state # "ERROR" /\ state' = "ERROR" /\ busy' = busy /\ Tell("ERROR")
    \/ UNCHANGED <<state, busy, looper>>
    \/ /\ client # NoConn /\ UNCHANGED <<state, busy>>
       /\ looper' = Append(looper, TextOf("event", client, passSpeaker))

LEMMA BackgroundDetails ==
  ASSUME Background
  PROVE  ServiceSide /\ UNCHANGED <<inbox, published, client, gainMultiplier>> /\ Runs
<1>1. CASE RecordingStarted
  BY <1>1 DEF RecordingStarted, Service!EndStart, speechVars, Runs
<1>2. CASE RecordingStopped
  BY <1>2 DEF RecordingStopped, Service!EndStop, speechVars, Runs
<1>3. CASE IdleTimeout
  BY <1>3 DEF IdleTimeout, Service!IdleFires, Service!Stop, Service!Ready, Service!BeginStop,
     speechVars, Runs, Stopping
<1>4. CASE MicFails
  BY <1>4 DEF MicFails, Service!MicFails, speechVars, Runs
<1>5. CASE BeginPass
  BY <1>5 DEF BeginPass, Service!BeginPass, Runs
<1>6. CASE SendFinalCommit
  BY <1>6 DEF SendFinalCommit, Service!Deliver, Service!NoClient, NoConn, speechVars, Runs
<1>7. CASE LoseText
  BY <1>7 DEF LoseText, Service!LoseText, speechVars, Runs
<1> QED
  BY <1>1, <1>2, <1>3, <1>4, <1>5, <1>6, <1>7 DEF Background

-----------------------------------------------------------------------------
(***************************************************************************)
(* Whom the service talks to.                                              *)
(***************************************************************************)
LEMMA KnownKept ==
  ASSUME ViewTypes, Known, UNCHANGED <<panel, voiceConnection, listener, conns>>,
         \A c \in Conns : Talks(c)' => \/ Talks(c) /\ (published => published')
                                       \/ c = Cur /\ published'
  PROVE  Known'
<1>1. Cur' = Cur
  BY DEF Cur, ConnectionOf
<1>2. Cur # NoConn => Cur = voiceConnection[panel] /\ panel \in Views
  BY ConnFacts
<1>3. Cur \in Conns => Cur <= conns
  BY <1>2, ConnFacts DEF Known
<1>4. \A c \in 0..MaxConns : c = NoConn \/ c \in Conns
  BY ConnFacts
<1>5. NoConn <= conns
  BY DEF ViewTypes, NoConn
<1>6. ASSUME NEW c \in 0..MaxConns, Talks(c)'
      PROVE  c <= conns /\ (c # NoConn /\ c = Cur => published')
  <2>1. CASE c = NoConn
    BY <1>5, <2>1
  <2>2. CASE c \in Conns
    BY <1>3, <1>6, <2>2 DEF Known
  <2> QED
    BY <1>4, <2>1, <2>2
<1> QED
  BY <1>1, <1>6 DEF Known

\* A queue talks of no more when its head goes, and of one more when a command comes.
LEMMA TalksLess ==
  ASSUME inbox \in Seq(CommandType), inbox # <<>>, inbox' = Tail(inbox), NEW c,
         Talks(c)'
  PROVE  c = client' \/ Talks(c)
<1>1. /\ Len(inbox) \in Nat \ {0} /\ Len(inbox') = Len(inbox) - 1
      /\ \A i \in 1..Len(inbox') : inbox'[i] = inbox[i + 1]
  BY Shorter
<1>2. CASE c # client'
  <2>1. PICK i \in 1..Len(inbox') : inbox'[i].conn = c
    BY <1>2 DEF Talks
  <2>2. i + 1 \in 1..Len(inbox) /\ inbox[i + 1].conn = c
    BY <1>1, <2>1
  <2> QED
    BY <2>2 DEF Talks
<1> QED
  BY <1>2

LEMMA TalksMore ==
  ASSUME NEW q \in Seq(CommandType), NEW e \in CommandType,
         NEW i \in 1..Len(Append(q, e))
  PROVE  \/ Append(q, e)[i] = e
         \/ i \in 1..Len(q) /\ Append(q, e)[i] = q[i]
<1>1. /\ Len(q) \in Nat /\ Len(Append(q, e)) = Len(q) + 1
      /\ \A j \in 1..Len(q) : Append(q, e)[j] = q[j]
      /\ Append(q, e)[Len(q) + 1] = e
  BY Longer
<1>2. i \in 1..Len(q) \/ i = Len(q) + 1
  BY <1>1
<1> QED
  BY <1>1, <1>2

LEMMA LeavingTalks ==
  ASSUME NEW q \in Seq(CommandType), NEW c \in Conns
  PROVE  /\ Leaving(q, c) \in Seq(CommandType)
         /\ \A i \in 1..Len(Leaving(q, c)) :
               \/ i \in 1..Len(q) /\ Leaving(q, c)[i] = q[i]
               \/ Leaving(q, c)[i] = Command("stop", c, NoGain)
               \/ Leaving(q, c)[i] = Command("unregister", c, NoGain)
<1>1. PICK s \in CommandType : s = Command("stop", c, NoGain)
  BY CommandFacts DEF Told
<1>2. PICK u \in CommandType : u = Command("unregister", c, NoGain)
  BY CommandFacts DEF Told
<1>3. PICK q1 : q1 = Append(q, s)
  OBVIOUS
<1>4. PICK q2 : q2 = Append(q1, s)
  OBVIOUS
<1>5. q1 \in Seq(CommandType) /\ q2 \in Seq(CommandType) /\ Append(q2, u) \in Seq(CommandType)
  BY <1>1, <1>2, <1>3, <1>4
<1>6. Leaving(q, c) = Append(q2, u)
  BY <1>1, <1>2, <1>3, <1>4 DEF Leaving
<1>7. ASSUME NEW i \in 1..Len(Append(q2, u))
      PROVE  \/ i \in 1..Len(q) /\ Append(q2, u)[i] = q[i]
             \/ Append(q2, u)[i] = s
             \/ Append(q2, u)[i] = u
  BY <1>1, <1>2, <1>3, <1>4, <1>5, <1>7, TalksMore
<1> QED
  BY <1>1, <1>2, <1>5, <1>6, <1>7

LEMMA EndingTalks ==
  ASSUME NEW q \in Seq(CommandType)
  PROVE  /\ Ending(q) \in Seq(CommandType)
         /\ \A i \in 1..Len(Ending(q)) :
               \/ i \in 1..Len(q) /\ Ending(q)[i] = q[i]
               \/ Ending(q)[i] = Command("unbind", NoConn, NoGain)
               \/ Ending(q)[i] = Command("destroy", NoConn, NoGain)
<1>1. PICK s \in CommandType : s = Command("unbind", NoConn, NoGain)
  BY SystemCommandFacts
<1>2. PICK u \in CommandType : u = Command("destroy", NoConn, NoGain)
  BY SystemCommandFacts
<1>3. PICK q1 : q1 = Append(q, s)
  OBVIOUS
<1>4. q1 \in Seq(CommandType) /\ Append(q1, u) \in Seq(CommandType)
  BY <1>1, <1>2, <1>3
<1>5. Ending(q) = Append(q1, u)
  BY <1>1, <1>2, <1>3 DEF Ending
<1>6. ASSUME NEW i \in 1..Len(Append(q1, u))
      PROVE  \/ i \in 1..Len(q) /\ Append(q1, u)[i] = q[i]
             \/ Append(q1, u)[i] = s
             \/ Append(q1, u)[i] = u
  BY <1>1, <1>2, <1>3, <1>4, <1>6, TalksMore
<1> QED
  BY <1>1, <1>2, <1>4, <1>5, <1>6

LEMMA CommandSays ==
  ASSUME NEW cmd, NEW c, NEW g
  PROVE  /\ Command(cmd, c, g).cmd = cmd /\ Command(cmd, c, g).conn = c
         /\ Command(cmd, c, g).gain = g
  BY DEF Command

\* What closing does: nobody is bound, and what the service hears of it.
LEMMA ClosesDetails ==
  ASSUME "early" \notin Trouble, SessionInv, Closes
  PROVE  /\ panel \in Views /\ panel' \in {NoView, panel} /\ Cur' = NoConn
         /\ ViewsClosed
         /\ \/ inbox' = inbox
            \/ inbox # <<>> /\ inbox[Len(inbox)].cmd = "create" /\ inbox' = Ending(inbox)
            \/ Cur \in Conns /\ Served(Cur) /\ inbox' = Ending(Leaving(inbox, Cur))
<1>1. SessionTypes /\ PanelInv /\ InboxInv /\ BindingInv
  BY DEF SessionInv
<1>2. /\ panel \in Views /\ panel' \in {NoView, panel}
      /\ ViewsClosed /\ LetGo(Cur, NoConn)
      /\ Cur # NoConn => isBound[Cur]
  BY <1>1, ClosesCases
<1>3. Cur' = NoConn
  BY <1>2 DEF ViewsClosed, Cur, ConnectionOf
<1>4. IF Cur = NoConn THEN inbox' = inbox
      ELSE \/ inbox # <<>> /\ inbox[Len(inbox)].cmd = "create" /\ inbox' = Ending(inbox)
           \/ /\ Cur \in Conns /\ Served(Cur)
              /\ inbox' = Ending(Leaving(inbox, Cur))
  BY <1>1, <1>2, LetGoCases
<1> QED
  BY <1>2, <1>3, <1>4

LEMMA KnownAsks ==
  ASSUME "early" \notin Trouble, SessionInv, Known, Asks
  PROVE  Known'
<1>1. /\ SessionTypes /\ ViewTypes /\ BindingInv /\ inbox \in Seq(CommandType)
  BY DEF SessionInv, SessionTypes, QueueTypes
<1>2. /\ UNCHANGED <<panel, conns, voiceConnection>> /\ UNCHANGED connVars
      /\ UNCHANGED systemVars /\ UNCHANGED serviceVars
  BY <1>1, AsksCases
<1>3. UNCHANGED <<listener, published, client>>
  BY <1>2 DEF connVars, systemVars, serviceVars
<1>4. PICK cmd \in {"pause", "resume", "gain"}, g \in {NoGain, 1, 2, 4} : Said(cmd, Cur, g)
  BY <1>1, AsksDetails
<1>5. ASSUME NEW c \in Conns, Talks(c)'
      PROVE  Talks(c) \/ (c = Cur /\ published')
  <2>1. CASE inbox' = inbox
    BY <1>3, <1>5, <2>1 DEF Talks
  <2>2. CASE Cur # NoConn /\ Reaches(Cur) /\ inbox' = Append(inbox, Command(cmd, Cur, g))
    <3>1. PICK k \in Conns : k = Cur
      BY <1>1, <2>2, ConnFacts
    <3>2. PICK e \in CommandType : e = Command(cmd, k, g) /\ e.conn = k
      BY CommandFacts DEF Told
    <3>3. published
      BY <1>1, <2>2 DEF BindingInv, Awaited, Arriving, Served, Reaches
    <3>4. inbox' = Append(inbox, e)
      BY <2>2, <3>1, <3>2
    <3>5. CASE c = client'
      BY <1>3, <3>5 DEF Talks
    <3>6. CASE \E i \in 1..Len(inbox') : inbox'[i].conn = c
      <4>1. PICK i \in 1..Len(inbox') : inbox'[i].conn = c
        BY <3>6
      <4>2. inbox'[i] = e \/ (i \in 1..Len(inbox) /\ inbox'[i] = inbox[i])
        BY <1>1, <3>4, TalksMore
      <4> QED
        BY <1>3, <3>1, <3>2, <3>3, <4>1, <4>2 DEF Talks
    <3> QED
      BY <1>5, <3>5, <3>6 DEF Talks
  <2> QED
    BY <1>4, <2>1, <2>2 DEF Said
<1> QED
  BY <1>1, <1>2, <1>3, <1>5, KnownKept

LEMMA KnownCloses ==
  ASSUME "early" \notin Trouble, SessionInv, Known, Closes
  PROVE  Known'
<1>1. /\ SessionTypes /\ ViewTypes /\ inbox \in Seq(CommandType)
  BY DEF SessionInv, SessionTypes, QueueTypes
<1>2. /\ Cur' = NoConn /\ ViewsClosed
      /\ \/ inbox' = inbox
         \/ inbox' = Ending(inbox)
         \/ Cur \in Conns /\ Served(Cur) /\ inbox' = Ending(Leaving(inbox, Cur))
  BY ClosesDetails
<1>3. conns' = conns /\ client' = client /\ NoConn <= conns
  BY <1>1, <1>2 DEF ViewsClosed, serviceVars, ViewTypes, NoConn
<1>4. \A v \in Views : voiceConnection'[v] <= conns'
  BY <1>2, <1>3 DEF ViewsClosed, Known
<1>5. Cur # NoConn => Cur <= conns
  BY <1>1, ConnFacts DEF Known
<1>6. \A cmd : Command(cmd, NoConn, NoGain).conn = NoConn
               /\ Command(cmd, Cur, NoGain).conn = Cur
  BY DEF Command
<1>7. ASSUME NEW c \in 0..MaxConns, NEW i \in 1..Len(inbox'), inbox'[i].conn = c
      PROVE  Talks(c) \/ c = NoConn \/ c = Cur
  <2>1. CASE inbox' = inbox
    BY <1>7, <2>1 DEF Talks
  <2>2. CASE inbox' = Ending(inbox)
    BY <1>1, <1>6, <1>7, <2>2, EndingTalks DEF Talks
  <2>3. CASE Cur \in Conns /\ inbox' = Ending(Leaving(inbox, Cur))
    <3>1. PICK k \in Conns : k = Cur
      BY <2>3
    <3>2. PICK q : q = Leaving(inbox, k)
      OBVIOUS
    <3>3. /\ q \in Seq(CommandType)
          /\ \A j \in 1..Len(q) :
               \/ j \in 1..Len(inbox) /\ q[j] = inbox[j]
               \/ q[j] = Command("stop", k, NoGain) \/ q[j] = Command("unregister", k, NoGain)
      BY <1>1, <3>2, LeavingTalks
    <3>4. \/ i \in 1..Len(q) /\ inbox'[i] = q[i]
          \/ inbox'[i] = Command("unbind", NoConn, NoGain)
          \/ inbox'[i] = Command("destroy", NoConn, NoGain)
      BY <2>3, <3>1, <3>2, <3>3, EndingTalks
    <3> QED
      BY <1>6, <1>7, <3>1, <3>3, <3>4 DEF Talks
  <2> QED
    BY <1>2, <2>1, <2>2, <2>3
<1>8. \A c \in 0..MaxConns : Talks(c)' => c <= conns'
  <2> TAKE c \in 0..MaxConns
  <2> HAVE Talks(c)'
  <2>1. Talks(c) \/ c = NoConn \/ c = Cur
    BY <1>3, <1>7 DEF Talks
  <2> QED
    BY <1>3, <1>5, <2>1 DEF Known
<1> QED
  BY <1>2, <1>4, <1>8 DEF Known

LEMMA KnownOpens ==
  ASSUME SessionInv, Known, Opens
  PROVE  Known'
<1>1. /\ SessionTypes /\ PanelInv /\ MessagesInv /\ BindingInv /\ ViewTypes /\ ConnTypes
      /\ inbox \in Seq(CommandType)
  BY DEF SessionInv, SessionTypes, QueueTypes
<1>2. /\ panel = NoView \/ panel' = panel
      /\ UNCHANGED <<published, permission>> /\ UNCHANGED serviceVars
  BY <1>1, OpensCases
<1>3. PICK v \in Views, rest \in Seq(MessageType) : StartsFrom(v, rest)
  BY <1>1, OpensCases
<1>4. v = panel' /\ voiceConnection[v] = Cur /\ StartVoiceInput(v, rest)
  BY <1>3 DEF StartsFrom
<1>5. Asked(v) \/ Binds(v)
  BY <1>1, <1>4, StartCases
<1>6. Cur' = voiceConnection'[v]
  BY <1>4, CurFacts
<1>7. client' = client
  BY <1>2 DEF serviceVars
<1>8. CASE ~permission
  <2>1. UNCHANGED <<conns, voiceConnection, listener, inbox>>
    BY <1>4, <1>8 DEF StartVoiceInput
  <2>2. Cur' = Cur /\ (Cur # NoConn => panel' = panel)
    BY <1>1, <1>2, <1>4, <1>6, <2>1, ConnFacts
  <2>3. \A c \in 0..MaxConns : Talks(c)' => Talks(c)
    BY <1>7, <2>1 DEF Talks
  <2> QED
    BY <1>2, <2>1, <2>2, <2>3 DEF Known
<1>9. CASE permission
  <2>1. PICK c \in Conns :
            /\ c = IF Cur = NoConn THEN conns + 1 ELSE Cur
            /\ conns' = IF c > conns THEN c ELSE conns
            /\ voiceConnection' = [voiceConnection EXCEPT ![v] = c]
            /\ listener' = [listener EXCEPT ![c] = v]
    BY <1>1, <1>4, <1>9, StartDetails
  <2>2. Cur' = c /\ listener'[c] = panel' /\ c # NoConn
    BY <1>1, <1>4, <1>6, <2>1 DEF ViewTypes, ConnTypes, Conns, NoConn
  <2>3. conns \in Nat /\ conns' \in Nat /\ conns <= conns' /\ c <= conns'
    <3>1. PICK n : n = conns'
      OBVIOUS
    <3>2. conns \in Nat /\ c \in Nat
      BY <1>1, SessionAssumption DEF ViewTypes, Conns
    <3>3. n = IF c > conns THEN c ELSE conns
      BY <2>1, <3>1
    <3>4. n \in Nat /\ conns <= n /\ c <= n
      BY <3>2, <3>3
    <3> QED
      BY <3>1, <3>2, <3>4
  <2>4. \A u \in Views : voiceConnection'[u] <= conns'
    <3> TAKE u \in Views
    <3>1. CASE u = v
      BY <1>1, <2>1, <2>3, <3>1 DEF ViewTypes
    <3>2. CASE u # v
      <4>1. voiceConnection'[u] = voiceConnection[u] /\ voiceConnection[u] \in 0..MaxConns
        BY <1>1, <2>1, <3>2 DEF ViewTypes
      <4>2. voiceConnection[u] <= conns
        BY DEF Known
      <4> QED
        BY <2>3, <4>1, <4>2
    <3> QED
      BY <3>1, <3>2
  <2>5. \/ inbox' = inbox
        \/ inbox' = Append(inbox, Command("create", NoConn, NoGain))
        \/ Cur = c /\ Reaches(c) /\ inbox' = Append(inbox, Command("start", c, currentGain[v]))
    <3>1. CASE Asked(v)
      BY <3>1 DEF Asked
    <3>2. CASE Binds(v)
      BY <1>6, <2>2, <3>2 DEF Binds, Called, Again, Started, Reaches
    <3> QED
      BY <1>5, <3>1, <3>2
  <2>6. ASSUME NEW d \in 0..MaxConns, Talks(d)'
        PROVE  Talks(d) \/ d = NoConn \/ (d = c /\ published)
    <3>1. CASE inbox' = inbox
      BY <1>7, <2>6, <3>1 DEF Talks
    <3>2. CASE inbox' = Append(inbox, Command("create", NoConn, NoGain))
      <4>1. PICK e \in CommandType : e = Command("create", NoConn, NoGain) /\ e.conn = NoConn
        BY SystemCommandFacts DEF Command
      <4>2. \A i \in 1..Len(inbox') :
              inbox'[i] = e \/ (i \in 1..Len(inbox) /\ inbox'[i] = inbox[i])
        BY <1>1, <3>2, <4>1, TalksMore
      <4> QED
        BY <1>7, <2>6, <4>1, <4>2 DEF Talks
    <3>3. CASE Cur = c /\ Reaches(c) /\ inbox' = Append(inbox, Command("start", c, currentGain[v]))
      <4>1. PICK g \in {NoGain, 1, 2, 4} : g = currentGain[v]
        BY <1>1 DEF ViewTypes
      <4>2. PICK e \in CommandType : e = Command("start", c, g) /\ e.conn = c
        BY CommandFacts DEF Told
      <4>3. published
        BY <1>1, <2>2, <3>3 DEF BindingInv, Awaited, Arriving, Served, Reaches
      <4>4. inbox' = Append(inbox, e)
        BY <3>3, <4>1, <4>2
      <4>5. \A i \in 1..Len(inbox') :
              inbox'[i] = e \/ (i \in 1..Len(inbox) /\ inbox'[i] = inbox[i])
        BY <1>1, <4>4, TalksMore
      <4> QED
        BY <1>7, <2>6, <4>2, <4>3, <4>5 DEF Talks
    <3> QED
      BY <2>5, <3>1, <3>2, <3>3
  <2>7. ASSUME NEW d \in 0..MaxConns, Talks(d)'
        PROVE  d <= conns' /\ (d # NoConn /\ d = c => published)
    <3>1. CASE d = NoConn
      BY <2>3, <3>1 DEF NoConn
    <3>2. CASE d = c /\ published
      BY <2>3, <3>2
    <3>3. CASE Talks(d)
      <4>1. d <= conns /\ (d # NoConn /\ d = Cur => published)
        BY <3>3 DEF Known
      <4>2. d = c => Cur = c
        BY <2>1, <2>3, <4>1
      <4> QED
        BY <2>3, <4>1, <4>2
    <3> QED
      BY <2>6, <2>7, <3>1, <3>2, <3>3
  <2> QED
    BY <1>2, <2>2, <2>4, <2>7 DEF Known
<1> QED
  BY <1>8, <1>9

LEMMA KnownOthers ==
  ASSUME SessionInv, Known,
         \/ Commands \/ Background \/ Passes \/ Create \/ ProcessDies
         \/ OnServiceConnected \/ OnServiceDisconnected
         \/ \E granted \in BOOLEAN : AnswerPermission(granted)
         \/ \E v \in Views : Tick(v)
         \/ \E c \in Conns : DeathNotice(c)
  PROVE  Known'
<1>1. /\ SessionTypes /\ ViewTypes /\ inbox \in Seq(CommandType)
  BY DEF SessionInv, SessionTypes, QueueTypes
<1>2. NoConn \notin Conns
  BY DEF Conns, NoConn
<1>3. CASE Commands
  <2>1. PICK h \in CommandType :
            /\ inbox # <<>> /\ h = Head(inbox) /\ h = inbox[1] /\ inbox' = Tail(inbox)
            /\ ServiceSide /\ published' = published /\ Handled(h)
    BY <1>3, CommandsDetails
  <2>2. UNCHANGED <<panel, voiceConnection, listener, conns>>
    BY <2>1 DEF ServiceSide, viewVars, connVars, boundVars
  <2>3. client' \in {client, NoConn, h.conn}
    BY <2>1 DEF Handled
  <2>4. Talks(h.conn)
    BY <1>1, <2>1, Shorter DEF Talks
  <2>5. ASSUME NEW c \in Conns, Talks(c)' PROVE Talks(c)
    BY <1>1, <1>2, <2>1, <2>3, <2>4, <2>5, TalksLess DEF Talks
  <2> QED
    BY <1>1, <2>1, <2>2, <2>5, KnownKept
<1>4. CASE Background
  <2>1. ServiceSide /\ UNCHANGED <<inbox, published, client>>
    BY <1>4, BackgroundDetails
  <2>2. UNCHANGED <<panel, voiceConnection, listener, conns>>
    BY <2>1 DEF ServiceSide, viewVars, connVars, boundVars
  <2>3. \A c \in Conns : Talks(c)' => Talks(c)
    BY <2>1 DEF Talks
  <2> QED
    BY <1>1, <2>1, <2>2, <2>3, KnownKept
<1>5. CASE \/ Passes \/ OnServiceDisconnected
           \/ \E granted \in BOOLEAN : AnswerPermission(granted)
           \/ \E v \in Views : Tick(v)
           \/ \E c \in Conns : DeathNotice(c)
  <2>1. UNCHANGED <<panel, voiceConnection, listener, conns, inbox, published, client>>
    BY <1>5 DEF Passes, HandleServiceMessage, ShowState, CommitText, DropDeadBinder,
       OnServiceDisconnected, AnswerPermission, Tick, DeathNotice,
       viewVars, connVars, boundVars, systemVars, serviceVars
  <2>2. \A c \in Conns : Talks(c)' => Talks(c)
    BY <2>1 DEF Talks
  <2> QED
    BY <1>1, <2>1, <2>2, KnownKept
<1>6. CASE Create
  <2>1. /\ inbox # <<>> /\ inbox' = Tail(inbox) /\ client' = client /\ ServiceSide
        /\ published' = TRUE \/ published' = published
    BY <1>6 DEF Create, Commanded, Service!Connect
  <2>2. UNCHANGED <<panel, voiceConnection, listener, conns>>
    BY <2>1 DEF ServiceSide, viewVars, connVars, boundVars
  <2>3. ASSUME NEW c \in Conns, Talks(c)' PROVE Talks(c)
    BY <1>1, <2>1, <2>3, TalksLess DEF Talks
  <2> QED
    BY <1>1, <2>1, <2>2, <2>3, KnownKept
<1>7. CASE ProcessDies
  <2>1. /\ UNCHANGED <<panel, voiceConnection, listener, conns>> /\ client' = NoConn
        /\ inbox' = <<>> \/ inbox' = <<Command("create", NoConn, NoGain)>>
    BY <1>7 DEF ProcessDies, viewVars, connVars
  <2>2. Command("create", NoConn, NoGain).conn = NoConn
    BY DEF Command
  <2>3. ASSUME NEW c \in Conns, Talks(c)' PROVE FALSE
    <3>1. c # client'
      BY <1>2, <2>1
    <3>2. PICK i \in 1..Len(inbox') : inbox'[i].conn = c
      BY <2>3, <3>1 DEF Talks
    <3>3. CASE inbox' = <<>>
      BY <3>2, <3>3
    <3>4. CASE inbox' = <<Command("create", NoConn, NoGain)>>
      <4>1. PICK e : e = Command("create", NoConn, NoGain) /\ e.conn = NoConn
        BY <2>2
      <4>2. inbox' = <<e>>
        BY <3>4, <4>1
      <4>3. inbox'[i] = e
        BY <3>2, <4>2
      <4> QED
        BY <1>2, <3>2, <4>1, <4>3
    <3> QED
      BY <2>1, <3>3, <3>4
  <2> QED
    BY <1>1, <2>1, <2>3, KnownKept
<1>8. CASE OnServiceConnected
  <2>1. UNCHANGED <<panel, voiceConnection, listener, conns, client, published>>
    BY <1>8 DEF OnServiceConnected, viewVars, boundVars, serviceVars, systemVars
  <2>2. PICK k \in Conns :
            /\ k = Cur /\ published
            /\ \E r \in CommandType : r = Command("register", k, NoGain) /\
                 \/ inbox' = <<r>>
                 \/ \E s \in CommandType :
                      s = Command("start", k, pendingStartGain[k]) /\ inbox' = <<r, s>>
    BY <1>8, ConnectedDetails
  <2>3. \A i \in 1..Len(inbox') : inbox'[i].conn = k
    <3>1. \A cmd, g : Command(cmd, k, g).conn = k
      BY DEF Command
    <3>2. PICK r \in CommandType : r = Command("register", k, NoGain) /\
                 \/ inbox' = <<r>>
                 \/ \E s \in CommandType :
                      s = Command("start", k, pendingStartGain[k]) /\ inbox' = <<r, s>>
      BY <2>2
    <3>3. CASE inbox' = <<r>>
      BY <3>1, <3>2, <3>3
    <3>4. CASE inbox' # <<r>>
      <4>1. PICK s \in CommandType :
                      s = Command("start", k, pendingStartGain[k]) /\ inbox' = <<r, s>>
        BY <3>2, <3>4
      <4>2. \A i \in 1..2 : i = 1 \/ i = 2
        OBVIOUS
      <4>3. Len(inbox') = 2 /\ inbox'[1] = r /\ inbox'[2] = s
        BY <4>1
      <4> QED
        BY <3>1, <3>2, <4>1, <4>2, <4>3
    <3> QED
      BY <3>3, <3>4
  <2>4. ASSUME NEW c \in Conns, Talks(c)'
        PROVE  Talks(c) \/ (c = Cur /\ published')
    BY <2>1, <2>2, <2>3, <2>4 DEF Talks
  <2> QED
    BY <1>1, <2>1, <2>4, KnownKept
<1> QED
  BY <1>3, <1>4, <1>5, <1>6, <1>7, <1>8

-----------------------------------------------------------------------------
(***************************************************************************)
(* The gain.                                                               *)
(***************************************************************************)
LEMMA GainAppend ==
  ASSUME NEW q \in Seq(CommandType), NEW e \in CommandType, NEW c, NEW g, NEW f,
         \/ GainAhead(q, c, f) /\ (f = g \/ e.cmd = "gain")
         \/ \A i \in 1..Len(q) : q[i].conn # c,
         e.conn = c /\ e.cmd \in {"start", "gain"} => e.gain = g
  PROVE  GainAhead(Append(q, e), c, g) /\ (NoGainIn(Append(q, e)) => NoGainIn(q))
<1> DEFINE r == Append(q, e)
<1>1. /\ Len(q) \in Nat /\ Len(r) = Len(q) + 1
      /\ \A i \in 1..Len(q) : r[i] = q[i] /\ i \in 1..Len(r)
      /\ r[Len(q) + 1] = e /\ Len(q) + 1 \in 1..Len(r)
      /\ \A i \in 1..Len(r) : i \in 1..Len(q) \/ i = Len(q) + 1
      /\ \A i \in 1..Len(q) : Len(q) + 1 > i
  BY Longer
<1> HIDE DEF r
<1>2. ASSUME NEW i \in 1..Len(r), r[i].conn = c, LastGain(r, i)
      PROVE  r[i].gain = g
  <2>1. CASE i = Len(q) + 1
    BY <1>1, <1>2, <2>1 DEF LastGain
  <2>2. CASE i \in 1..Len(q)
    <3>1. LastGain(q, i) /\ e.cmd # "gain" /\ q[i].conn = c
      BY <1>1, <1>2, <2>2 DEF LastGain
    <3> QED
      BY <1>1, <2>2, <3>1 DEF GainAhead
  <2> QED
    BY <1>1, <2>1, <2>2
<1>3. NoGainIn(r) => NoGainIn(q)
  BY <1>1 DEF NoGainIn
<1>4. GainAhead(r, c, g)
  BY <1>2 DEF GainAhead
<1> QED
  BY <1>3, <1>4 DEF r

LEMMA GainTail ==
  ASSUME NEW q \in Seq(CommandType), q # <<>>, NEW c, NEW g, GainAhead(q, c, g)
  PROVE  /\ GainAhead(Tail(q), c, g)
         /\ NoGainIn(Tail(q)) /\ q[1].cmd # "gain" => NoGainIn(q)
         /\ NoGainIn(Tail(q)) /\ q[1].cmd \in {"start", "gain"} /\ q[1].conn = c => q[1].gain = g
<1> DEFINE r == Tail(q)
<1>1. /\ Len(q) \in Nat \ {0} /\ Len(r) = Len(q) - 1 /\ 1 \in 1..Len(q)
      /\ \A i \in 1..Len(r) : r[i] = q[i + 1] /\ i + 1 \in 1..Len(q)
      /\ \A j \in 1..Len(q) : j > 1 => j - 1 \in 1..Len(r) /\ q[j] = r[j - 1]
  <2>1. /\ Len(q) \in Nat \ {0} /\ Len(r) = Len(q) - 1
        /\ \A i \in 1..Len(r) : r[i] = q[i + 1]
    BY Shorter
  <2>2. \A j \in 1..Len(q) : j > 1 => j - 1 \in 1..Len(r) /\ (j - 1) + 1 = j
    BY <2>1
  <2> QED
    BY <2>1, <2>2
<1> HIDE DEF r
<1>2. ASSUME NEW i \in 1..Len(r), r[i].conn = c, LastGain(r, i)
      PROVE  r[i].gain = g
  <2>1. \A j \in 1..Len(q) : j > i + 1 => j > 1 /\ j - 1 > i
    BY <1>1
  <2>2. LastGain(q, i + 1)
    BY <1>1, <1>2, <2>1 DEF LastGain
  <2> QED
    BY <1>1, <1>2, <2>2 DEF GainAhead
<1>3. GainAhead(r, c, g)
  BY <1>2 DEF GainAhead
<1>4. ASSUME NoGainIn(r) PROVE \A j \in 1..Len(q) : j > 1 => q[j].cmd # "gain"
  BY <1>1, <1>4 DEF NoGainIn
<1>5. NoGainIn(r) /\ q[1].cmd # "gain" => NoGainIn(q)
  <2>1. \A j \in 1..Len(q) : j = 1 \/ j > 1
    BY <1>1
  <2> QED
    BY <1>4, <2>1 DEF NoGainIn
<1>6. NoGainIn(r) /\ q[1].cmd \in {"start", "gain"} /\ q[1].conn = c => q[1].gain = g
  BY <1>1, <1>4 DEF LastGain, GainAhead
<1> QED
  BY <1>3, <1>5, <1>6 DEF r

\* A service that has told nobody of the connection yet.
LEMMA Unknown ==
  ASSUME NEW c, ~Talks(c), NEW g
  PROVE  client # c /\ (\A i \in 1..Len(inbox) : inbox[i].conn # c) /\ GainAhead(inbox, c, g)
  BY DEF Talks, GainAhead

LEMMA GainKept ==
  ASSUME GainInv, Cur' = Cur,
         UNCHANGED <<panel, currentGain, pendingStartGain, inbox, client, state, busy>>,
         gainMultiplier' = gainMultiplier,
         \A c \in Conns : isBound'[c] => isBound[c], Cur # NoConn => Cur \in Conns
  PROVE  GainInv'
  BY DEF GainInv, Recording

LEMMA GainAsks ==
  ASSUME "early" \notin Trouble, SessionInv, Known, GainInv, Asks
  PROVE  GainInv'
<1>1. /\ SessionTypes /\ ViewTypes /\ BindingInv /\ inbox \in Seq(CommandType)
  BY DEF SessionInv, SessionTypes, QueueTypes
<1>2. /\ UNCHANGED <<panel, conns, voiceConnection>> /\ UNCHANGED connVars
      /\ UNCHANGED systemVars /\ UNCHANGED serviceVars /\ UNCHANGED speechVars
  BY <1>1, AsksCases
<1>3. /\ UNCHANGED <<pendingStartGain, isBound, client, state, busy, gainMultiplier>>
      /\ Cur' = Cur
  BY <1>2 DEF connVars, serviceVars, speechVars, Cur, ConnectionOf
<1>4. panel \in Views
  BY <1>1, AsksDetails
<1>5. PICK cmd \in {"pause", "resume", "gain"}, g \in {NoGain, 1, 2, 4} :
        Shown(cmd, g) /\ Said(cmd, Cur, g)
  BY <1>1, AsksDetails
<1>6. SUFFICES ASSUME Cur # NoConn PROVE GainInv'
  BY <1>3 DEF GainInv
<1>7. PICK c \in Conns : c = Cur /\ c # NoConn
  BY <1>1, <1>6, ConnFacts
<1>8. PICK f : f = currentGain[panel]
  OBVIOUS
<1>9. PICK n : n = currentGain'[panel]
  OBVIOUS
<1>10. cmd = "gain" \/ n = f
  BY <1>5, <1>8, <1>9 DEF Shown
<1>11. cmd = "gain" => n = g /\ isBound[c]
  BY <1>1, <1>4, <1>5, <1>6, <1>7, <1>9 DEF Shown, ViewTypes
<1>12. /\ pendingStartGain[c] \in {NoGain, f}
       /\ isBound[c] => pendingStartGain[c] = NoGain
       /\ GainAhead(inbox, c, f)
       /\ client = c /\ (Recording \/ busy = "starting") /\ NoGainIn(inbox) => gainMultiplier = f
  BY <1>6, <1>7, <1>8 DEF GainInv
<1>13. pendingStartGain[c] \in {NoGain, n}
  BY <1>10, <1>11, <1>12
<1>14. /\ GainAhead(inbox', c, n)
       /\ client = c /\ (Recording \/ busy = "starting") /\ NoGainIn(inbox') => gainMultiplier = n
  <2>1. CASE Reaches(c)
    <3>1. PICK e \in CommandType : e = Command(cmd, c, g) /\ e.cmd = cmd /\ e.gain = g
      BY CommandFacts, CommandSays DEF Told
    <3>2. inbox' = Append(inbox, e)
      BY <1>5, <1>7, <2>1, <3>1 DEF Said
    <3>3. e.cmd \in {"start", "gain"} => e.gain = n
      BY <1>11, <3>1
    <3>4. GainAhead(inbox', c, n) /\ (NoGainIn(inbox') => NoGainIn(inbox))
      BY <1>1, <1>10, <1>12, <3>1, <3>2, <3>3, GainAppend
    <3>5. NoGainIn(inbox') => cmd # "gain"
      <4>1. Len(inbox') \in 1..Len(inbox') /\ inbox'[Len(inbox')] = e
        BY <1>1, <3>2, Longer
      <4> QED
        BY <3>1, <4>1 DEF NoGainIn
    <3> QED
      BY <1>10, <1>12, <3>4, <3>5
  <2>2. CASE ~Reaches(c)
    <3>1. inbox' = inbox
      BY <1>5, <1>7, <2>2 DEF Said
    <3>2. CASE cmd # "gain"
      BY <1>10, <1>12, <3>1, <3>2
    <3>3. CASE cmd = "gain"
      <4>1. ~published
        BY <1>1, <1>7, <1>11, <2>2, <3>3 DEF BindingInv, Awaited, Arriving, Served, Reaches
      <4>2. ~Talks(c)
        BY <1>7, <4>1, SessionAssumption DEF Known, Conns
      <4> QED
        BY <3>1, <4>2, Unknown
    <3> QED
      BY <3>2, <3>3
  <2> QED
    BY <2>1, <2>2
<1> QED
  BY <1>2, <1>3, <1>7, <1>9, <1>12, <1>13, <1>14 DEF GainInv, Recording

LEMMA GainOpens ==
  ASSUME SessionInv, Known, GainInv, Opens
  PROVE  GainInv'
<1>1. /\ SessionTypes /\ PanelInv /\ MessagesInv /\ BindingInv /\ ViewTypes /\ ConnTypes
      /\ inbox \in Seq(CommandType)
  BY DEF SessionInv, SessionTypes, QueueTypes
<1>2. /\ panel = NoView \/ panel' = panel
      /\ UNCHANGED <<currentGain, isBound, published>> /\ UNCHANGED serviceVars
      /\ UNCHANGED speechVars
  BY <1>1, OpensCases
<1>3. PICK v \in Views, rest \in Seq(MessageType) : StartsFrom(v, rest)
  BY <1>1, OpensCases
<1>4. v = panel' /\ voiceConnection[v] = Cur /\ StartVoiceInput(v, rest)
  BY <1>3 DEF StartsFrom
<1>5. Asked(v) \/ Binds(v)
  BY <1>1, <1>4, StartCases
<1>6. Cur' = voiceConnection'[v]
  BY <1>4, CurFacts
<1>7. UNCHANGED <<client, state, busy, gainMultiplier>>
  BY <1>2 DEF serviceVars, speechVars
<1>8. CASE ~permission
  <2>1. UNCHANGED <<voiceConnection, pendingStartGain, inbox>>
    BY <1>4, <1>8 DEF StartVoiceInput
  <2>2. Cur' = Cur /\ (Cur # NoConn => panel' = panel /\ Cur \in Conns)
    BY <1>1, <1>2, <1>4, <1>6, <2>1, ConnFacts
  <2> QED
    BY <1>2, <1>7, <2>1, <2>2 DEF GainInv, Recording
<1>9. CASE permission
  <2>1. PICK c \in Conns :
            /\ c = IF Cur = NoConn THEN conns + 1 ELSE Cur
            /\ voiceConnection' = [voiceConnection EXCEPT ![v] = c]
            /\ IF isBound[c] THEN pendingStartGain' = pendingStartGain
               ELSE pendingStartGain' = [pendingStartGain EXCEPT ![c] = currentGain[v]]
    BY <1>1, <1>4, <1>9, StartDetails
  <2>2. Cur' = c /\ c # NoConn
    BY <1>1, <1>4, <1>6, <2>1 DEF ViewTypes, Conns, NoConn
  <2>3. PICK g \in {NoGain, 1, 2, 4} : g = currentGain[v]
    BY <1>1 DEF ViewTypes
  <2>4. currentGain'[panel'] = g
    BY <1>2, <1>4, <2>3
  <2>5. \/ inbox' = inbox
        \/ inbox' = Append(inbox, Command("create", NoConn, NoGain))
        \/ Cur = c /\ inbox' = Append(inbox, Command("start", c, g))
    <3>1. CASE Asked(v)
      BY <3>1 DEF Asked
    <3>2. CASE Binds(v)
      BY <1>6, <2>2, <2>3, <3>2 DEF Binds, Called, Again, Started
    <3> QED
      BY <1>5, <3>1, <3>2
  <2>6. Cur = c \/ (Cur = NoConn /\ ~Talks(c) /\ ~isBound[c])
    <3>1. CASE Cur = NoConn
      <4>1. c = conns + 1 /\ c \in 0..MaxConns /\ ~(c <= conns)
        BY <1>1, <2>1, <3>1, SessionAssumption DEF ViewTypes, Conns
      <4> QED
        BY <1>1, <2>2, <3>1, <4>1 DEF Known, PanelInv
    <3> QED
      BY <2>1, <3>1
  <2>7. /\ isBound[c] => pendingStartGain[c] = NoGain
        /\ pendingStartGain[c] \in {NoGain, g} \/ ~isBound[c]
        /\ GainAhead(inbox, c, g)
        /\ client = c /\ (Recording \/ busy = "starting") /\ NoGainIn(inbox) => gainMultiplier = g
    <3>1. CASE Cur = c
      <4>1. v = panel
        BY <1>1, <1>2, <1>4, <2>2, <3>1, ConnFacts
      <4> QED
        BY <2>2, <2>3, <3>1, <4>1 DEF GainInv
    <3>2. CASE Cur = NoConn /\ ~Talks(c) /\ ~isBound[c]
      BY <3>2, Unknown
    <3> QED
      BY <2>6, <3>1, <3>2
  <2>8. /\ pendingStartGain'[c] \in {NoGain, g}
        /\ isBound[c] => pendingStartGain'[c] = NoGain
    BY <1>1, <2>1, <2>3, <2>7 DEF ConnTypes
  <2>9. GainAhead(inbox', c, g) /\ (NoGainIn(inbox') => NoGainIn(inbox))
    <3>1. CASE inbox' = inbox
      BY <2>7, <3>1
    <3>2. CASE inbox' = Append(inbox, Command("create", NoConn, NoGain))
      <4>1. PICK e \in CommandType : e = Command("create", NoConn, NoGain) /\ e.cmd = "create"
        BY SystemCommandFacts
      <4> QED
        BY <1>1, <2>7, <3>2, <4>1, GainAppend
    <3>3. CASE inbox' = Append(inbox, Command("start", c, g))
      <4>1. PICK e \in CommandType : e = Command("start", c, g) /\ e.gain = g
        BY CommandFacts, CommandSays DEF Told
      <4> QED
        BY <1>1, <2>7, <3>3, <4>1, GainAppend
    <3> QED
      BY <2>5, <3>1, <3>2, <3>3
  <2> QED
    BY <1>2, <1>7, <2>2, <2>4, <2>7, <2>8, <2>9 DEF GainInv, Recording
<1> QED
  BY <1>8, <1>9

LEMMA GainCommands ==
  ASSUME SessionInv, Known, GainInv, Commands
  PROVE  GainInv'
<1>1. /\ ViewTypes /\ inbox \in Seq(CommandType) /\ state \in States
  BY DEF SessionInv, SessionTypes, QueueTypes, ServiceTypes, States
<1>2. PICK h \in CommandType :
            /\ inbox # <<>> /\ h = Head(inbox) /\ h = inbox[1] /\ inbox' = Tail(inbox)
            /\ busy = "no" /\ ServiceSide /\ published' = published
            /\ h.cmd \in Told => h.conn = client
            /\ Handled(h)
  BY CommandsDetails
<1>3. UNCHANGED <<panel, currentGain, pendingStartGain, isBound>> /\ Cur' = Cur
  BY <1>2 DEF ServiceSide, viewVars, connVars, Cur, ConnectionOf
<1>4. SUFFICES ASSUME Cur # NoConn PROVE GainInv'
  BY <1>3 DEF GainInv
<1>5. PICK c \in Conns : c = Cur /\ c # NoConn
  BY <1>1, <1>4, ConnFacts
<1>6. PICK g : g = currentGain[panel]
  OBVIOUS
<1>7. /\ pendingStartGain[c] \in {NoGain, g}
      /\ isBound[c] => pendingStartGain[c] = NoGain
      /\ GainAhead(inbox, c, g)
      /\ client = c /\ (Recording \/ busy = "starting") /\ NoGainIn(inbox) => gainMultiplier = g
  BY <1>4, <1>5, <1>6 DEF GainInv
<1>8. /\ GainAhead(inbox', c, g)
      /\ NoGainIn(inbox') /\ h.cmd # "gain" => NoGainIn(inbox)
      /\ NoGainIn(inbox') /\ h.cmd \in {"start", "gain"} /\ h.conn = c => h.gain = g
  BY <1>1, <1>2, <1>7, GainTail
<1>9. ASSUME client' = c, Recording' \/ busy' = "starting", NoGainIn(inbox')
      PROVE  gainMultiplier' = g
  <2>1. CASE h.cmd = "register"
    BY <1>2, <1>9, <2>1 DEF Handled, Fresh, Recording, Quits
  <2>2. CASE h.cmd = "start"
    <3>1. h.conn = client /\ client' = client /\ state' = state
      BY <1>2, <2>2 DEF Handled, Told, Quits
    <3>2. CASE state = "RECORDING"
      <4>1. gainMultiplier' = gainMultiplier
        BY <1>2, <2>2, <3>2 DEF Handled, Quits
      <4>2. Recording
        BY <3>2 DEF Recording
      <4> QED
        BY <1>7, <1>8, <1>9, <2>2, <3>1, <4>1, <4>2
    <3>3. CASE state # "RECORDING"
      <4>1. gainMultiplier' = h.gain
        BY <1>2, <2>2, <3>3 DEF Handled, Quits
      <4> QED
        BY <1>8, <1>9, <2>2, <3>1, <4>1
    <3> QED
      BY <3>2, <3>3
  <2>3. CASE h.cmd = "gain"
    <3>1. h.conn = client /\ client' = client /\ gainMultiplier' = h.gain
      BY <1>2, <2>3 DEF Handled, Told, Quits
    <3> QED
      BY <1>8, <1>9, <2>3, <3>1
  <2>4. CASE h.cmd \in {"pause", "resume"}
    <3>1. /\ client' = client /\ gainMultiplier' = gainMultiplier /\ busy' = busy
          /\ Recording' => Recording
      BY <1>2, <2>4 DEF Handled, Quits, Recording
    <3> QED
      BY <1>7, <1>8, <1>9, <2>4, <3>1
  <2>5. CASE h.cmd \in Quits
    <3>1. /\ client' = NoConn \/ client' = client
          /\ gainMultiplier' = gainMultiplier /\ state' = state
          /\ busy' \in {"no", "stopping"} /\ h.cmd # "gain"
      BY <1>2, <2>5 DEF Handled, Quits, Stopping
    <3> QED
      BY <1>5, <1>7, <1>8, <1>9, <3>1 DEF Recording
  <2> QED
    BY <1>2, <2>1, <2>2, <2>3, <2>4, <2>5 DEF Handled
<1> QED
  BY <1>3, <1>5, <1>6, <1>7, <1>8, <1>9 DEF GainInv

LEMMA GainOthers ==
  ASSUME "early" \notin Trouble, SessionInv, Known, GainInv,
         \/ Closes \/ Background \/ Passes \/ Create \/ ProcessDies
         \/ OnServiceConnected \/ OnServiceDisconnected
         \/ \E granted \in BOOLEAN : AnswerPermission(granted)
         \/ \E v \in Views : Tick(v)
         \/ \E c \in Conns : DeathNotice(c)
  PROVE  GainInv'
<1>1. /\ ViewTypes /\ ConnTypes /\ inbox \in Seq(CommandType) /\ looper \in Seq(MessageType)
      /\ \A c \in Conns : c # NoConn
      /\ Cur # NoConn => Cur \in Conns
  BY ConnFacts DEF SessionInv, SessionTypes, QueueTypes
<1>2. CASE Closes
  BY <1>2, ClosesDetails DEF GainInv
<1>3. CASE Background
  <2>1. ServiceSide /\ UNCHANGED <<inbox, client, gainMultiplier>> /\ Runs
    BY <1>3, BackgroundDetails
  <2>2. UNCHANGED <<panel, currentGain, pendingStartGain, isBound>> /\ Cur' = Cur
    BY <2>1 DEF ServiceSide, viewVars, connVars, Cur, ConnectionOf
  <2>3. Recording' \/ busy' = "starting" => Recording \/ busy = "starting"
    BY <2>1 DEF Runs, Recording, Stopping
  <2> QED
    BY <2>1, <2>2, <2>3 DEF GainInv
<1>4. CASE \/ Passes
           \/ \E granted \in BOOLEAN : AnswerPermission(granted)
           \/ \E v \in Views : Tick(v)
  <2>1. /\ UNCHANGED <<panel, currentGain, pendingStartGain, isBound, voiceConnection>>
        /\ UNCHANGED <<inbox, client, state, busy, gainMultiplier>>
    BY <1>4 DEF Passes, HandleServiceMessage, ShowState, CommitText, DropDeadBinder,
       AnswerPermission, Tick, viewVars, connVars, serviceVars, speechVars
  <2>2. Cur' = Cur
    BY <2>1 DEF Cur, ConnectionOf
  <2> QED
    BY <1>1, <2>1, <2>2, GainKept
<1>5. CASE OnServiceDisconnected \/ \E c \in Conns : DeathNotice(c)
  <2>1. /\ UNCHANGED <<panel, currentGain, pendingStartGain, voiceConnection>>
        /\ UNCHANGED <<inbox, client, state, busy, gainMultiplier>>
        /\ isBound' = isBound \/ \E c : isBound' = [isBound EXCEPT ![c] = FALSE]
    BY <1>5 DEF OnServiceDisconnected, DeathNotice, viewVars, serviceVars, speechVars
  <2>2. Cur' = Cur
    BY <2>1 DEF Cur, ConnectionOf
  <2>3. \A c \in Conns : isBound'[c] => isBound[c]
    BY <1>1, <2>1 DEF ConnTypes
  <2> QED
    BY <1>1, <2>1, <2>2, <2>3, GainKept
<1>6. CASE Create
  <2>1. /\ inbox # <<>> /\ Head(inbox).cmd = "create" /\ inbox' = Tail(inbox)
        /\ ServiceSide /\ UNCHANGED <<client, state, busy>>
    BY <1>6 DEF Create, Commanded, Service!Connect
  <2>2. UNCHANGED <<panel, currentGain, pendingStartGain, isBound>> /\ Cur' = Cur
    BY <2>1 DEF ServiceSide, viewVars, connVars, Cur, ConnectionOf
  <2>3. Head(inbox) = inbox[1]
    BY <1>1, <2>1, Shorter
  <2>4. Expected(inbox[1])
    BY <2>1 DEF SessionInv, InboxInv
  <2>5. client = NoConn
    BY <2>1, <2>3, <2>4 DEF Expected, Down
  <2>6. SUFFICES ASSUME Cur # NoConn PROVE GainInv'
    BY <2>2 DEF GainInv
  <2>7. PICK g : g = currentGain[panel]
    OBVIOUS
  <2>8. PICK c \in Conns : c = Cur
    BY <1>1, <2>6
  <2>9. GainAhead(inbox, c, g)
    BY <2>6, <2>7, <2>8 DEF GainInv
  <2>10. GainAhead(inbox', c, g)
    BY <1>1, <2>1, <2>9, GainTail
  <2> QED
    BY <1>1, <2>1, <2>2, <2>5, <2>7, <2>8, <2>10 DEF GainInv
<1>7. CASE ProcessDies
  <2>1. /\ UNCHANGED <<panel, currentGain, pendingStartGain, isBound>> /\ Cur' = Cur
        /\ client' = NoConn
        /\ inbox' = <<>> \/ inbox' = <<Command("create", NoConn, NoGain)>>
    BY <1>7 DEF ProcessDies, viewVars, connVars, Cur, ConnectionOf
  <2>2. \A c \in Conns : \A g : GainAhead(inbox', c, g)
    <3>1. CASE inbox' = <<>>
      <4>1. 1..Len(<<>>) = {}
        OBVIOUS
      <4> QED
        BY <3>1, <4>1 DEF GainAhead
    <3>2. CASE inbox' = <<Command("create", NoConn, NoGain)>>
      <4>1. PICK e : e = Command("create", NoConn, NoGain) /\ e.conn = NoConn
        BY CommandSays
      <4>2. 1..Len(<<e>>) = {1} /\ <<e>>[1] = e
        OBVIOUS
      <4>3. inbox' = <<e>>
        BY <3>2, <4>1
      <4> QED
        BY <1>1, <4>1, <4>2, <4>3 DEF GainAhead
    <3> QED
      BY <2>1, <3>1, <3>2
  <2>3. PICK g : g = currentGain[panel]
    OBVIOUS
  <2>4. Cur # NoConn => GainAhead(inbox', Cur, g)
    <3>1. ASSUME Cur # NoConn PROVE GainAhead(inbox', Cur, g)
      <4>1. PICK c \in Conns : c = Cur
        BY <1>1, <3>1
      <4> QED
        BY <2>2, <4>1
    <3> QED
      BY <3>1
  <2> QED
    BY <1>1, <2>1, <2>3, <2>4 DEF GainInv
<1>8. CASE OnServiceConnected
  <2>1. UNCHANGED <<panel, currentGain, client, state, busy, gainMultiplier>>
    BY <1>8 DEF OnServiceConnected, viewVars, serviceVars, speechVars
  <2>2. PICK c \in Conns :
            /\ c = Cur /\ Cur' = Cur /\ Fresh
            /\ pendingStartGain' = [pendingStartGain EXCEPT ![c] = NoGain]
            /\ \E r \in CommandType : r = Command("register", c, NoGain) /\
                 \/ inbox' = <<r>>
                 \/ \E s \in CommandType :
                      /\ s = Command("start", c, pendingStartGain[c])
                      /\ pendingStartGain[c] # NoGain /\ inbox' = <<r, s>>
    BY <1>8, ConnectedDetails
  <2>3. PICK g : g = currentGain[panel]
    OBVIOUS
  <2>4. pendingStartGain[c] \in {NoGain, g} /\ pendingStartGain'[c] = NoGain
    BY <1>1, <2>2, <2>3 DEF GainInv, ConnTypes
  <2>5. GainAhead(inbox', c, g)
    <3>1. PICK r \in CommandType : r.cmd = "register" /\
                 \/ inbox' = <<r>>
                 \/ \E s \in CommandType :
                      /\ s = Command("start", c, pendingStartGain[c])
                      /\ pendingStartGain[c] # NoGain /\ inbox' = <<r, s>>
      BY <2>2, CommandSays
    <3>2. CASE inbox' = <<r>>
      <4>1. 1..Len(<<r>>) = {1} /\ <<r>>[1] = r
        OBVIOUS
      <4> QED
        BY <3>1, <3>2, <4>1 DEF GainAhead, LastGain
    <3>3. CASE inbox' # <<r>>
      <4>1. PICK s \in CommandType : s.gain = g /\ inbox' = <<r, s>>
        BY <2>4, <3>1, <3>3, CommandSays
      <4>2. \A i \in 1..2 : i = 1 \/ i = 2
        OBVIOUS
      <4>3. Len(inbox') = 2 /\ inbox'[1] = r /\ inbox'[2] = s
        BY <4>1
      <4> QED
        BY <3>1, <4>1, <4>2, <4>3 DEF GainAhead, LastGain
    <3> QED
      BY <3>2, <3>3
  <2> QED
    BY <1>1, <2>1, <2>2, <2>3, <2>4, <2>5 DEF GainInv, Fresh
<1> QED
  BY <1>2, <1>3, <1>4, <1>5, <1>6, <1>7, <1>8

\* Quiet, a recording is that of the panel's connection: what ClosingLetsGo says.
LEMMA RecordsForPanel ==
  ASSUME SessionInv, Quiet, Recording
  PROVE  Cur # NoConn /\ client = Cur
<1> USE DEF SessionInv
<1>1. looper = <<>> /\ inbox = <<>> /\ busy = "no" /\ dead = {} /\ state # "IDLE"
  BY DEF Quiet, Recording
<1>2. Cur # NoConn
  BY <1>1 DEF BindingInv, NoService, Down
<1>3. Served(Cur)
  BY <1>1, <1>2 DEF BindingInv, Awaited, Arriving, Fresh
<1> QED
  BY <1>1, <1>2, <1>3 DEF Served

\* The gain of the recording is the one on the panel's pill, whatever commands,
\* connections and crashes were under way when it was tapped: startRecording(gain)
\* with pendingStartGain, setGain and AudioRecordPipeline's gainMultiplier.
THEOREM GainOnPill == "early" \notin Trouble => (Spec => []GainShown)
<1> SUFFICES ASSUME "early" \notin Trouble
             PROVE  Spec => []GainShown
  OBVIOUS
<1> DEFINE Inv == SessionInv /\ Known /\ GainInv
<1>1. Init => Inv
  <2> SUFFICES ASSUME Init PROVE Known /\ GainInv
    BY InitSound
  <2> USE DEF Init, Service!Init, Service!NoClient, NoView, NoConn
  <2>1. Cur = NoConn
    BY DEF Cur, ConnectionOf
  <2>2. inbox = <<>> /\ Len(<<>>) = 0 /\ \A i \in 1..0 : FALSE
    OBVIOUS
  <2>3. \A c \in 0..MaxConns : Talks(c) => c = 0
    BY <2>2 DEF Talks
  <2> QED
    BY <2>1, <2>3 DEF Known, GainInv
<1>2. Inv /\ [Next]_vars => Inv'
  <2> SUFFICES ASSUME Inv, [Next]_vars PROVE Inv'
    OBVIOUS
  <2>1. SessionInv'
    BY NextKeeps
  <2>2. CASE Next
    BY <2>1, <2>2, NextActions, KnownOpens, KnownAsks, KnownCloses, KnownOthers,
       GainOpens, GainAsks, GainCommands, GainOthers
  <2>3. CASE UNCHANGED vars
    <3>1. /\ UNCHANGED <<panel, currentGain, pendingStartGain, isBound, voiceConnection>>
          /\ UNCHANGED <<inbox, client, state, busy, gainMultiplier, listener, conns, published>>
      BY <2>3 DEF vars, viewVars, connVars, boundVars, systemVars, serviceVars, speechVars
    <3>2. Cur' = Cur /\ ViewTypes /\ \A c \in Conns : Talks(c)' => Talks(c)
      BY <3>1 DEF Cur, ConnectionOf, SessionInv, SessionTypes, Talks
    <3>3. Known' /\ GainInv'
      BY <3>1, <3>2, KnownKept, GainKept, ConnFacts
    <3> QED
      BY <2>1, <3>3
  <2> QED
    BY <2>2, <2>3
<1>3. Inv => GainShown
  <2> SUFFICES ASSUME Inv, Quiet, Recording PROVE gainMultiplier = currentGain[panel]
    BY DEF GainShown
  <2>1. Cur # NoConn /\ client = Cur
    BY RecordsForPanel
  <2>2. NoGainIn(inbox)
    <3>1. inbox = <<>> /\ 1..Len(<<>>) = {}
      BY DEF Quiet
    <3> QED
      BY <3>1 DEF NoGainIn
  <2> QED
    BY <2>1, <2>2 DEF GainInv
<1> QED
  BY <1>1, <1>2, <1>3, PTL DEF Spec

-----------------------------------------------------------------------------
(***************************************************************************)
(* What the panel shows of the recording: the inductive invariants.        *)
(***************************************************************************)

\* A state on the looper that the views behind the connections "C" will show, if
\* it is one of "K"; the last one there is "st" (events are posted again, behind
\* the posts); there is none.
Of(p) == {c \in Conns : listener[c] = p}
Shows(m, C, K) == m.kind \in {"event", "post"} /\ m.to \in C /\ m.state \in K
NoneShown(q, kind, C, K) == \A i \in 1..Len(q) : q[i].kind = kind => ~Shows(q[i], C, K)
LastShown(q, kind, C, K, st) ==
    \E k \in 1..Len(q) :
        /\ q[k].kind = kind /\ Shows(q[k], C, K) /\ q[k].state = st
        /\ \A i \in 1..Len(q) : i > k /\ q[i].kind = kind => ~Shows(q[i], C, K)
WillShow(q, C, K, st) ==
    \/ LastShown(q, "event", C, K, st)
    \/ NoneShown(q, "event", C, K) /\ LastShown(q, "post", C, K, st)
Settled(q, C, K) == NoneShown(q, "event", C, K) /\ NoneShown(q, "post", C, K)

\* What changes isRecording, and what changes isPaused: see ShowState.
Marks == {"IDLE", "RECORDING", "ERROR"}
Pauses == {"IDLE", "RECORDING", "PAUSED"}

\* A connected panel will show whether the service records, or shows it already.
Mark == IF state = "PAUSED" THEN "RECORDING" ELSE state
Connection == Cur # NoConn /\ client = Cur /\ busy = "no"
RecordingInv ==
    Connection =>
        \/ WillShow(looper, Of(panel), Marks, Mark)
        \/ Settled(looper, Of(panel), Marks) /\ (isRecording[panel] <=> Recording)

\* The last pause or resume under way.  A connected panel will show that the
\* service pauses, or shows it, or shows what the mic button has asked of it.
LastTap(q, cmd) ==
    \E j \in 1..Len(q) :
        /\ q[j].cmd = cmd
        /\ \A i \in 1..Len(q) : i > j => q[i].cmd \notin {"pause", "resume"}
PausedAsAsked ==
    \/ isPaused[panel] <=> state = "PAUSED"
    \/ isPaused[panel] /\ state = "RECORDING" /\ LastTap(inbox, "pause")
    \/ ~isPaused[panel] /\ state = "PAUSED" /\ LastTap(inbox, "resume")
PausedInv ==
    Connection /\ state # "ERROR" =>
        \/ WillShow(looper, Of(panel), Pauses, state)
        \/ Settled(looper, Of(panel), Pauses) /\ PausedAsAsked

\* Nothing is asked of a connection after the stop that lets go of it, and views
\* are numbered in the order of their creation.
StopsLast(q) ==
    \A i, j \in 1..Len(q) :
        q[i].cmd = "stop" /\ i < j /\ q[j].conn # NoConn => q[j].cmd \in {"stop", "unregister"}
NoStopOf(q, c) == \A i \in 1..Len(q) : q[i].cmd = "stop" => q[i].conn # c
StopInv == StopsLast(inbox) /\ (Cur # NoConn => NoStopOf(inbox, Cur))
ViewsInv ==
    /\ \A v \in Views : v > views => ~isRecording[v]
    /\ \A c \in Conns : listener[c] <= views
    /\ crashes = 0 => dead = {}

\* A panel that has let go of its connection will stop showing a recording: the
\* service has the stop before it, is busy with it, or has told of it.
WillStop ==
    \/ \E st \in {"IDLE", "ERROR"} : WillShow(looper, Of(panel), Marks, st)
    \/ Settled(looper, Of(panel), Marks) /\ ~isRecording[panel]
LeavesOnly(q, C) == \A i \in 1..Len(q) : q[i].conn \in C => q[i].cmd = "unregister"
StopIn(q, C) == \E i \in 1..Len(q) : q[i].cmd = "stop" /\ q[i].conn \in C
BusyStopping(C) == client \in C /\ busy = "stopping" /\ LeavesOnly(inbox, C)
HasStopped(C) ==
    WillStop /\ LeavesOnly(inbox, C) /\ (client \in C => busy = "no" /\ state = "IDLE")
Alone == crashes = 0 /\ panel # NoView /\ Cur = NoConn
LetGoOf(C) ==
    /\ client \in C /\ busy = "no" /\ ~Recording => WillStop
    /\ StopIn(inbox, C) \/ BusyStopping(C) \/ HasStopped(C)
LetGoInv == Alone => LetGoOf(Of(panel))

-----------------------------------------------------------------------------
(***************************************************************************)
(* What the panel will show, by the events on the looper.                  *)
(***************************************************************************)
LEMMA ShownAppend ==
  ASSUME NEW q \in Seq(MessageType), NEW e \in MessageType, NEW kind, NEW C, NEW K
  PROVE  /\ e.kind = kind /\ Shows(e, C, K) => LastShown(Append(q, e), kind, C, K, e.state)
         /\ ~(e.kind = kind /\ Shows(e, C, K)) =>
              /\ NoneShown(q, kind, C, K) => NoneShown(Append(q, e), kind, C, K)
              /\ \A st : LastShown(q, kind, C, K, st) => LastShown(Append(q, e), kind, C, K, st)
<1> DEFINE r == Append(q, e)
           n == Len(q) + 1
<1>1. /\ Len(q) \in Nat /\ Len(r) = n
      /\ \A i \in 1..Len(q) : r[i] = q[i] /\ i \in 1..Len(r)
      /\ r[n] = e /\ n \in 1..Len(r)
      /\ \A i \in 1..Len(r) : (i \in 1..Len(q) \/ i = n) /\ ~(i > n)
  BY Longer
<1> HIDE DEF r, n
<1>2. ASSUME e.kind = kind, Shows(e, C, K)
      PROVE  LastShown(r, kind, C, K, e.state)
  BY <1>1, <1>2 DEF LastShown
<1>3. ASSUME ~(e.kind = kind /\ Shows(e, C, K)), NoneShown(q, kind, C, K)
      PROVE  NoneShown(r, kind, C, K)
  BY <1>1, <1>3 DEF NoneShown
<1>4. ASSUME ~(e.kind = kind /\ Shows(e, C, K)), NEW st, LastShown(q, kind, C, K, st)
      PROVE  LastShown(r, kind, C, K, st)
  <2>1. PICK k \in 1..Len(q) :
          /\ q[k].kind = kind /\ Shows(q[k], C, K) /\ q[k].state = st
          /\ \A i \in 1..Len(q) : i > k /\ q[i].kind = kind => ~Shows(q[i], C, K)
    BY <1>4 DEF LastShown
  <2>2. k \in 1..Len(r) /\ r[k] = q[k]
    BY <1>1
  <2>3. \A i \in 1..Len(r) : i > k /\ r[i].kind = kind => ~Shows(r[i], C, K)
    BY <1>1, <1>4, <2>1
  <2> QED
    BY <2>1, <2>2, <2>3 DEF LastShown
<1> QED
  BY <1>2, <1>3, <1>4 DEF r

LEMMA ShownTail ==
  ASSUME NEW q \in Seq(MessageType), q # <<>>, NEW kind, NEW C, NEW K
  PROVE  /\ NoneShown(q, kind, C, K) =>
              NoneShown(Tail(q), kind, C, K) /\ ~(q[1].kind = kind /\ Shows(q[1], C, K))
         /\ \A st : LastShown(q, kind, C, K, st) =>
              \/ LastShown(Tail(q), kind, C, K, st)
              \/ /\ NoneShown(Tail(q), kind, C, K)
                 /\ q[1].kind = kind /\ Shows(q[1], C, K) /\ q[1].state = st
<1> DEFINE r == Tail(q)
<1>1. /\ Len(q) \in Nat \ {0} /\ Len(r) = Len(q) - 1 /\ 1 \in 1..Len(q)
      /\ \A i \in 1..Len(r) : r[i] = q[i + 1] /\ i + 1 \in 1..Len(q) /\ i + 1 > 1
      /\ \A j \in 1..Len(q) : j # 1 => j - 1 \in 1..Len(r) /\ q[j] = r[j - 1]
  <2>1. /\ Len(q) \in Nat \ {0} /\ Len(r) = Len(q) - 1
        /\ \A i \in 1..Len(r) : r[i] = q[i + 1]
    BY Shorter
  <2>2. \A j \in 1..Len(q) : j # 1 => j - 1 \in 1..Len(r) /\ (j - 1) + 1 = j
    BY <2>1
  <2> QED
    BY <2>1, <2>2
<1> HIDE DEF r
<1>2. ASSUME NoneShown(q, kind, C, K)
      PROVE  NoneShown(r, kind, C, K) /\ ~(q[1].kind = kind /\ Shows(q[1], C, K))
  BY <1>1, <1>2 DEF NoneShown
<1>3. ASSUME NEW st, LastShown(q, kind, C, K, st), ~LastShown(r, kind, C, K, st)
      PROVE  /\ NoneShown(r, kind, C, K)
             /\ q[1].kind = kind /\ Shows(q[1], C, K) /\ q[1].state = st
  <2>1. PICK k \in 1..Len(q) :
          /\ q[k].kind = kind /\ Shows(q[k], C, K) /\ q[k].state = st
          /\ \A i \in 1..Len(q) : i > k /\ q[i].kind = kind => ~Shows(q[i], C, K)
    BY <1>3 DEF LastShown
  <2>2. k = 1
    <3>1. SUFFICES ASSUME k # 1 PROVE FALSE
      OBVIOUS
    <3>2. k - 1 \in 1..Len(r) /\ r[k - 1] = q[k]
      BY <1>1, <3>1
    <3>3. \A i \in 1..Len(r) : i > k - 1 => i + 1 > k
      BY <1>1
    <3>4. \A i \in 1..Len(r) : i > k - 1 /\ r[i].kind = kind => ~Shows(r[i], C, K)
      BY <1>1, <2>1, <3>3
    <3> QED
      BY <1>3, <2>1, <3>2, <3>4 DEF LastShown
  <2>3. NoneShown(r, kind, C, K)
    BY <1>1, <2>1, <2>2 DEF NoneShown
  <2> QED
    BY <2>1, <2>2, <2>3
<1> QED
  BY <1>2, <1>3 DEF r

\* Two loopers that show the same in the end.
Same(q, r, C, K) ==
    /\ \A st : WillShow(q, C, K, st) => WillShow(r, C, K, st)
    /\ Settled(q, C, K) => Settled(r, C, K)

LEMMA SameItself == \A q, C, K : Same(q, q, C, K)
  BY DEF Same

LEMMA SameTwice ==
  ASSUME NEW q, NEW r, NEW s, NEW C, NEW K, Same(q, r, C, K), Same(r, s, C, K)
  PROVE  Same(q, s, C, K)
  BY DEF Same

LEMMA UnseenAppend ==
  ASSUME NEW q \in Seq(MessageType), NEW e \in MessageType, NEW C, NEW K, ~Shows(e, C, K)
  PROVE  Same(q, Append(q, e), C, K)
<1>1. \A kind : /\ NoneShown(q, kind, C, K) => NoneShown(Append(q, e), kind, C, K)
                /\ \A st : LastShown(q, kind, C, K, st) => LastShown(Append(q, e), kind, C, K, st)
  BY ShownAppend
<1> QED
  BY <1>1 DEF Same, WillShow, Settled

LEMMA UnseenHead ==
  ASSUME NEW q \in Seq(MessageType), q # <<>>, NEW C, NEW K, ~Shows(q[1], C, K)
  PROVE  Same(q, Tail(q), C, K)
<1>1. \A kind : /\ NoneShown(q, kind, C, K) => NoneShown(Tail(q), kind, C, K)
                /\ \A st : LastShown(q, kind, C, K, st) => LastShown(Tail(q), kind, C, K, st)
  BY ShownTail
<1> QED
  BY <1>1 DEF Same, WillShow, Settled

LEMMA SeenAppend ==
  ASSUME NEW q \in Seq(MessageType), NEW e \in MessageType, NEW C, NEW K,
         e.kind = "event", Shows(e, C, K)
  PROVE  WillShow(Append(q, e), C, K, e.state)
  BY ShownAppend DEF WillShow

\* The runnable of the listener shows what its event said.
LEMMA SeenHead ==
  ASSUME NEW q \in Seq(MessageType), q # <<>>, NEW C, NEW K,
         q[1].kind = "post", Shows(q[1], C, K)
  PROVE  /\ ~Settled(q, C, K)
         /\ \A st : WillShow(q, C, K, st) =>
              WillShow(Tail(q), C, K, st) \/ (Settled(Tail(q), C, K) /\ q[1].state = st)
<1>1. \A kind : /\ NoneShown(q, kind, C, K) =>
                     NoneShown(Tail(q), kind, C, K) /\ ~(q[1].kind = kind /\ Shows(q[1], C, K))
                /\ \A st : LastShown(q, kind, C, K, st) =>
                     \/ LastShown(Tail(q), kind, C, K, st)
                     \/ /\ NoneShown(Tail(q), kind, C, K)
                        /\ q[1].kind = kind /\ Shows(q[1], C, K) /\ q[1].state = st
  BY ShownTail
<1>2. ~NoneShown(q, "post", C, K)
  BY <1>1
<1>3. ASSUME NEW st, LastShown(q, "event", C, K, st) PROVE WillShow(Tail(q), C, K, st)
  BY <1>1, <1>3 DEF WillShow
<1>4. ASSUME NEW st, NoneShown(q, "event", C, K), LastShown(q, "post", C, K, st)
      PROVE  WillShow(Tail(q), C, K, st) \/ (Settled(Tail(q), C, K) /\ q[1].state = st)
  BY <1>1, <1>4 DEF WillShow, Settled
<1> QED
  BY <1>2, <1>3, <1>4 DEF WillShow, Settled

\* The listener posts: the event passes to the end of the looper.
LEMMA PassedOn ==
  ASSUME NEW q \in Seq(MessageType), q # <<>>, NEW C, NEW K, q[1].kind = "event"
  PROVE  Same(q, Append(Tail(q), [q[1] EXCEPT !.kind = "post"]), C, K)
<1>1. PICK h \in MessageType : h = q[1]
  BY Shorter
<1>2. PICK e \in MessageType : e = [h EXCEPT !.kind = "post"]
  BY <1>1, HeadFacts
<1>3. e.kind = "post" /\ e.to = h.to /\ e.state = h.state
  BY <1>1, <1>2 DEF MessageType
<1>4. PICK r \in Seq(MessageType) : r = Tail(q)
  BY Shorter
<1>5. Shows(e, C, K) <=> Shows(h, C, K)
  BY <1>1, <1>3 DEF Shows
<1>6. CASE ~Shows(h, C, K)
  <2>1. Same(q, r, C, K)
    BY <1>1, <1>4, <1>6, UnseenHead
  <2>2. Same(r, Append(r, e), C, K)
    BY <1>5, <1>6, UnseenAppend
  <2> QED
    BY <1>1, <1>2, <1>4, <2>1, <2>2, SameTwice
<1>7. CASE Shows(h, C, K)
  <2>1. ~NoneShown(q, "event", C, K)
    BY <1>1, <1>7, ShownTail
  <2>2. \A st : LastShown(q, "event", C, K, st) =>
                  \/ LastShown(r, "event", C, K, st)
                  \/ NoneShown(r, "event", C, K) /\ h.state = st
    BY <1>1, <1>4, ShownTail
  <2>3. /\ \A st : LastShown(r, "event", C, K, st) => LastShown(Append(r, e), "event", C, K, st)
        /\ NoneShown(r, "event", C, K) => NoneShown(Append(r, e), "event", C, K)
    BY <1>3, ShownAppend
  <2>4. LastShown(Append(r, e), "post", C, K, h.state)
    BY <1>3, <1>5, <1>7, ShownAppend
  <2>5. ASSUME NEW st, WillShow(q, C, K, st) PROVE WillShow(Append(r, e), C, K, st)
    BY <2>1, <2>2, <2>3, <2>4, <2>5 DEF WillShow
  <2> QED
    BY <1>1, <1>2, <1>4, <2>1, <2>5 DEF Same, Settled
<1> QED
  BY <1>6, <1>7

\* A state that will be shown is on the looper.
LEMMA ShownThere ==
  ASSUME NEW q, NEW C, NEW K, NEW st, WillShow(q, C, K, st)
  PROVE  \E i \in 1..Len(q) : Shows(q[i], C, K) /\ q[i].state = st
  BY DEF WillShow, LastShown

LEMMA EmptyShows ==
  ASSUME NEW C, NEW K, NEW st
  PROVE  ~WillShow(<<>>, C, K, st)
<1>1. 1..Len(<<>>) = {}
  OBVIOUS
<1> QED
  BY <1>1, ShownThere

-----------------------------------------------------------------------------
(***************************************************************************)
(* A connected panel.                                                      *)
(***************************************************************************)
LEMMA TapAppend ==
  ASSUME NEW q \in Seq(CommandType), NEW e \in CommandType, NEW cmd
  PROVE  /\ e.cmd = cmd => LastTap(Append(q, e), cmd)
         /\ e.cmd \notin {"pause", "resume"} /\ LastTap(q, cmd) => LastTap(Append(q, e), cmd)
<1> DEFINE r == Append(q, e)
           n == Len(q) + 1
<1>1. /\ Len(q) \in Nat /\ Len(r) = n
      /\ \A i \in 1..Len(q) : r[i] = q[i] /\ i \in 1..Len(r)
      /\ r[n] = e /\ n \in 1..Len(r)
      /\ \A i \in 1..Len(r) : (i \in 1..Len(q) \/ i = n) /\ ~(i > n)
  BY Longer
<1> HIDE DEF r, n
<1>2. ASSUME e.cmd = cmd PROVE LastTap(r, cmd)
  BY <1>1, <1>2 DEF LastTap
<1>3. ASSUME e.cmd \notin {"pause", "resume"}, LastTap(q, cmd) PROVE LastTap(r, cmd)
  <2>1. PICK j \in 1..Len(q) :
          /\ q[j].cmd = cmd
          /\ \A i \in 1..Len(q) : i > j => q[i].cmd \notin {"pause", "resume"}
    BY <1>3 DEF LastTap
  <2>2. j \in 1..Len(r) /\ r[j].cmd = cmd
    BY <1>1, <2>1
  <2>3. \A i \in 1..Len(r) : i > j => r[i].cmd \notin {"pause", "resume"}
    BY <1>1, <1>3, <2>1
  <2> QED
    BY <2>2, <2>3 DEF LastTap
<1> QED
  BY <1>2, <1>3 DEF r

LEMMA TapTail ==
  ASSUME NEW q \in Seq(CommandType), q # <<>>, NEW cmd, q[1].cmd # cmd, LastTap(q, cmd)
  PROVE  LastTap(Tail(q), cmd)
<1> DEFINE r == Tail(q)
<1>1. /\ Len(q) \in Nat \ {0} /\ Len(r) = Len(q) - 1
      /\ \A i \in 1..Len(r) : r[i] = q[i + 1] /\ i + 1 \in 1..Len(q)
  BY Shorter
<1> HIDE DEF r
<1>2. PICK j \in 1..Len(q) :
        /\ q[j].cmd = cmd
        /\ \A i \in 1..Len(q) : i > j => q[i].cmd \notin {"pause", "resume"}
  BY DEF LastTap
<1>3. j # 1
  BY <1>2
<1>4. j - 1 \in 1..Len(r) /\ (j - 1) + 1 = j
  BY <1>1, <1>3
<1>5. \A i \in 1..Len(r) : i > j - 1 => i + 1 > j
  BY <1>1
<1>6. r[j - 1].cmd = cmd
  <2>1. r[j - 1] = q[(j - 1) + 1]
    BY <1>1, <1>4
  <2> QED
    BY <1>2, <1>4, <2>1
<1>7. \A i \in 1..Len(r) : i > j - 1 => r[i].cmd \notin {"pause", "resume"}
  BY <1>1, <1>2, <1>5
<1>8. LastTap(r, cmd)
  BY <1>4, <1>6, <1>7 DEF LastTap
<1> QED
  BY <1>8 DEF r

\* A panel whose connection is the client's is bound to the service.
LEMMA ClientServed ==
  ASSUME SessionInv, Known, Cur # NoConn, client = Cur
  PROVE  Served(Cur) /\ panel \in Views /\ Cur \in Conns /\ Cur \in Of(panel)
<1>1. ViewTypes /\ ConnTypes /\ BindingInv
  BY DEF SessionInv, SessionTypes
<1>2. Cur \in Conns /\ Cur \in 0..MaxConns /\ panel \in Views
  BY <1>1, ConnFacts
<1>3. published
  <2>1. Talks(Cur)
    BY DEF Talks
  <2> QED
    BY <1>2, <2>1 DEF Known
<1>4. Served(Cur)
  BY <1>1, <1>3 DEF BindingInv, Awaited, Arriving, Fresh
<1> QED
  BY <1>2, <1>4 DEF Known, Of

\* Taps and their order are as they were, as far as they are still under way.
TapsKept == \A cmd \in {"pause", "resume"} : LastTap(inbox, cmd) => LastTap(inbox, cmd)'

\* A step that changes nothing of what there is to show.
LEMMA ShowsKept ==
  ASSUME RecordingInv, PausedInv, Connection' => Connection,
         Connection => /\ panel' = panel /\ Of(panel)' = Of(panel) /\ TapsKept
                       /\ Same(looper, looper', Of(panel), Marks)
                       /\ Same(looper, looper', Of(panel), Pauses),
         UNCHANGED <<state, isRecording, isPaused>>
  PROVE  RecordingInv' /\ PausedInv'
<1>1. SUFFICES ASSUME Connection PROVE RecordingInv' /\ PausedInv'
  BY DEF RecordingInv, PausedInv
<1>2. PICK C : C = Of(panel)
  OBVIOUS
<1>3. PICK r : r = looper'
  OBVIOUS
<1>4. PICK p : p = panel
  OBVIOUS
<1>5. PICK k : k = Mark
  OBVIOUS
<1>6. PICK st : st = state
  OBVIOUS
<1>7. /\ panel' = p /\ Of(panel)' = C /\ Mark' = k /\ state' = st /\ (Recording' <=> Recording)
  BY <1>1, <1>2, <1>4, <1>5, <1>6 DEF Mark, Recording
<1>8. WillShow(r, C, Marks, k) \/ (Settled(r, C, Marks) /\ (isRecording[p] <=> Recording))
  BY <1>1, <1>2, <1>3, <1>4, <1>5 DEF RecordingInv, Same
<1>9. RecordingInv'
  BY <1>3, <1>7, <1>8 DEF RecordingInv
<1>10. PausedAsAsked => PausedAsAsked'
  BY <1>1 DEF PausedAsAsked, TapsKept
<1>11. st # "ERROR" => WillShow(r, C, Pauses, st) \/ (Settled(r, C, Pauses) /\ PausedAsAsked')
  BY <1>1, <1>2, <1>3, <1>6, <1>10 DEF PausedInv, Same
<1>12. PausedInv'
  BY <1>3, <1>7, <1>11 DEF PausedInv
<1> QED
  BY <1>9, <1>12

LEMMA UnchangedShows ==
  ASSUME NEW C, NEW K, looper' = looper
  PROVE  Same(looper, looper', C, K)
<1>1. PICK q : q = looper
  OBVIOUS
<1>2. q = looper'
  BY <1>1
<1> QED
  BY <1>1, <1>2, SameItself

LEMMA TailShows ==
  ASSUME NEW C, NEW K, looper \in Seq(MessageType), looper # <<>>,
         Head(looper).kind \notin {"event", "post"} \/ Head(looper).state \notin K,
         looper' = Tail(looper)
  PROVE  Same(looper, looper', C, K)
<1>1. PICK q \in Seq(MessageType) : q = looper
  OBVIOUS
<1>2. Head(q) = q[1] /\ looper' = Tail(q) /\ q # <<>>
  BY <1>1, Shorter
<1>3. ~Shows(q[1], C, K)
  BY <1>1, <1>2 DEF Shows
<1> QED
  BY <1>1, <1>2, <1>3, UnseenHead

\* The panel opens, its microphone is tapped, or the permission is granted.  Only
\* a panel that had its connection before may be connected after it.
LEMMA OpensDetails ==
  ASSUME SessionInv, Known, Opens
  PROVE  /\ Cur' = Cur \/ ~Talks(Cur')
         /\ Cur' = NoConn => Cur = NoConn /\ UNCHANGED <<listener, inbox>>
         /\ Cur' = Cur /\ Cur # NoConn => panel' = panel /\ listener' = listener
         /\ \E v \in Views :
              \/ inbox' = inbox
              \/ inbox' = Append(inbox, Command("create", NoConn, NoGain))
              \/ /\ Cur # NoConn /\ Cur' = Cur /\ Reaches(Cur)
                 /\ inbox' = Append(inbox, Command("start", Cur, currentGain[v]))
         /\ looper' = looper \/ (looper # <<>> /\ Head(looper).kind = "start" /\ looper' = Tail(looper))
<1>1. /\ SessionTypes /\ PanelInv /\ MessagesInv /\ BindingInv /\ ViewTypes /\ ConnTypes
      /\ ServiceTypes /\ inbox \in Seq(CommandType)
  BY DEF SessionInv, SessionTypes, QueueTypes
<1>2. panel = NoView \/ panel' = panel
  BY <1>1, OpensCases
<1>3. PICK v \in Views, rest \in Seq(MessageType) : StartsFrom(v, rest)
  BY <1>1, OpensCases
<1>4. /\ v = panel' /\ voiceConnection[v] = Cur /\ StartVoiceInput(v, rest)
      /\ rest = looper \/ (looper # <<>> /\ Head(looper).kind = "start" /\ rest = Tail(looper))
  BY <1>3 DEF StartsFrom
<1>5. looper' = rest /\ (Asked(v) \/ Binds(v))
  BY <1>1, <1>4, StartCases
<1>6. Cur' = voiceConnection'[v]
  BY <1>4, CurFacts
<1>7. /\ Cur # NoConn => panel' = panel /\ Cur \in Conns /\ listener[Cur] = panel
      /\ client \in 0..MaxConns /\ conns \in Nat
  BY <1>1, <1>2, ConnFacts, SessionAssumption DEF ServiceTypes, ViewTypes, Known
<1>8. CASE ~permission
  <2>1. UNCHANGED <<conns, voiceConnection, listener, inbox>>
    BY <1>4, <1>8 DEF StartVoiceInput
  <2>2. Cur' = Cur
    BY <1>4, <1>6, <2>1
  <2> QED
    BY <1>4, <1>5, <1>7, <2>1, <2>2
<1>9. CASE permission
  <2>1. PICK c \in Conns :
            /\ c = IF Cur = NoConn THEN conns + 1 ELSE Cur
            /\ voiceConnection' = [voiceConnection EXCEPT ![v] = c]
            /\ listener' = [listener EXCEPT ![c] = v]
    BY <1>1, <1>4, <1>9, StartDetails
  <2>2. Cur' = c /\ c # NoConn
    BY <1>1, <1>4, <1>6, <2>1 DEF ViewTypes, Conns, NoConn
  <2>3. Talks(c) => Cur = c
    <3>1. SUFFICES ASSUME Talks(c), Cur = NoConn PROVE FALSE
      BY <2>1
    <3>2. c \in 0..MaxConns
      BY SessionAssumption DEF Conns
    <3>3. c = conns + 1 /\ c <= conns
      BY <2>1, <3>1, <3>2 DEF Known
    <3> QED
      BY <1>7, <3>3
  <2>4. Cur = c => listener' = listener
    BY <1>1, <1>4, <1>7, <2>1, <2>2 DEF ConnTypes
  <2>5. \/ inbox' = inbox
        \/ inbox' = Append(inbox, Command("create", NoConn, NoGain))
        \/ Cur = c /\ Reaches(c) /\ inbox' = Append(inbox, Command("start", c, currentGain[v]))
    <3>1. CASE Asked(v)
      BY <3>1 DEF Asked
    <3>2. CASE Binds(v)
      BY <1>6, <2>2, <3>2 DEF Binds, Called, Again, Started, Reaches
    <3> QED
      BY <1>5, <3>1, <3>2
  <2> QED
    BY <1>4, <1>5, <1>7, <2>2, <2>3, <2>4, <2>5
<1> QED
  BY <1>8, <1>9

LEMMA OpensViews ==
  ASSUME SessionInv, Opens
  PROVE  /\ panel' \in Views /\ panel' = views' /\ views' >= views
         /\ panel' = panel \/ (panel = NoView /\ panel' > views)
         /\ listener' = listener \/ \E c \in Conns : listener' = [listener EXCEPT ![c] = panel']
         /\ UNCHANGED <<crashes, isRecording, dead, state, busy>> /\ client' = client
<1>1. SessionTypes /\ PanelInv /\ MessagesInv /\ BindingInv /\ ViewTypes
  BY DEF SessionInv, SessionTypes
<1>2. /\ panel' = views' /\ panel' \in Views
      /\ panel = NoView \/ panel' = panel
      /\ UNCHANGED <<crashes, isRecording, dead, state, busy>> /\ client' = client
  BY <1>1, OpensCases DEF serviceVars, Views
<1>3. PICK v \in Views, rest \in Seq(MessageType) : StartsFrom(v, rest)
  BY <1>1, OpensCases
<1>4. v = panel' /\ voiceConnection[v] = Cur /\ StartVoiceInput(v, rest)
  BY <1>3 DEF StartsFrom
<1>5. listener' = listener \/ \E c \in Conns : listener' = [listener EXCEPT ![c] = panel']
  BY <1>1, <1>4, StartCases DEF Asked, Binds
<1>6. panel' = panel \/ (panel = NoView /\ views' = views + 1)
  <2>1. CASE ShowVoiceModal
    BY <2>1 DEF ShowVoiceModal
  <2>2. CASE TapMicStarts \/ StartWhenGranted
    BY <2>2 DEF TapMicStarts, StartWhenGranted
  <2> QED
    BY <2>1, <2>2 DEF Opens
<1>7. views' >= views /\ (panel' = panel \/ (panel = NoView /\ panel' > views))
  <2>1. views \in Nat /\ (panel = NoView \/ panel = views) /\ NoView \notin Views
    BY <1>1, ConnFacts, SessionAssumption DEF ViewTypes, PanelInv
  <2>2. PICK n : n = views'
    OBVIOUS
  <2>3. PICK p : p = panel'
    OBVIOUS
  <2>4. n >= views /\ (p = panel \/ (panel = NoView /\ p > views))
    <3>1. CASE p = panel
      BY <1>2, <2>1, <2>2, <2>3, <3>1
    <3>2. CASE panel = NoView /\ n = views + 1
      BY <1>2, <2>1, <2>2, <2>3, <3>2
    <3> QED
      BY <1>6, <2>2, <2>3, <3>1, <3>2
  <2> QED
    BY <2>2, <2>3, <2>4
<1> QED
  BY <1>2, <1>5, <1>7

LEMMA ShownOpens ==
  ASSUME SessionInv, Known, RecordingInv, PausedInv, Opens
  PROVE  RecordingInv' /\ PausedInv'
<1>1. /\ SessionTypes /\ PanelInv /\ MessagesInv /\ ViewTypes
      /\ looper \in Seq(MessageType) /\ inbox \in Seq(CommandType)
  BY DEF SessionInv, SessionTypes, QueueTypes
<1>2. UNCHANGED <<isRecording, isPaused, client, state, busy>>
  BY <1>1, OpensCases DEF serviceVars
<1>3. /\ client = Cur' => Cur' = Cur
      /\ Cur' = Cur /\ Cur # NoConn => panel' = panel /\ listener' = listener
      /\ looper' = looper \/ (looper # <<>> /\ Head(looper).kind = "start" /\ looper' = Tail(looper))
  BY OpensDetails DEF Talks
<1>4. Connection' => Connection /\ Cur' = Cur
  BY <1>2, <1>3 DEF Connection
<1>5. SUFFICES ASSUME Connection' PROVE RecordingInv' /\ PausedInv'
  BY DEF RecordingInv, PausedInv
<1>6. panel' = panel /\ Of(panel)' = Of(panel)
  BY <1>3, <1>4, <1>5 DEF Connection, Of
<1>7. TapsKept
  <2>1. PICK v \in Views :
          \/ inbox' = inbox
          \/ inbox' = Append(inbox, Command("create", NoConn, NoGain))
          \/ Cur # NoConn /\ inbox' = Append(inbox, Command("start", Cur, currentGain[v]))
    BY OpensDetails
  <2>2. CASE inbox' = inbox
    BY <2>2 DEF TapsKept, LastTap
  <2>3. CASE \E e \in CommandType : e.cmd \in {"create", "start"} /\ inbox' = Append(inbox, e)
    <3>1. PICK e \in CommandType : e.cmd \in {"create", "start"} /\ inbox' = Append(inbox, e)
      BY <2>3
    <3>2. \A cmd : LastTap(inbox, cmd) => LastTap(Append(inbox, e), cmd)
      BY <1>1, <3>1, TapAppend
    <3> QED
      BY <3>1, <3>2 DEF TapsKept, LastTap
  <2>4. Command("create", NoConn, NoGain) \in CommandType /\ Command("create", NoConn, NoGain).cmd = "create"
    BY SystemCommandFacts
  <2>5. \A c \in Conns : \A g \in {1, 2, 4} :
          Command("start", c, g) \in CommandType /\ Command("start", c, g).cmd = "start"
    BY CommandFacts DEF Told
  <2>6. (Cur # NoConn => Cur \in Conns) /\ currentGain[v] \in {1, 2, 4}
    BY <1>1, ConnFacts DEF ViewTypes
  <2> QED
    BY <2>1, <2>2, <2>3, <2>4, <2>5, <2>6
<1>8. \A C, K : Same(looper, looper', C, K)
  BY <1>1, <1>3, UnchangedShows, TailShows
<1> QED
  BY <1>2, <1>4, <1>6, <1>7, <1>8, ShowsKept

\* The mic button shows its effect before the service has agreed.
LEMMA ShownAsks ==
  ASSUME "early" \notin Trouble, SessionInv, Known, RecordingInv, PausedInv, Asks
  PROVE  RecordingInv' /\ PausedInv'
<1>1. /\ SessionTypes /\ ViewTypes /\ inbox \in Seq(CommandType) /\ state \in States
  BY DEF SessionInv, SessionTypes, QueueTypes, ServiceTypes, States
<1>2. /\ UNCHANGED <<panel, voiceConnection, isRecording>> /\ UNCHANGED connVars
      /\ UNCHANGED serviceVars /\ looper' = looper
  BY <1>1, AsksCases
<1>3. /\ UNCHANGED <<panel, listener, isRecording, client, state, busy, looper>>
      /\ Cur' = Cur
  BY <1>2 DEF connVars, serviceVars, Cur, ConnectionOf
<1>4. Of(panel)' = Of(panel) /\ Mark' = Mark /\ (Recording' <=> Recording) /\ (Connection' <=> Connection)
  BY <1>3 DEF Of, Mark, Recording, Connection
<1>5. SUFFICES ASSUME Connection PROVE RecordingInv' /\ PausedInv'
  BY <1>4 DEF RecordingInv, PausedInv
<1>6. RecordingInv'
  BY <1>3, <1>4 DEF RecordingInv
<1>7. Served(Cur) /\ panel \in Views /\ Cur \in Conns
  BY <1>5, ClientServed DEF Connection
<1>8. PICK cmd \in {"pause", "resume", "gain"}, g \in {NoGain, 1, 2, 4} :
        Shown(cmd, g) /\ Said(cmd, Cur, g)
  BY <1>1, AsksDetails
<1>9. PICK e \in CommandType : e.cmd = cmd /\ inbox' = Append(inbox, e)
  <2>1. Cur # NoConn /\ Reaches(Cur)
    BY <1>5, <1>7 DEF Connection, Served, Reaches
  <2>2. inbox' = Append(inbox, Command(cmd, Cur, g))
    BY <1>8, <2>1 DEF Said
  <2>3. Command(cmd, Cur, g) \in CommandType /\ Command(cmd, Cur, g).cmd = cmd
    BY <1>7, CommandFacts DEF Told
  <2> QED
    BY <2>2, <2>3
<1>10. \A tap : /\ cmd = tap => LastTap(inbox', tap)
                /\ cmd = "gain" /\ LastTap(inbox, tap) => LastTap(inbox', tap)
  BY <1>1, <1>9, TapAppend
<1>11. SUFFICES ASSUME state # "ERROR", Settled(looper, Of(panel), Pauses) PROVE PausedAsAsked'
  <2>1. WillShow(looper, Of(panel), Pauses, state) =>
            WillShow(looper', Of(panel)', Pauses, state')
    BY <1>3, <1>4
  <2>2. Settled(looper, Of(panel), Pauses) => Settled(looper', Of(panel)', Pauses)
    BY <1>3, <1>4
  <2> QED
    BY <1>3, <1>5, <1>6, <1>11, <2>1, <2>2 DEF PausedInv
<1>12. ~WillShow(looper, Of(panel), Pauses, state)
  <2>1. SUFFICES ASSUME WillShow(looper, Of(panel), Pauses, state) PROVE FALSE
    OBVIOUS
  <2>2. PICK i \in 1..Len(looper) : Shows(looper[i], Of(panel), Pauses)
    BY <2>1, ShownThere
  <2> QED
    BY <1>11, <2>2 DEF Settled, NoneShown, Shows
<1>13. PausedAsAsked
  BY <1>5, <1>11, <1>12 DEF PausedInv
<1>14. isRecording[panel] => state # "IDLE"
  <2>1. SUFFICES ASSUME isRecording[panel], state = "IDLE" PROVE FALSE
    OBVIOUS
  <2>2. Mark = "IDLE" /\ ~Recording
    BY <2>1 DEF Mark, Recording
  <2>3. WillShow(looper, Of(panel), Marks, "IDLE")
    BY <1>5, <2>1, <2>2 DEF RecordingInv
  <2>4. PICK i \in 1..Len(looper) : Shows(looper[i], Of(panel), Marks) /\ looper[i].state = "IDLE"
    BY <2>3, ShownThere
  <2> QED
    BY <1>11, <2>4 DEF Settled, NoneShown, Shows, Pauses
<1>15. isPaused \in [Views -> BOOLEAN]
  BY <1>1 DEF ViewTypes
<1>16. CASE cmd = "gain"
  <2>1. isPaused' = isPaused
    BY <1>8, <1>16 DEF Shown
  <2> QED
    BY <1>3, <1>10, <1>13, <1>16, <2>1 DEF PausedAsAsked
<1>17. CASE cmd = "pause"
  <2>1. isPaused'[panel] /\ isRecording[panel]
    BY <1>7, <1>8, <1>15, <1>17 DEF Shown
  <2>2. state \in {"RECORDING", "PAUSED"}
    BY <1>1, <1>11, <1>14, <2>1 DEF States
  <2> QED
    BY <1>3, <1>10, <1>17, <2>1, <2>2 DEF PausedAsAsked
<1>18. CASE cmd = "resume"
  <2>1. ~isPaused'[panel]
    BY <1>7, <1>8, <1>15, <1>18 DEF Shown
  <2> QED
    BY <1>3, <1>10, <1>18, <2>1 DEF PausedAsAsked
<1> QED
  BY <1>16, <1>17, <1>18

\* The service tells a state, or sends a text.
LEMMA EventShows ==
  ASSUME looper \in Seq(MessageType), NEW c \in Conns, NEW st \in States,
         looper' = Append(looper, StateOf("event", c, st)), NEW C, NEW K
  PROVE  /\ c \in C /\ st \in K => WillShow(looper', C, K, st)
         /\ ~(c \in C /\ st \in K) => Same(looper, looper', C, K)
<1>1. PICK q \in Seq(MessageType) : q = looper
  OBVIOUS
<1>2. PICK e \in MessageType : e = StateOf("event", c, st)
  BY MessageFacts DEF States
<1>3. e.kind = "event" /\ e.to = c /\ e.state = st
  BY <1>2 DEF StateOf
<1>4. looper' = Append(q, e)
  BY <1>1, <1>2
<1>5. Shows(e, C, K) <=> c \in C /\ st \in K
  BY <1>3 DEF Shows
<1>6. Shows(e, C, K) => WillShow(Append(q, e), C, K, st)
  BY <1>3, SeenAppend
<1>7. ~Shows(e, C, K) => Same(q, Append(q, e), C, K)
  BY UnseenAppend
<1> QED
  BY <1>1, <1>4, <1>5, <1>6, <1>7

LEMMA TellShows ==
  ASSUME SessionTypes, NEW st \in States, Tell(st), NEW C \in SUBSET Conns, NEW K
  PROVE  /\ client \in C /\ st \in K => WillShow(looper', C, K, st)
         /\ ~(client \in C /\ st \in K) => Same(looper, looper', C, K)
<1>1. looper \in Seq(MessageType) /\ (client = NoConn \/ client \in Conns) /\ NoConn \notin C
  BY ConnFacts DEF SessionTypes, QueueTypes, ServiceTypes
<1>2. CASE client = NoConn
  <2>1. looper' = looper
    BY <1>2 DEF Tell
  <2> QED
    BY <1>1, <1>2, <2>1, UnchangedShows
<1>3. CASE client # NoConn
  <2>1. PICK c \in Conns : c = client
    BY <1>1, <1>3
  <2>2. looper' = Append(looper, StateOf("event", c, st))
    BY <1>3, <2>1 DEF Tell
  <2> QED
    BY <1>1, <2>1, <2>2, EventShows
<1> QED
  BY <1>2, <1>3

LEMMA TextShows ==
  ASSUME SessionTypes, client # NoConn, NEW C, NEW K, "none" \notin K,
         looper' = Append(looper, TextOf("event", client, passSpeaker))
  PROVE  Same(looper, looper', C, K)
<1>1. PICK q \in Seq(MessageType) : q = looper
  BY DEF SessionTypes, QueueTypes
<1>2. PICK c \in Conns : c = client
  BY ConnFacts DEF SessionTypes, ServiceTypes
<1>3. PICK n \in Nat : n = passSpeaker
  BY SessionAssumption DEF SessionTypes, ServiceTypes
<1>4. PICK e \in MessageType : e = TextOf("event", c, n)
  BY MessageFacts
<1>5. ~Shows(e, C, K)
  BY <1>4 DEF TextOf, Shows
<1>6. looper' = Append(q, e)
  BY <1>1, <1>2, <1>3, <1>4
<1>7. Same(q, Append(q, e), C, K)
  BY <1>5, UnseenAppend
<1> QED
  BY <1>1, <1>6, <1>7

\* The service tells the panel's connection of its new state.
LEMMA ToldAfresh ==
  ASSUME NEW C \in SUBSET Conns, Of(panel)' = C,
         state' \in Marks => WillShow(looper', C, Marks, state'),
         state' \in Pauses => WillShow(looper', C, Pauses, state'),
         state' = "PAUSED" => RecordingInv',
         state' \in States
  PROVE  RecordingInv' /\ PausedInv'
<1>1. RecordingInv'
  <2>1. CASE state' = "PAUSED"
    BY <2>1
  <2>2. CASE state' # "PAUSED"
    <3>1. Mark' = state' /\ state' \in Marks
      BY <2>2 DEF Mark, Marks, States
    <3> QED
      BY <3>1 DEF RecordingInv
  <2> QED
    BY <2>1, <2>2
<1>2. PausedInv'
  <2>1. state' # "ERROR" => state' \in Pauses
    BY DEF Pauses, States
  <2> QED
    BY <2>1 DEF PausedInv
<1> QED
  BY <1>1, <1>2

LEMMA ShownCommands ==
  ASSUME SessionInv, Known, RecordingInv, PausedInv, Commands
  PROVE  RecordingInv' /\ PausedInv'
<1>1. /\ SessionTypes /\ inbox \in Seq(CommandType) /\ looper \in Seq(MessageType)
      /\ state \in States /\ ViewTypes
  BY DEF SessionInv, SessionTypes, QueueTypes, ServiceTypes, States
<1>2. PICK h \in CommandType :
            /\ inbox # <<>> /\ h = Head(inbox) /\ h = inbox[1] /\ inbox' = Tail(inbox)
            /\ busy = "no" /\ ServiceSide /\ published' = published
            /\ h.cmd \in Told => h.conn = client
            /\ Handled(h)
  BY CommandsDetails
<1>3. UNCHANGED <<panel, isRecording, isPaused, listener>> /\ Cur' = Cur
  BY <1>2 DEF ServiceSide, viewVars, connVars, Cur, ConnectionOf
<1>4. PICK C \in SUBSET Conns : C = Of(panel)
  BY DEF Of
<1>5. Of(panel)' = C
  BY <1>3, <1>4 DEF Of
<1>6. \A cmd : h.cmd # cmd /\ LastTap(inbox, cmd) => LastTap(inbox', cmd)
  BY <1>1, <1>2, TapTail
<1>7. SUFFICES ASSUME Connection' PROVE RecordingInv' /\ PausedInv'
  BY DEF RecordingInv, PausedInv
<1>8. Cur \in Conns /\ Cur # NoConn /\ client' = Cur /\ busy' = "no" /\ Cur \in C
  BY <1>1, <1>3, <1>4, <1>7, ConnFacts DEF Connection, Known, Of
<1>9. ASSUME client' = client, state' = state, looper' = looper,
             state = "RECORDING" => h.cmd # "pause",
             state = "PAUSED" => h.cmd # "resume"
      PROVE  RecordingInv' /\ PausedInv'
  <2>1. Connection
    BY <1>2, <1>8, <1>9 DEF Connection
  <2>2. Mark' = Mark /\ (Recording' <=> Recording)
    BY <1>9 DEF Mark, Recording
  <2>3. RecordingInv'
    <3>1. WillShow(looper, C, Marks, Mark) \/ (Settled(looper, C, Marks) /\ (isRecording[panel] <=> Recording))
      BY <1>4, <2>1 DEF RecordingInv
    <3> QED
      BY <1>3, <1>5, <1>9, <2>2, <3>1 DEF RecordingInv
  <2>4. PausedAsAsked => PausedAsAsked'
    <3>1. h.cmd # "pause" \/ state # "RECORDING"
      BY <1>9
    <3>2. h.cmd # "resume" \/ state # "PAUSED"
      BY <1>9
    <3> QED
      BY <1>3, <1>6, <1>9, <3>1, <3>2 DEF PausedAsAsked
  <2>5. PausedInv'
    <3>1. state # "ERROR" => WillShow(looper, C, Pauses, state) \/ (Settled(looper, C, Pauses) /\ PausedAsAsked)
      BY <1>4, <2>1 DEF PausedInv
    <3> QED
      BY <1>5, <1>9, <2>4, <3>1 DEF PausedInv
  <2> QED
    BY <2>3, <2>5
<1>10. CASE h.cmd = "register"
  <2>1. /\ state' = "IDLE" /\ h.conn = Cur
        /\ looper' = Append(looper, StateOf("event", h.conn, state)) /\ state = "IDLE"
    BY <1>2, <1>8, <1>10 DEF Handled, Fresh, Quits
  <2>2. PICK c \in Conns : c = h.conn
    BY <1>8, <2>1
  <2>3. looper' = Append(looper, StateOf("event", c, "IDLE"))
    BY <2>1, <2>2
  <2>4. /\ WillShow(looper', C, Marks, "IDLE")
        /\ WillShow(looper', C, Pauses, "IDLE")
    BY <1>1, <1>8, <2>1, <2>2, <2>3, EventShows DEF Marks, Pauses, States
  <2> QED
    BY <1>5, <2>1, <2>4, ToldAfresh DEF States
<1>11. CASE h.cmd = "start"
  <2>1. client' = client /\ state' = state /\ looper' = looper
    BY <1>2, <1>11 DEF Handled, Quits
  <2> QED
    BY <1>9, <1>11, <2>1
<1>12. CASE h.cmd = "gain"
  <2>1. client' = client /\ state' = state /\ looper' = looper
    BY <1>2, <1>12 DEF Handled, Quits
  <2> QED
    BY <1>9, <1>12, <2>1
<1>13. CASE h.cmd \in {"pause", "resume"}
  <2>1. client' = client /\
        \/ h.cmd = "pause" /\ state = "RECORDING" /\ state' = "PAUSED" /\ Tell("PAUSED")
        \/ h.cmd = "resume" /\ state = "PAUSED" /\ state' = "RECORDING" /\ Tell("RECORDING")
        \/ /\ h.cmd = "pause" => state # "RECORDING"
           /\ h.cmd = "resume" => state # "PAUSED"
           /\ UNCHANGED <<state, looper>>
    BY <1>2, <1>13 DEF Handled, Quits
  <2>2. client \in C
    BY <1>8, <2>1
  <2>3. CASE h.cmd = "pause" /\ state = "RECORDING" /\ state' = "PAUSED" /\ Tell("PAUSED")
    <3>1. WillShow(looper', C, Pauses, "PAUSED") /\ Same(looper, looper', C, Marks)
      BY <1>1, <2>2, <2>3, TellShows DEF Marks, Pauses, States
    <3>2. Connection /\ Mark' = Mark /\ Recording' /\ Recording
      BY <1>2, <1>8, <2>1, <2>3 DEF Connection, Mark, Recording
    <3>3. WillShow(looper, C, Marks, Mark) \/ (Settled(looper, C, Marks) /\ (isRecording[panel] <=> Recording))
      BY <1>4, <3>2 DEF RecordingInv
    <3>4. RecordingInv'
      BY <1>3, <1>5, <3>1, <3>2, <3>3 DEF RecordingInv, Same
    <3> QED
      BY <1>5, <2>3, <3>1, <3>4, ToldAfresh DEF States, Marks
  <2>4. CASE h.cmd = "resume" /\ state = "PAUSED" /\ state' = "RECORDING" /\ Tell("RECORDING")
    <3>1. WillShow(looper', C, Pauses, "RECORDING") /\ WillShow(looper', C, Marks, "RECORDING")
      BY <1>1, <2>2, <2>4, TellShows DEF Marks, Pauses, States
    <3> QED
      BY <1>5, <2>4, <3>1, ToldAfresh DEF States
  <2>5. CASE /\ h.cmd = "pause" => state # "RECORDING"
             /\ h.cmd = "resume" => state # "PAUSED"
             /\ UNCHANGED <<state, looper>>
    BY <1>9, <2>1, <2>5
  <2> QED
    BY <2>1, <2>3, <2>4, <2>5
<1>14. CASE h.cmd \in Quits
  <2>1. client' = client /\ state' = state /\ looper' = looper
    BY <1>2, <1>8, <1>14 DEF Handled, Quits
  <2> QED
    BY <1>9, <1>14, <2>1 DEF Quits
<1> QED
  BY <1>2, <1>10, <1>11, <1>12, <1>13, <1>14 DEF Handled

LEMMA ShownBackground ==
  ASSUME SessionInv, Known, RecordingInv, PausedInv, Background
  PROVE  RecordingInv' /\ PausedInv'
<1>1. /\ SessionTypes /\ looper \in Seq(MessageType) /\ state \in States /\ ViewTypes
  BY DEF SessionInv, SessionTypes, QueueTypes, ServiceTypes, States
<1>2. ServiceSide /\ UNCHANGED <<inbox, client>> /\ Runs
  BY BackgroundDetails
<1>3. UNCHANGED <<panel, isRecording, isPaused, listener>> /\ Cur' = Cur
  BY <1>2 DEF ServiceSide, viewVars, connVars, Cur, ConnectionOf
<1>4. PICK C \in SUBSET Conns : C = Of(panel)
  BY DEF Of
<1>5. Of(panel)' = C
  BY <1>3, <1>4 DEF Of
<1>6. SUFFICES ASSUME Connection' PROVE RecordingInv' /\ PausedInv'
  BY DEF RecordingInv, PausedInv
<1>7. client \in C /\ busy' = "no"
  BY <1>1, <1>2, <1>3, <1>4, <1>6, ConnFacts DEF Connection, Known, Of
<1>8. ASSUME NEW st \in {"IDLE", "RECORDING", "ERROR"}, state' = st, Tell(st)
      PROVE  RecordingInv' /\ PausedInv'
  <2>1. /\ st \in Marks => WillShow(looper', C, Marks, st)
        /\ st \in Pauses => WillShow(looper', C, Pauses, st)
    BY <1>1, <1>7, <1>8, TellShows DEF States
  <2> QED
    BY <1>5, <1>8, <2>1, ToldAfresh DEF States
<1>9. ASSUME busy = "no", state' = state,
             Same(looper, looper', C, Marks), Same(looper, looper', C, Pauses)
      PROVE  RecordingInv' /\ PausedInv'
  <2>1. Connection
    BY <1>2, <1>3, <1>6, <1>9 DEF Connection
  <2>2. TapsKept
    BY <1>2 DEF TapsKept, LastTap
  <2> QED
    BY <1>3, <1>4, <1>5, <1>9, <2>1, <2>2, ShowsKept
<1>10. CASE looper' = looper /\ state' = state /\ busy = "no"
  BY <1>9, <1>10, UnchangedShows
<1>11. CASE /\ client # NoConn /\ UNCHANGED <<state, busy>>
            /\ looper' = Append(looper, TextOf("event", client, passSpeaker))
  BY <1>1, <1>7, <1>9, <1>11, TextShows DEF Marks, Pauses
<1>12. CASE state' \in {"IDLE", "RECORDING", "ERROR"} /\ Tell(state')
  BY <1>8, <1>12
<1> QED
  BY <1>2, <1>7, <1>10, <1>11, <1>12 DEF Runs

\* A message at the head of the looper: the listener posts what it says, or the
\* views behind its connection show it.
Unchanging == UNCHANGED <<panel, voiceConnection, listener, client, state, busy, inbox>>
HeadShown(h, C) ==
    /\ Shows(h, C, Marks) => (isRecording'[panel] <=> h.state = "RECORDING")
    /\ ~Shows(h, C, Marks) => isRecording'[panel] = isRecording[panel]
    /\ Shows(h, C, Pauses) => (isPaused'[panel] <=> h.state = "PAUSED")
    /\ ~Shows(h, C, Pauses) => isPaused'[panel] = isPaused[panel]

LEMMA PassesDetails ==
  ASSUME SessionTypes, Passes
  PROVE  /\ Unchanging /\ UNCHANGED <<views, crashes, dead>>
         /\ \E h \in MessageType :
              /\ looper # <<>> /\ h = looper[1] /\ h = Head(looper)
              /\ \/ /\ h.kind = "event" /\ UNCHANGED <<isRecording, isPaused>>
                    /\ looper' = Append(Tail(looper), [looper[1] EXCEPT !.kind = "post"])
                 \/ /\ h.state = "none" /\ UNCHANGED <<isRecording, isPaused>>
                    /\ looper' = Tail(looper)
                 \/ /\ h.kind = "post" /\ looper' = Tail(looper) /\ h.to \in Conns
                    /\ \A v \in Views : v # listener[h.to] => isRecording'[v] = isRecording[v]
                    /\ panel \in Views => HeadShown(h, Of(panel))
<1>1. Unchanging /\ UNCHANGED <<views, crashes, dead>>
  BY DEF Passes, HandleServiceMessage, ShowState, CommitText, DropDeadBinder, Unchanging,
     boundVars, viewVars, connVars, systemVars, serviceVars
<1>2. looper \in Seq(MessageType) /\ looper # <<>> /\ ViewTypes
  BY DEF SessionTypes, QueueTypes, Passes, HandleServiceMessage, ShowState, CommitText,
     DropDeadBinder, Receives
<1>3. PICK h \in MessageType : h = looper[1] /\ h = Head(looper)
  BY <1>2, Shorter
<1>4. CASE HandleServiceMessage
  BY <1>1, <1>2, <1>3, <1>4 DEF HandleServiceMessage, Receives, Got, viewVars
<1>5. CASE CommitText
  BY <1>1, <1>2, <1>3, <1>5 DEF CommitText, Receives, Got, viewVars
<1>6. CASE DropDeadBinder
  BY <1>1, <1>2, <1>3, <1>6, HeadFacts DEF DropDeadBinder, Receives, Got, viewVars
<1>7. CASE ShowState
  <2>1. PICK v : v = listener[h.to]
    OBVIOUS
  <2>2. /\ h.kind = "post" /\ h.state # "none" /\ looper' = Tail(looper)
        /\ isRecording' = [isRecording EXCEPT ![v] =
                             CASE h.state = "RECORDING" -> TRUE
                               [] h.state = "PAUSED" -> @
                               [] OTHER -> FALSE]
        /\ isPaused' = [isPaused EXCEPT ![v] =
                          CASE h.state = "PAUSED" -> TRUE
                            [] h.state = "ERROR" -> @
                            [] OTHER -> FALSE]
    BY <1>3, <1>7, <2>1 DEF ShowState, Receives, Got
  <2>3. h.to \in Conns /\ h.state \in States
    BY <1>3, <2>2, HeadFacts DEF MessageType, States
  <2>4. \A u \in Views : u # v => isRecording'[u] = isRecording[u] /\ isPaused'[u] = isPaused[u]
    BY <1>2, <2>2 DEF ViewTypes
  <2>5. ASSUME v \in Views
        PROVE  /\ h.state \in Marks => (isRecording'[v] <=> h.state = "RECORDING")
               /\ h.state = "PAUSED" => isRecording'[v] = isRecording[v]
               /\ h.state \in Pauses => (isPaused'[v] <=> h.state = "PAUSED")
               /\ h.state = "ERROR" => isPaused'[v] = isPaused[v]
    BY <1>2, <2>2, <2>5 DEF ViewTypes, Marks, Pauses
  <2>6. ASSUME panel \in Views PROVE HeadShown(h, Of(panel))
    <3>1. h.to \in Of(panel) <=> v = panel
      BY <2>1, <2>3 DEF Of
    <3>2. \A K : Shows(h, Of(panel), K) <=> v = panel /\ h.state \in K
      BY <2>2, <3>1 DEF Shows
    <3>3. h.state \notin Marks => h.state = "PAUSED"
      BY <2>3 DEF Marks, States
    <3>4. h.state \notin Pauses => h.state = "ERROR"
      BY <2>3 DEF Pauses, States
    <3> QED
      BY <2>4, <2>5, <2>6, <3>2, <3>3, <3>4 DEF HeadShown
  <2> QED
    BY <1>1, <1>2, <1>3, <2>1, <2>2, <2>3, <2>4, <2>6
<1> QED
  BY <1>4, <1>5, <1>6, <1>7 DEF Passes

LEMMA ShownPasses ==
  ASSUME SessionInv, Known, RecordingInv, PausedInv, Passes
  PROVE  RecordingInv' /\ PausedInv'
<1>1. SessionTypes /\ looper \in Seq(MessageType) /\ ViewTypes
  BY DEF SessionInv, SessionTypes, QueueTypes
<1>2. Unchanging /\ \E h \in MessageType :
              /\ looper # <<>> /\ h = looper[1] /\ h = Head(looper)
              /\ \/ /\ h.kind = "event" /\ UNCHANGED <<isRecording, isPaused>>
                    /\ looper' = Append(Tail(looper), [looper[1] EXCEPT !.kind = "post"])
                 \/ /\ h.state = "none" /\ UNCHANGED <<isRecording, isPaused>>
                    /\ looper' = Tail(looper)
                 \/ /\ h.kind = "post" /\ looper' = Tail(looper)
                    /\ panel \in Views => HeadShown(h, Of(panel))
  BY <1>1, PassesDetails
<1>3. UNCHANGED <<panel, listener, client, state, busy, inbox>> /\ Cur' = Cur
  BY <1>2 DEF Unchanging, Cur, ConnectionOf
<1>4. Of(panel)' = Of(panel) /\ Mark' = Mark /\ (Recording' <=> Recording) /\ (Connection' <=> Connection)
  BY <1>3 DEF Of, Mark, Recording, Connection
<1>5. PICK h \in MessageType :
              /\ looper # <<>> /\ h = looper[1] /\ h = Head(looper)
              /\ \/ /\ h.kind = "event" /\ UNCHANGED <<isRecording, isPaused>>
                    /\ looper' = Append(Tail(looper), [looper[1] EXCEPT !.kind = "post"])
                 \/ /\ h.state = "none" /\ UNCHANGED <<isRecording, isPaused>>
                    /\ looper' = Tail(looper)
                 \/ /\ h.kind = "post" /\ looper' = Tail(looper)
                    /\ panel \in Views => HeadShown(h, Of(panel))
  BY <1>2
<1>6. TapsKept
  BY <1>3 DEF TapsKept, LastTap
<1>7. CASE /\ h.kind = "event" /\ UNCHANGED <<isRecording, isPaused>>
           /\ looper' = Append(Tail(looper), [looper[1] EXCEPT !.kind = "post"])
  <2>1. \A C, K : Same(looper, looper', C, K)
    BY <1>1, <1>5, <1>7, PassedOn
  <2> QED
    BY <1>3, <1>4, <1>6, <1>7, <2>1, ShowsKept
<1>8. CASE h.state = "none" /\ UNCHANGED <<isRecording, isPaused>> /\ looper' = Tail(looper)
  <2>1. \A C : Same(looper, looper', C, Marks) /\ Same(looper, looper', C, Pauses)
    BY <1>1, <1>5, <1>8, TailShows DEF Marks, Pauses
  <2> QED
    BY <1>3, <1>4, <1>6, <1>8, <2>1, ShowsKept
<1>9. CASE /\ h.kind = "post" /\ looper' = Tail(looper)
           /\ panel \in Views => HeadShown(h, Of(panel))
  <2>1. SUFFICES ASSUME Connection PROVE RecordingInv' /\ PausedInv'
    BY <1>4 DEF RecordingInv, PausedInv
  <2>2. PICK C : C = Of(panel)
    OBVIOUS
  <2>3. HeadShown(h, C) /\ panel' = panel /\ Of(panel)' = C
    BY <1>1, <1>3, <1>4, <1>9, <2>1, <2>2, ConnFacts DEF Connection
  <2>4. \A K : ~Shows(h, C, K) => Same(looper, looper', C, K)
    BY <1>1, <1>5, <1>9, UnseenHead
  <2>5. ASSUME NEW K, Shows(h, C, K)
        PROVE  /\ ~Settled(looper, C, K)
               /\ \A st : WillShow(looper, C, K, st) =>
                    WillShow(looper', C, K, st) \/ (Settled(looper', C, K) /\ h.state = st)
    <3>1. PICK q \in Seq(MessageType) : q = looper
      BY <1>1
    <3>2. q # <<>> /\ q[1] = h /\ looper' = Tail(q)
      BY <1>5, <1>9, <3>1
    <3>3. /\ ~Settled(q, C, K)
          /\ \A st : WillShow(q, C, K, st) =>
               WillShow(Tail(q), C, K, st) \/ (Settled(Tail(q), C, K) /\ q[1].state = st)
      BY <1>9, <2>5, <3>2, SeenHead
    <3> QED
      BY <3>1, <3>2, <3>3
  <2>6. RecordingInv'
    <3>1. WillShow(looper, C, Marks, Mark) \/ (Settled(looper, C, Marks) /\ (isRecording[panel] <=> Recording))
      BY <2>1, <2>2 DEF RecordingInv
    <3>2. Mark = "RECORDING" <=> Recording
      BY DEF Mark, Recording
    <3>3. \/ WillShow(looper', C, Marks, Mark)
          \/ Settled(looper', C, Marks) /\ (isRecording'[panel] <=> Recording)
      BY <2>3, <2>4, <2>5, <3>1, <3>2 DEF HeadShown, Same
    <3> QED
      BY <1>4, <2>3, <3>3 DEF RecordingInv
  <2>7. PausedInv'
    <3>1. SUFFICES ASSUME state # "ERROR" PROVE PausedInv'
      BY <1>3 DEF PausedInv
    <3>2. WillShow(looper, C, Pauses, state) \/ (Settled(looper, C, Pauses) /\ PausedAsAsked)
      BY <2>1, <2>2, <3>1 DEF PausedInv
    <3>3. isPaused'[panel] = isPaused[panel] /\ PausedAsAsked => PausedAsAsked'
      BY <1>3 DEF PausedAsAsked
    <3>4. (isPaused'[panel] <=> state = "PAUSED") => PausedAsAsked'
      BY <1>3 DEF PausedAsAsked
    <3>5. WillShow(looper', C, Pauses, state) \/ (Settled(looper', C, Pauses) /\ PausedAsAsked')
      BY <2>3, <2>4, <2>5, <3>2, <3>3, <3>4 DEF HeadShown, Same
    <3> QED
      BY <1>3, <2>3, <3>5 DEF PausedInv
  <2> QED
    BY <2>6, <2>7
<1> QED
  BY <1>5, <1>7, <1>8, <1>9

\* The permission is answered: nothing that shows a state comes to the looper.
LEMMA AnswerShows ==
  ASSUME SessionInv, NEW granted \in BOOLEAN, AnswerPermission(granted), NEW C, NEW K
  PROVE  Same(looper, looper', C, K)
<1>1. PICK q \in Seq(MessageType) : q = looper
  BY DEF SessionInv, SessionTypes, QueueTypes
<1>2. PICK p \in Views : p = onPermissionResult
  BY ConnFacts DEF SessionInv, SessionTypes, PanelInv, AnswerPermission
<1>3. PICK m : m = Signal("start", p)
  OBVIOUS
<1>4. m \in MessageType /\ ~Shows(m, C, K)
  BY <1>3 DEF Signal, StateOf, MessageType, Shows
<1>5. looper' = IF granted THEN Append(q, m) ELSE q
  BY <1>1, <1>2, <1>3 DEF AnswerPermission
<1> QED
  BY <1>1, <1>4, <1>5, UnseenAppend, SameItself

LEMMA ShownOthers ==
  ASSUME "early" \notin Trouble, SessionInv, Known, RecordingInv, PausedInv,
         \/ Closes \/ Create \/ ProcessDies
         \/ OnServiceConnected \/ OnServiceDisconnected
         \/ \E granted \in BOOLEAN : AnswerPermission(granted)
         \/ \E v \in Views : Tick(v)
         \/ \E c \in Conns : DeathNotice(c)
         \/ UNCHANGED vars
  PROVE  RecordingInv' /\ PausedInv'
<1>1. /\ SessionTypes /\ looper \in Seq(MessageType) /\ inbox \in Seq(CommandType) /\ PanelInv
      /\ NoConn \notin Conns
  BY DEF SessionInv, SessionTypes, QueueTypes, Conns, NoConn
<1>2. ASSUME ~Connection' PROVE RecordingInv' /\ PausedInv'
  BY <1>2 DEF RecordingInv, PausedInv
<1>3. ASSUME UNCHANGED <<panel, voiceConnection, listener, client, state, busy, inbox>>,
             UNCHANGED <<isRecording, isPaused>>,
             Connection => /\ Same(looper, looper', Of(panel), Marks)
                           /\ Same(looper, looper', Of(panel), Pauses)
      PROVE  RecordingInv' /\ PausedInv'
  <2>1. Of(panel)' = Of(panel) /\ (Connection' <=> Connection) /\ TapsKept
    BY <1>3 DEF Of, Connection, Cur, ConnectionOf, TapsKept, LastTap
  <2> QED
    BY <1>3, <2>1, ShowsKept
<1>4. CASE Closes
  BY <1>2, <1>4, ClosesDetails DEF Connection
<1>5. CASE Create
  <2>1. inbox # <<>> /\ Head(inbox).cmd = "create" /\ client' = client
    BY <1>5 DEF Create, Commanded, Service!Connect
  <2>2. Expected(inbox[1]) /\ Head(inbox) = inbox[1]
    BY <1>1, <2>1, Shorter DEF SessionInv, InboxInv
  <2>3. client' = NoConn
    BY <2>1, <2>2 DEF Expected, Down
  <2> QED
    BY <1>2, <2>3 DEF Connection
<1>6. CASE ProcessDies
  <2>1. client' = NoConn
    BY <1>6 DEF ProcessDies
  <2> QED
    BY <1>2, <2>1 DEF Connection
<1>7. CASE OnServiceConnected
  <2>1. Fresh /\ client' = client
    BY <1>7, ConnectedDetails DEF OnServiceConnected, serviceVars
  <2> QED
    BY <1>2, <2>1 DEF Connection, Fresh
<1>8. CASE OnServiceDisconnected
  <2>1. PICK h \in MessageType : looper # <<>> /\ h = looper[1] /\ h = Head(looper)
    BY <1>1, <1>8, Shorter DEF OnServiceDisconnected, Receives
  <2>2. /\ h.kind = "disconnected" /\ UNCHANGED <<panel, voiceConnection, listener, client>>
        /\ UNCHANGED <<state, busy, inbox, isRecording, isPaused>>
        /\ h.to \notin bindings => looper' = Tail(looper)
    BY <1>8, <2>1 DEF OnServiceDisconnected, Receives, Got, viewVars, serviceVars
  <2>3. ASSUME Connection PROVE looper' = Tail(looper)
    <3>1. Served(Cur)
      BY <2>3, ClientServed DEF Connection
    <3>2. 1 \in 1..Len(looper)
      BY <1>1, <2>1, Shorter
    <3>3. h.to # Cur
      BY <2>1, <2>2, <3>1, <3>2 DEF Served, NoLoss, Loss
    <3> QED
      BY <1>1, <2>2, <3>3 DEF PanelInv
  <2>4. \A C, K : Connection => Same(looper, looper', C, K)
    BY <1>1, <2>1, <2>2, <2>3, TailShows
  <2> QED
    BY <1>3, <2>2, <2>4
<1>9. CASE \E granted \in BOOLEAN : AnswerPermission(granted)
  <2>1. /\ UNCHANGED <<panel, voiceConnection, listener, client, state, busy, inbox>>
        /\ UNCHANGED <<isRecording, isPaused>>
    BY <1>9 DEF AnswerPermission, viewVars, connVars, serviceVars
  <2>2. \A C, K : Same(looper, looper', C, K)
    BY <1>9, AnswerShows
  <2> QED
    BY <1>3, <2>1, <2>2
<1>10. CASE (\E v \in Views : Tick(v)) \/ UNCHANGED vars
  <2>1. /\ UNCHANGED <<panel, voiceConnection, listener, client, state, busy, inbox>>
        /\ UNCHANGED <<isRecording, isPaused, looper>>
    BY <1>10 DEF Tick, vars, viewVars, connVars, serviceVars
  <2> QED
    BY <1>3, <2>1, UnchangedShows
<1>11. CASE \E c \in Conns : DeathNotice(c)
  <2>1. /\ UNCHANGED <<panel, voiceConnection, listener, client, state, busy, inbox>>
        /\ UNCHANGED <<isRecording, isPaused>> /\ dead # {}
    BY <1>11 DEF DeathNotice, viewVars, serviceVars
  <2>2. ~Connection
    BY <2>1, ClientServed DEF Connection, Served
  <2> QED
    BY <1>3, <2>1, <2>2
<1> QED
  BY <1>4, <1>5, <1>6, <1>7, <1>8, <1>9, <1>10, <1>11

-----------------------------------------------------------------------------
(***************************************************************************)
(* The stops under way, and the views behind the connections.              *)
(***************************************************************************)
LEMMA StopsAppend ==
  ASSUME NEW q \in Seq(CommandType), NEW e \in CommandType
  PROVE  /\ StopsLast(q) /\ (e.conn = NoConn \/ e.cmd \in {"stop", "unregister"}
                             \/ \A i \in 1..Len(q) : q[i].cmd # "stop")
              => StopsLast(Append(q, e))
         /\ \A c : NoStopOf(q, c) /\ (e.cmd = "stop" => e.conn # c) => NoStopOf(Append(q, e), c)
<1> DEFINE r == Append(q, e)
           n == Len(q) + 1
<1>1. /\ Len(q) \in Nat /\ Len(r) = n
      /\ \A i \in 1..Len(q) : r[i] = q[i] /\ i \in 1..Len(r)
      /\ r[n] = e /\ n \in 1..Len(r)
      /\ \A i \in 1..Len(r) : i \in 1..Len(q) \/ i = n
      /\ \A i, j \in 1..Len(r) : i < j => i \in 1..Len(q)
  BY Longer
<1> HIDE DEF r, n
<1>2. ASSUME StopsLast(q), \/ e.conn = NoConn \/ e.cmd \in {"stop", "unregister"}
                           \/ \A i \in 1..Len(q) : q[i].cmd # "stop"
      PROVE  StopsLast(r)
  <2> SUFFICES ASSUME NEW i \in 1..Len(r), NEW j \in 1..Len(r),
                      r[i].cmd = "stop", i < j, r[j].conn # NoConn
               PROVE  r[j].cmd \in {"stop", "unregister"}
    BY DEF StopsLast
  <2>1. i \in 1..Len(q) /\ q[i].cmd = "stop"
    BY <1>1
  <2>2. CASE j \in 1..Len(q)
    BY <1>1, <1>2, <2>1, <2>2 DEF StopsLast
  <2>3. CASE j = n
    BY <1>1, <1>2, <2>1, <2>3
  <2> QED
    BY <1>1, <2>2, <2>3
<1>3. ASSUME NEW c, NoStopOf(q, c), e.cmd = "stop" => e.conn # c PROVE NoStopOf(r, c)
  BY <1>1, <1>3 DEF NoStopOf
<1> QED
  BY <1>2, <1>3 DEF r

LEMMA StopsTail ==
  ASSUME NEW q \in Seq(CommandType), q # <<>>
  PROVE  /\ StopsLast(q) => StopsLast(Tail(q))
         /\ \A c : NoStopOf(q, c) => NoStopOf(Tail(q), c)
<1> DEFINE r == Tail(q)
<1>1. /\ \A i \in 1..Len(r) : r[i] = q[i + 1] /\ i + 1 \in 1..Len(q)
      /\ \A i, j \in 1..Len(r) : i < j => i + 1 < j + 1
  BY Shorter
<1> HIDE DEF r
<1>2. ASSUME StopsLast(q) PROVE StopsLast(r)
  BY <1>1, <1>2 DEF StopsLast
<1>3. ASSUME NEW c, NoStopOf(q, c) PROVE NoStopOf(r, c)
  BY <1>1, <1>3 DEF NoStopOf
<1> QED
  BY <1>2, <1>3 DEF r

LEMMA NoStopsAtAll ==
  ASSUME NEW q, \A i \in 1..Len(q) : q[i].cmd # "stop"
  PROVE  StopsLast(q) /\ \A c : NoStopOf(q, c)
  BY DEF StopsLast, NoStopOf

LEMMA EndingStops ==
  ASSUME NEW q \in Seq(CommandType), StopsLast(q)
  PROVE  StopsLast(Ending(q))
<1>1. PICK s \in CommandType : s = Command("unbind", NoConn, NoGain)
  BY SystemCommandFacts
<1>2. PICK u \in CommandType : u = Command("destroy", NoConn, NoGain)
  BY SystemCommandFacts
<1>3. s.conn = NoConn /\ u.conn = NoConn
  BY <1>1, <1>2, CommandSays
<1>4. PICK q1 \in Seq(CommandType) : q1 = Append(q, s)
  BY Longer
<1>5. StopsLast(q1)
  BY <1>3, <1>4, StopsAppend
<1>6. StopsLast(Append(q1, u))
  BY <1>3, <1>5, StopsAppend
<1> QED
  BY <1>1, <1>2, <1>4, <1>6 DEF Ending

LEMMA LeavingStops ==
  ASSUME NEW q \in Seq(CommandType), NEW c \in Conns, StopsLast(q)
  PROVE  StopsLast(Leaving(q, c))
<1>1. PICK s \in CommandType : s = Command("stop", c, NoGain)
  BY CommandFacts DEF Told
<1>2. PICK u \in CommandType : u = Command("unregister", c, NoGain)
  BY CommandFacts DEF Told
<1>3. s.cmd = "stop" /\ u.cmd = "unregister"
  BY <1>1, <1>2, CommandSays
<1>4. PICK q1 \in Seq(CommandType) : q1 = Append(q, s)
  BY Longer
<1>5. PICK q2 \in Seq(CommandType) : q2 = Append(q1, s)
  BY Longer
<1>6. StopsLast(q1)
  BY <1>3, <1>4, StopsAppend
<1>7. StopsLast(q2)
  BY <1>3, <1>5, <1>6, StopsAppend
<1>8. StopsLast(Append(q2, u))
  BY <1>3, <1>7, StopsAppend
<1> QED
  BY <1>1, <1>2, <1>4, <1>5, <1>8 DEF Leaving

LEMMA StopKept ==
  ASSUME "early" \notin Trouble, SessionInv, Known, StopInv, [Next]_vars
  PROVE  StopInv'
<1>1. /\ SessionTypes /\ ViewTypes /\ BindingInv /\ inbox \in Seq(CommandType)
      /\ StopsLast(inbox) /\ (Cur # NoConn => NoStopOf(inbox, Cur))
  BY DEF SessionInv, SessionTypes, QueueTypes, StopInv
<1>2. ASSUME Cur' = Cur \/ Cur' = NoConn,
             inbox' = inbox \/ (inbox # <<>> /\ inbox' = Tail(inbox))
      PROVE  StopInv'
  <2>1. PICK c : c = Cur
    OBVIOUS
  <2>2. StopsLast(inbox') /\ (c # NoConn => NoStopOf(inbox', c))
    BY <1>1, <1>2, <2>1, StopsTail
  <2> QED
    BY <1>2, <2>1, <2>2 DEF StopInv
<1>3. ASSUME \A i \in 1..Len(inbox') : inbox'[i].cmd # "stop" PROVE StopInv'
  BY <1>3, NoStopsAtAll DEF StopInv
<1>4. ASSUME NEW e \in CommandType, e.cmd # "stop", Cur # NoConn, Reaches(Cur), Cur' = Cur,
             inbox' = Append(inbox, e)
      PROVE  StopInv'
  <2>1. Served(Cur)
    BY <1>1, <1>4 DEF BindingInv, Awaited, Arriving, Reaches
  <2>2. \A i \in 1..Len(inbox) : inbox[i].cmd # "stop"
    BY <1>1, <1>4, <2>1 DEF Served, NoStopOf
  <2>3. \A i \in 1..Len(inbox') : inbox'[i].cmd # "stop"
    <3> TAKE i \in 1..Len(inbox')
    <3>1. inbox'[i] = e \/ (i \in 1..Len(inbox) /\ inbox'[i] = inbox[i])
      BY <1>1, <1>4, TalksMore
    <3> QED
      BY <1>4, <2>2, <3>1
  <2> QED
    BY <1>3, <2>3
<1>5. CASE Opens
  <2>1. Cur' = Cur \/ ~Talks(Cur')
    BY <1>5, OpensDetails
  <2>2. PICK v \in Views :
              \/ inbox' = inbox
              \/ inbox' = Append(inbox, Command("create", NoConn, NoGain))
              \/ /\ Cur # NoConn /\ Cur' = Cur /\ Reaches(Cur)
                 /\ inbox' = Append(inbox, Command("start", Cur, currentGain[v]))
    BY <1>5, OpensDetails
  <2>3. PICK c : c = Cur'
    OBVIOUS
  <2>4. c # NoConn => NoStopOf(inbox, c)
    BY <1>1, <2>1, <2>3 DEF Talks, NoStopOf
  <2>5. CASE inbox' = inbox
    BY <1>1, <2>3, <2>4, <2>5 DEF StopInv
  <2>6. CASE inbox' = Append(inbox, Command("create", NoConn, NoGain))
    <3>1. PICK e \in CommandType : e.cmd = "create" /\ e.conn = NoConn /\ inbox' = Append(inbox, e)
      BY <2>6, SystemCommandFacts, CommandSays
    <3>2. StopsLast(inbox') /\ (c # NoConn => NoStopOf(inbox', c))
      BY <1>1, <2>4, <3>1, StopsAppend
    <3> QED
      BY <2>3, <3>2 DEF StopInv
  <2>7. CASE /\ Cur # NoConn /\ Cur' = Cur /\ Reaches(Cur)
             /\ inbox' = Append(inbox, Command("start", Cur, currentGain[v]))
    <3>1. PICK g \in {NoGain, 1, 2, 4} : g = currentGain[v]
      BY <1>1 DEF ViewTypes
    <3>2. PICK k \in Conns : k = Cur
      BY <1>1, <2>7, ConnFacts
    <3>3. PICK e \in CommandType : e = Command("start", k, g) /\ e.cmd = "start"
      BY CommandFacts DEF Told
    <3> QED
      BY <1>4, <2>7, <3>1, <3>2, <3>3
  <2> QED
    BY <2>2, <2>5, <2>6, <2>7
<1>6. CASE Asks
  <2>1. Cur' = Cur
    BY <1>1, <1>6, AsksCases DEF Cur, ConnectionOf
  <2>2. PICK cmd \in {"pause", "resume", "gain"}, g \in {NoGain, 1, 2, 4} : Said(cmd, Cur, g)
    BY <1>1, <1>6, AsksDetails
  <2>3. CASE inbox' = inbox
    BY <1>2, <2>1, <2>3
  <2>4. CASE Cur # NoConn /\ Reaches(Cur) /\ inbox' = Append(inbox, Command(cmd, Cur, g))
    <3>1. PICK k \in Conns : k = Cur
      BY <1>1, <2>4, ConnFacts
    <3>2. PICK e \in CommandType : e = Command(cmd, k, g) /\ e.cmd = cmd
      BY CommandFacts DEF Told
    <3> QED
      BY <1>4, <2>1, <2>4, <3>1, <3>2
  <2> QED
    BY <2>2, <2>3, <2>4 DEF Said
<1>7. CASE Closes
  <2>1. /\ Cur' = NoConn
        /\ \/ inbox' = inbox \/ inbox' = Ending(inbox)
           \/ Cur \in Conns /\ inbox' = Ending(Leaving(inbox, Cur))
    BY <1>7, ClosesDetails
  <2>2. StopsLast(inbox')
    <3>1. CASE Cur \in Conns /\ inbox' = Ending(Leaving(inbox, Cur))
      <4>1. PICK k \in Conns : k = Cur
        BY <3>1
      <4>2. StopsLast(Leaving(inbox, k)) /\ Leaving(inbox, k) \in Seq(CommandType)
        BY <1>1, LeavingStops, LeavingTalks
      <4> QED
        BY <3>1, <4>1, <4>2, EndingStops
    <3> QED
      BY <1>1, <2>1, <3>1, EndingStops
  <2> QED
    BY <2>1, <2>2 DEF StopInv
<1>8. CASE Commands
  <2>1. inbox # <<>> /\ inbox' = Tail(inbox) /\ ServiceSide
    BY <1>8, CommandsDetails
  <2> QED
    BY <1>2, <2>1 DEF ServiceSide, viewVars, Cur, ConnectionOf
<1>9. CASE Create
  <2>1. inbox # <<>> /\ inbox' = Tail(inbox) /\ ServiceSide
    BY <1>9 DEF Create, Commanded
  <2> QED
    BY <1>2, <2>1 DEF ServiceSide, viewVars, Cur, ConnectionOf
<1>10. CASE Background
  <2>1. inbox' = inbox /\ ServiceSide
    BY <1>10, BackgroundDetails
  <2> QED
    BY <1>2, <2>1 DEF ServiceSide, viewVars, Cur, ConnectionOf
<1>11. CASE ProcessDies
  <2>1. inbox' = <<>> \/ inbox' = <<Command("create", NoConn, NoGain)>>
    BY <1>11 DEF ProcessDies
  <2>2. PICK e : e = Command("create", NoConn, NoGain) /\ e.cmd = "create"
    BY CommandSays
  <2>3. inbox' = <<>> \/ inbox' = <<e>>
    BY <2>1, <2>2
  <2> QED
    BY <1>3, <2>2, <2>3
<1>12. CASE OnServiceConnected
  <2>1. PICK c \in Conns, r \in CommandType :
          /\ r = Command("register", c, NoGain)
          /\ \/ inbox' = <<r>>
             \/ \E s \in CommandType :
                  s = Command("start", c, pendingStartGain[c]) /\ inbox' = <<r, s>>
    BY <1>12, ConnectedDetails
  <2>2. r.cmd = "register" /\ \A g : Command("start", c, g).cmd = "start"
    BY <2>1, CommandSays
  <2>3. CASE inbox' = <<r>>
    BY <1>3, <2>2, <2>3
  <2>4. CASE inbox' # <<r>>
    <3>1. PICK s \in CommandType : s.cmd = "start" /\ inbox' = <<r, s>>
      BY <2>1, <2>2, <2>4
    <3>2. \A i \in 1..2 : i = 1 \/ i = 2
      OBVIOUS
    <3>3. Len(inbox') = 2 /\ inbox'[1] = r /\ inbox'[2] = s
      BY <3>1
    <3>4. \A i \in 1..Len(inbox') : inbox'[i].cmd # "stop"
      BY <2>2, <3>1, <3>2, <3>3
    <3> QED
      BY <1>3, <3>4
  <2> QED
    BY <2>3, <2>4
<1>13. CASE \/ Passes \/ OnServiceDisconnected
            \/ \E granted \in BOOLEAN : AnswerPermission(granted)
            \/ \E v \in Views : Tick(v)
            \/ \E c \in Conns : DeathNotice(c)
            \/ UNCHANGED vars
  <2>1. UNCHANGED <<panel, voiceConnection, inbox>>
    BY <1>13 DEF Passes, HandleServiceMessage, ShowState, CommitText, DropDeadBinder,
       OnServiceDisconnected, AnswerPermission, Tick, DeathNotice, viewVars, vars
  <2> QED
    BY <1>2, <2>1 DEF Cur, ConnectionOf
<1> QED
  BY <1>5, <1>6, <1>7, <1>8, <1>9, <1>10, <1>11, <1>12, <1>13, NextActions

LEMMA ViewsKept ==
  ASSUME "early" \notin Trouble, SessionInv, ViewsInv, [Next]_vars
  PROVE  ViewsInv'
<1>1. SessionTypes /\ ViewTypes /\ ConnTypes /\ PanelInv /\ views \in Nat /\ crashes \in Nat
  BY SessionAssumption DEF SessionInv, SessionTypes, ViewTypes
<1>2. ASSUME UNCHANGED <<views, listener, crashes>>, dead' \subseteq dead,
             \A v \in Views : isRecording'[v] => isRecording[v]
      PROVE  ViewsInv'
  BY <1>2 DEF ViewsInv
<1>3. CASE Opens
  <2>1. PICK n : n = views'
    OBVIOUS
  <2>2. PICK p \in Views : p = panel'
    BY <1>3, OpensViews
  <2>3. /\ p = n /\ n >= views /\ UNCHANGED <<crashes, isRecording, dead>>
        /\ listener' = listener \/ \E c \in Conns : listener' = [listener EXCEPT ![c] = p]
    BY <1>3, <2>1, <2>2, OpensViews
  <2>4. p \in Nat /\ \A v \in Views : v \in Nat
    BY SessionAssumption DEF Views
  <2>5. \A v \in Views : v > n => ~isRecording[v]
    BY <1>1, <2>3, <2>4 DEF ViewsInv
  <2>6. ASSUME NEW c \in Conns PROVE listener'[c] <= n
    <3>1. listener'[c] = p \/ listener'[c] = listener[c]
      BY <1>1, <2>3 DEF ConnTypes
    <3>2. listener[c] <= views /\ listener[c] \in Nat
      BY <1>1, SessionAssumption DEF ViewsInv, ConnTypes
    <3> QED
      BY <1>1, <2>3, <2>4, <3>1, <3>2
  <2> QED
    BY <2>1, <2>3, <2>5, <2>6 DEF ViewsInv
<1>4. CASE Asks
  <2>1. UNCHANGED <<views, listener, crashes, isRecording, dead>>
    BY <1>1, <1>4, AsksCases DEF connVars, systemVars
  <2> QED
    BY <1>2, <2>1
<1>5. CASE Closes
  <2>1. ViewsClosed /\ LetGo(Cur, NoConn)
    BY <1>1, <1>5, ClosesCases
  <2>2. UNCHANGED <<views, listener, crashes>> /\ dead' \subseteq dead
    BY <2>1 DEF ViewsClosed, LetGo
  <2>3. \A v \in Views : isRecording'[v] => isRecording[v]
    BY <2>1 DEF ViewsClosed
  <2> QED
    BY <1>2, <2>2, <2>3
<1>6. CASE Commands \/ Create \/ Background
  <2>1. ServiceSide
    BY <1>6, CommandsDetails, BackgroundDetails DEF Create
  <2>2. UNCHANGED <<views, listener, crashes, isRecording, dead>>
    BY <2>1 DEF ServiceSide, boundVars, viewVars, connVars
  <2> QED
    BY <1>2, <2>2
<1>7. CASE Passes
  <2>1. Unchanging /\ UNCHANGED <<views, crashes, dead>>
    BY <1>1, <1>7, PassesDetails
  <2>2. isRecording' = isRecording \/ \E c \in Conns :
            \A v \in Views : v # listener[c] => isRecording'[v] = isRecording[v]
    BY <1>1, <1>7, PassesDetails
  <2>3. \A v \in Views : v > views => isRecording'[v] = isRecording[v]
    <3> SUFFICES ASSUME NEW c \in Conns, NEW v \in Views, v > views
                 PROVE  v # listener[c]
      BY <2>2
    <3>1. listener[c] <= views /\ v \in Nat
      BY SessionAssumption DEF ViewsInv, Views
    <3> QED
      BY <1>1, <3>1
  <2> QED
    BY <2>1, <2>3 DEF ViewsInv, Unchanging
<1>8. CASE ProcessDies
  <2>1. UNCHANGED <<views, listener, isRecording>> /\ crashes' = crashes + 1
    BY <1>8 DEF ProcessDies, viewVars, connVars
  <2>2. crashes' # 0
    BY <1>1, <2>1
  <2> QED
    BY <2>1, <2>2 DEF ViewsInv
<1>9. CASE \/ OnServiceConnected \/ OnServiceDisconnected
           \/ \E granted \in BOOLEAN : AnswerPermission(granted)
           \/ \E v \in Views : Tick(v)
           \/ \E c \in Conns : DeathNotice(c)
           \/ UNCHANGED vars
  <2>1. UNCHANGED <<views, listener, crashes, isRecording>> /\ dead' \subseteq dead
    BY <1>9 DEF OnServiceConnected, OnServiceDisconnected, AnswerPermission, Tick, DeathNotice,
       vars, boundVars, viewVars, connVars, systemVars
  <2> QED
    BY <1>2, <2>1
<1> QED
  BY <1>3, <1>4, <1>5, <1>6, <1>7, <1>8, <1>9, NextActions

-----------------------------------------------------------------------------
(***************************************************************************)
(* A panel without a connection.                                           *)
(***************************************************************************)
LEMMA AheadTail ==
  ASSUME NEW q \in Seq(CommandType), q # <<>>, NEW C
  PROVE  /\ LeavesOnly(q, C) => LeavesOnly(Tail(q), C)
         /\ StopIn(q, C) => StopIn(Tail(q), C) \/ (q[1].cmd = "stop" /\ q[1].conn \in C)
         /\ (StopsLast(q) /\ NoConn \notin C /\ q[1].cmd = "stop")
              => LeavesOnly(Tail(q), C) \/ StopIn(Tail(q), C)
<1> DEFINE r == Tail(q)
<1>1. /\ \A i \in 1..Len(r) : r[i] = q[i + 1] /\ i + 1 \in 1..Len(q) /\ 1 < i + 1
      /\ \A j \in 1..Len(q) : j # 1 => j - 1 \in 1..Len(r) /\ r[j - 1] = q[j]
      /\ 1 \in 1..Len(q)
  <2>1. /\ Len(q) \in Nat \ {0} /\ Len(r) = Len(q) - 1
        /\ \A i \in 1..Len(r) : r[i] = q[i + 1]
    BY Shorter
  <2>2. \A j \in 1..Len(q) : j # 1 => j - 1 \in 1..Len(r) /\ (j - 1) + 1 = j
    BY <2>1
  <2> QED
    BY <2>1, <2>2
<1> HIDE DEF r
<1>2. LeavesOnly(q, C) => LeavesOnly(r, C)
  BY <1>1 DEF LeavesOnly
<1>3. ASSUME StopIn(q, C) PROVE StopIn(r, C) \/ (q[1].cmd = "stop" /\ q[1].conn \in C)
  BY <1>1, <1>3 DEF StopIn
<1>4. ASSUME StopsLast(q), NoConn \notin C, q[1].cmd = "stop", ~StopIn(r, C)
      PROVE  LeavesOnly(r, C)
  <2> SUFFICES ASSUME NEW i \in 1..Len(r), r[i].conn \in C PROVE r[i].cmd = "unregister"
    BY DEF LeavesOnly
  <2>1. /\ r[i] = q[i + 1] /\ 1 \in 1..Len(q) /\ i + 1 \in 1..Len(q) /\ 1 < i + 1
        /\ r[i].conn # NoConn
    BY <1>1, <1>4
  <2>2. r[i].cmd \in {"stop", "unregister"}
    BY <1>4, <2>1 DEF StopsLast
  <2> QED
    BY <1>4, <2>2 DEF StopIn
<1> QED
  BY <1>2, <1>3, <1>4 DEF r

LEMMA LeavingStop ==
  ASSUME NEW q \in Seq(CommandType), NEW c \in Conns
  PROVE  StopIn(Ending(Leaving(q, c)), {c})
<1>1. PICK s \in CommandType : s = Command("stop", c, NoGain)
  BY CommandFacts DEF Told
<1>2. PICK u \in CommandType : u = Command("unregister", c, NoGain)
  BY CommandFacts DEF Told
<1>3. PICK a \in CommandType : a = Command("unbind", NoConn, NoGain)
  BY SystemCommandFacts
<1>4. PICK b \in CommandType : b = Command("destroy", NoConn, NoGain)
  BY SystemCommandFacts
<1>5. s.cmd = "stop" /\ s.conn = c
  BY <1>1, CommandSays
<1>6. ASSUME NEW r \in Seq(CommandType), NEW e \in CommandType
      PROVE  /\ Append(r, e) \in Seq(CommandType)
             /\ e = s => StopIn(Append(r, e), {c})
             /\ StopIn(r, {c}) => StopIn(Append(r, e), {c})
  <2>1. PICK t \in Seq(CommandType) : t = Append(r, e)
    BY Longer
  <2>2. /\ \A i \in 1..Len(r) : t[i] = r[i] /\ i \in 1..Len(t)
        /\ \E n \in 1..Len(t) : t[n] = e
    <3>1. /\ Len(r) \in Nat /\ Len(t) = Len(r) + 1
          /\ \A i \in 1..Len(r) : t[i] = r[i]
          /\ t[Len(r) + 1] = e
      BY <2>1, Longer
    <3>2. Len(r) + 1 \in 1..Len(t)
      BY <3>1
    <3> QED
      BY <3>1, <3>2
  <2>3. e = s => StopIn(t, {c})
    BY <1>5, <2>2 DEF StopIn
  <2>4. StopIn(r, {c}) => StopIn(t, {c})
    BY <2>2 DEF StopIn
  <2> QED
    BY <2>1, <2>3, <2>4
<1>7. PICK q1 \in Seq(CommandType) : q1 = Append(q, s) /\ StopIn(q1, {c})
  BY <1>6
<1>8. PICK q2 \in Seq(CommandType) : q2 = Append(q1, s) /\ StopIn(q2, {c})
  BY <1>6
<1>9. PICK q3 \in Seq(CommandType) : q3 = Append(q2, u) /\ StopIn(q3, {c})
  BY <1>6, <1>8
<1>10. PICK q4 \in Seq(CommandType) : q4 = Append(q3, a) /\ StopIn(q4, {c})
  BY <1>6, <1>9
<1>11. StopIn(Append(q4, b), {c})
  BY <1>6, <1>10
<1>12. Leaving(q, c) = q3
  BY <1>1, <1>2, <1>7, <1>8, <1>9 DEF Leaving
<1> QED
  BY <1>3, <1>4, <1>10, <1>11, <1>12 DEF Ending

LEMMA WillStopKept ==
  ASSUME panel' = panel, Of(panel)' = Of(panel), Same(looper, looper', Of(panel), Marks),
         isRecording'[panel] => isRecording[panel], WillStop
  PROVE  WillStop'
<1>1. PICK C : C = Of(panel)
  OBVIOUS
<1>2. \/ \E st \in {"IDLE", "ERROR"} : WillShow(looper', C, Marks, st)
      \/ Settled(looper', C, Marks) /\ ~isRecording'[panel]
  BY <1>1 DEF WillStop, Same
<1>3. Of(panel)' = C
  BY <1>1
<1> QED
  BY <1>2, <1>3 DEF WillStop

LEMMA LetGoKept ==
  ASSUME LetGoInv, UNCHANGED <<client, state, busy, inbox>>,
         Alone' => Alone /\ Of(panel)' = Of(panel) /\ (WillStop => WillStop')
  PROVE  LetGoInv'
<1>1. SUFFICES ASSUME Alone' PROVE LetGoInv'
  BY DEF LetGoInv
<1>2. PICK C : C = Of(panel)
  OBVIOUS
<1>3. LetGoOf(C) /\ (WillStop => WillStop') /\ Of(panel)' = C /\ (Recording' <=> Recording)
  BY <1>1, <1>2 DEF LetGoInv, Recording
<1>4. BusyStopping(C) => BusyStopping(C)'
  BY DEF BusyStopping
<1>5. HasStopped(C) => HasStopped(C)'
  BY <1>3 DEF HasStopped
<1>6. LetGoOf(C)'
  BY <1>3, <1>4, <1>5 DEF LetGoOf
<1> QED
  BY <1>3, <1>6 DEF LetGoInv

\* A panel stays alone by what the service does.
LEMMA AloneSide ==
  ASSUME ServiceSide, Alone'
  PROVE  /\ Alone /\ panel' = panel /\ Of(panel)' = Of(panel)
         /\ isRecording' = isRecording
<1>1. UNCHANGED <<panel, crashes, listener, voiceConnection, isRecording>>
  BY DEF ServiceSide, boundVars, viewVars, connVars
<1> QED
  BY <1>1 DEF Alone, Of, Cur, ConnectionOf

LEMMA LetGoCommands ==
  ASSUME SessionInv, StopInv, LetGoInv, Commands
  PROVE  LetGoInv'
<1>1. /\ SessionTypes /\ inbox \in Seq(CommandType) /\ looper \in Seq(MessageType)
      /\ state \in States /\ StopsLast(inbox)
  BY DEF SessionInv, SessionTypes, QueueTypes, ServiceTypes, States, StopInv
<1>2. PICK h \in CommandType :
            /\ inbox # <<>> /\ h = Head(inbox) /\ h = inbox[1] /\ inbox' = Tail(inbox)
            /\ busy = "no" /\ ServiceSide
            /\ h.cmd \in Told => h.conn = client
            /\ Handled(h)
  BY CommandsDetails
<1>3. SUFFICES ASSUME Alone' PROVE LetGoInv'
  BY DEF LetGoInv
<1>4. /\ Alone /\ panel' = panel /\ Of(panel)' = Of(panel) /\ isRecording' = isRecording
  BY <1>2, <1>3, AloneSide
<1>5. PICK C \in SUBSET Conns : C = Of(panel)
  BY DEF Of
<1>6. LetGoOf(C) /\ Of(panel)' = C /\ NoConn \notin C
  BY <1>4, <1>5 DEF LetGoInv, Conns, NoConn
<1>7. SUFFICES LetGoOf(C)'
  BY <1>6 DEF LetGoInv
<1>8. /\ LeavesOnly(inbox, C) => LeavesOnly(inbox', C)
      /\ StopIn(inbox, C) => StopIn(inbox', C) \/ (h.cmd = "stop" /\ h.conn \in C)
      /\ h.cmd = "stop" => LeavesOnly(inbox', C) \/ StopIn(inbox', C)
      /\ LeavesOnly(inbox, C) /\ h.conn \in C => h.cmd = "unregister"
  <2>1. 1 \in 1..Len(inbox)
    BY <1>1, <1>2, Shorter
  <2> QED
    BY <1>1, <1>2, <1>6, <2>1, AheadTail DEF LeavesOnly
<1>9. StopIn(inbox, C) \/ (HasStopped(C) /\ LeavesOnly(inbox, C))
  BY <1>2, <1>6 DEF LetGoOf, BusyStopping, HasStopped
<1>10. Same(looper, looper', C, Marks) /\ WillStop => WillStop'
  BY <1>4, <1>5, WillStopKept
\* What it takes for a command that is not the stop.
<1>11. ASSUME h.cmd # "stop" \/ h.conn \notin C,
              client' \in C /\ busy' = "no" /\ ~Recording' => WillStop',
              HasStopped(C) => WillStop' /\ (client' \in C => busy' = "no" /\ state' = "IDLE")
       PROVE  LetGoOf(C)'
  BY <1>8, <1>9, <1>11 DEF LetGoOf, HasStopped
<1>12. CASE h.cmd = "register"
  <2>1. PICK c \in Conns : c = h.conn
    BY <1>12, CommandCases
  <2>2. /\ state = "IDLE" /\ client' = c
        /\ looper' = Append(looper, StateOf("event", c, "IDLE"))
    BY <1>2, <1>12, <2>1 DEF Handled, Fresh, Quits
  <2>3. /\ c \in C => WillShow(looper', C, Marks, "IDLE")
        /\ c \notin C => Same(looper, looper', C, Marks)
    BY <1>1, <2>2, EventShows DEF Marks, States
  <2>4. c \in C => WillStop'
    BY <1>6, <2>3 DEF WillStop
  <2>5. c \in C => ~HasStopped(C)
    BY <1>8, <1>12, <2>1 DEF HasStopped
  <2>6. c \notin C /\ WillStop => WillStop'
    BY <1>10, <2>3
  <2> QED
    BY <1>11, <1>12, <2>2, <2>4, <2>5, <2>6 DEF HasStopped
<1>13. ASSUME looper' = looper PROVE WillStop => WillStop'
  BY <1>10, <1>13, UnchangedShows
<1>14. ASSUME h.cmd \in {"start", "pause", "resume", "gain", "unregister"}, HasStopped(C), client' \in C
       PROVE  FALSE
  <2>1. h.conn = client
    BY <1>2, <1>14 DEF Told
  <2>2. client' = client /\ h.cmd # "unregister"
    BY <1>2, <1>6, <1>14 DEF Handled, Quits
  <2> QED
    BY <1>8, <1>14, <2>1, <2>2 DEF HasStopped
<1>15. CASE h.cmd \in {"start", "gain"}
  <2>1. client' = client /\ looper' = looper /\ state' = state
        /\ (busy' = "no" => busy = "no")
    BY <1>2, <1>15 DEF Handled, Quits
  <2>2. client' \in C /\ busy' = "no" /\ ~Recording' => WillStop'
    BY <1>2, <1>6, <1>13, <2>1 DEF LetGoOf, Recording
  <2>3. HasStopped(C) => WillStop' /\ ~(client' \in C)
    BY <1>13, <1>14, <1>15, <2>1 DEF HasStopped
  <2> QED
    BY <1>11, <1>15, <2>2, <2>3
<1>16. CASE h.cmd \in {"pause", "resume"}
  <2>1. client' = client /\
        \/ h.cmd = "pause" /\ state = "RECORDING" /\ state' = "PAUSED" /\ Tell("PAUSED")
        \/ h.cmd = "resume" /\ state = "PAUSED" /\ state' = "RECORDING" /\ Tell("RECORDING")
        \/ UNCHANGED <<state, looper>>
    BY <1>2, <1>16 DEF Handled, Quits
  <2>2. client' \in C /\ busy' = "no" /\ ~Recording' => WillStop'
    BY <1>2, <1>6, <1>13, <2>1 DEF LetGoOf, Recording
  <2>3. client \notin C => Same(looper, looper', C, Marks)
    <3>1. CASE looper' = looper
      BY <3>1, UnchangedShows
    <3>2. ASSUME client \notin C, NEW st \in {"RECORDING", "PAUSED"}, Tell(st)
          PROVE  Same(looper, looper', C, Marks)
      BY <1>1, <3>2, TellShows DEF States
    <3> QED
      BY <2>1, <3>1, <3>2
  <2>4. HasStopped(C) => WillStop' /\ ~(client' \in C)
    BY <1>10, <1>14, <1>16, <2>1, <2>3 DEF HasStopped
  <2> QED
    BY <1>11, <1>16, <2>2, <2>4
<1>17. CASE h.cmd \in Quits
  <2>1. /\ state' = state /\ looper' = looper
        /\ busy' = IF state = "IDLE" THEN "no" ELSE "stopping"
        /\ client' = IF h.cmd \in {"unregister", "unbind"} THEN NoConn ELSE client
    BY <1>2, <1>17 DEF Handled, Quits, Stopping
  <2>2. busy' = "no" => state = "IDLE" /\ ~Recording
    BY <2>1 DEF Recording
  <2>3. client' \in C => client = client'
    BY <1>6, <2>1
  <2>4. client' \in C /\ busy' = "no" => WillStop'
    BY <1>2, <1>6, <1>13, <2>1, <2>2, <2>3 DEF LetGoOf
  <2>5. HasStopped(C) => WillStop' /\ (client' \in C => busy' = "no" /\ state' = "IDLE")
    BY <1>13, <2>1, <2>3 DEF HasStopped
  <2>6. CASE h.cmd # "stop" \/ h.conn \notin C
    BY <1>11, <2>4, <2>5, <2>6
  <2>7. CASE h.cmd = "stop" /\ h.conn \in C
    <3>1. client' = client /\ client \in C
      BY <1>2, <2>1, <2>7 DEF Told
    <3>2. StopIn(inbox', C) \/ LeavesOnly(inbox', C)
      BY <1>8, <2>7
    <3>3. CASE busy' = "no"
      BY <2>1, <2>2, <2>4, <3>1, <3>2, <3>3 DEF LetGoOf, HasStopped
    <3>4. CASE busy' = "stopping"
      BY <3>1, <3>2, <3>4 DEF LetGoOf, BusyStopping
    <3> QED
      BY <2>1, <3>3, <3>4
  <2> QED
    BY <2>6, <2>7
<1> QED
  BY <1>2, <1>12, <1>15, <1>16, <1>17 DEF Handled

LEMMA LetGoBackground ==
  ASSUME SessionInv, LetGoInv, Background
  PROVE  LetGoInv'
<1>1. SessionTypes
  BY DEF SessionInv
<1>2. ServiceSide /\ UNCHANGED <<inbox, client>> /\ Runs
  BY BackgroundDetails
<1>3. SUFFICES ASSUME Alone' PROVE LetGoInv'
  BY DEF LetGoInv
<1>4. /\ Alone /\ panel' = panel /\ Of(panel)' = Of(panel) /\ isRecording' = isRecording
  BY <1>2, <1>3, AloneSide
<1>5. PICK C \in SUBSET Conns : C = Of(panel)
  BY DEF Of
<1>6. LetGoOf(C) /\ Of(panel)' = C
  BY <1>4, <1>5 DEF LetGoInv
<1>7. SUFFICES LetGoOf(C)'
  BY <1>6 DEF LetGoInv
<1>8. Same(looper, looper', C, Marks) /\ WillStop => WillStop'
  BY <1>4, <1>5, WillStopKept
<1>9. ASSUME NEW st \in States, Tell(st)
      PROVE  /\ client \in C /\ st \in {"IDLE", "ERROR"} => WillStop'
             /\ client \notin C /\ WillStop => WillStop'
  <2>1. /\ client \in C /\ st \in Marks => WillShow(looper', C, Marks, st)
        /\ client \notin C => Same(looper, looper', C, Marks)
    BY <1>1, <1>9, TellShows
  <2> QED
    BY <1>6, <1>8, <2>1 DEF WillStop, Marks
<1>10. CASE /\ busy = "starting" /\ busy' = "no" /\ state' \in {"RECORDING", "ERROR"}
            /\ Tell(state')
  <2>1. PICK st \in {"RECORDING", "ERROR"} : st = state'
    BY <1>10
  <2>2. /\ client \in C /\ st = "ERROR" => WillStop'
        /\ client \notin C /\ WillStop => WillStop'
    BY <1>9, <1>10, <2>1 DEF States
  <2>3. ~BusyStopping(C) /\ (HasStopped(C) => client \notin C)
    BY <1>10 DEF BusyStopping, HasStopped
  <2>4. HasStopped(C) => HasStopped(C)'
    BY <1>2, <2>2, <2>3 DEF HasStopped
  <2> QED
    BY <1>2, <1>6, <2>1, <2>2, <2>3, <2>4 DEF LetGoOf, Recording
<1>11. CASE busy = "stopping" /\ busy' = "no" /\ state' = "IDLE" /\ Tell("IDLE")
  <2>1. /\ client \in C => WillStop'
        /\ client \notin C /\ WillStop => WillStop'
    BY <1>9, <1>11 DEF States
  <2>2. BusyStopping(C) \/ HasStopped(C) => HasStopped(C)'
    BY <1>2, <1>11, <2>1 DEF BusyStopping, HasStopped
  <2> QED
    BY <1>2, <1>6, <2>1, <2>2 DEF LetGoOf
<1>12. CASE busy = "no" /\ Stopping /\ UNCHANGED <<state, looper>>
  <2>1. WillStop => WillStop'
    BY <1>8, <1>12, UnchangedShows
  <2>2. HasStopped(C) => HasStopped(C)'
    BY <1>2, <1>12, <2>1 DEF HasStopped, Stopping
  <2>3. ~BusyStopping(C)
    BY <1>12 DEF BusyStopping
  <2> QED
    BY <1>2, <1>6, <1>12, <2>1, <2>2, <2>3 DEF LetGoOf, Recording
<1>13. CASE /\ state # "IDLE" \/ busy = "starting"
            /\ state # "ERROR" /\ state' = "ERROR" /\ busy' = busy /\ Tell("ERROR")
  <2>1. /\ client \in C => WillStop'
        /\ client \notin C /\ WillStop => WillStop'
    BY <1>9, <1>13 DEF States
  <2>2. BusyStopping(C) => BusyStopping(C)'
    BY <1>2, <1>13 DEF BusyStopping
  <2>3. HasStopped(C) => client \notin C
    BY <1>13 DEF HasStopped
  <2>4. HasStopped(C) => HasStopped(C)'
    BY <1>2, <2>1, <2>3 DEF HasStopped
  <2> QED
    BY <1>2, <1>6, <2>1, <2>2, <2>4 DEF LetGoOf
<1>14. ASSUME UNCHANGED <<state, busy>>, Same(looper, looper', C, Marks) PROVE LetGoOf(C)'
  <2>1. WillStop => WillStop'
    BY <1>8, <1>14
  <2>2. (BusyStopping(C) => BusyStopping(C)') /\ (HasStopped(C) => HasStopped(C)')
    BY <1>2, <1>14, <2>1 DEF BusyStopping, HasStopped
  <2> QED
    BY <1>2, <1>6, <1>14, <2>1, <2>2 DEF LetGoOf, Recording
<1>15. CASE UNCHANGED <<state, busy, looper>>
  BY <1>14, <1>15, UnchangedShows
<1>16. CASE /\ client # NoConn /\ UNCHANGED <<state, busy>>
            /\ looper' = Append(looper, TextOf("event", client, passSpeaker))
  BY <1>1, <1>14, <1>16, TextShows DEF Marks
<1> QED
  BY <1>2, <1>10, <1>11, <1>12, <1>13, <1>15, <1>16 DEF Runs

LEMMA LetGoPasses ==
  ASSUME SessionInv, LetGoInv, Passes
  PROVE  LetGoInv'
<1>1. SessionTypes /\ looper \in Seq(MessageType) /\ ViewTypes
  BY DEF SessionInv, SessionTypes, QueueTypes
<1>2. UNCHANGED <<panel, listener, client, state, busy, inbox, crashes>> /\ Cur' = Cur
  BY <1>1, PassesDetails DEF Unchanging, Cur, ConnectionOf
<1>3. (Alone' => Alone) /\ Of(panel)' = Of(panel)
  BY <1>2 DEF Alone, Of
<1>4. SUFFICES ASSUME Alone, WillStop PROVE WillStop'
  BY <1>2, <1>3, LetGoKept
<1>5. PICK C \in SUBSET Conns : C = Of(panel)
  BY DEF Of
<1>6. panel \in Views
  BY <1>1, <1>4, ConnFacts DEF Alone
<1>7. Same(looper, looper', C, Marks) /\ isRecording'[panel] = isRecording[panel] => WillStop'
  BY <1>2, <1>3, <1>4, <1>5, WillStopKept
<1>8. PICK h \in MessageType :
              /\ looper # <<>> /\ h = looper[1] /\ h = Head(looper)
              /\ \/ /\ h.kind = "event" /\ UNCHANGED <<isRecording, isPaused>>
                    /\ looper' = Append(Tail(looper), [looper[1] EXCEPT !.kind = "post"])
                 \/ /\ h.state = "none" /\ UNCHANGED <<isRecording, isPaused>>
                    /\ looper' = Tail(looper)
                 \/ /\ h.kind = "post" /\ looper' = Tail(looper)
                    /\ panel \in Views => HeadShown(h, Of(panel))
  BY <1>1, PassesDetails
<1>9. CASE /\ h.kind = "event" /\ UNCHANGED <<isRecording, isPaused>>
           /\ looper' = Append(Tail(looper), [looper[1] EXCEPT !.kind = "post"])
  BY <1>1, <1>7, <1>8, <1>9, PassedOn
<1>10. CASE h.state = "none" /\ UNCHANGED <<isRecording, isPaused>> /\ looper' = Tail(looper)
  BY <1>1, <1>7, <1>8, <1>10, TailShows DEF Marks
<1>11. CASE h.kind = "post" /\ looper' = Tail(looper) /\ HeadShown(h, C)
  <2>1. CASE ~Shows(h, C, Marks)
    <3>1. Same(looper, looper', C, Marks)
      BY <1>1, <1>8, <1>11, <2>1, UnseenHead
    <3> QED
      BY <1>7, <1>11, <2>1, <3>1 DEF HeadShown
  <2>2. CASE Shows(h, C, Marks)
    <3>1. PICK q \in Seq(MessageType) : q = looper /\ q # <<>> /\ q[1] = h /\ looper' = Tail(q)
      BY <1>1, <1>8, <1>11
    <3>2. /\ ~Settled(q, C, Marks)
          /\ \A st : WillShow(q, C, Marks, st) =>
               WillShow(Tail(q), C, Marks, st) \/ (Settled(Tail(q), C, Marks) /\ q[1].state = st)
      BY <1>11, <2>2, <3>1, SeenHead
    <3>3. PICK st \in {"IDLE", "ERROR"} : WillShow(looper, C, Marks, st)
      BY <1>4, <1>5, <3>1, <3>2 DEF WillStop
    <3>4. WillShow(looper', C, Marks, st) \/ (Settled(looper', C, Marks) /\ h.state = st)
      BY <3>1, <3>2, <3>3
    <3>5. h.state = st => ~isRecording'[panel]
      BY <1>11, <2>2, <3>3 DEF HeadShown
    <3>6. Of(panel)' = C /\ panel' = panel
      BY <1>2, <1>3, <1>5
    <3> QED
      BY <3>3, <3>4, <3>5, <3>6 DEF WillStop
  <2> QED
    BY <2>1, <2>2
<1> QED
  BY <1>5, <1>6, <1>8, <1>9, <1>10, <1>11

\* The settings button: what the connection said before it was let go, and the
\* stop behind it.
LEMMA LetGoCloses ==
  ASSUME "early" \notin Trouble, SessionInv, Known, RecordingInv, ViewsInv, LetGoInv, Closes
  PROVE  LetGoInv'
<1>1. /\ SessionTypes /\ ViewTypes /\ PanelInv /\ InboxInv /\ BindingInv
      /\ inbox \in Seq(CommandType)
  BY DEF SessionInv, SessionTypes, QueueTypes
<1>2. /\ panel \in Views /\ panel' \in {NoView, panel} /\ Cur' = NoConn /\ ViewsClosed
      /\ \/ inbox' = inbox
         \/ inbox # <<>> /\ inbox[Len(inbox)].cmd = "create" /\ inbox' = Ending(inbox)
         \/ Cur \in Conns /\ Served(Cur) /\ inbox' = Ending(Leaving(inbox, Cur))
  BY ClosesDetails
<1>3. /\ UNCHANGED <<crashes, listener, looper, client, state, busy>>
      /\ \A v \in Views : v = panel => ~isRecording'[v]
  BY <1>2 DEF ViewsClosed, serviceVars
<1>4. SUFFICES ASSUME Alone' PROVE LetGoInv'
  BY DEF LetGoInv
<1>5. panel' = panel /\ crashes = 0 /\ panel # NoView /\ Of(panel)' = Of(panel)
  BY <1>2, <1>3, <1>4, ConnFacts DEF Alone, Of
<1>6. ~isRecording'[panel] /\ Same(looper, looper', Of(panel), Marks)
  BY <1>2, <1>3, UnchangedShows
<1>7. WillStop => WillStop'
  BY <1>5, <1>6, WillStopKept
<1>8. LetGo(Cur, NoConn) /\ (Cur # NoConn => isBound[Cur])
  BY <1>1, ClosesCases
<1>9. CASE Cur = NoConn
  <2>1. inbox' = inbox
    BY <1>1, <1>8, <1>9, LetGoCases
  <2> QED
    BY <1>3, <1>5, <1>7, <1>9, <2>1, LetGoKept DEF Alone
<1>10. CASE Cur # NoConn
  <2>1. PICK c \in Conns : c = Cur
    BY <1>1, <1>10, ConnFacts
  <2>2. Served(c)
    <3>1. isBound[c] /\ c \notin dead
      BY <1>5, <1>8, <1>10, <2>1 DEF ViewsInv
    <3> QED
      BY <1>1, <1>10, <2>1, <3>1 DEF BindingInv, Awaited, Arriving
  <2>3. inbox' = Ending(Leaving(inbox, c))
    <3>1. CASE inbox # <<>> /\ inbox[Len(inbox)].cmd = "create"
      <4>1. Len(inbox) \in 1..Len(inbox) /\ inbox[Len(inbox)] \in CommandType
        BY <1>1, <3>1, Shorter
      <4>2. inbox[Len(inbox)].conn = NoConn
        BY <3>1, <4>1, CommandCases
      <4> QED
        BY <1>1, <2>1, <2>2, <4>1, <4>2, ConnFacts DEF Served
    <3> QED
      BY <1>1, <1>8, <1>10, <2>1, <3>1, LetGoCases
  <2>4. PICK C \in SUBSET Conns : C = Of(panel)
    BY DEF Of
  <2>5. c \in C
    BY <1>10, <2>1, <2>4 DEF Known, Of
  <2>6. StopIn(inbox', C)
    <3>1. PICK q \in Seq(CommandType) : q = inbox
      BY <1>1
    <3>2. StopIn(Ending(Leaving(q, c)), {c})
      BY LeavingStop
    <3> QED
      BY <2>3, <2>5, <3>1, <3>2 DEF StopIn
  <2>7. ASSUME client \in C, busy = "no", ~Recording PROVE WillStop'
    <3>1. client = c
      <4>1. CASE inbox = <<>>
        BY <2>2, <4>1 DEF Served
      <4>2. CASE inbox # <<>>
        <5>1. PICK h \in CommandType : h = inbox[1] /\ 1 \in 1..Len(inbox)
          BY <1>1, <4>2, Shorter
        <5>2. Expected(h) /\ h.conn = c
          BY <1>1, <2>2, <4>2, <5>1 DEF InboxInv, Served
        <5>3. h.cmd \in Told \/ h.cmd = "register"
          BY <1>1, <2>1, <5>2, CommandCases, ConnFacts
        <5>4. client # NoConn
          BY <1>1, <2>7, ConnFacts
        <5> QED
          BY <5>2, <5>3, <5>4 DEF Expected, Fresh
      <4> QED
        BY <4>1, <4>2
    <3>2. Connection
      BY <1>10, <2>1, <2>7, <3>1 DEF Connection
    <3>3. Mark \in {"IDLE", "ERROR"}
      BY <1>1, <2>7 DEF Mark, Recording, SessionTypes, ServiceTypes
    <3>4. WillStop
      BY <2>7, <3>2, <3>3 DEF RecordingInv, WillStop
    <3> QED
      BY <1>7, <3>4
  <2>8. client' = client /\ busy' = busy /\ (Recording' <=> Recording) /\ Of(panel)' = C
    BY <1>3, <1>5, <2>4 DEF Recording
  <2>9. LetGoOf(C)'
    BY <2>6, <2>7, <2>8 DEF LetGoOf
  <2> QED
    BY <2>8, <2>9 DEF LetGoInv
<1> QED
  BY <1>9, <1>10

LEMMA LetGoOpens ==
  ASSUME SessionInv, Known, ViewsInv, LetGoInv, Opens
  PROVE  LetGoInv'
<1>1. SessionTypes /\ ViewTypes /\ ConnTypes /\ looper \in Seq(MessageType) /\ NoView \notin Views
  BY ConnFacts DEF SessionInv, SessionTypes, QueueTypes
<1>2. /\ panel' \in Views
      /\ panel' = panel \/ (panel = NoView /\ panel' > views)
      /\ UNCHANGED <<crashes, isRecording, state, busy, client>>
  BY OpensViews
<1>3. SUFFICES ASSUME Alone' PROVE LetGoInv'
  BY DEF LetGoInv
<1>4. Cur' = NoConn /\ crashes = 0
  BY <1>2, <1>3 DEF Alone
<1>5. Cur = NoConn /\ UNCHANGED <<listener, inbox>>
  BY <1>4, OpensDetails
<1>6. CASE panel' = panel
  <2>1. Alone /\ Of(panel)' = Of(panel)
    BY <1>1, <1>2, <1>4, <1>5, <1>6 DEF Alone, Of
  <2>2. looper' = looper \/ (looper # <<>> /\ Head(looper).kind = "start" /\ looper' = Tail(looper))
    BY OpensDetails
  <2>3. Same(looper, looper', Of(panel), Marks)
    BY <1>1, <2>2, TailShows, UnchangedShows
  <2>4. WillStop => WillStop'
    BY <1>2, <1>6, <2>1, <2>3, WillStopKept
  <2> QED
    BY <1>2, <1>5, <2>1, <2>4, LetGoKept
<1>7. CASE panel' > views
  <2>1. PICK p \in Views : p = panel'
    BY <1>2
  <2>2. p > views /\ p \in Nat /\ views \in Nat
    BY <1>1, <1>7, <2>1, SessionAssumption DEF Views, ViewTypes
  <2>3. \A c \in Conns : listener[c] # p
    <3> TAKE c \in Conns
    <3>1. listener[c] <= views /\ listener[c] \in Nat
      BY <1>1, SessionAssumption DEF ViewsInv, ConnTypes
    <3> QED
      BY <2>2, <3>1
  <2>4. Of(panel)' = {}
    BY <1>5, <2>1, <2>3 DEF Of
  <2>5. ~isRecording'[p]
    BY <1>2, <2>2 DEF ViewsInv
  <2>6. Settled(looper', {}, Marks)
    BY DEF Settled, NoneShown, Shows
  <2>7. WillStop'
    BY <2>1, <2>4, <2>5, <2>6 DEF WillStop
  <2>8. HasStopped({})'
    BY <2>7 DEF HasStopped, LeavesOnly
  <2>9. LetGoOf({})'
    BY <2>7, <2>8 DEF LetGoOf
  <2> QED
    BY <2>4, <2>9 DEF LetGoInv
<1> QED
  BY <1>2, <1>6, <1>7

LEMMA LetGoOthers ==
  ASSUME SessionInv, ViewsInv, LetGoInv,
         \/ Asks \/ Create \/ ProcessDies
         \/ OnServiceConnected \/ OnServiceDisconnected
         \/ \E granted \in BOOLEAN : AnswerPermission(granted)
         \/ \E v \in Views : Tick(v)
         \/ \E c \in Conns : DeathNotice(c)
         \/ UNCHANGED vars
  PROVE  LetGoInv'
<1>1. /\ SessionTypes /\ ViewTypes /\ looper \in Seq(MessageType) /\ inbox \in Seq(CommandType)
      /\ PanelInv /\ NoConn \notin Conns /\ crashes \in Nat
  BY DEF SessionInv, SessionTypes, QueueTypes, ViewTypes, Conns, NoConn
<1>2. SUFFICES ASSUME Alone' PROVE LetGoInv'
  BY DEF LetGoInv
<1>3. ASSUME UNCHANGED <<panel, voiceConnection, listener, crashes>>
      PROVE  Alone /\ Of(panel)' = Of(panel)
  BY <1>2, <1>3 DEF Alone, Of, Cur, ConnectionOf
<1>4. ASSUME UNCHANGED <<panel, voiceConnection, listener, crashes>>,
             UNCHANGED <<client, state, busy, inbox, isRecording>>,
             Alone => Same(looper, looper', Of(panel), Marks)
      PROVE  LetGoInv'
  BY <1>3, <1>4, WillStopKept, LetGoKept
<1>5. CASE Asks
  <2>1. /\ UNCHANGED <<panel, voiceConnection, listener, crashes>>
        /\ UNCHANGED <<client, state, busy, isRecording, looper>>
    BY <1>1, <1>5, AsksCases DEF connVars, serviceVars
  <2>2. inbox' = inbox
    BY <1>1, <1>3, <1>5, <2>1, AsksCases DEF Alone
  <2> QED
    BY <1>4, <2>1, <2>2, UnchangedShows
<1>6. CASE Create
  <2>1. /\ inbox # <<>> /\ Head(inbox).cmd = "create" /\ inbox' = Tail(inbox)
        /\ UNCHANGED <<client, state, busy>> /\ ServiceSide
        /\ looper' = looper \/ looper' = looper \o ToEach(bindings, Connected)
    BY <1>6 DEF Create, Commanded, Service!Connect
  <2>2. Alone /\ panel' = panel /\ Of(panel)' = Of(panel) /\ isRecording' = isRecording
    BY <1>2, <2>1, AloneSide
  <2>3. bindings = {}
    BY <1>1, <2>2 DEF PanelInv, Alone
  <2>4. looper' = looper
    <3>1. ToEach(bindings, Connected) = <<>>
      BY <2>3, ToNobody
    <3>2. looper \o <<>> = looper
      BY <1>1
    <3> QED
      BY <2>1, <3>1, <3>2
  <2>5. WillStop => WillStop'
    <3>1. Same(looper, looper', Of(panel), Marks)
      BY <2>4, UnchangedShows
    <3> QED
      BY <2>2, <3>1, WillStopKept
  <2>6. PICK h \in CommandType : h = inbox[1] /\ h = Head(inbox) /\ h.cmd = "create" /\ Expected(h)
    BY <1>1, <2>1, Shorter DEF SessionInv, InboxInv
  <2>7. client = NoConn
    BY <2>6 DEF Expected, Down
  <2>8. PICK C \in SUBSET Conns : C = Of(panel)
    BY DEF Of
  <2>9. LetGoOf(C) /\ Of(panel)' = C /\ client' \notin C
    BY <1>1, <2>1, <2>2, <2>7, <2>8 DEF LetGoInv
  <2>10. /\ LeavesOnly(inbox, C) => LeavesOnly(inbox', C)
         /\ StopIn(inbox, C) => StopIn(inbox', C)
    BY <1>1, <2>1, <2>6, AheadTail
  <2>11. LetGoOf(C)'
    BY <1>1, <2>1, <2>5, <2>7, <2>9, <2>10 DEF LetGoOf, BusyStopping, HasStopped
  <2> QED
    BY <2>9, <2>11 DEF LetGoInv
<1>7. CASE ProcessDies
  <2>1. crashes' = crashes + 1
    BY <1>7 DEF ProcessDies
  <2>2. crashes' = 0
    BY <1>2 DEF Alone
  <2> QED
    BY <1>1, <2>1, <2>2
<1>8. CASE OnServiceConnected
  <2>1. Cur' = Cur /\ Cur # NoConn
    BY <1>1, <1>8, ConnectedDetails DEF OnServiceConnected, viewVars, Cur, ConnectionOf
  <2> QED
    BY <1>2, <2>1 DEF Alone
<1>9. CASE OnServiceDisconnected
  <2>1. /\ UNCHANGED <<panel, voiceConnection, listener, crashes>>
        /\ UNCHANGED <<client, state, busy, inbox, isRecording>>
        /\ looper # <<>> /\ Head(looper).kind = "disconnected"
        /\ bindings = {} => looper' = Tail(looper)
    BY <1>9 DEF OnServiceDisconnected, Receives, Got, viewVars, serviceVars, boundVars
  <2>2. bindings = {}
    BY <1>1, <1>3, <2>1 DEF PanelInv, Alone
  <2>3. Same(looper, looper', Of(panel), Marks)
    BY <1>1, <2>1, <2>2, TailShows
  <2> QED
    BY <1>4, <2>1, <2>3
<1>10. CASE \E granted \in BOOLEAN : AnswerPermission(granted)
  <2>1. /\ UNCHANGED <<panel, voiceConnection, listener, crashes>>
        /\ UNCHANGED <<client, state, busy, inbox, isRecording>>
    BY <1>10 DEF AnswerPermission, viewVars, connVars, serviceVars, boundVars
  <2>2. Same(looper, looper', Of(panel), Marks)
    BY <1>10, AnswerShows
  <2> QED
    BY <1>4, <2>1, <2>2
<1>11. CASE (\E v \in Views : Tick(v)) \/ UNCHANGED vars
  <2>1. /\ UNCHANGED <<panel, voiceConnection, listener, crashes>>
        /\ UNCHANGED <<client, state, busy, inbox, isRecording, looper>>
    BY <1>11 DEF Tick, vars, viewVars, connVars, serviceVars, boundVars
  <2> QED
    BY <1>4, <2>1, UnchangedShows
<1>12. CASE \E c \in Conns : DeathNotice(c)
  <2>1. UNCHANGED <<panel, voiceConnection, listener, crashes>> /\ dead # {}
    BY <1>12 DEF DeathNotice, viewVars, boundVars
  <2>2. crashes = 0
    BY <1>3, <2>1 DEF Alone
  <2> QED
    BY <2>1, <2>2 DEF ViewsInv
<1> QED
  BY <1>5, <1>6, <1>7, <1>8, <1>9, <1>10, <1>11, <1>12

\* The panel shows what the service does, whatever commands, states, connections
\* and crashes were under way: togglePauseResume() ahead of the service,
\* handleServiceMessage and the listener's two posts, stopVoiceInput().
THEOREM PanelShowsService == "early" \notin Trouble => (Spec => []PanelAgrees)
<1> SUFFICES ASSUME "early" \notin Trouble
             PROVE  Spec => []PanelAgrees
  OBVIOUS
<1> DEFINE Inv == /\ SessionInv /\ Known /\ RecordingInv /\ PausedInv
                  /\ StopInv /\ ViewsInv /\ LetGoInv
<1>1. Init => Inv
  <2> SUFFICES ASSUME Init PROVE Inv
    OBVIOUS
  <2>1. SessionInv
    BY InitSound
  <2>2. /\ panel = NoView /\ Cur = NoConn /\ inbox = <<>> /\ client = NoConn /\ dead = {}
        /\ views = 0 /\ conns = 0 /\ listener = [c \in Conns |-> NoView]
        /\ isRecording = [v \in Views |-> FALSE] /\ voiceConnection = [v \in Views |-> NoConn]
    BY DEF Init, Cur, ConnectionOf, Service!Init, Service!NoClient, NoConn
  <2>3. 1..Len(inbox) = {}
    BY <2>2
  <2>4. Known
    BY <2>2, <2>3 DEF Known, Talks, NoConn
  <2>5. RecordingInv /\ PausedInv /\ LetGoInv
    BY <2>2 DEF RecordingInv, PausedInv, Connection, LetGoInv, Alone
  <2>6. StopInv
    BY <2>2, <2>3 DEF StopInv, StopsLast
  <2>7. ViewsInv
    BY <2>2 DEF ViewsInv, NoView
  <2> QED
    BY <2>1, <2>4, <2>5, <2>6, <2>7
<1>2. Inv /\ [Next]_vars => Inv'
  <2> SUFFICES ASSUME Inv, [Next]_vars PROVE Inv'
    OBVIOUS
  <2>1. SessionInv' /\ StopInv' /\ ViewsInv'
    BY NextKeeps, StopKept, ViewsKept
  <2>2. CASE Next
    <3>1. Known'
      BY <2>2, NextActions, KnownOpens, KnownAsks, KnownCloses, KnownOthers
    <3>2. RecordingInv' /\ PausedInv'
      BY <2>2, NextActions, ShownOpens, ShownAsks, ShownCommands, ShownBackground,
         ShownPasses, ShownOthers
    <3>3. LetGoInv'
      BY <2>2, NextActions, LetGoOpens, LetGoCloses, LetGoCommands, LetGoBackground,
         LetGoPasses, LetGoOthers
    <3> QED
      BY <2>1, <3>1, <3>2, <3>3
  <2>3. CASE UNCHANGED vars
    <3>1. UNCHANGED <<panel, voiceConnection, inbox, client, listener, conns, published>>
      BY <2>3 DEF vars, viewVars, connVars, boundVars, systemVars, serviceVars
    <3>2. ViewTypes /\ \A c \in Conns : Talks(c)' => Talks(c)
      BY <3>1 DEF SessionInv, SessionTypes, Talks
    <3>3. Known'
      BY <3>1, <3>2, KnownKept
    <3> QED
      BY <2>1, <2>3, <3>3, ShownOthers, LetGoOthers
  <2> QED
    BY <2>2, <2>3
<1>3. Inv => RecordingShown /\ PauseShown
  <2> SUFFICES ASSUME Inv, Quiet, panel # NoView PROVE RecordingShown /\ PauseShown
    BY DEF RecordingShown, PauseShown
  <2>1. /\ looper = <<>> /\ inbox = <<>> /\ busy = "no" /\ dead = {}
        /\ Cur = voiceConnection[panel] /\ panel \in Views /\ 1..Len(<<>>) = {}
        /\ isRecording[panel] \in BOOLEAN /\ isPaused[panel] \in BOOLEAN
    BY ConnFacts DEF Quiet, SessionInv, SessionTypes, ViewTypes
  <2>2. \A C, K, st : ~WillShow(looper, C, K, st)
    BY <2>1, EmptyShows
  <2>3. \A cmd : ~LastTap(inbox, cmd)
    BY <2>1 DEF LastTap
  <2>4. CASE Cur # NoConn
    <3>1. Served(Cur)
      BY <2>1, <2>4 DEF SessionInv, BindingInv, Awaited, Arriving, OneLive
    <3>2. Connection /\ client = voiceConnection[panel]
      BY <2>1, <2>4, <3>1 DEF Served, Connection
    <3>3. isRecording[panel] <=> Recording
      BY <2>2, <3>2 DEF RecordingInv
    <3>4. state # "ERROR" => (isPaused[panel] <=> state = "PAUSED")
      BY <2>1, <2>2, <2>3, <3>2 DEF PausedInv, PausedAsAsked
    <3> QED
      BY <3>2, <3>3, <3>4 DEF RecordingShown, PauseShown
  <2>5. CASE Cur = NoConn
    <3>1. PauseShown
      BY <2>1, <2>5 DEF PauseShown
    <3>2. ~Recording
      BY <2>5, RecordsForPanel
    <3>3. crashes = 0 => ~isRecording[panel]
      <4>1. SUFFICES ASSUME crashes = 0 PROVE ~isRecording[panel]
        OBVIOUS
      <4>2. LetGoOf(Of(panel))
        BY <2>5, <4>1 DEF LetGoInv, Alone
      <4>3. WillStop
        BY <2>1, <4>2 DEF LetGoOf, StopIn, BusyStopping, HasStopped
      <4> QED
        BY <2>2, <4>3 DEF WillStop
    <3>4. RecordingShown
      BY <2>1, <2>5, <3>2, <3>3 DEF RecordingShown
    <3> QED
      BY <3>1, <3>4
  <2> QED
    BY <2>4, <2>5
<1>4. Spec => [](RecordingShown /\ PauseShown)
  BY <1>1, <1>2, <1>3, PTL DEF Spec
<1>5. Spec => []TypeOK
  BY SessionTyped
<1>6. TypeOK /\ RecordingShown /\ PauseShown => PanelAgrees
  BY DEF PanelAgrees
<1> QED
  BY <1>4, <1>5, <1>6, PTL

=============================================================================

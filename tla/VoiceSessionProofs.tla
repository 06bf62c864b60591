-------------------------- MODULE VoiceSessionProofs --------------------------
(***************************************************************************)
(* What a voice session keeps for every number of panels, connections,     *)
(* taps, crashes and texts, whatever goes wrong, as long as the user waits *)
(* for the connection before closing a panel ("early" is not among the     *)
(* troubles), checked by TLAPS.                                            *)
(***************************************************************************)
EXTENDS VoiceSession, FiniteSetTheorems, TLAPS

-----------------------------------------------------------------------------
(***************************************************************************)
(* The inductive invariant.                                                *)
(***************************************************************************)

\* The connection of the open panel, if it has one.
Cur == ConnectionOf(panel)

\* The commands that a registered client gives, and all commands.
Told == {"start", "pause", "resume", "gain", "stop", "unregister"}
CommandType ==
    [cmd : Told \cup {"register"}, conn : Conns, gain : {NoGain, 1, 2, 4}]
    \cup [cmd : {"create", "unbind", "destroy"}, conn : {NoConn}, gain : {NoGain}]
MessageType ==
    [kind : {"event", "post"}, to : Conns,
     state : {"IDLE", "RECORDING", "PAUSED", "ERROR", "none"}, from : Nat]
    \cup [kind : {"connected", "disconnected"}, to : Conns, state : {"none"}, from : Nat]
    \cup [kind : {"start"}, to : Views, state : {"none"}, from : Nat]

ViewTypes ==
    /\ panel \in 0..MaxViews /\ views \in 0..MaxViews /\ conns \in 0..MaxConns
    /\ crashes \in Nat
    /\ voiceConnection \in [Views -> 0..MaxConns]
    /\ isRecording \in [Views -> BOOLEAN] /\ isPaused \in [Views -> BOOLEAN]
    /\ currentGain \in [Views -> {1, 2, 4}] /\ timer \in [Views -> BOOLEAN]
ConnTypes ==
    /\ listener \in [Conns -> 0..MaxViews] /\ isBound \in [Conns -> BOOLEAN]
    /\ pendingStartGain \in [Conns -> {NoGain, 1, 2, 4}]
SystemTypes ==
    /\ bindings \subseteq Conns /\ dead \subseteq Conns /\ published \in BOOLEAN
    /\ permission \in BOOLEAN /\ onPermissionResult \in 0..MaxViews
ServiceTypes ==
    /\ client \in 0..MaxConns /\ speaker \in 0..MaxConns /\ passSpeaker \in 0..MaxConns
    /\ alive \in BOOLEAN /\ pass \in BOOLEAN
    /\ state \in {"IDLE", "RECORDING", "PAUSED", "ERROR"}
    /\ busy \in {"no", "starting", "stopping"}
QueueTypes == inbox \in Seq(CommandType) /\ looper \in Seq(MessageType)

SessionTypes == ViewTypes /\ ConnTypes /\ SystemTypes /\ ServiceTypes /\ QueueTypes

\* Only the open panel has a connection, a timer, or an unanswered request for
\* the permission; and only its connection is bound.
PanelInv ==
    /\ panel \in {NoView, views}
    /\ \A v \in Views : voiceConnection[v] # NoConn => v = panel
    /\ \A v \in Views : timer[v] => v = panel
    /\ onPermissionResult \in {NoView, panel}
    /\ bindings = {Cur} \ {NoConn}
    /\ \A c \in Conns : isBound[c] \/ c \in dead => c = Cur

\* A message on the keyboard's looper: a start is for the panel "p"; a binder is
\* of one of the first "n" processes; a text was spoken to whom it is for.
Sound(m, p, n) ==
    /\ m.kind = "start" => m.to = p
    /\ m.kind = "connected" => m.from <= n
    /\ m.kind \in {"event", "post"} /\ m.state = "none" => m.from = m.to
AllSound(q, p, n) == \A i \in 1..Len(q) : Sound(q[i], p, n)

MessagesInv == AllSound(looper, panel, crashes)

\* The binder of process "n" on the looper "q": not there; there once, for "c",
\* with every loss of an earlier one before it.
Live(m, n) == m.kind = "connected" /\ m.from = n
Loss(m, c) == m.kind = "disconnected" /\ m.to = c
NoneLive(q, n) == \A i \in 1..Len(q) : ~Live(q[i], n)
OneLive(q, n, c) ==
    \E k \in 1..Len(q) :
        /\ Live(q[k], n) /\ q[k].to = c
        /\ \A i \in 1..Len(q) : Live(q[i], n) => i = k
        /\ \A i \in 1..Len(q) : Loss(q[i], c) => i < k
NoLoss(q, c) == \A i \in 1..Len(q) : ~Loss(q[i], c)

\* What a service is before it has a client, and after its last one.
Fresh == alive /\ client = NoConn /\ state = "IDLE" /\ busy = "no" /\ ~pass
Down == /\ ~alive /\ client = NoConn
        /\ busy = "stopping" \/ (busy = "no" /\ state = "IDLE")

\* The commands under way, life by life of the service: a client registers,
\* gives commands, takes leave; then the service is unbound and destroyed.
Follows(a, b) ==
    \/ b.cmd \in Told /\ b.conn = a.conn /\ a.cmd \in (Told \cup {"register"}) \ {"unregister"}
    \/ b.cmd = "unbind" /\ a.cmd \notin {"unbind", "destroy"}
    \/ b.cmd = "destroy" /\ a.cmd = "unbind"
    \/ b.cmd = "create" /\ a.cmd = "destroy"
Linked(q) ==
    /\ \A i \in 1..Len(q) - 1 : Follows(q[i], q[i + 1])
    /\ q # <<>> => q[Len(q)].cmd # "unbind"

\* The service is in the state for the command at the head of its inbox.
Expected(h) ==
    /\ h.cmd \in Told => h.conn = client
    /\ h.cmd = "register" => Fresh
    /\ h.cmd = "create" => Down
    /\ h.cmd = "destroy" => ~alive /\ client = NoConn

InboxInv == Linked(inbox) /\ (inbox # <<>> => Expected(inbox[1]))

\* The service is not there and will not be; it is still to be created; its
\* binder is on its way; it is bound.
NoService ==
    /\ ~published /\ NoneLive(looper, crashes) /\ dead = {}
    /\ IF inbox = <<>> THEN Down ELSE inbox[Len(inbox)].cmd = "destroy"
Awaited(c) ==
    /\ ~published /\ NoneLive(looper, crashes)
    /\ inbox # <<>> /\ inbox[Len(inbox)].cmd = "create"
    /\ isBound[c] => c \in dead
Arriving(c) ==
    /\ published /\ dead = {} /\ ~isBound[c]
    /\ OneLive(looper, crashes, c)
    /\ inbox = <<>> /\ Fresh
Served(c) ==
    /\ published /\ dead = {} /\ isBound[c]
    /\ NoneLive(looper, crashes) /\ NoLoss(looper, c)
    /\ \A i \in 1..Len(inbox) : inbox[i].conn = c /\ inbox[i].cmd # "unregister"
    /\ inbox = <<>> => client = c

BindingInv == IF Cur = NoConn THEN NoService ELSE Awaited(Cur) \/ Arriving(Cur) \/ Served(Cur)

\* The microphone and the final pass are the registered client's.
SpeechInv ==
    /\ client # NoConn =>
         /\ state # "IDLE" \/ busy = "starting" => speaker = client
         /\ pass => passSpeaker = client
    /\ \A t \in typed : t.to = t.speaker /\ t.to \in Conns

SessionInv ==
    SessionTypes /\ PanelInv /\ MessagesInv /\ InboxInv /\ BindingInv /\ SpeechInv

-----------------------------------------------------------------------------
(***************************************************************************)
(* The two queues.                                                         *)
(***************************************************************************)
LEMMA Longer ==
  ASSUME NEW T, NEW q \in Seq(T), NEW m \in T
  PROVE  /\ Append(q, m) \in Seq(T) /\ Append(q, m) # <<>>
         /\ Len(q) \in Nat /\ Len(Append(q, m)) = Len(q) + 1
         /\ \A i \in 1..Len(q) : Append(q, m)[i] = q[i]
         /\ Append(q, m)[Len(q) + 1] = m
  OBVIOUS

LEMMA Shorter ==
  ASSUME NEW T, NEW q \in Seq(T), q # <<>>
  PROVE  /\ Tail(q) \in Seq(T) /\ Head(q) = q[1] /\ Head(q) \in T
         /\ Len(q) \in Nat \ {0} /\ Len(Tail(q)) = Len(q) - 1
         /\ \A i \in 1..Len(Tail(q)) : Tail(q)[i] = q[i + 1]
         /\ Tail(q) # <<>> => Len(Tail(q)) >= 1
  OBVIOUS

LEMMA EmptyOrNot ==
  ASSUME NEW T, NEW q \in Seq(T)
  PROVE  Len(q) \in Nat /\ (q = <<>> <=> Len(q) = 0)
  OBVIOUS

\* Appending one by one.
LEMMA Joined ==
  ASSUME NEW T, NEW q \in Seq(T), NEW a \in T, NEW b \in T
  PROVE  /\ q \o <<>> = q /\ q \o <<a>> = Append(q, a)
         /\ q \o <<a, b>> = Append(Append(q, a), b)
  OBVIOUS

LEMMA TwoInTurn ==
  ASSUME NEW T, NEW a \in T, NEW b \in T
  PROVE  <<>> \o <<a>> \o <<b>> = <<a, b>>
<1> DEFINE q == <<>> \o <<a>> \o <<b>>
<1>1. q \in Seq(T) /\ Len(q) = 2 /\ q[1] = a /\ q[2] = b
  OBVIOUS
<1>2. <<a, b>> \in Seq(T) /\ Len(<<a, b>>) = 2 /\ <<a, b>>[1] = a /\ <<a, b>>[2] = b
  OBVIOUS
<1> HIDE DEF q
<1>3. \A i \in 1..2 : i = 1 \/ i = 2
  OBVIOUS
<1>4. \A r \in Seq(T), s \in Seq(T) :
        Len(r) = Len(s) /\ (\A i \in 1..Len(r) : r[i] = s[i]) => r = s
  OBVIOUS
<1>5. q = <<a, b>>
  BY <1>1, <1>2, <1>3, <1>4
<1> QED
  BY <1>5 DEF q

\* A message that does not make or break a connection leaves a binder on the
\* looper, and its absence, as they were.
Keeps(q, r, n) ==
    /\ NoneLive(q, n) => NoneLive(r, n)
    /\ \A c \in Conns : OneLive(q, n, c) => OneLive(r, n, c)
    /\ \A c \in Conns : NoLoss(q, c) => NoLoss(r, c)

LEMMA KeepsItself == \A q, n : Keeps(q, q, n)
  BY DEF Keeps

LEMMA KeepsTwice ==
  ASSUME NEW q, NEW r, NEW s, NEW n, Keeps(q, r, n), Keeps(r, s, n)
  PROVE  Keeps(q, s, n)
  BY DEF Keeps

LEMMA Quietly ==
  ASSUME NEW q \in Seq(MessageType), NEW m \in MessageType, NEW n,
         m.kind \notin {"connected", "disconnected"}
  PROVE  Keeps(q, Append(q, m), n)
<1> DEFINE r == Append(q, m)
<1>1. /\ Len(q) \in Nat /\ Len(r) = Len(q) + 1
      /\ \A i \in 1..Len(q) : r[i] = q[i]
      /\ r[Len(q) + 1] = m
  BY Longer
<1>2. \A i \in 1..Len(r) : i \in 1..Len(q) \/ i = Len(q) + 1
  BY <1>1
<1>3. ~Live(m, n) /\ \A c : ~Loss(m, c)
  BY DEF Live, Loss
<1> HIDE DEF r
<1>4. ASSUME NoneLive(q, n) PROVE NoneLive(r, n)
  BY <1>1, <1>2, <1>3, <1>4 DEF NoneLive
<1>5. ASSUME NEW c \in Conns, OneLive(q, n, c) PROVE OneLive(r, n, c)
  <2>1. PICK k \in 1..Len(q) :
          /\ Live(q[k], n) /\ q[k].to = c
          /\ \A i \in 1..Len(q) : Live(q[i], n) => i = k
          /\ \A i \in 1..Len(q) : Loss(q[i], c) => i < k
    BY <1>5 DEF OneLive
  <2>2. k \in 1..Len(r) /\ r[k] = q[k]
    BY <1>1
  <2>3. \A i \in 1..Len(r) : Live(r[i], n) => i = k
    BY <1>1, <1>2, <1>3, <2>1
  <2>4. \A i \in 1..Len(r) : Loss(r[i], c) => i < k
    BY <1>1, <1>2, <1>3, <2>1
  <2> QED
    BY <2>1, <2>2, <2>3, <2>4 DEF OneLive
<1>6. ASSUME NEW c \in Conns, NoLoss(q, c) PROVE NoLoss(r, c)
  BY <1>1, <1>2, <1>3, <1>6 DEF NoLoss
<1>7. Keeps(q, r, n)
  BY <1>4, <1>5, <1>6 DEF Keeps
<1> QED
  BY <1>7 DEF r

LEMMA HeadGoes ==
  ASSUME NEW q \in Seq(MessageType), q # <<>>, NEW n, ~Live(Head(q), n)
  PROVE  Keeps(q, Tail(q), n)
<1> DEFINE r == Tail(q)
<1>1. /\ Len(q) \in Nat \ {0} /\ Len(r) = Len(q) - 1 /\ Head(q) = q[1]
      /\ \A i \in 1..Len(r) : r[i] = q[i + 1]
  BY Shorter
<1>2. \A i \in 1..Len(r) : i + 1 \in 1..Len(q)
  BY <1>1
<1>3. ASSUME NoneLive(q, n) PROVE NoneLive(r, n)
  BY <1>1, <1>2, <1>3 DEF NoneLive
<1>4. ASSUME NEW c \in Conns, OneLive(q, n, c) PROVE OneLive(r, n, c)
  <2>1. PICK k \in 1..Len(q) :
          /\ Live(q[k], n) /\ q[k].to = c
          /\ \A i \in 1..Len(q) : Live(q[i], n) => i = k
          /\ \A i \in 1..Len(q) : Loss(q[i], c) => i < k
    BY <1>4 DEF OneLive
  <2>2. k # 1
    BY <1>1, <2>1
  <2>3. k - 1 \in 1..Len(r) /\ r[k - 1] = q[k]
    <3>1. k - 1 \in 1..Len(r) /\ (k - 1) + 1 = k
      BY <1>1, <2>2
    <3> QED
      BY <1>1, <3>1
  <2>4. \A i \in 1..Len(r) : Live(r[i], n) => i = k - 1
    <3> TAKE i \in 1..Len(r)
    <3> HAVE Live(r[i], n)
    <3>1. i + 1 = k
      BY <1>1, <1>2, <2>1
    <3> QED
      BY <1>1, <3>1
  <2>5. \A i \in 1..Len(r) : Loss(r[i], c) => i < k - 1
    <3> TAKE i \in 1..Len(r)
    <3> HAVE Loss(r[i], c)
    <3>1. i + 1 < k
      BY <1>1, <1>2, <2>1
    <3> QED
      BY <1>1, <3>1
  <2> QED
    BY <2>1, <2>3, <2>4, <2>5 DEF OneLive
<1>5. ASSUME NEW c \in Conns, NoLoss(q, c) PROVE NoLoss(r, c)
  BY <1>1, <1>2, <1>5 DEF NoLoss
<1>6. Keeps(q, r, n)
  BY <1>3, <1>4, <1>5 DEF Keeps
<1> QED
  BY <1>6 DEF r

\* The binder arrives on the looper, and at its head.
LEMMA BinderSent ==
  ASSUME NEW q \in Seq(MessageType), NEW m \in MessageType, NEW n, NEW c,
         NoneLive(q, n), Live(m, n), m.to = c
  PROVE  OneLive(Append(q, m), n, c)
<1> DEFINE r == Append(q, m)
<1>1. /\ Len(q) \in Nat /\ Len(r) = Len(q) + 1
      /\ \A i \in 1..Len(q) : r[i] = q[i]
      /\ r[Len(q) + 1] = m
  BY Longer
<1>2. \A i \in 1..Len(r) : i \in 1..Len(q) \/ i = Len(q) + 1
  BY <1>1
<1>3. ~Loss(m, c)
  BY DEF Live, Loss
<1> HIDE DEF r
<1> DEFINE k == Len(q) + 1
<1>4. k \in 1..Len(r) /\ Live(r[k], n) /\ r[k].to = c
  BY <1>1
<1>5. \A i \in 1..Len(r) : Live(r[i], n) => i = k
  BY <1>1, <1>2 DEF NoneLive
<1>6. \A i \in 1..Len(r) : Loss(r[i], c) => i < k
  BY <1>1, <1>2, <1>3
<1>7. OneLive(r, n, c)
  <2> HIDE DEF k
  <2> QED
    BY <1>4, <1>5, <1>6 DEF OneLive
<1> QED
  BY <1>7 DEF r

LEMMA BinderTaken ==
  ASSUME NEW q \in Seq(MessageType), q # <<>>, NEW n, NEW c \in Conns,
         OneLive(q, n, c), Live(Head(q), n)
  PROVE  Head(q).to = c /\ NoneLive(Tail(q), n) /\ NoLoss(Tail(q), c)
<1> DEFINE r == Tail(q)
<1>1. /\ Len(q) \in Nat \ {0} /\ Len(r) = Len(q) - 1 /\ Head(q) = q[1]
      /\ \A i \in 1..Len(r) : r[i] = q[i + 1]
  BY Shorter
<1>2. \A i \in 1..Len(r) : i + 1 \in 1..Len(q) /\ i + 1 # 1 /\ ~(i + 1 < 1)
  BY <1>1
<1>3. 1 \in 1..Len(q)
  BY <1>1
<1>4. PICK k \in 1..Len(q) :
          /\ Live(q[k], n) /\ q[k].to = c
          /\ \A i \in 1..Len(q) : Live(q[i], n) => i = k
          /\ \A i \in 1..Len(q) : Loss(q[i], c) => i < k
  BY DEF OneLive
<1>5. k = 1
  BY <1>1, <1>3, <1>4
<1>6. NoneLive(r, n)
  BY <1>1, <1>2, <1>4, <1>5 DEF NoneLive
<1>7. NoLoss(r, c)
  BY <1>1, <1>2, <1>4, <1>5 DEF NoLoss
<1> QED
  BY <1>1, <1>4, <1>5, <1>6, <1>7

\* Every message stays sound when one comes or the first one goes.
LEMMA SoundAppend ==
  ASSUME NEW q \in Seq(MessageType), NEW m \in MessageType, NEW p, NEW n,
         AllSound(q, p, n), Sound(m, p, n)
  PROVE  AllSound(Append(q, m), p, n)
<1> DEFINE r == Append(q, m)
<1>1. /\ Len(q) \in Nat /\ Len(r) = Len(q) + 1
      /\ \A i \in 1..Len(q) : r[i] = q[i]
      /\ r[Len(q) + 1] = m
  BY Longer
<1>2. \A i \in 1..Len(r) : i \in 1..Len(q) \/ i = Len(q) + 1
  BY <1>1
<1> HIDE DEF r
<1>3. AllSound(r, p, n)
  BY <1>1, <1>2 DEF AllSound
<1> QED
  BY <1>3 DEF r

LEMMA SoundTail ==
  ASSUME NEW q \in Seq(MessageType), q # <<>>, NEW p, NEW n, AllSound(q, p, n)
  PROVE  AllSound(Tail(q), p, n) /\ Sound(Head(q), p, n)
<1> DEFINE r == Tail(q)
<1>1. /\ Len(q) \in Nat \ {0} /\ Len(r) = Len(q) - 1 /\ Head(q) = q[1]
      /\ \A i \in 1..Len(r) : r[i] = q[i + 1]
  BY Shorter
<1>2. \A i \in 1..Len(r) : i + 1 \in 1..Len(q)
  BY <1>1
<1>3. 1 \in 1..Len(q)
  BY <1>1
<1>4. AllSound(r, p, n)
  BY <1>1, <1>2 DEF AllSound
<1> QED
  BY <1>1, <1>3, <1>4 DEF AllSound

\* The inbox, when a command comes that may follow its last one, and when the
\* first one goes.
LEMMA LinkedAppend ==
  ASSUME NEW q \in Seq(CommandType), NEW e \in CommandType, Linked(q),
         q # <<>> => Follows(q[Len(q)], e)
  PROVE  /\ Append(q, e) \in Seq(CommandType) /\ Append(q, e) # <<>>
         /\ \A i \in 1..Len(Append(q, e)) - 1 : Follows(Append(q, e)[i], Append(q, e)[i + 1])
         /\ e.cmd # "unbind" => Linked(Append(q, e))
         /\ Append(q, e)[Len(Append(q, e))] = e
         /\ Append(q, e)[1] = IF q = <<>> THEN e ELSE q[1]
<1> DEFINE r == Append(q, e)
<1>1. /\ Len(q) \in Nat /\ Len(r) = Len(q) + 1
      /\ r \in Seq(CommandType) /\ r # <<>>
      /\ \A i \in 1..Len(q) : r[i] = q[i]
      /\ r[Len(q) + 1] = e
      /\ q = <<>> <=> Len(q) = 0
  BY Longer, EmptyOrNot
<1> HIDE DEF r
<1>2. ASSUME NEW i \in 1..Len(r) - 1 PROVE Follows(r[i], r[i + 1])
  <2>1. CASE i < Len(q)
    <3>1. i \in 1..Len(q) - 1 /\ i \in 1..Len(q) /\ i + 1 \in 1..Len(q)
      BY <1>1, <2>1
    <3>2. Follows(q[i], q[i + 1])
      BY <3>1 DEF Linked
    <3> QED
      BY <1>1, <3>1, <3>2
  <2>2. CASE ~(i < Len(q))
    <3>1. i = Len(q) /\ Len(q) # 0 /\ i \in 1..Len(q)
      BY <1>1, <2>2
    <3> QED
      BY <1>1, <3>1
  <2> QED
    BY <2>1, <2>2
<1>3. r[Len(r)] = e
  BY <1>1
<1>4. r[1] = IF q = <<>> THEN e ELSE q[1]
  <2>1. CASE q = <<>>
    BY <1>1, <2>1
  <2>2. CASE q # <<>>
    <3>1. 1 \in 1..Len(q)
      BY <1>1, <2>2
    <3> QED
      BY <1>1, <2>2, <3>1
  <2> QED
    BY <2>1, <2>2
<1>5. e.cmd # "unbind" => Linked(r)
  BY <1>2, <1>3 DEF Linked
<1> QED
  BY <1>1, <1>2, <1>3, <1>4, <1>5 DEF r

LEMMA LinkedTail ==
  ASSUME NEW q \in Seq(CommandType), q # <<>>, Linked(q)
  PROVE  /\ Tail(q) \in Seq(CommandType) /\ Linked(Tail(q))
         /\ Tail(q) # <<>> => /\ Follows(q[1], Tail(q)[1])
                              /\ Tail(q)[Len(Tail(q))] = q[Len(q)]
         /\ Tail(q) = <<>> => Len(q) = 1
         /\ Head(q) = q[1] /\ q[1] \in CommandType
<1> DEFINE r == Tail(q)
<1>1. /\ Len(q) \in Nat \ {0} /\ Len(r) = Len(q) - 1 /\ Head(q) = q[1]
      /\ r \in Seq(CommandType) /\ Head(q) \in CommandType
      /\ \A i \in 1..Len(r) : r[i] = q[i + 1]
      /\ r = <<>> <=> Len(r) = 0
  BY Shorter, EmptyOrNot
<1> HIDE DEF r
<1>2. ASSUME r # <<>>
      PROVE  Follows(q[1], r[1]) /\ r[Len(r)] = q[Len(q)]
  <2>1. 1 \in 1..Len(r) /\ Len(r) \in 1..Len(r) /\ 1 \in 1..Len(q) - 1
    BY <1>1, <1>2
  <2>2. r[1] = q[2] /\ r[Len(r)] = q[Len(q)]
    <3>1. r[1] = q[1 + 1] /\ r[Len(r)] = q[Len(r) + 1]
      BY <1>1, <2>1
    <3> QED
      BY <1>1, <3>1
  <2>3. Follows(q[1], q[1 + 1])
    BY <2>1 DEF Linked
  <2> QED
    BY <2>2, <2>3
<1>3. ASSUME NEW i \in 1..Len(r) - 1 PROVE Follows(r[i], r[i + 1])
  <2>1. /\ i \in 1..Len(r) /\ i + 1 \in 1..Len(r) /\ i + 1 \in 1..Len(q) - 1
    BY <1>1
  <2>2. r[i] = q[i + 1] /\ r[i + 1] = q[(i + 1) + 1]
    BY <1>1, <2>1
  <2>3. Follows(q[i + 1], q[(i + 1) + 1])
    BY <2>1 DEF Linked
  <2> QED
    BY <2>2, <2>3
<1>4. Linked(r)
  BY <1>2, <1>3 DEF Linked
<1> QED
  BY <1>1, <1>2, <1>4 DEF r

-----------------------------------------------------------------------------
(***************************************************************************)
(* The actions, grouped by what they do to the invariant.                  *)
(***************************************************************************)
Opens == ShowVoiceModal \/ TapMicStarts \/ StartWhenGranted
Asks == TapMicResumes \/ TapMicPauses \/ TapGain
Closes == TapCancel \/ TapConfirm \/ TapSettings \/ Dismiss \/ \E v \in Views : TimeUp(v)
Commands ==
    \/ RegisterClient \/ StartRecording \/ PauseRecording \/ ResumeRecording \/ SetGain
    \/ StopRecording \/ UnregisterClient \/ OnUnbind \/ OnDestroy
Background ==
    \/ RecordingStarted \/ RecordingStopped \/ IdleTimeout \/ MicFails \/ BeginPass
    \/ SendFinalCommit \/ LoseText
Passes == HandleServiceMessage \/ ShowState \/ CommitText \/ DropDeadBinder

LEMMA NextActions ==
  ASSUME Next
  PROVE  \/ Opens \/ Asks \/ Closes \/ Commands \/ Background \/ Passes
         \/ Create \/ ProcessDies
         \/ OnServiceConnected \/ OnServiceDisconnected
         \/ \E granted \in BOOLEAN : AnswerPermission(granted)
         \/ \E v \in Views : Tick(v)
         \/ \E c \in Conns : DeathNotice(c)
<1>1. CASE User
  BY <1>1 DEF User, Opens, Asks, Closes
<1>2. CASE Keyboard
  BY <1>2 DEF Keyboard, Passes, Opens
<1>3. CASE VoiceProcess
  BY <1>3 DEF VoiceProcess, Commands, Background
<1>4. CASE \E v \in Views : Tick(v) \/ TimeUp(v)
  BY <1>4 DEF Closes
<1>5. CASE IdleTimeout \/ MicFails \/ BeginPass \/ SendFinalCommit \/ LoseText
  BY <1>5 DEF Background
<1> QED
  BY <1>1, <1>2, <1>3, <1>4, <1>5 DEF Next

\* A connection is null or one of those created.
LEMMA ConnFacts ==
  ASSUME ViewTypes
  PROVE  /\ Cur \in 0..MaxConns
         /\ Cur # NoConn => Cur \in Conns /\ panel \in Views
         /\ \A c \in 0..MaxConns : c # NoConn <=> c \in Conns
         /\ panel # NoView => panel \in Views /\ Cur = voiceConnection[panel]
         /\ panel = NoView => Cur = NoConn
         /\ NoConn \notin Conns /\ NoView \notin Views
  BY SessionAssumption DEF ViewTypes, Cur, ConnectionOf, Conns, Views, NoConn, NoView

\* Messages have the shape of their kind.
LEMMA MessageFacts ==
  ASSUME NEW c \in Conns, NEW kind \in {"event", "post"},
         NEW st \in {"IDLE", "RECORDING", "PAUSED", "ERROR"}, NEW from \in Nat
  PROVE  /\ StateOf(kind, c, st) \in MessageType
         /\ TextOf(kind, c, from) \in MessageType
         /\ Disconnected(c) \in MessageType
         /\ crashes \in Nat => Connected(c) \in MessageType
         /\ \A v \in Views : Signal("start", v) \in MessageType
  BY DEF StateOf, TextOf, Disconnected, Connected, Signal, MessageType

LEMMA HeadFacts ==
  ASSUME NEW m \in MessageType
  PROVE  /\ m.kind = "start" => m.to \in Views
         /\ m.kind # "start" => m.to \in Conns
         /\ m.kind = "event" => [m EXCEPT !.kind = "post"] \in MessageType
         /\ m.kind \notin {"event", "post"} => m.state = "none"
         /\ m.from \in Nat /\ m \in Message
  BY DEF MessageType, Message, Conns, Views

LEMMA CommandFacts ==
  ASSUME NEW c \in Conns, NEW cmd \in Told \cup {"register"}, NEW gain \in {NoGain, 1, 2, 4}
  PROVE  /\ Command(cmd, c, gain) \in CommandType
         /\ Command(cmd, c, gain).cmd = cmd /\ Command(cmd, c, gain).conn = c
  BY DEF Command, CommandType

LEMMA SystemCommandFacts ==
  ASSUME NEW cmd \in {"create", "unbind", "destroy"}
  PROVE  /\ Command(cmd, NoConn, NoGain) \in CommandType
         /\ Command(cmd, NoConn, NoGain).cmd = cmd
  BY DEF Command, CommandType

LEMMA CommandCases ==
  ASSUME NEW e \in CommandType
  PROVE  /\ e.cmd \in Told \cup {"register"} => e.conn \in Conns
         /\ e.cmd \in {"create", "unbind", "destroy"} => e.conn = NoConn
         /\ e.cmd \in Told \cup {"register", "create", "unbind", "destroy"}
         /\ e.gain \in {NoGain, 1, 2, 4}
  BY DEF CommandType, Told

\* The same to one connection, or to none.
LEMMA ToEachOne ==
  ASSUME NEW c \in Nat
  PROVE  /\ ToEach({c}, Connected) = <<Connected(c)>>
         /\ ToEach({c}, Disconnected) = <<Disconnected(c)>>
<1>1. Cardinality({c}) = 1
  BY FS_Singleton
<1>2. {d \in {c} : d <= c} = {c}
  OBVIOUS
<1>3. Nth({c}, 1) = c
  BY <1>1, <1>2 DEF Nth
<1>4. /\ ToEach({c}, Connected) = [i \in {1} |-> Connected(c)]
      /\ ToEach({c}, Disconnected) = [i \in {1} |-> Disconnected(c)]
  <2>1. 1..Cardinality({c}) = {1}
    BY <1>1
  <2>2. \A i \in {1} : Nth({c}, i) = c
    BY <1>3
  <2> QED
    BY <2>1, <2>2 DEF ToEach
<1>5. \A x : [i \in {1} |-> x] = <<x>>
  OBVIOUS
<1> QED
  BY <1>4, <1>5

LEMMA ToNobody == ToEach({}, Connected) = <<>> /\ ToEach({}, Disconnected) = <<>>
<1>1. Cardinality({}) = 0
  BY FS_EmptySet
<1>2. 1..Cardinality({}) = {}
  BY <1>1
<1> QED
  BY <1>2 DEF ToEach

-----------------------------------------------------------------------------
(***************************************************************************)
(* Opening the panel, tapping its microphone, and the permission granted.  *)
(***************************************************************************)
StartsFrom(v, rest) ==
    /\ v = panel' /\ voiceConnection[v] = Cur
    /\ StartVoiceInput(v, rest)
    /\ \/ rest = looper
       \/ looper # <<>> /\ Head(looper).kind = "start" /\ rest = Tail(looper)

LEMMA OpensCases ==
  ASSUME SessionTypes, PanelInv, MessagesInv, Opens
  PROVE  /\ \E v \in Views, rest \in Seq(MessageType) : StartsFrom(v, rest)
         /\ panel' = views' /\ panel' \in 1..MaxViews
         /\ panel = NoView \/ panel' = panel
         /\ UNCHANGED <<crashes, isRecording, isPaused, currentGain, isBound>>
         /\ UNCHANGED <<published, dead, permission, serviceVars, speechVars, typed>>
<1> USE DEF SessionTypes, ViewTypes, QueueTypes
<1>1. CASE ShowVoiceModal
  <2>1. panel = NoView /\ views' = views + 1 /\ panel' = views' /\ views < MaxViews
        /\ StartVoiceInput(views', looper)
    BY <1>1 DEF ShowVoiceModal
  <2>2. PICK v \in Views : v = views'
    BY <2>1, SessionAssumption DEF Views
  <2>3. voiceConnection[v] = NoConn /\ Cur = NoConn
    BY <2>1, <2>2 DEF PanelInv, NoView, Cur, ConnectionOf, Views
  <2>4. StartsFrom(v, looper)
    BY <2>1, <2>2, <2>3 DEF StartsFrom
  <2>5. panel' \in 1..MaxViews
    BY <2>1, <2>2 DEF Views
  <2>6. /\ UNCHANGED <<crashes, isRecording, isPaused, currentGain, isBound>>
        /\ UNCHANGED <<published, dead, permission, serviceVars, speechVars, typed>>
    BY <1>1 DEF ShowVoiceModal
  <2> QED
    BY <2>1, <2>4, <2>5, <2>6
<1>2. CASE TapMicStarts
  <2>1. panel # NoView /\ StartVoiceInput(panel, looper) /\ panel' = panel /\ views' = views
    BY <1>2 DEF TapMicStarts, Tap
  <2>2. PICK v \in Views : v = panel
    BY <2>1, ConnFacts
  <2>3. StartsFrom(v, looper)
    BY <2>1, <2>2, ConnFacts DEF StartsFrom
  <2>4. /\ UNCHANGED <<crashes, isRecording, isPaused, currentGain, isBound>>
        /\ UNCHANGED <<published, dead, permission, serviceVars, speechVars, typed>>
    BY <1>2 DEF TapMicStarts
  <2>5. panel' = views' /\ panel' \in 1..MaxViews
    BY <2>1, <2>2 DEF PanelInv, Views
  <2> QED
    BY <2>1, <2>3, <2>4, <2>5
<1>3. CASE StartWhenGranted
  <2>1. /\ looper # <<>> /\ Head(looper).kind = "start"
        /\ StartVoiceInput(Head(looper).to, Tail(looper)) /\ panel' = panel /\ views' = views
    BY <1>3 DEF StartWhenGranted, Receives, Got
  <2>2. /\ Head(looper) \in MessageType /\ Tail(looper) \in Seq(MessageType)
        /\ Sound(Head(looper), panel, crashes)
    BY <2>1, Shorter, SoundTail DEF MessagesInv
  <2>3. PICK v \in Views : v = Head(looper).to
    BY <2>1, <2>2, HeadFacts
  <2>4. v = panel
    BY <2>1, <2>2, <2>3 DEF Sound
  <2>5. StartsFrom(v, Tail(looper))
    <3>1. StartVoiceInput(v, Tail(looper))
      BY <2>1, <2>3
    <3>2. panel # NoView
      BY <2>4, ConnFacts
    <3> QED
      BY <2>1, <2>4, <3>1, <3>2, ConnFacts DEF StartsFrom
  <2>6. /\ UNCHANGED <<crashes, isRecording, isPaused, currentGain, isBound>>
        /\ UNCHANGED <<published, dead, permission, serviceVars, speechVars, typed>>
    BY <1>3 DEF StartWhenGranted
  <2>7. panel' = views' /\ panel' \in 1..MaxViews
    BY <2>1, <2>4, ConnFacts DEF PanelInv, Views
  <2> QED
    BY <2>1, <2>2, <2>5, <2>6, <2>7
<1> QED
  BY <1>1, <1>2, <1>3 DEF Opens

\* startVoiceInput asks for the permission, or calls the service with a new
\* connection, or finds it called already, or gives it a command, or finds it dead.
Asked(v) ==
    /\ onPermissionResult' = v
    /\ UNCHANGED <<conns, voiceConnection, listener, timer, pendingStartGain, bindings, inbox>>
Called(v) ==
    /\ Cur = NoConn
    /\ bindings' = {voiceConnection'[v]} /\ voiceConnection'[v] \in Conns
    /\ inbox' = Append(inbox, Command("create", NoConn, NoGain))
Again(v) ==
    /\ Cur # NoConn /\ voiceConnection'[v] = Cur /\ bindings' = bindings
    /\ inbox' = inbox
Started(v) ==
    /\ Cur # NoConn /\ voiceConnection'[v] = Cur /\ bindings' = bindings
    /\ isBound[Cur] /\ Cur \notin dead
    /\ inbox' = Append(inbox, Command("start", Cur, currentGain[v]))

Binds(v) ==
    /\ Called(v) \/ Again(v) \/ Started(v)
    /\ voiceConnection' = [voiceConnection EXCEPT ![v] = voiceConnection'[v]]
    /\ timer' = [timer EXCEPT ![v] = TRUE]
    /\ conns' \in 0..MaxConns
    /\ \E c \in Conns : listener' = [listener EXCEPT ![c] = v]
    /\ pendingStartGain' \in [Conns -> {NoGain, 1, 2, 4}]
    /\ onPermissionResult' = onPermissionResult

LEMMA StartCases ==
  ASSUME SessionTypes, PanelInv, BindingInv, NEW v \in Views, NEW rest,
         voiceConnection[v] = Cur, StartVoiceInput(v, rest)
  PROVE  /\ looper' = rest
         /\ Asked(v) \/ Binds(v)
<1> USE DEF SessionTypes
<1>0. /\ inbox \in Seq(CommandType) /\ bindings = {Cur} \ {NoConn} /\ Cur \in 0..MaxConns
      /\ conns \in 0..MaxConns /\ voiceConnection \in [Views -> 0..MaxConns]
      /\ pendingStartGain \in [Conns -> {NoGain, 1, 2, 4}] /\ currentGain[v] \in {1, 2, 4}
  BY ConnFacts DEF QueueTypes, PanelInv, ViewTypes, ConnTypes
<1>1. CASE ~permission
  BY <1>1 DEF StartVoiceInput, Asked
<1>2. CASE permission
  <2> DEFINE k == IF voiceConnection[v] = NoConn THEN conns + 1 ELSE voiceConnection[v]
  <2>1. PICK c : c = k
    OBVIOUS
  <2>2. /\ c \in Conns
        /\ conns' = IF c > conns THEN c ELSE conns
        /\ voiceConnection' = [voiceConnection EXCEPT ![v] = c]
        /\ listener' = [listener EXCEPT ![c] = v]
        /\ timer' = [timer EXCEPT ![v] = TRUE]
        /\ BindAndStart(c, currentGain[v], rest)
        /\ UNCHANGED onPermissionResult
    BY <1>2, <2>1 DEF StartVoiceInput
  <2>3. voiceConnection'[v] = c
    BY <2>2, <1>0
  <2>4. conns' \in 0..MaxConns
    BY <2>2, <1>0, SessionAssumption DEF Conns
  <2>5. ASSUME Cur = NoConn PROVE Called(v) /\ looper' = rest
                                  /\ pendingStartGain' \in [Conns -> {NoGain, 1, 2, 4}]
    <3>1. bindings = {} /\ ~isBound[c]
      BY <1>0, <2>2, <2>5 DEF PanelInv, NoConn, Conns
    <3>2. ~published
      BY <2>5 DEF BindingInv, NoService
    <3>3. /\ pendingStartGain' = [pendingStartGain EXCEPT ![c] = currentGain[v]]
          /\ BindService(c, rest)
      BY <2>2, <3>1 DEF BindAndStart
    <3>4. bindings' = {c} /\ looper' = rest
          /\ inbox' = inbox \o <<Command("create", NoConn, NoGain)>>
      BY <3>1, <3>2, <3>3 DEF BindService
    <3>5. inbox' = Append(inbox, Command("create", NoConn, NoGain))
      BY <3>4, <1>0, SystemCommandFacts, Joined
    <3>6. pendingStartGain' \in [Conns -> {NoGain, 1, 2, 4}]
      BY <3>3, <1>0, <2>2
    <3> QED
      BY <2>2, <2>3, <2>5, <3>4, <3>5, <3>6 DEF Called
  <2>6. ASSUME Cur # NoConn PROVE /\ Again(v) \/ Started(v)
                                  /\ looper' = rest
                                  /\ pendingStartGain' \in [Conns -> {NoGain, 1, 2, 4}]
    <3>1. c = Cur /\ bindings = {c}
      BY <1>0, <2>1, <2>6
    <3>2. CASE isBound[c]
      <4>1. /\ inbox' = inbox \o Sent(c, <<Command("start", c, currentGain[v])>>)
            /\ looper' = rest
            /\ UNCHANGED <<pendingStartGain, bindings>>
        BY <2>2, <3>2 DEF BindAndStart
      <4>2. CASE c \in dead
        <5>1. inbox' = inbox
          BY <4>1, <4>2, <1>0 DEF Sent, Reaches
        <5> QED
          BY <2>3, <2>6, <3>1, <4>1, <5>1, <1>0 DEF Again
      <4>3. CASE c \notin dead
        <5>1. inbox' = inbox \o <<Command("start", c, currentGain[v])>>
          BY <3>2, <4>1, <4>3 DEF Sent, Reaches
        <5>2. Command("start", c, currentGain[v]) \in CommandType
          BY <1>0, <2>2, CommandFacts DEF Told
        <5>3. inbox' = Append(inbox, Command("start", c, currentGain[v]))
          BY <5>1, <5>2, <1>0, Joined
        <5> QED
          BY <2>3, <2>6, <3>1, <3>2, <4>1, <4>3, <5>3, <1>0 DEF Started
      <4> QED
        BY <4>2, <4>3
    <3>3. CASE ~isBound[c]
      <4>1. /\ pendingStartGain' = [pendingStartGain EXCEPT ![c] = currentGain[v]]
            /\ BindService(c, rest)
        BY <2>2, <3>3 DEF BindAndStart
      <4>2. bindings' = bindings /\ looper' = rest /\ inbox' = inbox
        BY <3>1, <4>1 DEF BindService
      <4>3. pendingStartGain' \in [Conns -> {NoGain, 1, 2, 4}]
        BY <4>1, <1>0, <2>2
      <4> QED
        BY <2>3, <2>6, <3>1, <4>2, <4>3 DEF Again
    <3> QED
      BY <3>2, <3>3
  <2> QED
    BY <2>2, <2>3, <2>4, <2>5, <2>6 DEF Binds
<1> QED
  BY <1>1, <1>2

-----------------------------------------------------------------------------
(***************************************************************************)
(* Frames.                                                                 *)
(***************************************************************************)

\* A step that moves no binder and gives no command leaves the binding alone.
LEMMA BindingKept ==
  ASSUME ViewTypes, BindingInv, Keeps(looper, looper', crashes), Cur' = Cur,
         UNCHANGED <<crashes, published, dead, inbox, isBound, client>>,
         Fresh => Fresh', Down => Down'
  PROVE  BindingInv'
<1>1. Cur = NoConn \/ Cur \in Conns
  BY ConnFacts
<1>2. CASE Cur = NoConn
  <2>1. NoService
    BY <1>2 DEF BindingInv
  <2>2. NoService'
    BY <2>1 DEF NoService, Keeps
  <2> QED
    BY <1>2, <2>2 DEF BindingInv
<1>3. CASE Cur \in Conns
  <2> PICK c \in Conns : c = Cur
    BY <1>3
  <2>1. c # NoConn
    BY DEF Conns, NoConn
  <2>2. Awaited(c) \/ Arriving(c) \/ Served(c)
    BY <2>1 DEF BindingInv
  <2>3. CASE Awaited(c)
    <3>1. Awaited(c)'
      BY <2>3 DEF Awaited, Keeps
    <3> QED
      BY <2>1, <3>1 DEF BindingInv
  <2>4. CASE Arriving(c)
    <3>1. Arriving(c)'
      BY <2>4 DEF Arriving, Keeps
    <3> QED
      BY <2>1, <3>1 DEF BindingInv
  <2>5. CASE Served(c)
    <3>1. Served(c)'
      BY <2>5 DEF Served, Keeps
    <3> QED
      BY <2>1, <3>1 DEF BindingInv
  <2> QED
    BY <2>2, <2>3, <2>4, <2>5
<1> QED
  BY <1>1, <1>2, <1>3

LEMMA CurFacts ==
  ASSUME panel' \in Views
  PROVE  Cur' = voiceConnection'[panel']
  BY SessionAssumption DEF Cur, ConnectionOf, Views, NoView

\* What the service expects depends on the service alone.
LEMMA ServiceKept ==
  ASSUME UNCHANGED serviceVars
  PROVE  /\ Fresh' = Fresh /\ Down' = Down /\ \A h : Expected(h)' = Expected(h)
         /\ client' = client
  BY DEF serviceVars, Fresh, Down, Expected

LEMMA SpeechKept ==
  ASSUME SpeechInv, UNCHANGED serviceVars, UNCHANGED speechVars, typed' = typed
  PROVE  SpeechInv'
  BY DEF SpeechInv, serviceVars, speechVars

LEMMA ServiceTypesKept ==
  ASSUME ServiceTypes, UNCHANGED serviceVars, UNCHANGED speechVars
  PROVE  ServiceTypes'
  BY DEF ServiceTypes, serviceVars, speechVars

\* The client of the open panel's connection gives a command.
LEMMA ServedSays ==
  ASSUME SessionTypes, InboxInv, NEW c \in Conns, Served(c),
         NEW cmd \in Told \ {"unregister"}, NEW gain \in {NoGain, 1, 2, 4},
         inbox' = Append(inbox, Command(cmd, c, gain)),
         UNCHANGED serviceVars, UNCHANGED <<published, dead, isBound, crashes>>,
         Keeps(looper, looper', crashes)
  PROVE  inbox' \in Seq(CommandType) /\ InboxInv' /\ Served(c)'
<1> DEFINE e == Command(cmd, c, gain)
<1>1. e \in CommandType /\ e.cmd = cmd /\ e.conn = c
  BY CommandFacts
<1>2. inbox \in Seq(CommandType) /\ Len(inbox) \in Nat /\ (inbox = <<>> <=> Len(inbox) = 0)
  BY EmptyOrNot DEF SessionTypes, QueueTypes
<1> HIDE DEF e
<1>3. ASSUME inbox # <<>> PROVE Follows(inbox[Len(inbox)], e)
  <2>1. Len(inbox) \in 1..Len(inbox)
    BY <1>2, <1>3
  <2>2. PICK a \in CommandType : a = inbox[Len(inbox)]
    BY <1>2, <2>1
  <2>3. a.conn = c /\ a.cmd # "unregister"
    BY <2>1, <2>2 DEF Served
  <2>4. a.cmd \in Told \cup {"register"}
    <3>1. c # NoConn
      BY DEF Conns, NoConn
    <3> QED
      BY <2>3, <3>1, CommandCases
  <2> QED
    BY <1>1, <2>2, <2>3, <2>4 DEF Follows
<1>4. inbox' = Append(inbox, e)
  BY DEF e
<1>5. Linked(inbox)
  BY DEF InboxInv
<1>6. /\ inbox' \in Seq(CommandType) /\ inbox' # <<>> /\ Linked(inbox')
      /\ inbox'[1] = IF inbox = <<>> THEN e ELSE inbox[1]
  <2>1. e.cmd # "unbind"
    BY <1>1 DEF Told
  <2> QED
    BY <1>1, <1>2, <1>3, <1>4, <1>5, <2>1, LinkedAppend
<1>7. Expected(inbox[1])'
  <2>1. PICK h : h = inbox'[1]
    OBVIOUS
  <2>2. Expected(h)
    <3>1. CASE inbox = <<>>
      <4>1. client = c
        BY <3>1 DEF Served
      <4> QED
        BY <1>1, <1>6, <2>1, <3>1, <4>1 DEF Expected, Told
    <3>2. CASE inbox # <<>>
      BY <1>6, <2>1, <3>2 DEF InboxInv
    <3> QED
      BY <3>1, <3>2
  <2>3. Expected(h)'
    BY <2>2, ServiceKept
  <2> QED
    BY <2>1, <2>3 DEF Expected
<1>8. InboxInv'
  BY <1>6, <1>7 DEF InboxInv
<1>9. \A i \in 1..Len(inbox') : inbox'[i].conn = c /\ inbox'[i].cmd # "unregister"
  <2>1. /\ Len(inbox') = Len(inbox) + 1 /\ inbox'[Len(inbox) + 1] = e
        /\ \A i \in 1..Len(inbox) : inbox'[i] = inbox[i]
    BY <1>1, <1>2, <1>4, Longer
  <2>2. \A i \in 1..Len(inbox') : i \in 1..Len(inbox) \/ i = Len(inbox) + 1
    BY <1>2, <2>1
  <2> QED
    BY <1>1, <2>1, <2>2 DEF Served
<1>10. Served(c)'
  BY <1>6, <1>9 DEF Served, Keeps
<1> QED
  BY <1>6, <1>8, <1>10

LEMMA RestFacts ==
  ASSUME SessionTypes, MessagesInv, NEW rest \in Seq(MessageType),
         \/ rest = looper
         \/ looper # <<>> /\ Head(looper).kind = "start" /\ rest = Tail(looper),
         NEW p \in Views, panel = NoView \/ p = panel
  PROVE  AllSound(rest, p, crashes) /\ Keeps(looper, rest, crashes)
<1> USE DEF SessionTypes, QueueTypes
<1>1. AllSound(looper, p, crashes)
  <2>1. CASE p = panel
    BY <2>1 DEF MessagesInv
  <2>2. CASE panel = NoView
    <3> SUFFICES ASSUME NEW i \in 1..Len(looper)
                 PROVE  Sound(looper[i], p, crashes)
      BY DEF AllSound
    <3>1. looper[i] \in MessageType /\ Sound(looper[i], panel, crashes)
      BY DEF MessagesInv, AllSound
    <3>2. looper[i].kind # "start"
      <4>1. looper[i].kind = "start" => looper[i].to \in Views
        BY <3>1, HeadFacts
      <4> QED
        BY <2>2, <3>1, <4>1, SessionAssumption DEF Sound, Views, NoView
    <3> QED
      BY <3>1, <3>2 DEF Sound
  <2> QED
    BY <2>1, <2>2
<1>2. CASE rest = looper
  BY <1>1, <1>2, KeepsItself
<1>3. CASE looper # <<>> /\ Head(looper).kind = "start" /\ rest = Tail(looper)
  BY <1>1, <1>3, SoundTail, HeadGoes DEF Live
<1> QED
  BY <1>2, <1>3

LEMMA OpensKeep ==
  ASSUME SessionInv, Opens
  PROVE  SessionInv'
<1>1. /\ SessionTypes /\ PanelInv /\ MessagesInv /\ InboxInv /\ BindingInv /\ SpeechInv
      /\ ViewTypes /\ ConnTypes /\ SystemTypes /\ ServiceTypes /\ QueueTypes
  BY DEF SessionInv, SessionTypes
<1>2. /\ panel' = views' /\ panel' \in 1..MaxViews
      /\ panel = NoView \/ panel' = panel
      /\ UNCHANGED <<crashes, isRecording, isPaused, currentGain, isBound>>
      /\ UNCHANGED <<published, dead, permission>>
      /\ UNCHANGED serviceVars /\ UNCHANGED speechVars /\ typed' = typed
  BY <1>1, OpensCases
<1>3. PICK v \in Views, rest \in Seq(MessageType) : StartsFrom(v, rest)
  BY <1>1, OpensCases
<1>4. /\ v = panel' /\ voiceConnection[v] = Cur
      /\ StartVoiceInput(v, rest)
      /\ \/ rest = looper
         \/ looper # <<>> /\ Head(looper).kind = "start" /\ rest = Tail(looper)
  BY <1>3 DEF StartsFrom
<1>5. AllSound(rest, v, crashes) /\ Keeps(looper, rest, crashes)
  BY <1>1, <1>2, <1>4, RestFacts
<1>6. /\ looper' = rest
      /\ Asked(v) \/ Binds(v)
  BY <1>1, <1>4, StartCases
<1>7. Cur' = voiceConnection'[v]
  BY <1>4, CurFacts
<1>8. v \in 0..MaxViews /\ v # NoView /\ Cur \in 0..MaxConns /\ (Cur # NoConn => Cur \in Conns)
  BY <1>1, SessionAssumption, ConnFacts DEF Views, NoView
<1>9. MessagesInv' /\ Keeps(looper, looper', crashes)
  BY <1>2, <1>4, <1>5, <1>6 DEF MessagesInv
<1>10. SpeechInv' /\ ServiceTypes'
  BY <1>1, <1>2, SpeechKept, ServiceTypesKept
<1>11. Fresh' = Fresh /\ Down' = Down /\ client' = client
  BY <1>2, ServiceKept
<1>12. /\ panel' \in 0..MaxViews /\ views' \in 0..MaxViews /\ crashes' \in Nat
       /\ isRecording' \in [Views -> BOOLEAN] /\ isPaused' \in [Views -> BOOLEAN]
       /\ currentGain' \in [Views -> {1, 2, 4}] /\ isBound' \in [Conns -> BOOLEAN]
       /\ dead' \subseteq Conns /\ published' \in BOOLEAN /\ permission' \in BOOLEAN
  BY <1>1, <1>2, <1>4, <1>8 DEF ViewTypes, ConnTypes, SystemTypes
<1>13. CASE Asked(v)
  <2>1. /\ onPermissionResult' = v /\ inbox' = inbox /\ Cur' = Cur
        /\ UNCHANGED <<conns, voiceConnection, listener, timer, pendingStartGain, bindings>>
    BY <1>4, <1>7, <1>13 DEF Asked
  <2>2. SessionTypes'
    <3>1. ViewTypes' /\ ConnTypes' /\ SystemTypes'
      BY <1>1, <1>8, <1>12, <2>1 DEF ViewTypes, ConnTypes, SystemTypes
    <3>2. QueueTypes'
      BY <1>1, <1>3, <1>6, <2>1 DEF QueueTypes
    <3> QED
      BY <1>10, <3>1, <3>2 DEF SessionTypes
  <2>3. PanelInv'
    BY <1>1, <1>2, <1>4, <2>1 DEF PanelInv, Views, NoView
  <2>4. InboxInv'
    BY <1>1, <1>2, <2>1, ServiceKept DEF InboxInv
  <2>5. BindingInv'
    BY <1>1, <1>2, <1>9, <1>11, <2>1, BindingKept
  <2> QED
    BY <1>9, <1>10, <2>2, <2>3, <2>4, <2>5 DEF SessionInv
<1>14. CASE Binds(v)
  <2>1. /\ Called(v) \/ Again(v) \/ Started(v)
        /\ voiceConnection' = [voiceConnection EXCEPT ![v] = voiceConnection'[v]]
        /\ timer' = [timer EXCEPT ![v] = TRUE]
        /\ conns' \in 0..MaxConns
        /\ \E c \in Conns : listener' = [listener EXCEPT ![c] = v]
        /\ pendingStartGain' \in [Conns -> {NoGain, 1, 2, 4}]
        /\ onPermissionResult' = onPermissionResult
    BY <1>14 DEF Binds
  <2>2. Cur' \in Conns /\ bindings' = {Cur'} /\ (Cur # NoConn => Cur' = Cur)
    <3>1. CASE Called(v)
      BY <1>7, <3>1 DEF Called
    <3>2. CASE Again(v) \/ Started(v)
      <4>1. Cur # NoConn /\ Cur' = Cur /\ bindings' = bindings
        BY <1>7, <3>2 DEF Again, Started
      <4>2. bindings = {Cur} /\ Cur \in Conns
        BY <1>1, <1>8, <4>1 DEF PanelInv
      <4> QED
        BY <4>1, <4>2
    <3> QED
      BY <2>1, <3>1, <3>2
  <2>3. Cur' # NoConn /\ Cur' \in 0..MaxConns
    BY <2>2, SessionAssumption DEF Conns, NoConn
  <2>4. ViewTypes' /\ ConnTypes' /\ SystemTypes'
    <3>1. voiceConnection' \in [Views -> 0..MaxConns] /\ timer' \in [Views -> BOOLEAN]
      BY <1>1, <1>7, <2>1, <2>3 DEF ViewTypes
    <3>2. listener' \in [Conns -> 0..MaxViews]
      BY <1>1, <1>8, <2>1 DEF ConnTypes
    <3>3. onPermissionResult' \in 0..MaxViews /\ bindings' \subseteq Conns
      BY <1>1, <2>1, <2>2 DEF SystemTypes
    <3>4. ViewTypes'
      BY <1>12, <2>1, <3>1 DEF ViewTypes
    <3>5. ConnTypes'
      BY <1>12, <2>1, <3>2 DEF ConnTypes
    <3>6. SystemTypes'
      BY <1>12, <3>3 DEF SystemTypes
    <3> QED
      BY <3>4, <3>5, <3>6
  <2>5. PanelInv'
    <3>0. \A u \in Views : u # v => voiceConnection'[u] = voiceConnection[u]
                                   /\ timer'[u] = timer[u]
      BY <1>1, <2>1 DEF ViewTypes
    <3>1. \A u \in Views : voiceConnection'[u] # NoConn => u = panel'
      BY <1>1, <1>2, <1>4, <3>0 DEF PanelInv, Views, NoView
    <3>2. \A u \in Views : timer'[u] => u = panel'
      BY <1>1, <1>2, <1>4, <3>0 DEF PanelInv, Views, NoView
    <3>3. onPermissionResult' \in {NoView, panel'}
      BY <1>1, <1>2, <2>1 DEF PanelInv
    <3>4. bindings' = {Cur'} \ {NoConn}
      BY <2>2, <2>3
    <3>5. \A c \in Conns : isBound'[c] \/ c \in dead' => c = Cur'
      <4>1. \A c \in Conns : c # NoConn
        BY DEF Conns, NoConn
      <4> QED
        BY <1>1, <1>2, <2>2, <4>1 DEF PanelInv
    <3> QED
      BY <1>2, <3>1, <3>2, <3>3, <3>4, <3>5 DEF PanelInv
  <2>6. QueueTypes' /\ InboxInv' /\ BindingInv'
    <3>0. looper' \in Seq(MessageType)
      BY <1>3, <1>6
    <3>1. CASE Called(v)
      <4>1. Cur = NoConn /\ NoService /\ inbox' = Append(inbox, Command("create", NoConn, NoGain))
        BY <1>1, <3>1 DEF Called, BindingInv
      <4> DEFINE e == Command("create", NoConn, NoGain)
      <4>2. e \in CommandType /\ e.cmd = "create"
        BY SystemCommandFacts
      <4> HIDE DEF e
      <4>3. inbox # <<>> => Follows(inbox[Len(inbox)], e)
        BY <4>1, <4>2 DEF NoService, Follows
      <4>4. inbox \in Seq(CommandType) /\ Linked(inbox) /\ inbox' = Append(inbox, e)
        BY <1>1, <4>1 DEF QueueTypes, InboxInv, e
      <4>5. /\ inbox' \in Seq(CommandType) /\ inbox' # <<>> /\ Linked(inbox')
            /\ inbox'[Len(inbox')] = e
            /\ inbox'[1] = IF inbox = <<>> THEN e ELSE inbox[1]
        BY <4>2, <4>3, <4>4, LinkedAppend
      <4>6. InboxInv'
        <5>1. PICK h : h = inbox'[1]
          OBVIOUS
        <5>2. Expected(h)
          <6>1. CASE inbox = <<>>
            BY <4>1, <4>2, <4>5, <5>1, <6>1 DEF NoService, Expected, Told
          <6>2. CASE inbox # <<>>
            BY <1>1, <4>5, <5>1, <6>2 DEF InboxInv
          <6> QED
            BY <6>1, <6>2
        <5>3. Expected(h)'
          BY <1>2, <5>2, ServiceKept
        <5> QED
          BY <4>5, <5>1, <5>3 DEF InboxInv, Expected
      <4>7. BindingInv'
        <5>1. PICK c \in Conns : c = Cur'
          BY <2>2
        <5>2. ~isBound[c]
          <6>1. c # NoConn
            BY DEF Conns, NoConn
          <6> QED
            BY <1>1, <4>1, <6>1 DEF PanelInv
        <5>3. Awaited(c)'
          <6>1. NoneLive(looper, crashes) /\ ~published
            BY <4>1 DEF NoService
          <6>2. NoneLive(looper', crashes')
            BY <1>2, <1>9, <6>1 DEF Keeps
          <6> QED
            BY <1>2, <4>2, <4>5, <5>2, <6>1, <6>2 DEF Awaited
        <5> QED
          BY <2>3, <5>1, <5>3 DEF BindingInv
      <4> QED
        BY <3>0, <4>5, <4>6, <4>7 DEF QueueTypes
    <3>2. CASE Again(v)
      <4>1. inbox' = inbox /\ Cur' = Cur
        BY <1>7, <3>2 DEF Again
      <4>2. BindingInv'
        BY <1>1, <1>2, <1>9, <1>11, <4>1, BindingKept
      <4>3. InboxInv'
        BY <1>1, <1>2, <4>1, ServiceKept DEF InboxInv
      <4> QED
        BY <1>1, <3>0, <4>1, <4>2, <4>3 DEF QueueTypes
    <3>3. CASE Started(v)
      <4>1. PICK c \in Conns : c = Cur
        BY <1>8, <3>3 DEF Started
      <4>2. /\ c # NoConn /\ Cur' = c /\ isBound[c] /\ c \notin dead
            /\ inbox' = Append(inbox, Command("start", c, currentGain[v]))
        BY <1>7, <3>3, <4>1 DEF Started
      <4>3. Served(c)
        BY <1>1, <4>1, <4>2 DEF BindingInv, Awaited, Arriving
      <4>4. PICK gain \in {NoGain, 1, 2, 4} : gain = currentGain[v]
        BY <1>1 DEF ViewTypes
      <4>5. "start" \in Told \ {"unregister"}
        BY DEF Told
      <4>6. inbox' \in Seq(CommandType) /\ InboxInv' /\ Served(c)'
        BY <1>1, <1>2, <1>9, <4>2, <4>3, <4>4, <4>5, ServedSays
      <4>7. BindingInv'
        BY <4>2, <4>6 DEF BindingInv
      <4> QED
        BY <3>0, <4>6, <4>7 DEF QueueTypes
    <3> QED
      BY <2>1, <3>1, <3>2, <3>3
  <2> QED
    BY <1>9, <1>10, <2>4, <2>5, <2>6 DEF SessionInv, SessionTypes
<1> QED
  BY <1>6, <1>13, <1>14

-----------------------------------------------------------------------------
(***************************************************************************)
(* Messages that pass through the keyboard, and what else leaves the       *)
(* service and the bindings alone.                                         *)
(***************************************************************************)
LEMMA LooperKept ==
  ASSUME SessionInv, looper' \in Seq(MessageType), Keeps(looper, looper', crashes),
         AllSound(looper', panel, crashes),
         UNCHANGED <<panel, views, voiceConnection, bindings, published, dead, isBound>>,
         UNCHANGED <<crashes, inbox>>, UNCHANGED serviceVars, UNCHANGED speechVars,
         onPermissionResult' \in {NoView, panel},
         \A v \in Views : timer'[v] => timer[v]
  PROVE  /\ PanelInv' /\ MessagesInv' /\ InboxInv' /\ BindingInv'
         /\ QueueTypes' /\ ServiceTypes'
<1>1. /\ PanelInv /\ InboxInv /\ BindingInv /\ ViewTypes /\ QueueTypes /\ ServiceTypes
  BY DEF SessionInv, SessionTypes
<1>2. Cur' = Cur
  BY DEF Cur, ConnectionOf
<1>3. PanelInv'
  BY <1>1, <1>2 DEF PanelInv
<1>4. MessagesInv'
  BY DEF MessagesInv
<1>5. InboxInv'
  BY <1>1, ServiceKept DEF InboxInv
<1>6. BindingInv'
  BY <1>1, <1>2, ServiceKept, BindingKept
<1>7. QueueTypes'
  BY <1>1 DEF QueueTypes
<1> QED
  BY <1>1, <1>3, <1>4, <1>5, <1>6, <1>7, ServiceTypesKept

LEMMA TickKeeps ==
  ASSUME SessionInv, NEW v \in Views, Tick(v)
  PROVE  SessionInv'
<1>1. /\ ViewTypes /\ ConnTypes /\ SystemTypes /\ MessagesInv /\ QueueTypes /\ SpeechInv
      /\ PanelInv
  BY DEF SessionInv, SessionTypes
<1>2. /\ timer' = [timer EXCEPT ![v] = FALSE]
      /\ UNCHANGED <<panel, boundVars, voiceConnection, isRecording, isPaused, currentGain>>
      /\ UNCHANGED connVars /\ UNCHANGED systemVars /\ UNCHANGED serviceVars
      /\ UNCHANGED speechVars /\ UNCHANGED <<looper, inbox, typed>>
  BY DEF Tick
<1>3. ViewTypes' /\ ConnTypes' /\ SystemTypes'
  BY <1>1, <1>2 DEF ViewTypes, ConnTypes, SystemTypes, boundVars, connVars, systemVars
<1>4. \A u \in Views : timer'[u] => timer[u]
  BY <1>1, <1>2 DEF ViewTypes
<1>5. /\ looper' \in Seq(MessageType) /\ AllSound(looper', panel, crashes)
      /\ Keeps(looper, looper', crashes)
      /\ UNCHANGED <<panel, views, voiceConnection, bindings, published, dead, isBound>>
      /\ UNCHANGED <<crashes, inbox>> /\ onPermissionResult' \in {NoView, panel}
  BY <1>1, <1>2, KeepsItself DEF QueueTypes, MessagesInv, boundVars, systemVars, connVars,
     PanelInv
<1>6. /\ PanelInv' /\ MessagesInv' /\ InboxInv' /\ BindingInv'
      /\ QueueTypes' /\ ServiceTypes'
  BY <1>2, <1>4, <1>5, LooperKept
<1>7. SpeechInv'
  BY <1>1, <1>2, SpeechKept
<1> QED
  BY <1>3, <1>6, <1>7 DEF SessionInv, SessionTypes

LEMMA AnswerKeeps ==
  ASSUME SessionInv, NEW granted \in BOOLEAN, AnswerPermission(granted)
  PROVE  SessionInv'
<1>1. /\ ViewTypes /\ ConnTypes /\ SystemTypes /\ MessagesInv /\ QueueTypes /\ SpeechInv
      /\ PanelInv
  BY DEF SessionInv, SessionTypes
<1>2. /\ onPermissionResult # NoView
      /\ permission' = granted /\ onPermissionResult' = NoView
      /\ looper' = IF granted THEN Append(looper, Signal("start", onPermissionResult))
                   ELSE looper
      /\ UNCHANGED <<panel, boundVars, bindings, published, dead>>
      /\ UNCHANGED viewVars /\ UNCHANGED connVars /\ UNCHANGED serviceVars
      /\ UNCHANGED speechVars /\ UNCHANGED <<inbox, typed>>
  BY DEF AnswerPermission
<1>3. ViewTypes' /\ ConnTypes' /\ SystemTypes'
  BY <1>1, <1>2, SessionAssumption
     DEF ViewTypes, ConnTypes, SystemTypes, boundVars, connVars, viewVars, NoView
<1>4. \A u \in Views : timer'[u] => timer[u]
  BY <1>2 DEF viewVars
<1>5. /\ looper' \in Seq(MessageType) /\ AllSound(looper', panel, crashes)
      /\ Keeps(looper, looper', crashes)
  <2>1. CASE ~granted
    BY <1>1, <1>2, <2>1, KeepsItself DEF QueueTypes, MessagesInv
  <2>2. CASE granted
    <3>1. PICK p \in Views : p = onPermissionResult
      BY <1>1, <1>2, ConnFacts DEF PanelInv
    <3>2. PICK m : m = Signal("start", p)
      OBVIOUS
    <3>3. m \in MessageType /\ m.kind = "start" /\ m.to = p
      BY <3>2 DEF Signal, StateOf, MessageType
    <3>4. p = panel
      BY <1>1, <1>2, <3>1 DEF PanelInv
    <3>5. Sound(m, panel, crashes)
      BY <3>3, <3>4 DEF Sound
    <3>6. looper' = Append(looper, m) /\ looper \in Seq(MessageType)
      BY <1>1, <1>2, <2>2, <3>1, <3>2 DEF QueueTypes
    <3>7. AllSound(looper', panel, crashes)
      BY <1>1, <3>3, <3>5, <3>6, SoundAppend DEF MessagesInv
    <3>8. Keeps(looper, looper', crashes)
      BY <3>3, <3>6, Quietly
    <3> QED
      BY <3>3, <3>6, <3>7, <3>8, Longer
  <2> QED
    BY <2>1, <2>2
<1>6. /\ UNCHANGED <<panel, views, voiceConnection, bindings, published, dead, isBound>>
      /\ UNCHANGED <<crashes, inbox>> /\ onPermissionResult' \in {NoView, panel}
  BY <1>2 DEF boundVars, viewVars, connVars
<1>7. /\ PanelInv' /\ MessagesInv' /\ InboxInv' /\ BindingInv'
      /\ QueueTypes' /\ ServiceTypes'
  BY <1>2, <1>4, <1>5, <1>6, LooperKept
<1>8. SpeechInv'
  BY <1>1, <1>2, SpeechKept
<1> QED
  BY <1>3, <1>7, <1>8 DEF SessionInv, SessionTypes

\* The head of the looper goes, and may come again as a post.
LEMMA PassesKeep ==
  ASSUME SessionInv, Passes
  PROVE  SessionInv'
<1>1. /\ ViewTypes /\ ConnTypes /\ SystemTypes /\ MessagesInv /\ QueueTypes /\ SpeechInv
      /\ PanelInv /\ looper \in Seq(MessageType)
  BY DEF SessionInv, SessionTypes, QueueTypes
<1>2. /\ looper # <<>>
      /\ Head(looper).kind = "event" \/ Head(looper).kind = "post"
         \/ (Head(looper).kind = "connected" /\ Head(looper).from # crashes)
  BY DEF Passes, HandleServiceMessage, ShowState, CommitText, DropDeadBinder, Receives, Got
<1>3. PICK m \in MessageType : m = Head(looper)
  BY <1>1, <1>2, Shorter
<1>4. ~Live(m, crashes)
  BY <1>2, <1>3 DEF Live
<1>5. /\ AllSound(Tail(looper), panel, crashes) /\ Sound(m, panel, crashes)
      /\ Keeps(looper, Tail(looper), crashes) /\ Tail(looper) \in Seq(MessageType)
  BY <1>1, <1>2, <1>3, <1>4, SoundTail, HeadGoes, Shorter DEF MessagesInv
<1>6. /\ UNCHANGED <<panel, boundVars, voiceConnection, timer, currentGain>>
      /\ UNCHANGED connVars /\ UNCHANGED systemVars /\ UNCHANGED serviceVars
      /\ UNCHANGED speechVars /\ UNCHANGED inbox
  BY DEF Passes, HandleServiceMessage, ShowState, CommitText, DropDeadBinder, viewVars
<1>7. /\ UNCHANGED <<panel, views, voiceConnection, bindings, published, dead, isBound>>
      /\ UNCHANGED <<crashes, inbox>> /\ onPermissionResult' \in {NoView, panel}
      /\ \A v \in Views : timer'[v] => timer[v]
  BY <1>1, <1>6 DEF boundVars, connVars, systemVars, PanelInv
<1>8. /\ looper' \in Seq(MessageType) /\ AllSound(looper', panel, crashes)
      /\ Keeps(looper, looper', crashes)
  <2>1. CASE HandleServiceMessage
    <3>1. PICK p : p = [m EXCEPT !.kind = "post"]
      OBVIOUS
    <3>2. m.kind = "event" /\ looper' = Append(Tail(looper), p)
      BY <1>3, <2>1, <3>1 DEF HandleServiceMessage, Receives, Got
    <3>3. p \in MessageType
      BY <3>1, <3>2, HeadFacts
    <3>4. p.kind = "post" /\ p.state = m.state /\ p.from = m.from /\ p.to = m.to
      <4>1. /\ m.kind = m.kind
            /\ m \in [kind : {"event", "post"}, to : Conns,
                      state : {"IDLE", "RECORDING", "PAUSED", "ERROR", "none"}, from : Nat]
        BY <3>2 DEF MessageType
      <4> QED
        BY <3>1, <4>1
    <3>5. Sound(p, panel, crashes)
      BY <1>5, <3>2, <3>4 DEF Sound
    <3>6. AllSound(looper', panel, crashes)
      BY <1>5, <3>2, <3>3, <3>5, SoundAppend
    <3>7. Keeps(Tail(looper), looper', crashes)
      BY <1>5, <3>2, <3>3, <3>4, Quietly
    <3>8. Keeps(looper, looper', crashes)
      BY <1>5, <3>7, KeepsTwice
    <3> QED
      BY <1>5, <3>2, <3>3, <3>6, <3>8, Longer
  <2>2. CASE ShowState \/ CommitText \/ DropDeadBinder
    <3>1. looper' = Tail(looper)
      BY <2>2 DEF ShowState, CommitText, DropDeadBinder
    <3> QED
      BY <1>5, <3>1
  <2> QED
    BY <2>1, <2>2 DEF Passes
<1>9. /\ PanelInv' /\ MessagesInv' /\ InboxInv' /\ BindingInv'
      /\ QueueTypes' /\ ServiceTypes'
  BY <1>6, <1>7, <1>8, LooperKept
<1>10. ViewTypes' /\ ConnTypes' /\ SystemTypes'
  <2>1. isRecording' \in [Views -> BOOLEAN] /\ isPaused' \in [Views -> BOOLEAN]
    <3>1. CASE HandleServiceMessage \/ CommitText \/ DropDeadBinder
      BY <1>1, <3>1 DEF HandleServiceMessage, CommitText, DropDeadBinder, viewVars, ViewTypes
    <3>2. CASE ShowState
      <4>1. PICK v : v = listener[Got.to]
        OBVIOUS
      <4>2. PICK rec : rec = CASE Got.state = "RECORDING" -> TRUE
                               [] Got.state = "PAUSED" -> isRecording[v]
                               [] OTHER -> FALSE
        OBVIOUS
      <4>3. PICK pau : pau = CASE Got.state = "PAUSED" -> TRUE
                               [] Got.state = "ERROR" -> isPaused[v]
                               [] OTHER -> FALSE
        OBVIOUS
      <4>4. /\ isRecording' = [isRecording EXCEPT ![v] = rec]
            /\ isPaused' = [isPaused EXCEPT ![v] = pau]
        BY <3>2, <4>1, <4>2, <4>3 DEF ShowState
      <4>5. v \in Views => rec \in BOOLEAN
        BY <1>1, <4>2 DEF ViewTypes
      <4>6. v \in Views => pau \in BOOLEAN
        BY <1>1, <4>3 DEF ViewTypes
      <4>7. isRecording \in [Views -> BOOLEAN] /\ isPaused \in [Views -> BOOLEAN]
        BY <1>1 DEF ViewTypes
      <4>8. isRecording' \in [Views -> BOOLEAN]
        BY <4>4, <4>5, <4>7
      <4>9. isPaused' \in [Views -> BOOLEAN]
        BY <4>4, <4>6, <4>7
      <4> QED
        BY <4>8, <4>9
    <3> QED
      BY <3>1, <3>2 DEF Passes
  <2>2. ViewTypes'
    BY <1>1, <1>6, <2>1 DEF ViewTypes, boundVars
  <2>3. ConnTypes' /\ SystemTypes'
    BY <1>1, <1>6 DEF ConnTypes, SystemTypes, connVars, systemVars
  <2> QED
    BY <2>2, <2>3
<1>11. SpeechInv'
  <2>1. CASE HandleServiceMessage \/ ShowState \/ DropDeadBinder
    <3>1. typed' = typed
      BY <2>1 DEF HandleServiceMessage, ShowState, DropDeadBinder
    <3> QED
      BY <1>1, <1>6, <3>1, SpeechKept
  <2>2. CASE CommitText
    <3>1. /\ m.kind = "post" /\ m.state = "none"
          /\ typed' = typed \union {[speaker |-> m.from, to |-> m.to]}
      BY <1>3, <2>2 DEF CommitText, Receives, Got
    <3>2. m.from = m.to /\ m.to \in Conns
      BY <1>5, <3>1, HeadFacts DEF Sound
    <3>3. \A t \in typed' : t.to = t.speaker /\ t.to \in Conns
      BY <1>1, <3>1, <3>2 DEF SpeechInv
    <3> QED
      BY <1>1, <1>6, <3>3 DEF SpeechInv, serviceVars, speechVars
  <2> QED
    BY <2>1, <2>2 DEF Passes
<1> QED
  BY <1>9, <1>10, <1>11 DEF SessionInv, SessionTypes

-----------------------------------------------------------------------------
(***************************************************************************)
(* Commands of a connected panel, and its closing.                         *)
(***************************************************************************)
LEMMA AsksCases ==
  ASSUME SessionTypes, Asks
  PROVE  /\ UNCHANGED <<panel, views, conns, crashes, voiceConnection, isRecording, timer>>
         /\ UNCHANGED connVars /\ UNCHANGED systemVars /\ UNCHANGED serviceVars
         /\ UNCHANGED speechVars /\ UNCHANGED <<looper, typed>>
         /\ isPaused' \in [Views -> BOOLEAN] /\ currentGain' \in [Views -> {1, 2, 4}]
         /\ \/ inbox' = inbox
            \/ \E c \in Conns, cmd \in Told \ {"unregister"}, gain \in {NoGain, 1, 2, 4} :
                 /\ c = Cur /\ isBound[c] /\ c \notin dead
                 /\ inbox' = Append(inbox, Command(cmd, c, gain))
<1> USE DEF SessionTypes
<1>1. /\ UNCHANGED <<panel, views, conns, crashes, voiceConnection, isRecording, timer>>
      /\ UNCHANGED connVars /\ UNCHANGED systemVars /\ UNCHANGED serviceVars
      /\ UNCHANGED speechVars /\ UNCHANGED <<looper, typed>>
      /\ panel # NoView
  BY DEF Asks, TapMicResumes, TapMicPauses, TapGain, Toggle, Tap
<1>2. /\ isPaused' \in [Views -> BOOLEAN] /\ currentGain' \in [Views -> {1, 2, 4}]
      /\ \E cmd \in {"resume", "pause", "gain"}, gain \in {NoGain, 1, 2, 4} :
           LET c == voiceConnection[panel] IN
           inbox' = IF c = NoConn THEN inbox ELSE inbox \o Sent(c, <<Command(cmd, c, gain)>>)
  <2>1. CASE TapMicResumes
    BY <2>1 DEF TapMicResumes, Toggle, ViewTypes
  <2>2. CASE TapMicPauses
    BY <2>2 DEF TapMicPauses, Toggle, ViewTypes
  <2>3. CASE TapGain
    <3>1. PICK gain \in {1, 2, 4} : gain = NextGain(currentGain[panel])
      BY <1>1, ConnFacts DEF NextGain, ViewTypes
    <3>2. currentGain' = [currentGain EXCEPT ![panel] = gain]
      BY <2>3, <3>1 DEF TapGain
    <3>3. currentGain' \in [Views -> {1, 2, 4}] /\ isPaused' = isPaused
      BY <2>3, <3>2 DEF ViewTypes, TapGain
    <3>4. LET c == voiceConnection[panel] IN
          inbox' = IF c = NoConn THEN inbox ELSE inbox \o Sent(c, <<Command("gain", c, gain)>>)
      BY <2>3, <3>1 DEF TapGain
    <3> QED
      BY <3>3, <3>4 DEF ViewTypes
  <2> QED
    BY <2>1, <2>2, <2>3 DEF Asks
<1>3. PICK cmd \in {"resume", "pause", "gain"}, gain \in {NoGain, 1, 2, 4} :
           LET c == voiceConnection[panel] IN
           inbox' = IF c = NoConn THEN inbox ELSE inbox \o Sent(c, <<Command(cmd, c, gain)>>)
  BY <1>2
<1>4. inbox \in Seq(CommandType) /\ inbox \o <<>> = inbox
  BY DEF QueueTypes
<1>5. Cur = voiceConnection[panel] /\ (Cur = NoConn \/ Cur \in Conns)
  BY <1>1, ConnFacts
<1>6. CASE Cur = NoConn
  BY <1>1, <1>2, <1>3, <1>5, <1>6
<1>7. CASE Cur \in Conns
  <2>1. PICK c \in Conns : c = Cur
    BY <1>7
  <2>2. c # NoConn
    BY DEF Conns, NoConn
  <2>3. inbox' = inbox \o Sent(c, <<Command(cmd, c, gain)>>)
    BY <1>3, <1>5, <2>1, <2>2
  <2>4. cmd \in Told \ {"unregister"}
    BY DEF Told
  <2>5. CASE Reaches(c)
    <3>1. inbox' = inbox \o <<Command(cmd, c, gain)>>
      BY <2>3, <2>5 DEF Sent
    <3>2. Command(cmd, c, gain) \in CommandType
      BY <2>4, CommandFacts
    <3>3. inbox' = Append(inbox, Command(cmd, c, gain))
      BY <1>4, <3>1, <3>2, Joined
    <3> QED
      BY <1>1, <1>2, <2>1, <2>4, <2>5, <3>3 DEF Reaches
  <2>6. CASE ~Reaches(c)
    <3>1. inbox' = inbox
      BY <1>4, <2>3, <2>6 DEF Sent
    <3> QED
      BY <1>1, <1>2, <3>1
  <2> QED
    BY <2>5, <2>6
<1> QED
  BY <1>5, <1>6, <1>7

LEMMA AsksKeep ==
  ASSUME SessionInv, Asks
  PROVE  SessionInv'
<1>1. /\ SessionTypes /\ PanelInv /\ MessagesInv /\ InboxInv /\ BindingInv /\ SpeechInv
      /\ ViewTypes /\ ConnTypes /\ SystemTypes /\ ServiceTypes /\ QueueTypes
  BY DEF SessionInv, SessionTypes
<1>2. /\ UNCHANGED <<panel, views, conns, crashes, voiceConnection, isRecording, timer>>
      /\ UNCHANGED connVars /\ UNCHANGED systemVars /\ UNCHANGED serviceVars
      /\ UNCHANGED speechVars /\ UNCHANGED <<looper, typed>>
      /\ isPaused' \in [Views -> BOOLEAN] /\ currentGain' \in [Views -> {1, 2, 4}]
  BY <1>1, AsksCases
<1>3. \/ inbox' = inbox
      \/ \E c \in Conns, cmd \in Told \ {"unregister"}, gain \in {NoGain, 1, 2, 4} :
           /\ c = Cur /\ isBound[c] /\ c \notin dead
           /\ inbox' = Append(inbox, Command(cmd, c, gain))
  BY <1>1, AsksCases
<1>4. Cur' = Cur /\ Keeps(looper, looper', crashes) /\ UNCHANGED <<bindings, published, dead, isBound>>
  BY <1>2, KeepsItself DEF Cur, ConnectionOf, systemVars, connVars
<1>5. ViewTypes' /\ ConnTypes' /\ SystemTypes' /\ ServiceTypes'
  <2>1. ViewTypes'
    BY <1>1, <1>2 DEF ViewTypes
  <2>2. ConnTypes' /\ SystemTypes'
    BY <1>1, <1>2 DEF ConnTypes, SystemTypes, connVars, systemVars
  <2> QED
    BY <1>1, <1>2, <2>1, <2>2, ServiceTypesKept
<1>6. PanelInv' /\ MessagesInv' /\ SpeechInv'
  <2>1. PanelInv'
    BY <1>1, <1>2, <1>4 DEF PanelInv, systemVars
  <2>2. MessagesInv'
    BY <1>1, <1>2 DEF MessagesInv
  <2> QED
    BY <1>1, <1>2, <2>1, <2>2, SpeechKept
<1>7. QueueTypes' /\ InboxInv' /\ BindingInv'
  <2>1. CASE inbox' = inbox
    <3>1. InboxInv'
      BY <1>1, <1>2, <2>1, ServiceKept DEF InboxInv
    <3>2. BindingInv'
      BY <1>1, <1>2, <1>4, <2>1, ServiceKept, BindingKept
    <3> QED
      BY <1>1, <1>2, <2>1, <3>1, <3>2 DEF QueueTypes
  <2>2. CASE inbox' # inbox
    <3>1. PICK c \in Conns, cmd \in Told \ {"unregister"}, gain \in {NoGain, 1, 2, 4} :
           /\ c = Cur /\ isBound[c] /\ c \notin dead
           /\ inbox' = Append(inbox, Command(cmd, c, gain))
      BY <1>3, <2>2
    <3>2. c # NoConn
      BY DEF Conns, NoConn
    <3>3. Served(c)
      BY <1>1, <3>1, <3>2 DEF BindingInv, Awaited, Arriving
    <3>4. inbox' \in Seq(CommandType) /\ InboxInv' /\ Served(c)'
      BY <1>1, <1>2, <1>4, <3>1, <3>3, ServedSays
    <3>5. BindingInv'
      BY <1>4, <3>1, <3>2, <3>4 DEF BindingInv
    <3> QED
      BY <1>1, <1>2, <3>4, <3>5 DEF QueueTypes
  <2> QED
    BY <2>1, <2>2
<1> QED
  BY <1>5, <1>6, <1>7 DEF SessionInv, SessionTypes

\* What closing does, when there is no connection and when there is one.
ViewsClosed ==
    /\ voiceConnection' = [u \in Views |-> IF u \in {panel, NoView} THEN NoConn ELSE voiceConnection[u]]
    /\ isRecording' = [u \in Views |-> isRecording[u] /\ u \notin {panel, NoView}]
    /\ isPaused' = [u \in Views |-> isPaused[u] /\ u \notin {panel, NoView}]
    /\ timer' = [u \in Views |-> timer[u] /\ u \notin {panel, NoView}]
    /\ UNCHANGED <<views, conns, crashes, currentGain, listener, looper, permission>>
    /\ UNCHANGED onPermissionResult /\ UNCHANGED serviceVars /\ UNCHANGED speechVars
    /\ typed' = typed

LEMMA ClosesCases ==
  ASSUME "early" \notin Trouble, SessionTypes, PanelInv, Closes
  PROVE  /\ panel \in Views /\ panel' \in {NoView, panel}
         /\ ViewsClosed /\ LetGo(Cur, NoConn)
         /\ Cur # NoConn => isBound[Cur]
         /\ onPermissionResult # panel
         /\ \A i \in 1..Len(looper) : looper[i].kind = "start" => looper[i].to # panel
<1> USE DEF SessionTypes
<1>1. /\ panel # NoView /\ Patient(panel) /\ StopVoiceInput(panel, NoView)
      /\ panel' \in {NoView, panel}
  <2>1. CASE TapCancel \/ TapConfirm \/ TapSettings \/ Dismiss
    BY <2>1 DEF TapCancel, TapConfirm, TapSettings, Dismiss, Tap
  <2>2. CASE \E v \in Views : TimeUp(v)
    <3>1. PICK v \in Views : TimeUp(v)
      BY <2>2
    <3>2. v = panel /\ v # NoView
      BY <3>1, ConnFacts DEF TimeUp, PanelInv
    <3>3. /\ Patient(v) /\ StopVoiceInput(v, IF panel = v THEN NoView ELSE panel)
          /\ panel' = NoView
      BY <3>1 DEF TimeUp
    <3>4. (IF panel = v THEN NoView ELSE panel) = NoView
      BY <3>2
    <3>5. StopVoiceInput(v, NoView)
      BY <3>3, <3>4
    <3> QED
      BY <3>2, <3>3, <3>5
  <2> QED
    BY <2>1, <2>2 DEF Closes
<1>2. panel \in Views /\ Cur = voiceConnection[panel]
  BY <1>1, ConnFacts
<1>3. ConnectionOf(panel) = Cur /\ ConnectionOf(NoView) = NoConn
  BY DEF Cur, ConnectionOf
<1>4. ViewsClosed /\ LetGo(Cur, NoConn)
  BY <1>1, <1>3 DEF StopVoiceInput, ViewsClosed
<1>5. /\ Cur # NoConn => isBound[Cur]
      /\ onPermissionResult # panel
      /\ \A i \in 1..Len(looper) : looper[i].kind = "start" => looper[i].to # panel
  BY <1>1, <1>2 DEF Patient
<1> QED
  BY <1>1, <1>2, <1>4, <1>5

\* The words of a connection that leaves, and of the system after it.
Leaving(q, c) ==
    Append(Append(Append(q, Command("stop", c, NoGain)), Command("stop", c, NoGain)),
           Command("unregister", c, NoGain))
Ending(q) ==
    Append(Append(q, Command("unbind", NoConn, NoGain)), Command("destroy", NoConn, NoGain))

LEMMA LeavingLinked ==
  ASSUME NEW q \in Seq(CommandType), NEW c \in Conns, Linked(q),
         q # <<>> => Follows(q[Len(q)], Command("stop", c, NoGain))
  PROVE  /\ Leaving(q, c) \in Seq(CommandType) /\ Linked(Leaving(q, c)) /\ Leaving(q, c) # <<>>
         /\ Leaving(q, c)[Len(Leaving(q, c))].cmd = "unregister"
         /\ Leaving(q, c)[1] = IF q = <<>> THEN Command("stop", c, NoGain) ELSE q[1]
<1>1. PICK s \in CommandType : s = Command("stop", c, NoGain) /\ s.cmd = "stop" /\ s.conn = c
  BY CommandFacts DEF Told
<1>2. PICK u \in CommandType : u = Command("unregister", c, NoGain) /\ u.cmd = "unregister" /\ u.conn = c
  BY CommandFacts DEF Told
<1>3. Follows(s, s) /\ Follows(s, u)
  BY <1>1, <1>2 DEF Follows, Told
<1>4. PICK q1 : q1 = Append(q, s)
  OBVIOUS
<1>5. /\ q1 \in Seq(CommandType) /\ q1 # <<>> /\ Linked(q1) /\ q1[Len(q1)] = s
      /\ q1[1] = IF q = <<>> THEN s ELSE q[1]
  BY <1>1, <1>4, LinkedAppend
<1>6. PICK q2 : q2 = Append(q1, s)
  OBVIOUS
<1>7. /\ q2 \in Seq(CommandType) /\ q2 # <<>> /\ Linked(q2) /\ q2[Len(q2)] = s /\ q2[1] = q1[1]
  BY <1>1, <1>3, <1>5, <1>6, LinkedAppend
<1>8. PICK q3 : q3 = Append(q2, u)
  OBVIOUS
<1>9. /\ q3 \in Seq(CommandType) /\ q3 # <<>> /\ Linked(q3) /\ q3[Len(q3)] = u /\ q3[1] = q2[1]
  BY <1>2, <1>3, <1>7, <1>8, LinkedAppend
<1>10. Leaving(q, c) = q3
  BY <1>1, <1>2, <1>4, <1>6, <1>8 DEF Leaving
<1> QED
  BY <1>1, <1>2, <1>5, <1>7, <1>9, <1>10

LEMMA EndingLinked ==
  ASSUME NEW q \in Seq(CommandType), Linked(q), q # <<>>, q[Len(q)].cmd # "destroy"
  PROVE  /\ Ending(q) \in Seq(CommandType) /\ Linked(Ending(q)) /\ Ending(q) # <<>>
         /\ Ending(q)[Len(Ending(q))].cmd = "destroy" /\ Ending(q)[1] = q[1]
<1>1. PICK u \in CommandType : u = Command("unbind", NoConn, NoGain) /\ u.cmd = "unbind"
  BY SystemCommandFacts
<1>2. PICK d \in CommandType : d = Command("destroy", NoConn, NoGain) /\ d.cmd = "destroy"
  BY SystemCommandFacts
<1>3. Follows(q[Len(q)], u) /\ Follows(u, d)
  BY <1>1, <1>2 DEF Follows, Linked
<1>4. PICK q1 : q1 = Append(q, u)
  OBVIOUS
<1>5. /\ q1 \in Seq(CommandType) /\ q1 # <<>> /\ q1[Len(q1)] = u
      /\ q1[1] = q[1]
      /\ \A i \in 1..Len(q1) - 1 : Follows(q1[i], q1[i + 1])
  BY <1>1, <1>3, <1>4, LinkedAppend
<1>6. PICK q2 : q2 = Append(q1, d)
  OBVIOUS
<1>7. /\ Len(q1) \in Nat \ {0} /\ q2 \in Seq(CommandType) /\ q2 # <<>> /\ Len(q2) = Len(q1) + 1
      /\ \A i \in 1..Len(q1) : q2[i] = q1[i]
      /\ q2[Len(q1) + 1] = d
  BY <1>2, <1>5, <1>6, Longer, EmptyOrNot
<1>8. ASSUME NEW i \in 1..Len(q2) - 1 PROVE Follows(q2[i], q2[i + 1])
  <2>1. CASE i < Len(q1)
    <3>1. i \in 1..Len(q1) - 1 /\ i \in 1..Len(q1) /\ i + 1 \in 1..Len(q1)
      BY <1>7, <2>1
    <3> QED
      BY <1>5, <1>7, <3>1
  <2>2. CASE ~(i < Len(q1))
    <3>1. i = Len(q1) /\ i \in 1..Len(q1)
      BY <1>7, <2>2
    <3> QED
      BY <1>3, <1>5, <1>7, <3>1
  <2> QED
    BY <2>1, <2>2
<1>9. q2[Len(q2)] = d /\ q2[1] = q[1]
  BY <1>5, <1>7
<1>10. Linked(q2)
  BY <1>2, <1>8, <1>9 DEF Linked
<1>11. Ending(q) = q2
  BY <1>1, <1>2, <1>4, <1>6 DEF Ending
<1> QED
  BY <1>2, <1>7, <1>9, <1>10, <1>11

LEMMA JoinedThree ==
  ASSUME NEW q \in Seq(CommandType), NEW a \in CommandType, NEW b \in CommandType,
         NEW c \in CommandType
  PROVE  q \o <<a, b, c>> = Append(Append(Append(q, a), b), c)
  OBVIOUS

LEMMA LetGoCases ==
  ASSUME SessionTypes, PanelInv, InboxInv, BindingInv, LetGo(Cur, NoConn),
         Cur # NoConn => isBound[Cur]
  PROVE  /\ bindings' = {} /\ published' = FALSE /\ dead' = {}
         /\ isBound' = [e \in Conns |-> FALSE]
         /\ pendingStartGain' \in [Conns -> {NoGain, 1, 2, 4}]
         /\ NoneLive(looper, crashes)
         /\ IF Cur = NoConn THEN inbox' = inbox
            ELSE \/ inbox # <<>> /\ inbox[Len(inbox)].cmd = "create" /\ inbox' = Ending(inbox)
                 \/ /\ Cur \in Conns /\ Served(Cur)
                    /\ inbox' = Ending(Leaving(inbox, Cur))
<1> USE DEF SessionTypes
<1>0. /\ inbox \in Seq(CommandType) /\ bindings = {Cur} \ {NoConn}
      /\ Cur = NoConn \/ Cur \in Conns
      /\ isBound \in [Conns -> BOOLEAN] /\ dead \subseteq Conns /\ published \in BOOLEAN
      /\ pendingStartGain \in [Conns -> {NoGain, 1, 2, 4}]
      /\ \A c \in Conns : isBound[c] \/ c \in dead => c = Cur
      /\ \A c \in Conns : c # NoConn
  BY ConnFacts DEF QueueTypes, PanelInv, ConnTypes, SystemTypes, Conns, NoConn
<1> DEFINE leaving == {e \in {Cur, NoConn} \ {NoConn} : Unbinds(e)}
           left == bindings \ leaving
           Words(e) == IF e \in leaving THEN Goodbye(e) ELSE <<>>
<1>1. /\ isBound' = [e \in Conns |-> isBound[e] /\ e \notin leaving]
      /\ pendingStartGain' = [e \in Conns |-> IF e \in leaving THEN NoGain
                                              ELSE pendingStartGain[e]]
      /\ dead' = dead \ leaving
      /\ bindings' = left
      /\ published' = (published /\ left # {})
      /\ inbox' = inbox \o Words(Cur) \o Words(NoConn)
          \o IF bindings # {} /\ left = {}
             THEN <<Command("unbind", NoConn, NoGain), Command("destroy", NoConn, NoGain)>>
             ELSE <<>>
  BY DEF LetGo
<1>2. pendingStartGain' \in [Conns -> {NoGain, 1, 2, 4}]
  BY <1>0, <1>1
<1>3. CASE Cur = NoConn
  <2>1. leaving = {}
    BY <1>3
  <2>2. bindings = {} /\ left = {}
    BY <1>0, <1>3
  <2>3. inbox' = inbox \o <<>> \o <<>> \o <<>>
    BY <1>1, <2>1, <2>2
  <2>4. inbox' = inbox
    BY <1>0, <2>3
  <2>5. NoService
    BY <1>3 DEF BindingInv
  <2>6. dead' = {} /\ published' = FALSE /\ bindings' = {}
    BY <1>1, <2>1, <2>2, <2>5 DEF NoService
  <2>7. isBound' = [e \in Conns |-> FALSE]
    <3>1. \A e \in Conns : ~isBound[e]
      BY <1>0, <1>3
    <3> QED
      BY <1>1, <3>1
  <2> QED
    BY <1>2, <1>3, <2>4, <2>5, <2>6, <2>7 DEF NoService
<1>4. CASE Cur \in Conns
  <2>1. PICK c \in Conns : c = Cur
    BY <1>4
  <2>2. c # NoConn /\ isBound[c]
    BY <1>0, <2>1
  <2>3. leaving = {c} /\ bindings = {c}
    BY <1>0, <2>1, <2>2 DEF Unbinds
  <2>4. left = {}
    BY <2>3
  <2>5. bindings' = {} /\ published' = FALSE /\ dead' = {}
    BY <1>0, <1>1, <2>1, <2>3, <2>4
  <2>6. isBound' = [e \in Conns |-> FALSE]
    <3>1. \A e \in Conns : (isBound[e] /\ e \notin {c}) = FALSE
      BY <1>0, <2>1
    <3> QED
      BY <1>1, <2>3, <3>1
  <2>7. inbox' = inbox \o Goodbye(c) \o <<>>
          \o <<Command("unbind", NoConn, NoGain), Command("destroy", NoConn, NoGain)>>
    <3>1. Words(Cur) = Goodbye(c) /\ Words(NoConn) = <<>>
      BY <2>1, <2>2, <2>3
    <3>2. bindings # {}
      BY <2>3
    <3> HIDE DEF Words, left
    <3> QED
      BY <1>1, <2>4, <3>1, <3>2
  <2>8. PICK u \in CommandType : u = Command("unbind", NoConn, NoGain)
    BY SystemCommandFacts
  <2>9. PICK d \in CommandType : d = Command("destroy", NoConn, NoGain)
    BY SystemCommandFacts
  <2>10. Awaited(c) \/ Arriving(c) \/ Served(c)
    BY <2>1, <2>2 DEF BindingInv
  <2>11. CASE Awaited(c)
    <3>1. Goodbye(c) = <<>>
      BY <2>2, <2>11 DEF Goodbye, Sent, Reaches, Awaited
    <3>2. inbox' = inbox \o <<>> \o <<>> \o <<u, d>>
      BY <2>7, <2>8, <2>9, <3>1
    <3>3. inbox' = inbox \o <<u, d>>
      BY <1>0, <3>2
    <3>4. inbox' = Ending(inbox)
      BY <1>0, <2>8, <2>9, <3>3, Joined DEF Ending
    <3> QED
      BY <1>2, <2>1, <2>2, <2>5, <2>6, <2>11, <3>4 DEF Awaited
  <2>12. CASE Served(c)
    <3>1. PICK s \in CommandType : s = Command("stop", c, NoGain)
      BY CommandFacts DEF Told
    <3>2. PICK r \in CommandType : r = Command("unregister", c, NoGain)
      BY CommandFacts DEF Told
    <3>3. Goodbye(c) = <<s, s, r>>
      BY <2>2, <2>12, <3>1, <3>2 DEF Goodbye, Sent, Reaches, Served
    <3>4. inbox' = inbox \o <<s, s, r>> \o <<>> \o <<u, d>>
      BY <2>7, <2>8, <2>9, <3>3
    <3>5. PICK q : q = Append(Append(Append(inbox, s), s), r)
      OBVIOUS
    <3>6. q \in Seq(CommandType) /\ inbox \o <<s, s, r>> = q
      BY <1>0, <3>5, JoinedThree
    <3>7. inbox' = Append(Append(q, u), d)
      BY <3>4, <3>6, Joined
    <3>8. inbox' = Ending(Leaving(inbox, c))
      BY <2>8, <2>9, <3>1, <3>2, <3>5, <3>7 DEF Ending, Leaving
    <3> QED
      BY <1>2, <2>1, <2>2, <2>5, <2>6, <2>12, <3>8 DEF Served
  <2>13. CASE Arriving(c)
    BY <2>2, <2>13 DEF Arriving
  <2> QED
    BY <2>10, <2>11, <2>12, <2>13
<1> QED
  BY <1>0, <1>3, <1>4

LEMMA ClosesKeep ==
  ASSUME "early" \notin Trouble, SessionInv, Closes
  PROVE  SessionInv'
<1>1. /\ SessionTypes /\ PanelInv /\ MessagesInv /\ InboxInv /\ BindingInv /\ SpeechInv
      /\ ViewTypes /\ ConnTypes /\ SystemTypes /\ ServiceTypes /\ QueueTypes
  BY DEF SessionInv, SessionTypes
<1>2. /\ panel \in Views /\ panel' \in {NoView, panel}
      /\ ViewsClosed /\ LetGo(Cur, NoConn)
      /\ Cur # NoConn => isBound[Cur]
      /\ onPermissionResult # panel
      /\ \A i \in 1..Len(looper) : looper[i].kind = "start" => looper[i].to # panel
  BY <1>1, ClosesCases
<1>3. /\ bindings' = {} /\ published' = FALSE /\ dead' = {}
      /\ isBound' = [e \in Conns |-> FALSE]
      /\ pendingStartGain' \in [Conns -> {NoGain, 1, 2, 4}]
      /\ NoneLive(looper, crashes)
      /\ IF Cur = NoConn THEN inbox' = inbox
         ELSE \/ inbox # <<>> /\ inbox[Len(inbox)].cmd = "create" /\ inbox' = Ending(inbox)
              \/ /\ Cur \in Conns /\ Served(Cur)
                 /\ inbox' = Ending(Leaving(inbox, Cur))
  BY <1>1, <1>2, LetGoCases
<1>4. /\ voiceConnection' = [u \in Views |-> IF u \in {panel, NoView} THEN NoConn ELSE voiceConnection[u]]
      /\ isRecording' = [u \in Views |-> isRecording[u] /\ u \notin {panel, NoView}]
      /\ isPaused' = [u \in Views |-> isPaused[u] /\ u \notin {panel, NoView}]
      /\ timer' = [u \in Views |-> timer[u] /\ u \notin {panel, NoView}]
      /\ UNCHANGED <<views, conns, crashes, currentGain, listener, looper, permission>>
      /\ UNCHANGED onPermissionResult /\ UNCHANGED serviceVars /\ UNCHANGED speechVars
      /\ typed' = typed
  BY <1>2 DEF ViewsClosed
<1>5. Cur' = NoConn
  <2>1. \A u \in Views : u = panel => voiceConnection'[u] = NoConn
    BY <1>4
  <2> QED
    BY <1>2, <2>1 DEF Cur, ConnectionOf
<1>6. ViewTypes' /\ ConnTypes' /\ SystemTypes' /\ ServiceTypes'
  <2>1. voiceConnection' \in [Views -> 0..MaxConns]
    BY <1>1, <1>4, SessionAssumption DEF ViewTypes, NoConn
  <2>2. /\ isRecording' \in [Views -> BOOLEAN] /\ isPaused' \in [Views -> BOOLEAN]
        /\ timer' \in [Views -> BOOLEAN]
    BY <1>1, <1>4 DEF ViewTypes
  <2>3. panel' \in 0..MaxViews
    BY <1>1, <1>2, SessionAssumption DEF ViewTypes, NoView
  <2>4. ViewTypes'
    BY <1>1, <1>4, <2>1, <2>2, <2>3 DEF ViewTypes
  <2>5. ConnTypes' /\ SystemTypes'
    BY <1>1, <1>3, <1>4 DEF ConnTypes, SystemTypes
  <2> QED
    BY <1>1, <1>4, <2>4, <2>5, ServiceTypesKept
<1>7. PanelInv'
  <2>1. panel' \in {NoView, views'}
    BY <1>1, <1>2, <1>4 DEF PanelInv
  <2>2. \A v \in Views : voiceConnection'[v] = NoConn /\ ~timer'[v]
    <3> TAKE v \in Views
    <3>1. CASE v = panel
      BY <1>4, <3>1
    <3>2. CASE v # panel
      BY <1>1, <1>4, <3>2 DEF PanelInv
    <3> QED
      BY <3>1, <3>2
  <2>3. onPermissionResult' = NoView
    BY <1>1, <1>2, <1>4 DEF PanelInv
  <2>4. \A c \in Conns : ~(isBound'[c] \/ c \in dead')
    BY <1>3
  <2>5. bindings' = {Cur'} \ {NoConn}
    BY <1>3, <1>5
  <2> QED
    BY <2>1, <2>2, <2>3, <2>4, <2>5 DEF PanelInv
<1>8. MessagesInv'
  <2> SUFFICES ASSUME NEW i \in 1..Len(looper)
               PROVE  Sound(looper[i], panel', crashes)
    BY <1>4 DEF MessagesInv, AllSound
  <2>1. Sound(looper[i], panel, crashes) /\ (looper[i].kind = "start" => looper[i].to # panel)
    BY <1>1, <1>2 DEF MessagesInv, AllSound
  <2> QED
    BY <2>1 DEF Sound
<1>9. SpeechInv'
  BY <1>1, <1>4, SpeechKept
<1>10. NoneLive(looper', crashes')
  BY <1>3, <1>4
<1>11. inbox \in Seq(CommandType) /\ Linked(inbox) /\ (inbox # <<>> => Expected(inbox[1]))
  BY <1>1 DEF QueueTypes, InboxInv
<1>12. QueueTypes' /\ InboxInv' /\ NoService'
  <2>1. CASE Cur = NoConn
    <3>1. inbox' = inbox /\ NoService
      BY <1>1, <1>3, <2>1 DEF BindingInv
    <3>2. InboxInv'
      BY <1>4, <1>11, <3>1, ServiceKept DEF InboxInv
    <3>3. NoService'
      BY <1>3, <1>4, <1>10, <3>1, ServiceKept DEF NoService
    <3> QED
      BY <1>1, <1>4, <3>1, <3>2, <3>3 DEF QueueTypes
  <2>2. ASSUME NEW q \in Seq(CommandType), Linked(q), q # <<>>, q[Len(q)].cmd # "destroy",
               Expected(q[1]), inbox' = Ending(q)
        PROVE  QueueTypes' /\ InboxInv' /\ NoService'
    <3>1. /\ inbox' \in Seq(CommandType) /\ Linked(inbox') /\ inbox' # <<>>
          /\ inbox'[Len(inbox')].cmd = "destroy" /\ inbox'[1] = q[1]
      BY <2>2, EndingLinked
    <3>2. PICK h : h = q[1]
      OBVIOUS
    <3>3. Expected(h)'
      BY <1>4, <2>2, <3>2, ServiceKept
    <3>4. InboxInv'
      BY <3>1, <3>2, <3>3 DEF InboxInv, Expected
    <3>5. NoService'
      BY <1>3, <1>10, <3>1 DEF NoService
    <3> QED
      BY <1>1, <1>4, <3>1, <3>4, <3>5 DEF QueueTypes
  <2>3. CASE Cur # NoConn /\ inbox # <<>> /\ inbox[Len(inbox)].cmd = "create" /\ inbox' = Ending(inbox)
    BY <1>11, <2>2, <2>3
  <2>4. CASE Cur \in Conns /\ Served(Cur) /\ inbox' = Ending(Leaving(inbox, Cur))
    <3>1. PICK c \in Conns : c = Cur
      BY <2>4
    <3>2. PICK s \in CommandType : s = Command("stop", c, NoGain) /\ s.cmd = "stop" /\ s.conn = c
      BY CommandFacts DEF Told
    <3>3. ASSUME inbox # <<>> PROVE Follows(inbox[Len(inbox)], s)
      <4>1. Len(inbox) \in 1..Len(inbox)
        BY <1>11, <3>3, EmptyOrNot
      <4>2. PICK a \in CommandType : a = inbox[Len(inbox)]
        BY <1>11, <4>1
      <4>3. a.conn = c /\ a.cmd # "unregister"
        BY <2>4, <3>1, <4>1, <4>2 DEF Served
      <4>4. a.cmd \in Told \cup {"register"}
        <5>1. c # NoConn
          BY DEF Conns, NoConn
        <5> QED
          BY <4>3, <5>1, CommandCases
      <4> QED
        BY <3>2, <4>2, <4>3, <4>4 DEF Follows, Told
    <3>4. PICK q : q = Leaving(inbox, c)
      OBVIOUS
    <3>5. /\ q \in Seq(CommandType) /\ Linked(q) /\ q # <<>> /\ q[Len(q)].cmd = "unregister"
          /\ q[1] = IF inbox = <<>> THEN s ELSE inbox[1]
      BY <1>11, <3>2, <3>3, <3>4, LeavingLinked
    <3>6. Expected(q[1])
      <4>1. CASE inbox = <<>>
        <5>1. client = c
          BY <2>4, <3>1, <4>1 DEF Served
        <5> QED
          BY <3>2, <3>5, <4>1, <5>1 DEF Expected, Told
      <4>2. CASE inbox # <<>>
        BY <1>11, <3>5, <4>2
      <4> QED
        BY <4>1, <4>2
    <3>7. inbox' = Ending(q)
      BY <2>4, <3>1, <3>4
    <3> QED
      BY <2>2, <3>5, <3>6, <3>7
  <2> QED
    BY <1>3, <2>1, <2>3, <2>4
<1>13. BindingInv'
  BY <1>5, <1>12 DEF BindingInv
<1> QED
  BY <1>6, <1>7, <1>8, <1>9, <1>12, <1>13 DEF SessionInv, SessionTypes

-----------------------------------------------------------------------------
(***************************************************************************)
(* The system's callbacks.                                                 *)
(***************************************************************************)
LEMMA ConnectedKeeps ==
  ASSUME SessionInv, OnServiceConnected
  PROVE  SessionInv'
<1>1. /\ SessionTypes /\ PanelInv /\ MessagesInv /\ InboxInv /\ BindingInv /\ SpeechInv
      /\ ViewTypes /\ ConnTypes /\ SystemTypes /\ ServiceTypes /\ QueueTypes
      /\ looper \in Seq(MessageType) /\ inbox \in Seq(CommandType)
  BY DEF SessionInv, SessionTypes, QueueTypes
<1>2. PICK m : m = Head(looper)
  OBVIOUS
<1>3. /\ looper # <<>> /\ m.kind = "connected" /\ m.from = crashes
      /\ isBound' = [isBound EXCEPT ![m.to] = TRUE]
      /\ inbox' = inbox \o <<Command("register", m.to, NoGain)>> \o WaitingStart(m.to)
      /\ pendingStartGain' = [pendingStartGain EXCEPT ![m.to] = NoGain]
      /\ looper' = Tail(looper)
      /\ UNCHANGED <<panel, boundVars, listener, typed>> /\ UNCHANGED viewVars
      /\ UNCHANGED systemVars /\ UNCHANGED serviceVars /\ UNCHANGED speechVars
  BY <1>2 DEF OnServiceConnected, Receives, Got
<1>4. /\ m \in MessageType /\ m.to \in Conns /\ looper' \in Seq(MessageType)
      /\ Live(m, crashes) /\ AllSound(looper', panel, crashes)
  BY <1>1, <1>2, <1>3, Shorter, HeadFacts, SoundTail DEF Live, MessagesInv
<1>5. ~NoneLive(looper, crashes)
  <2>1. 1 \in 1..Len(looper) /\ looper[1] = m
    BY <1>1, <1>2, <1>3, Shorter
  <2> QED
    BY <1>4, <2>1 DEF NoneLive
<1>6. PICK c \in Conns : c = Cur
  <2>1. Cur # NoConn
    BY <1>1, <1>5 DEF BindingInv, NoService
  <2> QED
    BY <1>1, <2>1, ConnFacts
<1>7. c # NoConn
  BY DEF Conns, NoConn
<1>8. Arriving(c)
  BY <1>1, <1>5, <1>6, <1>7 DEF BindingInv, Awaited, Served
<1>9. m.to = c /\ NoneLive(looper', crashes) /\ NoLoss(looper', c)
  <2>1. OneLive(looper, crashes, c)
    BY <1>8 DEF Arriving
  <2> QED
    BY <1>1, <1>2, <1>3, <1>4, <2>1, BinderTaken
<1>10. Cur' = c /\ UNCHANGED <<crashes, published, dead, bindings, views, timer, voiceConnection>>
       /\ onPermissionResult' = onPermissionResult
  BY <1>3, <1>6 DEF Cur, ConnectionOf, viewVars, systemVars, boundVars
<1>11. PICK r \in CommandType : r = Command("register", c, NoGain) /\ r.cmd = "register" /\ r.conn = c
  BY CommandFacts
<1>12. inbox = <<>> /\ published /\ dead = {} /\ Fresh
  BY <1>8 DEF Arriving
<1>13. \/ inbox' = <<r>>
       \/ \E s \in CommandType : s.cmd = "start" /\ s.conn = c /\ inbox' = <<r, s>>
  <2>1. inbox' = <<>> \o <<r>> \o WaitingStart(c)
    BY <1>3, <1>9, <1>11, <1>12
  <2>2. CASE pendingStartGain[c] = NoGain
    <3>1. WaitingStart(c) = <<>>
      BY <2>2 DEF WaitingStart
    <3>2. <<>> \o <<r>> \o <<>> = <<r>>
      OBVIOUS
    <3> QED
      BY <2>1, <3>1, <3>2
  <2>3. CASE pendingStartGain[c] # NoGain
    <3>1. PICK g \in {NoGain, 1, 2, 4} : g = pendingStartGain[c]
      BY <1>1 DEF ConnTypes
    <3>2. PICK s \in CommandType : s = Command("start", c, g) /\ s.cmd = "start" /\ s.conn = c
      BY CommandFacts DEF Told
    <3>3. WaitingStart(c) = <<s>>
      BY <2>3, <3>1, <3>2 DEF WaitingStart
    <3>4. <<>> \o <<r>> \o <<s>> = <<r, s>>
      BY TwoInTurn
    <3>5. inbox' = <<r, s>>
      BY <2>1, <3>3, <3>4
    <3> QED
      BY <3>2, <3>5
  <2> QED
    BY <2>2, <2>3
<1>14. /\ inbox' \in Seq(CommandType) /\ Linked(inbox') /\ inbox' # <<>> /\ inbox'[1] = r
       /\ \A i \in 1..Len(inbox') : inbox'[i].conn = c /\ inbox'[i].cmd # "unregister"
  <2>1. CASE inbox' = <<r>>
    <3>1. Len(inbox') = 1 /\ inbox'[1] = r /\ inbox' \in Seq(CommandType) /\ inbox' # <<>>
      BY <2>1
    <3>2. \A i \in 1..1 : i = 1
      OBVIOUS
    <3>3. \A i \in 1..1 - 1 : FALSE
      OBVIOUS
    <3>4. Linked(inbox')
      BY <1>11, <3>1, <3>3 DEF Linked
    <3> QED
      BY <1>11, <3>1, <3>2, <3>4
  <2>2. CASE \E s \in CommandType : s.cmd = "start" /\ s.conn = c /\ inbox' = <<r, s>>
    <3>1. PICK s \in CommandType : s.cmd = "start" /\ s.conn = c /\ inbox' = <<r, s>>
      BY <2>2
    <3>2. Len(inbox') = 2 /\ inbox'[1] = r /\ inbox'[2] = s /\ inbox' \in Seq(CommandType)
      BY <3>1
    <3>3. Follows(r, s)
      BY <1>11, <3>1 DEF Follows, Told
    <3>4. \A i \in 1..2 : i = 1 \/ i = 2
      OBVIOUS
    <3>5. \A i \in 1..2 - 1 : i = 1
      OBVIOUS
    <3> QED
      BY <1>11, <3>1, <3>2, <3>3, <3>4, <3>5 DEF Linked
  <2> QED
    BY <1>13, <2>1, <2>2
<1>15. InboxInv'
  <2>1. Expected(r)
    BY <1>11, <1>12 DEF Expected, Told
  <2>2. Expected(r)'
    BY <1>3, <2>1, ServiceKept
  <2> QED
    BY <1>14, <2>2 DEF InboxInv, Expected
<1>16. isBound' = [isBound EXCEPT ![c] = TRUE] /\ isBound'[c]
  BY <1>1, <1>3, <1>9 DEF ConnTypes
<1>17. BindingInv'
  <2>1. Served(c)'
    BY <1>9, <1>10, <1>12, <1>14, <1>16 DEF Served
  <2> QED
    BY <1>7, <1>10, <2>1 DEF BindingInv
<1>18. PanelInv'
  <2>1. \A e \in Conns : isBound'[e] \/ e \in dead' => e = Cur'
    <3>1. \A e \in Conns : e # c => isBound'[e] = isBound[e]
      BY <1>1, <1>16 DEF ConnTypes
    <3> QED
      BY <1>1, <1>6, <1>10, <3>1 DEF PanelInv
  <2> QED
    BY <1>1, <1>3, <1>6, <1>10, <2>1 DEF PanelInv
<1>19. SessionTypes'
  <2>1. isBound' \in [Conns -> BOOLEAN] /\ pendingStartGain' \in [Conns -> {NoGain, 1, 2, 4}]
    BY <1>1, <1>3 DEF ConnTypes
  <2>2. ViewTypes' /\ ConnTypes' /\ SystemTypes'
    BY <1>1, <1>3, <2>1 DEF ViewTypes, ConnTypes, SystemTypes, viewVars, boundVars, systemVars
  <2>3. QueueTypes'
    BY <1>4, <1>14 DEF QueueTypes
  <2> QED
    BY <1>1, <1>3, <2>2, <2>3, ServiceTypesKept DEF SessionTypes
<1>20. MessagesInv' /\ SpeechInv'
  BY <1>1, <1>3, <1>4, <1>10, SpeechKept DEF MessagesInv
<1> QED
  BY <1>15, <1>17, <1>18, <1>19, <1>20 DEF SessionInv

\* A connection without a binder is told so, or a notice about an earlier one
\* is dropped.
LEMMA LossKeeps ==
  ASSUME SessionInv, NEW c \in Conns, NEW st \in {"IDLE", "ERROR"},
         NEW rest \in Seq(MessageType),
         AllSound(rest, panel, crashes), Keeps(looper, rest, crashes),
         \/ looper' = rest /\ isBound' = isBound
         \/ /\ looper' = Append(rest, StateOf("post", c, st))
            /\ isBound' = [isBound EXCEPT ![c] = FALSE]
            /\ c = Cur => ~Served(c),
         dead' \subseteq dead,
         \A e \in dead : e \in dead' \/ ~isBound'[e],
         UNCHANGED <<panel, listener, pendingStartGain, bindings, published, permission>>,
         UNCHANGED boundVars, UNCHANGED viewVars, UNCHANGED serviceVars, UNCHANGED speechVars,
         UNCHANGED <<onPermissionResult, inbox, typed>>
  PROVE  SessionInv'
<1>1. /\ SessionTypes /\ PanelInv /\ MessagesInv /\ InboxInv /\ BindingInv /\ SpeechInv
      /\ ViewTypes /\ ConnTypes /\ SystemTypes /\ ServiceTypes /\ QueueTypes
  BY DEF SessionInv, SessionTypes
<1>2. /\ looper' \in Seq(MessageType) /\ AllSound(looper', panel, crashes)
      /\ Keeps(looper, looper', crashes)
  <2>1. CASE looper' = rest
    BY <2>1
  <2>2. CASE looper' = Append(rest, StateOf("post", c, st))
    <3>1. PICK m : m = StateOf("post", c, st)
      OBVIOUS
    <3>2. m \in MessageType /\ m.kind = "post" /\ m.state # "none"
      BY <3>1, MessageFacts DEF StateOf
    <3>3. Sound(m, panel, crashes)
      BY <3>2 DEF Sound
    <3>4. looper' = Append(rest, m)
      BY <2>2, <3>1
    <3>5. Keeps(rest, looper', crashes)
      BY <3>2, <3>4, Quietly
    <3>6. Keeps(looper, looper', crashes)
      BY <3>5, KeepsTwice
    <3> QED
      BY <3>2, <3>3, <3>4, <3>6, SoundAppend, Longer
  <2> QED
    BY <2>1, <2>2
<1>3. isBound' \in [Conns -> BOOLEAN] /\ \A e \in Conns : isBound'[e] => isBound[e]
  <2>1. CASE isBound' = isBound
    BY <1>1, <2>1 DEF ConnTypes
  <2>2. CASE isBound' = [isBound EXCEPT ![c] = FALSE]
    BY <1>1, <2>2 DEF ConnTypes
  <2> QED
    BY <2>1, <2>2
<1>4. Cur' = Cur /\ UNCHANGED <<views, crashes, timer, voiceConnection>>
  BY DEF Cur, ConnectionOf, viewVars, boundVars
<1>5. PanelInv'
  <2>1. \A e \in Conns : isBound'[e] \/ e \in dead' => e = Cur'
    BY <1>1, <1>3, <1>4 DEF PanelInv
  <2> QED
    BY <1>1, <1>4, <2>1 DEF PanelInv
<1>6. SessionTypes'
  <2>1. ViewTypes' /\ ConnTypes' /\ SystemTypes'
    BY <1>1, <1>3 DEF ViewTypes, ConnTypes, SystemTypes, viewVars, boundVars
  <2>2. QueueTypes'
    BY <1>1, <1>2 DEF QueueTypes
  <2> QED
    BY <1>1, <2>1, <2>2, ServiceTypesKept DEF SessionTypes
<1>7. MessagesInv' /\ SpeechInv' /\ InboxInv'
  BY <1>1, <1>2, <1>4, SpeechKept, ServiceKept DEF MessagesInv, InboxInv
<1>8. BindingInv'
  <2>1. CASE Cur = NoConn
    <3>1. NoService
      BY <1>1, <2>1 DEF BindingInv
    <3>2. NoService'
      BY <1>2, <1>4, <3>1, ServiceKept DEF NoService, Keeps
    <3> QED
      BY <1>4, <2>1, <3>2 DEF BindingInv
  <2>2. CASE Cur \in Conns
    <3>1. PICK d \in Conns : d = Cur
      BY <2>2
    <3>2. d # NoConn
      BY DEF Conns, NoConn
    <3>3. Awaited(d) \/ Arriving(d) \/ Served(d)
      BY <1>1, <3>1, <3>2 DEF BindingInv
    <3>4. CASE Awaited(d)
      <4>1. isBound'[d] => d \in dead'
        BY <1>3, <3>4 DEF Awaited
      <4>2. Awaited(d)'
        BY <1>2, <1>4, <3>4, <4>1 DEF Awaited, Keeps
      <4> QED
        BY <1>4, <3>1, <3>2, <4>2 DEF BindingInv
    <3>5. CASE Arriving(d)
      <4>1. Arriving(d)'
        BY <1>2, <1>3, <1>4, <3>5, ServiceKept DEF Arriving, Keeps
      <4> QED
        BY <1>4, <3>1, <3>2, <4>1 DEF BindingInv
    <3>6. CASE Served(d)
      <4>1. isBound'[d]
        <5>1. CASE isBound' = isBound
          BY <3>6, <5>1 DEF Served
        <5>2. CASE isBound' = [isBound EXCEPT ![c] = FALSE] /\ (c = Cur => ~Served(c))
          <6>1. d # c
            BY <3>1, <3>6, <5>2
          <6> QED
            BY <1>1, <3>6, <5>2, <6>1 DEF Served, ConnTypes
        <5> QED
          BY <5>1, <5>2
      <4>2. Served(d)'
        BY <1>2, <1>4, <3>6, <4>1, ServiceKept DEF Served, Keeps
      <4> QED
        BY <1>4, <3>1, <3>2, <4>2 DEF BindingInv
    <3> QED
      BY <3>3, <3>4, <3>5, <3>6
  <2> QED
    BY <1>1, <2>1, <2>2, ConnFacts
<1> QED
  BY <1>5, <1>6, <1>7, <1>8 DEF SessionInv

LEMMA DisconnectedKeeps ==
  ASSUME SessionInv, OnServiceDisconnected
  PROVE  SessionInv'
<1>1. /\ MessagesInv /\ PanelInv /\ looper \in Seq(MessageType)
  BY DEF SessionInv, SessionTypes, QueueTypes
<1>2. PICK m : m = Head(looper)
  OBVIOUS
<1>3. /\ looper # <<>> /\ m.kind = "disconnected"
      /\ IF m.to \in bindings
         THEN /\ isBound' = [isBound EXCEPT ![m.to] = FALSE]
              /\ looper' = Append(Tail(looper), StateOf("post", m.to, "IDLE"))
         ELSE looper' = Tail(looper) /\ UNCHANGED isBound
      /\ UNCHANGED <<panel, listener, pendingStartGain>> /\ UNCHANGED systemVars
      /\ UNCHANGED boundVars /\ UNCHANGED viewVars /\ UNCHANGED serviceVars
      /\ UNCHANGED speechVars /\ UNCHANGED <<inbox, typed>>
  BY <1>2 DEF OnServiceDisconnected, Receives, Got
<1>4. PICK c \in Conns : c = m.to
  BY <1>1, <1>2, <1>3, Shorter, HeadFacts
<1>5. PICK rest \in Seq(MessageType) : rest = Tail(looper)
  BY <1>1, <1>3, Shorter
<1>6. AllSound(rest, panel, crashes) /\ Keeps(looper, rest, crashes)
  BY <1>1, <1>2, <1>3, <1>5, SoundTail, HeadGoes DEF MessagesInv, Live
<1>7. ~NoLoss(looper, c)
  <2>1. 1 \in 1..Len(looper) /\ looper[1] = m
    BY <1>1, <1>2, <1>3, Shorter
  <2> QED
    BY <1>3, <1>4, <2>1 DEF NoLoss, Loss
<1>8. ~Served(c)
  BY <1>7 DEF Served
<1>9. UNCHANGED <<bindings, published, permission>> /\ dead' = dead
      /\ onPermissionResult' = onPermissionResult
  BY <1>3 DEF systemVars
<1>10. \/ looper' = rest /\ isBound' = isBound
       \/ /\ looper' = Append(rest, StateOf("post", c, "IDLE"))
          /\ isBound' = [isBound EXCEPT ![c] = FALSE]
          /\ c = Cur => ~Served(c)
  BY <1>3, <1>4, <1>5, <1>8
<1> QED
  BY <1>3, <1>6, <1>9, <1>10, LossKeeps

LEMMA DeathKeeps ==
  ASSUME SessionInv, NEW c \in Conns, DeathNotice(c)
  PROVE  SessionInv'
<1>1. MessagesInv /\ PanelInv /\ ConnTypes /\ looper \in Seq(MessageType)
  BY DEF SessionInv, SessionTypes, QueueTypes
<1>2. /\ c \in dead
      /\ dead' = dead \ {c}
      /\ isBound' = [isBound EXCEPT ![c] = FALSE]
      /\ looper' = Append(looper, StateOf("post", c, "ERROR"))
      /\ UNCHANGED <<panel, listener, pendingStartGain, bindings, published, permission>>
      /\ UNCHANGED boundVars /\ UNCHANGED viewVars /\ UNCHANGED serviceVars
      /\ UNCHANGED speechVars /\ UNCHANGED <<onPermissionResult, inbox, typed>>
  BY DEF DeathNotice
<1>3. ~Served(c)
  BY <1>2 DEF Served
<1>4. AllSound(looper, panel, crashes) /\ Keeps(looper, looper, crashes)
  BY <1>1, KeepsItself DEF MessagesInv
<1>5. dead' \subseteq dead /\ \A e \in dead : e \in dead' \/ ~isBound'[e]
  <2>1. ~isBound'[c]
    BY <1>1, <1>2 DEF ConnTypes
  <2> QED
    BY <1>2, <2>1
<1> QED
  BY <1>1, <1>2, <1>3, <1>4, <1>5, LossKeeps

-----------------------------------------------------------------------------
(***************************************************************************)
(* The service.                                                            *)
(***************************************************************************)
States == {"IDLE", "RECORDING", "PAUSED", "ERROR"}
ToldState == \E c \in Conns, st \in States : looper' = Append(looper, StateOf("event", c, st))

LEMMA SideKept ==
  ASSUME SessionInv, ServiceSide, published' \in BOOLEAN
  PROVE  /\ PanelInv' /\ ViewTypes' /\ ConnTypes' /\ SystemTypes' /\ Cur' = Cur
         /\ UNCHANGED <<panel, crashes, dead, isBound, typed, bindings>>
<1>1. /\ ViewTypes /\ ConnTypes /\ SystemTypes /\ PanelInv
  BY DEF SessionInv, SessionTypes
<1>2. /\ UNCHANGED <<panel, bindings, dead, permission, onPermissionResult, typed>>
      /\ UNCHANGED boundVars /\ UNCHANGED viewVars /\ UNCHANGED connVars
  BY DEF ServiceSide
<1>3. Cur' = Cur /\ UNCHANGED <<views, crashes, isBound, timer, voiceConnection>>
  BY <1>2 DEF Cur, ConnectionOf, viewVars, boundVars, connVars
<1>4. PanelInv'
  BY <1>1, <1>2, <1>3 DEF PanelInv
<1>5. ViewTypes' /\ ConnTypes' /\ SystemTypes'
  BY <1>1, <1>2 DEF ViewTypes, ConnTypes, SystemTypes, viewVars, boundVars, connVars
<1> QED
  BY <1>2, <1>3, <1>4, <1>5

\* An event that reaches the looper.
LEMMA Posted ==
  ASSUME SessionInv, NEW m \in MessageType, m.kind = "event", Sound(m, panel, crashes),
         looper' = Append(looper, m)
  PROVE  /\ looper' \in Seq(MessageType) /\ AllSound(looper', panel, crashes)
         /\ Keeps(looper, looper', crashes)
<1>1. looper \in Seq(MessageType) /\ AllSound(looper, panel, crashes)
  BY DEF SessionInv, SessionTypes, QueueTypes, MessagesInv
<1> QED
  BY <1>1, SoundAppend, Quietly, Longer

LEMMA ToldKept ==
  ASSUME SessionInv, looper' = looper \/ ToldState
  PROVE  /\ looper' \in Seq(MessageType) /\ AllSound(looper', panel, crashes)
         /\ Keeps(looper, looper', crashes)
<1>1. CASE looper' = looper
  BY <1>1, KeepsItself DEF SessionInv, SessionTypes, QueueTypes, MessagesInv
<1>2. CASE ToldState
  <2>1. PICK c \in Conns, st \in States : looper' = Append(looper, StateOf("event", c, st))
    BY <1>2 DEF ToldState
  <2>2. PICK m : m = StateOf("event", c, st)
    OBVIOUS
  <2>3. m \in MessageType /\ m.kind = "event" /\ m.state # "none"
    BY <2>2, MessageFacts DEF StateOf, States
  <2>4. Sound(m, panel, crashes)
    BY <2>3 DEF Sound
  <2> QED
    BY <2>1, <2>2, <2>3, <2>4, Posted
<1> QED
  BY <1>1, <1>2

LEMMA Tells ==
  ASSUME ServiceTypes, NEW st \in States, Tell(st)
  PROVE  looper' = looper \/ ToldState
<1>1. CASE client = NoConn
  BY <1>1 DEF Tell
<1>2. CASE client # NoConn
  <2>1. PICK c \in Conns : c = client
    BY <1>2, SessionAssumption DEF ServiceTypes, Conns, NoConn
  <2> QED
    BY <1>2, <2>1 DEF Tell, ToldState
<1> QED
  BY <1>1, <1>2

\* What a command leaves behind for the one after it.
LEMMA CommandsCases ==
  ASSUME SessionInv, Commands
  PROVE  /\ inbox # <<>> /\ inbox' = Tail(inbox) /\ ServiceSide /\ published' = published
         /\ looper' = looper \/ ToldState
         /\ ServiceTypes' /\ SpeechInv'
         /\ Head(inbox).cmd # "create"
         /\ Head(inbox).cmd \in (Told \cup {"register"}) \ {"unregister"} =>
              client' = Head(inbox).conn
         /\ Head(inbox).cmd = "unbind" => ~alive' /\ client' = NoConn
         /\ Head(inbox).cmd = "destroy" => Down'
<1>1. /\ ServiceTypes /\ SpeechInv /\ inbox \in Seq(CommandType)
      /\ inbox # <<>> => Expected(inbox[1])
  BY DEF SessionInv, SessionTypes, QueueTypes, InboxInv
<1>2. /\ inbox # <<>> /\ inbox' = Tail(inbox) /\ busy = "no" /\ ServiceSide
      /\ published' = published /\ typed' = typed
  BY DEF Commands, RegisterClient, StartRecording, PauseRecording, ResumeRecording, SetGain,
     StopRecording, UnregisterClient, OnUnbind, OnDestroy, Commanded, ServiceSide, speechVars
<1>3. PICK h \in CommandType : h = Head(inbox)
  BY <1>1, <1>2, Shorter
<1>4. Expected(h)
  BY <1>1, <1>2, <1>3, Shorter
<1>5. \A st : st \in States <=> st \in {"IDLE", "RECORDING", "PAUSED", "ERROR"}
  BY DEF States
<1> USE DEF ServiceTypes, SpeechInv
<1>6. CASE RegisterClient
  <2>1. /\ h.cmd = "register" /\ Service!Register(h.conn)
        /\ looper' = Append(looper, StateOf("event", h.conn, state)) /\ UNCHANGED speechVars
    BY <1>3, <1>6 DEF RegisterClient, Commanded, Given
  <2>2. Fresh /\ h.conn \in Conns
    BY <1>4, <2>1, CommandCases DEF Expected
  <2>3. client' = h.conn /\ UNCHANGED <<alive, state, busy, pass>>
    BY <2>1 DEF Service!Register
  <2>4. ToldState
    BY <1>1, <1>5, <2>1, <2>2 DEF ToldState
  <2>5. h.conn \in 0..MaxConns
    BY <2>2, SessionAssumption DEF Conns
  <2>6. ServiceTypes' /\ SpeechInv'
    BY <1>1, <1>2, <2>1, <2>2, <2>3, <2>5 DEF speechVars, Fresh
  <2> QED
    BY <1>2, <1>3, <2>1, <2>3, <2>4, <2>6 DEF Told
<1>7. CASE StartRecording
  <2>1. h.cmd = "start" /\ looper' = looper /\ passSpeaker' = passSpeaker
    BY <1>3, <1>7 DEF StartRecording, Commanded
  <2>2. h.conn = client
    BY <1>4, <2>1 DEF Expected, Told
  <2>3. CASE state = "RECORDING"
    <3>1. UNCHANGED <<alive, client, state, busy, pass, speaker>>
      BY <1>7, <2>3 DEF StartRecording, Service!Attend
    <3> QED
      BY <1>1, <1>2, <1>3, <2>1, <2>2, <3>1 DEF Told
  <2>4. CASE state # "RECORDING"
    <3>1. busy' = "starting" /\ speaker' = h.conn /\ UNCHANGED <<alive, client, state, pass>>
      BY <1>3, <1>7, <2>4 DEF StartRecording, Service!BeginStart, Given
    <3> QED
      BY <1>1, <1>2, <1>3, <2>1, <2>2, <3>1 DEF Told
  <2> QED
    BY <2>3, <2>4
<1>8. CASE PauseRecording
  <2>1. h.cmd = "pause" /\ UNCHANGED speechVars
    BY <1>3, <1>8 DEF PauseRecording, Commanded
  <2>2. h.conn = client
    BY <1>4, <2>1 DEF Expected, Told
  <2>3. looper' = looper \/ ToldState
    <3>1. looper' = looper \/ Tell("PAUSED")
      BY <1>8 DEF PauseRecording
    <3> QED
      BY <1>1, <3>1, Tells DEF States
  <2>4. /\ UNCHANGED <<alive, client, busy, pass>>
        /\ state' = state \/ (state = "RECORDING" /\ state' = "PAUSED")
    BY <1>8 DEF PauseRecording, Service!Pause, Service!Attend
  <2> QED
    BY <1>1, <1>2, <1>3, <2>1, <2>2, <2>3, <2>4 DEF Told, speechVars
<1>9. CASE ResumeRecording
  <2>1. h.cmd = "resume" /\ UNCHANGED speechVars
    BY <1>3, <1>9 DEF ResumeRecording, Commanded
  <2>2. h.conn = client
    BY <1>4, <2>1 DEF Expected, Told
  <2>3. looper' = looper \/ ToldState
    <3>1. looper' = looper \/ Tell("RECORDING")
      BY <1>9 DEF ResumeRecording
    <3> QED
      BY <1>1, <3>1, Tells DEF States
  <2>4. /\ UNCHANGED <<alive, client, busy, pass>>
        /\ state' = state \/ (state = "PAUSED" /\ state' = "RECORDING")
    BY <1>9 DEF ResumeRecording, Service!Resume, Service!Attend
  <2> QED
    BY <1>1, <1>2, <1>3, <2>1, <2>2, <2>3, <2>4 DEF Told, speechVars
<1>10. CASE SetGain
  <2>1. /\ h.cmd = "gain" /\ UNCHANGED <<looper, speaker, passSpeaker>>
        /\ UNCHANGED <<alive, client, state, busy, pass>>
    BY <1>3, <1>10 DEF SetGain, Commanded, Service!Attend
  <2>2. h.conn = client
    BY <1>4, <2>1 DEF Expected, Told
  <2> QED
    BY <1>1, <1>2, <1>3, <2>1, <2>2 DEF Told
<1>11. CASE StopRecording
  <2>1. /\ h.cmd = "stop" /\ looper' = looper /\ UNCHANGED speechVars
        /\ UNCHANGED <<alive, client, state, pass>>
        /\ busy' = IF state = "IDLE" THEN "no" ELSE "stopping"
    BY <1>3, <1>11 DEF StopRecording, Commanded, Service!Stop, Service!BeginStop
  <2>2. h.conn = client
    BY <1>4, <2>1 DEF Expected, Told
  <2> QED
    BY <1>1, <1>2, <1>3, <2>1, <2>2 DEF Told, speechVars
<1>12. CASE UnregisterClient
  <2>1. /\ h.cmd = "unregister" /\ looper' = looper /\ UNCHANGED speechVars
        /\ client' = NoConn /\ UNCHANGED <<alive, state, pass>>
        /\ busy' = IF state = "IDLE" THEN "no" ELSE "stopping"
    BY <1>3, <1>12 DEF UnregisterClient, Commanded, Service!Unregister, Service!BeginStop,
       Service!NoClient, NoConn
  <2> QED
    BY <1>1, <1>2, <1>3, <2>1, SessionAssumption DEF Told, speechVars, NoConn
<1>13. CASE OnUnbind
  <2>1. /\ h.cmd = "unbind" /\ looper' = looper /\ UNCHANGED speechVars
        /\ alive' = FALSE /\ client' = NoConn /\ UNCHANGED <<state, pass>>
        /\ busy' = IF state = "IDLE" THEN "no" ELSE "stopping"
    BY <1>3, <1>13 DEF OnUnbind, Commanded, Service!Disconnect, Service!BeginStop,
       Service!NoClient, NoConn
  <2>2. ServiceTypes'
    <3>1. client' \in 0..MaxConns /\ speaker' \in 0..MaxConns /\ passSpeaker' \in 0..MaxConns
      BY <1>1, <2>1, SessionAssumption DEF speechVars, NoConn
    <3>2. alive' \in BOOLEAN /\ pass' \in BOOLEAN
      BY <1>1, <2>1
    <3>3. busy' \in {"no", "starting", "stopping"} /\ state' \in {"IDLE", "RECORDING", "PAUSED", "ERROR"}
      BY <1>1, <2>1
    <3> QED
      BY <3>1, <3>2, <3>3
  <2>3. SpeechInv'
    BY <1>1, <1>2, <2>1
  <2>4. ~alive'
    BY <2>1
  <2>5. h.cmd = "unbind" /\ h.cmd \notin Told \cup {"register"}
    BY <2>1 DEF Told
  <2> QED
    BY <1>2, <1>3, <2>1, <2>2, <2>3, <2>4, <2>5
<1>14. CASE OnDestroy
  <2>1. /\ h.cmd = "destroy" /\ looper' = looper /\ UNCHANGED speechVars
        /\ UNCHANGED <<alive, client, state, pass>>
        /\ busy' = IF state = "IDLE" THEN "no" ELSE "stopping"
    BY <1>3, <1>14 DEF OnDestroy, Commanded, Service!Destroy, Service!BeginStop
  <2>2. ~alive /\ client = NoConn
    BY <1>4, <2>1 DEF Expected
  <2>3. Down'
    BY <1>1, <2>1, <2>2 DEF Down
  <2> QED
    BY <1>1, <1>2, <1>3, <2>1, <2>2, <2>3 DEF Told, speechVars
<1> QED
  BY <1>6, <1>7, <1>8, <1>9, <1>10, <1>11, <1>12, <1>13, <1>14 DEF Commands

LEMMA CommandsKeep ==
  ASSUME SessionInv, Commands
  PROVE  SessionInv'
<1>1. /\ SessionTypes /\ PanelInv /\ MessagesInv /\ InboxInv /\ BindingInv /\ SystemTypes
      /\ inbox \in Seq(CommandType)
  BY DEF SessionInv, SessionTypes, QueueTypes
<1>2. PICK h : h = Head(inbox)
  OBVIOUS
<1>3. /\ inbox # <<>> /\ inbox' = Tail(inbox) /\ ServiceSide /\ published' = published
      /\ looper' = looper \/ ToldState
      /\ ServiceTypes' /\ SpeechInv'
      /\ h.cmd # "create"
      /\ h.cmd \in (Told \cup {"register"}) \ {"unregister"} => client' = h.conn
      /\ h.cmd = "unbind" => ~alive' /\ client' = NoConn
      /\ h.cmd = "destroy" => Down'
  BY <1>2, CommandsCases
<1>4. /\ looper' \in Seq(MessageType) /\ AllSound(looper', panel, crashes)
      /\ Keeps(looper, looper', crashes)
  BY <1>3, ToldKept
<1>5. /\ PanelInv' /\ ViewTypes' /\ ConnTypes' /\ SystemTypes' /\ Cur' = Cur
      /\ UNCHANGED <<panel, crashes, dead, isBound, typed, bindings>>
  BY <1>1, <1>3, SideKept DEF SystemTypes
<1>6. PICK r : r = inbox'
  OBVIOUS
<1>7. /\ r \in Seq(CommandType) /\ Linked(r)
      /\ r # <<>> => /\ Follows(h, r[1])
                     /\ r[Len(r)] = inbox[Len(inbox)]
      /\ r = <<>> => Len(inbox) = 1
      /\ h = inbox[1] /\ h \in CommandType
  BY <1>1, <1>2, <1>3, <1>6, LinkedTail DEF InboxInv
<1>8. ASSUME r # <<>> PROVE Expected(r[1])'
  <2>1. PICK e : e = r[1]
    OBVIOUS
  <2>2. Follows(h, e)
    BY <1>7, <1>8, <2>1
  <2>3. Expected(e)'
    BY <1>3, <2>2 DEF Follows, Expected, Told
  <2> QED
    BY <2>1, <2>3
<1>9. InboxInv'
  BY <1>6, <1>7, <1>8 DEF InboxInv, Expected
<1>10. /\ Len(inbox) \in Nat /\ Len(r) = Len(inbox) - 1
       /\ \A i \in 1..Len(r) : r[i] = inbox[i + 1] /\ i + 1 \in 1..Len(inbox)
       /\ 1 \in 1..Len(inbox)
  BY <1>1, <1>3, <1>6, Shorter
<1>11. BindingInv'
  <2>1. CASE Cur = NoConn
    <3>1. NoService
      BY <1>1, <2>1 DEF BindingInv
    <3>2. IF r = <<>> THEN Down' ELSE r[Len(r)].cmd = "destroy"
      BY <1>3, <1>7, <3>1 DEF NoService
    <3>3. NoService'
      BY <1>3, <1>4, <1>5, <1>6, <3>1, <3>2 DEF NoService, Keeps
    <3> QED
      BY <1>5, <2>1, <3>3 DEF BindingInv
  <2>2. CASE Cur \in Conns
    <3>1. PICK c \in Conns : c = Cur
      BY <2>2
    <3>2. c # NoConn
      BY DEF Conns, NoConn
    <3>3. Awaited(c) \/ Served(c)
      BY <1>1, <1>3, <3>1, <3>2 DEF BindingInv, Arriving
    <3>4. CASE Awaited(c)
      <4>1. r # <<>> /\ r[Len(r)].cmd = "create"
        BY <1>3, <1>7, <3>4 DEF Awaited
      <4>2. Awaited(c)'
        BY <1>3, <1>4, <1>5, <1>6, <3>4, <4>1 DEF Awaited, Keeps
      <4> QED
        BY <1>5, <3>1, <3>2, <4>2 DEF BindingInv
    <3>5. CASE Served(c)
      <4>1. \A i \in 1..Len(r) : r[i].conn = c /\ r[i].cmd # "unregister"
        BY <1>10, <3>5 DEF Served
      <4>2. client' = c
        <5>1. h.conn = c /\ h.cmd # "unregister"
          BY <1>7, <1>10, <3>5 DEF Served
        <5>2. h.cmd \in Told \cup {"register"}
          BY <1>7, <3>2, <5>1, CommandCases
        <5> QED
          BY <1>3, <5>1, <5>2
      <4>3. Served(c)'
        BY <1>3, <1>4, <1>5, <1>6, <3>5, <4>1, <4>2 DEF Served, Keeps
      <4> QED
        BY <1>5, <3>1, <3>2, <4>3 DEF BindingInv
    <3> QED
      BY <3>3, <3>4, <3>5
  <2> QED
    BY <1>1, <2>1, <2>2, ConnFacts DEF SessionTypes
<1>12. QueueTypes' /\ MessagesInv'
  BY <1>4, <1>5, <1>6, <1>7 DEF QueueTypes, MessagesInv
<1> QED
  BY <1>3, <1>5, <1>9, <1>11, <1>12 DEF SessionInv, SessionTypes

\* What the service does between commands: its state changes, texts are ready.
LEMMA BackgroundCases ==
  ASSUME SessionInv, Background
  PROVE  /\ ServiceSide /\ UNCHANGED <<inbox, published, client>>
         /\ looper' \in Seq(MessageType) /\ AllSound(looper', panel, crashes)
         /\ Keeps(looper, looper', crashes)
         /\ ServiceTypes' /\ SpeechInv'
         /\ (Fresh => Fresh') /\ (Down => Down')
         /\ alive' = alive
<1>1. /\ ServiceTypes /\ SpeechInv /\ looper \in Seq(MessageType) /\ AllSound(looper, panel, crashes)
  BY DEF SessionInv, SessionTypes, QueueTypes, MessagesInv
<1> USE DEF ServiceTypes, SpeechInv
<1>2. /\ ServiceSide /\ UNCHANGED <<inbox, published, client, typed>> /\ alive' = alive
  BY DEF Background, RecordingStarted, RecordingStopped, IdleTimeout, MicFails, BeginPass,
     SendFinalCommit, LoseText, ServiceSide, Service!EndStart, Service!EndStop,
     Service!IdleFires, Service!Stop, Service!MicFails, Service!BeginPass, Service!Deliver,
     Service!LoseText
<1>3. ASSUME looper' = looper \/ ToldState
      PROVE  /\ looper' \in Seq(MessageType) /\ AllSound(looper', panel, crashes)
             /\ Keeps(looper, looper', crashes)
  BY <1>3, ToldKept
<1>4. CASE RecordingStarted
  <2>1. /\ busy = "starting" /\ state' \in {"RECORDING", "ERROR"} /\ busy' = "no"
        /\ pass' = pass /\ UNCHANGED speechVars /\ Tell(state')
    BY <1>4 DEF RecordingStarted, Service!EndStart
  <2>2. looper' = looper \/ ToldState
    <3>1. PICK st \in States : st = state'
      BY <2>1 DEF States
    <3> QED
      BY <1>1, <2>1, <3>1, Tells
  <2>3. ServiceTypes' /\ SpeechInv'
    BY <1>1, <1>2, <2>1 DEF speechVars
  <2>4. ~Fresh /\ ~Down
    BY <2>1 DEF Fresh, Down
  <2> QED
    BY <1>2, <1>3, <2>2, <2>3, <2>4
<1>5. CASE RecordingStopped
  <2>1. /\ busy = "stopping" /\ state' = "IDLE" /\ busy' = "no"
        /\ pass' = pass /\ UNCHANGED speechVars /\ Tell("IDLE")
    BY <1>5 DEF RecordingStopped, Service!EndStop
  <2>2. looper' = looper \/ ToldState
    BY <1>1, <2>1, Tells DEF States
  <2>3. ServiceTypes' /\ SpeechInv'
    BY <1>1, <1>2, <2>1 DEF speechVars
  <2>4. ~Fresh /\ (Down => Down')
    BY <1>2, <2>1 DEF Fresh, Down
  <2> QED
    BY <1>2, <1>3, <2>2, <2>3, <2>4
<1>6. CASE IdleTimeout
  <2>1. /\ alive /\ busy' = (IF state = "IDLE" THEN "no" ELSE "stopping")
        /\ busy = "no" /\ UNCHANGED <<state, pass, looper>> /\ UNCHANGED speechVars
    BY <1>6 DEF IdleTimeout, Service!IdleFires, Service!Stop, Service!Ready, Service!BeginStop
  <2>2. ServiceTypes' /\ SpeechInv'
    BY <1>1, <1>2, <2>1 DEF speechVars
  <2>3. ~Down
    BY <2>1 DEF Down
  <2>4. ASSUME Fresh PROVE Fresh'
    <3>1. state' = "IDLE" /\ busy' = "no" /\ client' = NoConn
      BY <1>2, <2>1, <2>4 DEF Fresh
    <3>2. alive' /\ ~pass'
      BY <1>2, <2>1, <2>4 DEF Fresh
    <3> QED
      BY <3>1, <3>2 DEF Fresh
  <2> QED
    BY <1>2, <1>3, <2>1, <2>2, <2>3, <2>4
<1>7. CASE MicFails
  <2>1. /\ state # "IDLE" \/ busy = "starting"
        /\ state' = "ERROR" /\ UNCHANGED <<busy, pass>> /\ UNCHANGED speechVars
        /\ Tell("ERROR")
    BY <1>7 DEF MicFails, Service!MicFails
  <2>2. looper' = looper \/ ToldState
    BY <1>1, <2>1, Tells DEF States
  <2>3. ServiceTypes' /\ SpeechInv'
    BY <1>1, <1>2, <2>1 DEF speechVars
  <2>4. ~Fresh /\ (Down => Down')
    BY <1>2, <2>1 DEF Fresh, Down
  <2> QED
    BY <1>2, <1>3, <2>2, <2>3, <2>4
<1>8. CASE BeginPass
  <2>1. /\ state # "IDLE" \/ busy = "starting"
        /\ pass' = TRUE /\ passSpeaker' = speaker
        /\ UNCHANGED <<state, busy, looper, speaker>>
    BY <1>8 DEF BeginPass, Service!BeginPass
  <2>2. ServiceTypes' /\ SpeechInv'
    BY <1>1, <1>2, <2>1
  <2>3. ~Fresh /\ (Down => Down')
    BY <1>2, <2>1 DEF Fresh, Down
  <2> QED
    BY <1>2, <1>3, <2>1, <2>2, <2>3
<1>9. CASE SendFinalCommit
  <2>1. /\ pass /\ client # NoConn /\ pass' = FALSE /\ UNCHANGED <<state, busy>>
        /\ looper' = Append(looper, TextOf("event", client, passSpeaker))
        /\ UNCHANGED speechVars
    BY <1>9 DEF SendFinalCommit, Service!Deliver, Service!NoClient, NoConn
  <2>2. PICK c \in Conns : c = client
    BY <1>1, <2>1, SessionAssumption DEF Conns, NoConn
  <2>3. passSpeaker = c
    BY <1>1, <2>1, <2>2
  <2>4. PICK m : m = TextOf("event", c, c)
    OBVIOUS
  <2>5. c \in Nat
    BY DEF Conns
  <2>6. m \in MessageType /\ m.kind = "event" /\ m.from = m.to
    BY <2>4, <2>5, MessageFacts DEF TextOf
  <2>7. Sound(m, panel, crashes)
    BY <2>6 DEF Sound
  <2>8. looper' = Append(looper, m)
    BY <2>1, <2>2, <2>3, <2>4
  <2>9. /\ looper' \in Seq(MessageType) /\ AllSound(looper', panel, crashes)
        /\ Keeps(looper, looper', crashes)
    BY <2>6, <2>7, <2>8, Posted
  <2>10. ServiceTypes' /\ SpeechInv'
    BY <1>1, <1>2, <2>1 DEF speechVars
  <2>11. ~Fresh /\ ~Down
    BY <2>1 DEF Fresh, Down
  <2> QED
    BY <1>2, <2>9, <2>10, <2>11
<1>10. CASE LoseText
  <2>1. pass /\ pass' = FALSE /\ UNCHANGED <<state, busy, looper>> /\ UNCHANGED speechVars
    BY <1>10 DEF LoseText, Service!LoseText
  <2>2. ServiceTypes' /\ SpeechInv'
    BY <1>1, <1>2, <2>1 DEF speechVars
  <2>3. ~Fresh /\ (Down => Down')
    BY <1>2, <2>1 DEF Fresh, Down
  <2> QED
    BY <1>2, <1>3, <2>1, <2>2, <2>3
<1> QED
  BY <1>4, <1>5, <1>6, <1>7, <1>8, <1>9, <1>10 DEF Background

LEMMA BackgroundKeeps ==
  ASSUME SessionInv, Background
  PROVE  SessionInv'
<1>1. /\ SessionTypes /\ SystemTypes /\ ViewTypes /\ InboxInv /\ BindingInv
      /\ inbox \in Seq(CommandType)
  BY DEF SessionInv, SessionTypes, QueueTypes
<1>2. /\ ServiceSide /\ UNCHANGED <<inbox, published, client>>
      /\ looper' \in Seq(MessageType) /\ AllSound(looper', panel, crashes)
      /\ Keeps(looper, looper', crashes)
      /\ ServiceTypes' /\ SpeechInv'
      /\ (Fresh => Fresh') /\ (Down => Down')
      /\ alive' = alive
  BY BackgroundCases
<1>3. /\ PanelInv' /\ ViewTypes' /\ ConnTypes' /\ SystemTypes' /\ Cur' = Cur
      /\ UNCHANGED <<panel, crashes, dead, isBound, typed, bindings>>
  BY <1>1, <1>2, SideKept DEF SystemTypes
<1>4. InboxInv'
  <2>1. CASE inbox = <<>>
    BY <1>1, <1>2, <2>1 DEF InboxInv
  <2>2. CASE inbox # <<>>
    <3>1. PICK h : h = inbox[1]
      OBVIOUS
    <3>2. Expected(h)
      BY <1>1, <2>2, <3>1 DEF InboxInv
    <3>3. Expected(h)'
      BY <1>2, <3>2 DEF Expected
    <3> QED
      BY <1>1, <1>2, <3>1, <3>3 DEF InboxInv, Expected
  <2> QED
    BY <2>1, <2>2
<1>5. BindingInv'
  BY <1>1, <1>2, <1>3, BindingKept
<1>6. QueueTypes' /\ MessagesInv'
  BY <1>1, <1>2, <1>3 DEF QueueTypes, MessagesInv
<1> QED
  BY <1>2, <1>3, <1>4, <1>5, <1>6 DEF SessionInv, SessionTypes

\* A new service is there for the connection that waits, if one still does.
LEMMA CreateKeeps ==
  ASSUME SessionInv, Create
  PROVE  SessionInv'
<1>1. /\ SessionTypes /\ SystemTypes /\ ViewTypes /\ ServiceTypes /\ PanelInv /\ MessagesInv
      /\ InboxInv /\ BindingInv /\ SpeechInv
      /\ inbox \in Seq(CommandType) /\ looper \in Seq(MessageType)
  BY DEF SessionInv, SessionTypes, QueueTypes
<1>2. PICK h \in CommandType : h = Head(inbox)
  <2>1. inbox # <<>>
    BY DEF Create, Commanded
  <2> QED
    BY <1>1, <2>1, Shorter
<1>3. /\ inbox # <<>> /\ h.cmd = "create" /\ busy = "no" /\ inbox' = Tail(inbox) /\ dead = {}
      /\ alive' = TRUE /\ pass' = FALSE /\ UNCHANGED <<client, state, busy>>
      /\ UNCHANGED <<speaker, passSpeaker>> /\ ServiceSide
      /\ IF Forgotten THEN UNCHANGED <<published, looper>>
         ELSE /\ published' = TRUE
              /\ looper' = looper \o ToEach(bindings, Connected)
  BY <1>2 DEF Create, Commanded, Service!Connect
<1>4. /\ h = inbox[1] /\ Expected(h)
      /\ Len(inbox) \in Nat \ {0}
      /\ \A i \in 1..Len(Tail(inbox)) : Tail(inbox)[i] = inbox[i + 1]
      /\ Len(Tail(inbox)) = Len(inbox) - 1
  BY <1>1, <1>2, <1>3, Shorter DEF InboxInv
<1>5. Down /\ state = "IDLE" /\ client = NoConn
  BY <1>3, <1>4 DEF Expected, Down
<1>6. Fresh'
  <2>1. client' = NoConn /\ state' = "IDLE" /\ busy' = "no"
    BY <1>3, <1>5
  <2>2. alive' /\ ~pass'
    BY <1>3
  <2> QED
    BY <2>1, <2>2 DEF Fresh
<1>7. published' \in BOOLEAN
  BY <1>1, <1>3 DEF SystemTypes
<1>8. /\ PanelInv' /\ ViewTypes' /\ ConnTypes' /\ SystemTypes' /\ Cur' = Cur
      /\ UNCHANGED <<panel, crashes, dead, isBound, typed, bindings>>
  BY <1>3, <1>7, SideKept
<1>9. ServiceTypes' /\ SpeechInv'
  <2>1. alive' \in BOOLEAN /\ pass' \in BOOLEAN
    BY <1>3
  <2>2. ServiceTypes'
    BY <1>1, <1>3, <2>1 DEF ServiceTypes
  <2>3. SpeechInv'
    BY <1>1, <1>3, <1>5, <1>8 DEF SpeechInv
  <2> QED
    BY <2>2, <2>3
<1>10. PICK r : r = inbox'
  OBVIOUS
<1>11. /\ r \in Seq(CommandType) /\ Linked(r)
       /\ r # <<>> => /\ Follows(h, r[1])
                      /\ r[Len(r)] = inbox[Len(inbox)]
       /\ r = <<>> => Len(inbox) = 1
       /\ Linked(inbox)
  BY <1>1, <1>2, <1>3, <1>4, <1>10, LinkedTail DEF InboxInv
<1>12. r # <<>> => r[1].cmd = "unbind"
  BY <1>3, <1>11 DEF Follows, Told
<1>13. InboxInv'
  <2>1. ASSUME r # <<>> PROVE Expected(r[1])'
    <3>1. PICK e : e = r[1]
      OBVIOUS
    <3>2. e.cmd = "unbind"
      BY <1>12, <2>1, <3>1
    <3>3. Expected(e)'
      BY <3>2 DEF Expected, Told
    <3> QED
      BY <3>1, <3>3
  <2> QED
    BY <1>10, <1>11, <2>1 DEF InboxInv, Expected
<1>14. Forgotten <=> \E i \in 1..Len(inbox) : inbox[i].cmd = "destroy"
  BY DEF Forgotten
<1>15. CASE Cur = NoConn
  <2>1. NoService /\ inbox[Len(inbox)].cmd = "destroy"
    BY <1>1, <1>3, <1>15 DEF BindingInv, NoService
  <2>2. Forgotten
    <3>1. Len(inbox) \in 1..Len(inbox)
      BY <1>4
    <3> QED
      BY <1>14, <2>1, <3>1
  <2>3. published' = published /\ looper' = looper
    BY <1>3, <2>2
  <2>4. r # <<>> /\ r[Len(r)].cmd = "destroy"
    BY <1>3, <1>4, <1>11, <2>1
  <2>5. NoService'
    BY <1>8, <1>10, <2>1, <2>3, <2>4 DEF NoService
  <2>6. BindingInv' /\ MessagesInv' /\ QueueTypes'
    BY <1>1, <1>8, <1>10, <1>11, <1>15, <2>3, <2>5 DEF BindingInv, MessagesInv, QueueTypes
  <2> QED
    BY <1>8, <1>9, <1>13, <2>6 DEF SessionInv, SessionTypes
<1>16. CASE Cur \in Conns
  <2>1. PICK c \in Conns : c = Cur
    BY <1>16
  <2>2. c # NoConn /\ c \in Nat
    BY DEF Conns, NoConn
  <2>3. h.conn = NoConn
    BY <1>2, <1>3, CommandCases
  <2>4. ~Served(c)
    <3>1. 1 \in 1..Len(inbox)
      BY <1>4
    <3> QED
      BY <1>4, <2>2, <2>3, <3>1 DEF Served
  <2>5. Awaited(c)
    BY <1>1, <1>3, <2>1, <2>2, <2>4 DEF BindingInv, Arriving
  <2>6. ~isBound[c]
    BY <1>3, <2>5 DEF Awaited
  <2>7. CASE Len(inbox) = 1
    <3>1. r = <<>>
      BY <1>3, <1>4, <1>10, <1>11, <2>7, EmptyOrNot
    <3>2. ~Forgotten
      <4>1. \A i \in 1..Len(inbox) : i = 1
        BY <2>7
      <4> QED
        BY <1>3, <1>4, <1>14, <4>1
    <3>3. bindings = {c}
      BY <1>1, <2>1, <2>2 DEF PanelInv
    <3>4. PICK m : m = Connected(c)
      OBVIOUS
    <3>5. /\ m \in MessageType /\ m.kind = "connected" /\ m.to = c /\ m.from = crashes
      BY <1>1, <3>4 DEF Connected, Signal, StateOf, MessageType, ViewTypes
    <3>6. published' = TRUE /\ looper' = looper \o <<m>>
      BY <1>3, <2>2, <3>2, <3>3, <3>4, ToEachOne
    <3>7. looper' = Append(looper, m)
      BY <1>1, <3>5, <3>6, Joined
    <3>8. Sound(m, panel, crashes)
      BY <1>1, <3>5 DEF Sound, ViewTypes
    <3>9. looper' \in Seq(MessageType) /\ AllSound(looper', panel, crashes)
      BY <1>1, <3>5, <3>7, <3>8, SoundAppend, Longer DEF MessagesInv
    <3>10. OneLive(looper', crashes, c)
      <4>1. NoneLive(looper, crashes) /\ Live(m, crashes)
        BY <2>5, <3>5 DEF Awaited, Live
      <4> QED
        BY <1>1, <3>5, <3>7, <4>1, BinderSent
    <3>11. Arriving(c)'
      BY <1>3, <1>6, <1>8, <1>10, <2>6, <3>1, <3>6, <3>10 DEF Arriving
    <3>12. BindingInv'
      BY <1>8, <2>1, <2>2, <3>11 DEF BindingInv
    <3>13. MessagesInv' /\ QueueTypes'
      BY <1>8, <1>10, <1>11, <3>9 DEF MessagesInv, QueueTypes
    <3> QED
      BY <1>8, <1>9, <1>13, <3>12, <3>13 DEF SessionInv, SessionTypes
  <2>8. CASE Len(inbox) # 1
    <3>1. r # <<>>
      BY <1>11, <2>8
    <3>2. Forgotten
      <4>1. inbox[2].cmd = "unbind"
        <5>1. 1 \in 1..Len(Tail(inbox)) /\ 1 + 1 = 2
          BY <1>4, <2>8
        <5>2. r[1] = inbox[1 + 1]
          BY <1>3, <1>4, <1>10, <5>1
        <5> QED
          BY <1>12, <3>1, <5>1, <5>2
      <4>2. Len(inbox) # 2
        BY <1>3, <1>11, <4>1 DEF Linked
      <4>3. 2 \in 1..Len(inbox) - 1 /\ 3 \in 1..Len(inbox) /\ 2 + 1 = 3
        BY <1>4, <2>8, <4>2
      <4>4. Follows(inbox[2], inbox[3])
        BY <1>11, <4>3 DEF Linked
      <4>5. inbox[3].cmd = "destroy"
        BY <4>1, <4>4 DEF Follows, Told
      <4> QED
        BY <1>14, <4>3, <4>5
    <3>3. published' = published /\ looper' = looper
      BY <1>3, <3>2
    <3>4. Awaited(c)'
      BY <1>8, <1>10, <1>11, <2>5, <2>6, <3>1, <3>3 DEF Awaited
    <3>5. BindingInv'
      BY <1>8, <2>1, <2>2, <3>4 DEF BindingInv
    <3>6. MessagesInv' /\ QueueTypes'
      BY <1>1, <1>8, <1>10, <1>11, <3>3 DEF MessagesInv, QueueTypes
    <3> QED
      BY <1>8, <1>9, <1>13, <3>5, <3>6 DEF SessionInv, SessionTypes
  <2> QED
    BY <2>7, <2>8
<1> QED
  BY <1>1, <1>15, <1>16, ConnFacts

\* A crash: no binder of a new process is on its way yet.
LEMMA DyingKeeps ==
  ASSUME SessionInv, ProcessDies
  PROVE  SessionInv'
<1>1. /\ SessionTypes /\ SystemTypes /\ ViewTypes /\ ConnTypes /\ ServiceTypes /\ PanelInv
      /\ MessagesInv /\ SpeechInv /\ looper \in Seq(MessageType)
  BY DEF SessionInv, SessionTypes, QueueTypes
<1>2. /\ crashes' = crashes + 1
      /\ alive' = FALSE /\ client' = NoConn /\ state' = "IDLE"
      /\ busy' = "no" /\ pass' = FALSE /\ published' = FALSE
      /\ dead' = {c \in bindings : isBound[c]}
      /\ looper' = looper \o ToEach(dead', Disconnected)
      /\ inbox' = IF bindings = {} THEN <<>> ELSE <<Command("create", NoConn, NoGain)>>
      /\ UNCHANGED <<panel, views, conns, taps, bindings, permission, onPermissionResult, typed>>
      /\ UNCHANGED viewVars /\ UNCHANGED connVars /\ UNCHANGED speechVars
  BY DEF ProcessDies
<1>3. Cur' = Cur /\ UNCHANGED <<voiceConnection, isBound, timer>>
  BY <1>2 DEF Cur, ConnectionOf, viewVars, connVars
<1>4. dead' \subseteq Conns /\ \A c \in Conns : c \in dead' => c = Cur
  BY <1>1, <1>2 DEF SystemTypes, PanelInv
<1>5. Down'
  <2>1. client' = NoConn /\ state' = "IDLE" /\ busy' = "no"
    BY <1>2
  <2>2. ~alive'
    BY <1>2
  <2> QED
    BY <2>1, <2>2 DEF Down
<1>6. /\ ViewTypes' /\ ConnTypes' /\ SystemTypes' /\ ServiceTypes'
  <2>1. ViewTypes'
    BY <1>1, <1>2 DEF ViewTypes, viewVars
  <2>2. ConnTypes'
    BY <1>1, <1>2 DEF ConnTypes, connVars
  <2>3. SystemTypes'
    BY <1>1, <1>2, <1>4 DEF SystemTypes
  <2>4. ServiceTypes'
    <3>1. client' \in 0..MaxConns /\ speaker' \in 0..MaxConns /\ passSpeaker' \in 0..MaxConns
      BY <1>1, <1>2, SessionAssumption DEF ServiceTypes, speechVars, NoConn
    <3>2. alive' \in BOOLEAN /\ pass' \in BOOLEAN
      BY <1>2
    <3>3. /\ state' \in {"IDLE", "RECORDING", "PAUSED", "ERROR"}
          /\ busy' \in {"no", "starting", "stopping"}
      BY <1>2
    <3> QED
      BY <3>1, <3>2, <3>3 DEF ServiceTypes
  <2> QED
    BY <2>1, <2>2, <2>3, <2>4
<1>7. PanelInv'
  BY <1>1, <1>2, <1>3, <1>4 DEF PanelInv
<1>8. SpeechInv'
  BY <1>1, <1>2 DEF SpeechInv
<1>9. PICK n : n = crashes + 1 /\ crashes < n
  BY <1>1 DEF ViewTypes
<1>10. /\ NoneLive(looper, n) /\ AllSound(looper, panel, n)
  <2> SUFFICES ASSUME NEW i \in 1..Len(looper)
               PROVE  ~Live(looper[i], n) /\ Sound(looper[i], panel, n)
    BY DEF NoneLive, AllSound
  <2>1. PICK m \in MessageType : m = looper[i]
    BY <1>1
  <2>2. Sound(m, panel, crashes)
    BY <1>1, <2>1 DEF MessagesInv, AllSound
  <2>3. m.from \in Nat /\ crashes \in Nat
    BY <1>1, HeadFacts DEF ViewTypes
  <2>4. m.kind = "connected" => m.from <= n /\ m.from # n
    BY <1>9, <2>2, <2>3 DEF Sound
  <2>5. ~Live(m, n) /\ Sound(m, panel, n)
    BY <2>2, <2>4 DEF Live, Sound
  <2> QED
    BY <2>1, <2>5
<1>11. /\ looper' \in Seq(MessageType) /\ NoneLive(looper', n) /\ AllSound(looper', panel, n)
  <2>1. CASE dead' = {}
    <3>1. looper' = looper \o <<>>
      BY <1>2, <2>1, ToNobody
    <3>2. looper' = looper
      BY <1>1, <3>1
    <3> QED
      BY <1>1, <1>10, <3>2
  <2>2. CASE dead' # {}
    <3>1. PICK c \in Conns : c \in dead'
      BY <1>4, <2>2
    <3>2. dead' = {c} /\ c \in Nat
      <4>1. PICK ds : ds = dead'
        OBVIOUS
      <4>2. ds = {c}
        BY <1>4, <3>1, <4>1
      <4> QED
        BY <4>1, <4>2 DEF Conns
    <3>3. PICK m : m = Disconnected(c)
      OBVIOUS
    <3>4. m \in MessageType /\ m.kind = "disconnected"
      BY <3>3 DEF Disconnected, Signal, StateOf, MessageType
    <3>5. ToEach(dead', Disconnected) = <<m>>
      <4>1. PICK ds : ds = dead'
        OBVIOUS
      <4>2. ToEach(ds, Disconnected) = <<m>>
        BY <3>2, <3>3, <4>1, ToEachOne
      <4> QED
        BY <4>1, <4>2
    <3>6. looper' = Append(looper, m)
      <4>1. looper' = looper \o <<m>>
        BY <1>2, <3>5
      <4> QED
        BY <1>1, <3>4, <4>1, Joined
    <3>7. Sound(m, panel, n) /\ ~Live(m, n)
      BY <3>4 DEF Sound, Live
    <3>8. looper' \in Seq(MessageType) /\ AllSound(looper', panel, n)
      BY <1>1, <1>10, <3>4, <3>6, <3>7, SoundAppend, Longer
    <3>9. NoneLive(looper', n)
      <4>1. /\ Len(looper) \in Nat /\ Len(looper') = Len(looper) + 1
            /\ \A i \in 1..Len(looper) : looper'[i] = looper[i]
            /\ looper'[Len(looper) + 1] = m
        BY <1>1, <3>4, <3>6, Longer
      <4>2. \A i \in 1..Len(looper') : i \in 1..Len(looper) \/ i = Len(looper) + 1
        BY <4>1
      <4> QED
        BY <1>10, <3>7, <4>1, <4>2 DEF NoneLive
    <3> QED
      BY <3>8, <3>9
  <2> QED
    BY <2>1, <2>2
<1>12. crashes' = n
  BY <1>2, <1>9
<1>13. MessagesInv' /\ NoneLive(looper', crashes')
  BY <1>2, <1>11, <1>12 DEF MessagesInv
<1>14. CASE Cur = NoConn
  <2>1. bindings = {} /\ dead' = {}
    BY <1>1, <1>2, <1>14 DEF PanelInv
  <2>2. inbox' = <<>>
    BY <1>2, <2>1
  <2>3. QueueTypes'
    BY <1>11, <2>2 DEF QueueTypes
  <2>4. InboxInv'
    <3>1. Len(<<>>) = 0 /\ \A i \in 1..0 - 1 : FALSE
      OBVIOUS
    <3> QED
      BY <2>2, <3>1 DEF InboxInv, Linked
  <2>5. NoService'
    BY <1>2, <1>5, <1>13, <2>1, <2>2 DEF NoService
  <2>6. BindingInv'
    BY <1>3, <1>14, <2>5 DEF BindingInv
  <2> QED
    BY <1>6, <1>7, <1>8, <1>13, <2>3, <2>4, <2>6 DEF SessionInv, SessionTypes
<1>15. CASE Cur \in Conns
  <2>1. PICK c \in Conns : c = Cur
    BY <1>15
  <2>2. c # NoConn
    BY DEF Conns, NoConn
  <2>3. bindings = {c}
    BY <1>1, <2>1, <2>2 DEF PanelInv
  <2>4. PICK e \in CommandType : e = Command("create", NoConn, NoGain) /\ e.cmd = "create"
    BY SystemCommandFacts
  <2>5. inbox' = <<e>>
    BY <1>2, <2>3, <2>4
  <2>6. inbox' \in Seq(CommandType) /\ Len(inbox') = 1 /\ inbox'[1] = e /\ inbox' # <<>>
    BY <2>5
  <2>7. QueueTypes'
    BY <1>11, <2>6 DEF QueueTypes
  <2>8. InboxInv'
    <3>1. \A i \in 1..1 - 1 : FALSE
      OBVIOUS
    <3>2. Linked(inbox')
      BY <2>4, <2>6, <3>1 DEF Linked
    <3>3. Expected(e)'
      BY <1>5, <2>4 DEF Expected, Told
    <3> QED
      BY <2>6, <3>2, <3>3 DEF InboxInv, Expected
  <2>9. Awaited(c)'
    <3>1. isBound'[c] => c \in dead'
      BY <1>2, <1>3, <2>3
    <3> QED
      BY <1>2, <1>13, <2>4, <2>6, <3>1 DEF Awaited
  <2>10. BindingInv'
    BY <1>3, <2>1, <2>2, <2>9 DEF BindingInv
  <2> QED
    BY <1>6, <1>7, <1>8, <1>13, <2>7, <2>8, <2>10 DEF SessionInv, SessionTypes
<1> QED
  BY <1>1, <1>14, <1>15, ConnFacts

-----------------------------------------------------------------------------
(***************************************************************************)
(* The theorems.                                                           *)
(***************************************************************************)
LEMMA InitSound ==
  ASSUME Init
  PROVE  SessionInv
<1> USE SessionAssumption DEF Init, Service!Init, Service!NoClient, NoView, NoConn, NoGain
<1>1. ViewTypes /\ ConnTypes /\ SystemTypes
  <2>1. ViewTypes
    BY DEF ViewTypes
  <2>2. ConnTypes
    BY DEF ConnTypes
  <2>3. SystemTypes
    <3>1. permission \in BOOLEAN /\ published \in BOOLEAN
      OBVIOUS
    <3>2. bindings \subseteq Conns /\ dead \subseteq Conns /\ onPermissionResult \in 0..MaxViews
      OBVIOUS
    <3> QED
      BY <3>1, <3>2 DEF SystemTypes
  <2> QED
    BY <2>1, <2>2, <2>3
<1>2. ServiceTypes
  <2>1. client \in 0..MaxConns /\ speaker \in 0..MaxConns /\ passSpeaker \in 0..MaxConns
    OBVIOUS
  <2>2. alive \in BOOLEAN /\ pass \in BOOLEAN
    OBVIOUS
  <2>3. state = "IDLE" /\ busy = "no"
    OBVIOUS
  <2> QED
    BY <2>1, <2>2, <2>3 DEF ServiceTypes
<1>3. QueueTypes
  BY DEF QueueTypes
<1>4. Cur = NoConn
  BY DEF Cur, ConnectionOf
<1>5. PanelInv
  BY <1>4 DEF PanelInv
<1>6. Len(looper) = 0 /\ Len(inbox) = 0 /\ \A i \in 1..0 : FALSE
  OBVIOUS
<1>7. MessagesInv /\ NoneLive(looper, crashes)
  BY <1>6 DEF MessagesInv, AllSound, NoneLive
<1>8. InboxInv
  <2>1. \A i \in 1..0 - 1 : FALSE
    OBVIOUS
  <2> QED
    BY <1>6, <2>1 DEF InboxInv, Linked
<1>9. BindingInv
  BY <1>4, <1>7 DEF BindingInv, NoService, Down
<1>10. SpeechInv
  BY DEF SpeechInv
<1> QED
  BY <1>1, <1>2, <1>3, <1>5, <1>7, <1>8, <1>9, <1>10 DEF SessionInv, SessionTypes

LEMMA StutterKeeps ==
  ASSUME SessionInv, UNCHANGED vars
  PROVE  SessionInv'
<1>1. /\ UNCHANGED <<panel, looper, inbox, typed>>
      /\ UNCHANGED boundVars /\ UNCHANGED viewVars /\ UNCHANGED connVars
      /\ UNCHANGED systemVars /\ UNCHANGED serviceVars /\ UNCHANGED speechVars
  BY DEF vars
<1>2. /\ ViewTypes /\ ConnTypes /\ SystemTypes /\ MessagesInv /\ QueueTypes /\ SpeechInv
      /\ PanelInv
  BY DEF SessionInv, SessionTypes
<1>3. /\ looper' \in Seq(MessageType) /\ AllSound(looper', panel, crashes)
      /\ Keeps(looper, looper', crashes)
      /\ UNCHANGED <<panel, views, voiceConnection, bindings, published, dead, isBound>>
      /\ UNCHANGED <<crashes, inbox>> /\ onPermissionResult' \in {NoView, panel}
      /\ \A v \in Views : timer'[v] => timer[v]
  BY <1>1, <1>2, KeepsItself DEF QueueTypes, MessagesInv, boundVars, systemVars, connVars,
     viewVars, PanelInv
<1>4. /\ PanelInv' /\ MessagesInv' /\ InboxInv' /\ BindingInv'
      /\ QueueTypes' /\ ServiceTypes'
  BY <1>1, <1>3, LooperKept
<1>5. ViewTypes' /\ ConnTypes' /\ SystemTypes'
  BY <1>1, <1>2 DEF ViewTypes, ConnTypes, SystemTypes, boundVars, connVars, systemVars, viewVars
<1>6. SpeechInv'
  BY <1>1, <1>2, SpeechKept
<1> QED
  BY <1>4, <1>5, <1>6 DEF SessionInv, SessionTypes

LEMMA NextKeeps ==
  ASSUME "early" \notin Trouble, SessionInv, [Next]_vars
  PROVE  SessionInv'
<1>1. CASE Next
  BY <1>1, NextActions, OpensKeep, AsksKeep, ClosesKeep, CommandsKeep, BackgroundKeeps,
     PassesKeep, CreateKeeps, DyingKeeps, ConnectedKeeps, DisconnectedKeeps, AnswerKeeps,
     TickKeeps, DeathKeeps
<1>2. CASE UNCHANGED vars
  BY <1>2, StutterKeeps
<1> QED
  BY <1>1, <1>2

\* Only the panel on the screen has a binding, and the commands under way bring
\* the service to where that binding wants it: VianVoiceModalView, its
\* VoiceInputConnection and VoiceInputService's onBind, onUnbind and onDestroy.
THEOREM SessionSound == "early" \notin Trouble => (Spec => []SessionInv)
<1> SUFFICES ASSUME "early" \notin Trouble
             PROVE  Spec => []SessionInv
  OBVIOUS
<1>1. Init => SessionInv
  BY InitSound
<1>2. SessionInv /\ [Next]_vars => SessionInv'
  BY NextKeeps
<1> QED
  BY <1>1, <1>2, PTL DEF Spec

\* Every variable keeps its shape, the queues of both processes included.
THEOREM SessionTyped == "early" \notin Trouble => (Spec => []TypeOK)
<1>1. ASSUME SessionInv PROVE TypeOK
  <2> USE <1>1 DEF SessionInv, SessionTypes
  <2>1. \A i \in 1..Len(looper) : looper[i] \in Message
    <3> TAKE i \in 1..Len(looper)
    <3>1. PICK m \in MessageType : m = looper[i]
      BY DEF QueueTypes
    <3>2. m \in Message
      BY HeadFacts
    <3> QED
      BY <3>1, <3>2
  <2>2. \A t \in typed : t.speaker \in Conns /\ t.to \in Conns
    BY DEF SpeechInv
  <2> QED
    BY <2>1, <2>2 DEF TypeOK, ViewTypes, ConnTypes, SystemTypes, ServiceTypes
<1> QED
  BY <1>1, SessionSound, PTL

\* Text goes to the session its speech was recorded in, however the final pass
\* is delayed: handleFinalText and the listener that commits it.
THEOREM TextGoesHome == "early" \notin Trouble => (Spec => []OwnSpeech)
<1>1. SessionInv => OwnSpeech
  BY DEF SessionInv, SpeechInv, OwnSpeech
<1> QED
  BY <1>1, SessionSound, PTL

\* Once messages have settled, an open microphone and a bound process belong to
\* the open panel: unbind() in stopVoiceInput lets go of both.
THEOREM ClosingLetsGo == "early" \notin Trouble => (Spec => []ClosedLetsGo)
<1>1. ASSUME SessionInv PROVE ClosedLetsGo
  <2> USE <1>1 DEF SessionInv, SessionTypes
  <2>1. ASSUME Quiet, NEW c \in bindings
        PROVE  panel # NoView /\ voiceConnection[panel] = c
    <3>1. c = Cur /\ c # NoConn
      BY <2>1 DEF PanelInv
    <3> QED
      BY <3>1, ConnFacts
  <2>2. ASSUME Quiet, Recording
        PROVE  panel # NoView /\ voiceConnection[panel] # NoConn /\ client = voiceConnection[panel]
    <3>1. looper = <<>> /\ inbox = <<>> /\ busy = "no" /\ dead = {} /\ state # "IDLE"
      BY <2>2 DEF Quiet, Recording
    <3>2. Cur # NoConn
      BY <3>1 DEF BindingInv, NoService, Down
    <3>3. Served(Cur)
      <4>1. ~Arriving(Cur)
        BY <3>1 DEF Arriving, Fresh
      <4>2. ~Awaited(Cur)
        BY <3>1 DEF Awaited
      <4> QED
        BY <3>2, <4>1, <4>2 DEF BindingInv
    <3> QED
      BY <3>1, <3>2, <3>3, ConnFacts DEF Served
  <2> QED
    BY <2>1, <2>2 DEF ClosedLetsGo, MicHasPanel, ClosedUnbinds
<1> QED
  BY <1>1, SessionSound, PTL

\* The part of it that is about the microphone: nothing records behind the
\* keyboard once messages have settled.
THEOREM MicBelongsToPanel == "early" \notin Trouble => (Spec => []MicHasPanel)
<1>1. ClosedLetsGo => MicHasPanel
  BY DEF ClosedLetsGo
<1> QED
  BY <1>1, ClosingLetsGo, PTL

=============================================================================

----------------------------- MODULE VoiceService -----------------------------
(***************************************************************************)
(* VoiceInputService as its client sees it: commands handled one at a time *)
(* by the service's main looper, the reported ServiceState, and final      *)
(* passes whose text goes to whichever client is registered when they end. *)
(* VoiceCapture implements it with a main thread, capture threads and an   *)
(* executor; VoiceSession composes it with the keyboard's side.            *)
(***************************************************************************)
EXTENDS Naturals

CONSTANTS
    Clients,    \* reply messengers, positive numbers
    MaxText     \* chunks of speech that one final pass may turn into text

NoClient == 0

VARIABLES
    alive,      \* bound by somebody: between onBind and onUnbind
    client,     \* clientMessenger
    idleArmed,  \* autoShutdownRunnable is posted
    state,      \* currentState
    busy,       \* a startRecording or stopRecording is under way
    pass,       \* a final pass is queued or running
    texts       \* amount of speech whose text was sent to a client

serviceVars == <<alive, client, idleArmed, state, busy, pass, texts>>

Init ==
    /\ alive = FALSE /\ client = NoClient /\ idleArmed = TRUE
    /\ state = "IDLE" /\ busy = "no" /\ pass = FALSE /\ texts = 0

Ready == alive /\ busy = "no"

\* Mutant: the executor of the service before survives.
ConnectKeepingTasks ==
    /\ ~alive /\ busy = "no"
    /\ alive' = TRUE /\ idleArmed' = FALSE
    /\ UNCHANGED <<client, state, busy, pass, texts>>

\* onBind of a new service, whose executor is empty.
Connect ==
    /\ ~alive /\ busy = "no"
    /\ alive' = TRUE /\ idleArmed' = FALSE /\ pass' = FALSE
    /\ UNCHANGED <<client, state, busy, texts>>

Register(c) ==
    /\ Ready
    /\ client' = c /\ idleArmed' = FALSE
    /\ UNCHANGED <<alive, state, busy, pass, texts>>

\* A command that finds nothing to do still cancels the idle timeout.
Attend ==
    /\ Ready
    /\ idleArmed' = FALSE
    /\ UNCHANGED <<alive, client, state, busy, pass, texts>>

BeginStart ==
    /\ Ready /\ state # "RECORDING"
    /\ busy' = "starting" /\ idleArmed' = FALSE
    /\ UNCHANGED <<alive, client, state, pass, texts>>

\* The microphone may turn out not to be available.
EndStart ==
    /\ busy = "starting"
    /\ state' \in {"RECORDING", "ERROR"} /\ busy' = "no"
    /\ UNCHANGED <<alive, client, idleArmed, pass, texts>>

Pause ==
    /\ Ready /\ state = "RECORDING"
    /\ state' = "PAUSED" /\ idleArmed' = FALSE
    /\ UNCHANGED <<alive, client, busy, pass, texts>>

Resume ==
    /\ Ready /\ state = "PAUSED"
    /\ state' = "RECORDING" /\ idleArmed' = FALSE
    /\ UNCHANGED <<alive, client, busy, pass, texts>>

\* stopRecording(), to be ended by EndStop unless the service is IDLE.
BeginStop ==
    /\ busy = "no"
    /\ busy' = IF state = "IDLE" THEN "no" ELSE "stopping"
    /\ UNCHANGED <<state, pass, texts>>

EndStop ==
    /\ busy = "stopping"
    /\ state' = "IDLE" /\ busy' = "no"
    /\ UNCHANGED <<alive, client, idleArmed, pass, texts>>

Stop == Ready /\ BeginStop /\ idleArmed' = FALSE /\ UNCHANGED <<alive, client>>

Unregister ==
    /\ Ready /\ BeginStop
    /\ client' = NoClient /\ idleArmed' = TRUE
    /\ UNCHANGED alive

IdleFires == idleArmed /\ Stop

\* onUnbind, when the last binding goes; onDestroy follows.
Disconnect ==
    /\ Ready /\ BeginStop
    /\ alive' = FALSE /\ client' = NoClient /\ idleArmed' = TRUE

Destroy == ~alive /\ BeginStop /\ idleArmed' = FALSE /\ UNCHANGED <<alive, client>>

\* AudioRecord.read reports an error on the capture thread, at any time
\* between the opening and the closing of the microphone.
MicFails ==
    /\ state # "IDLE" \/ busy = "starting"
    /\ state' = "ERROR"
    /\ UNCHANGED <<alive, client, idleArmed, busy, pass, texts>>

\* A final pass takes the speech in the buffer: at a silence, when the buffer
\* is full, or for a stop.
BeginPass ==
    /\ ~pass
    /\ state # "IDLE" \/ busy = "starting"
    /\ pass' = TRUE
    /\ UNCHANGED <<alive, client, idleArmed, state, busy, texts>>

\* The text of n chunks of speech is sent to the client registered by now.
Deliver(n) ==
    /\ pass /\ client # NoClient
    /\ pass' = FALSE /\ texts' = texts + n
    /\ UNCHANGED <<alive, client, idleArmed, state, busy>>

\* No client, blank text, a failed inference or a dropped task: nothing sent.
LoseText ==
    /\ pass
    /\ pass' = FALSE
    /\ UNCHANGED <<alive, client, idleArmed, state, busy, texts>>

Next ==
    \/ Connect \/ (\E c \in Clients : Register(c)) \/ Attend
    \/ BeginStart \/ EndStart \/ Pause \/ Resume
    \/ Stop \/ EndStop \/ Unregister \/ IdleFires \/ Disconnect \/ Destroy
    \/ MicFails \/ BeginPass \/ (\E n \in 1..MaxText : Deliver(n)) \/ LoseText

Spec == Init /\ [][Next]_serviceVars
=============================================================================

---------------------------- MODULE VoiceCapture ----------------------------
(***************************************************************************)
(* The isolated :voice process: VoiceInputService on its main thread, the  *)
(* AudioRecordPipeline with its capture threads, and the single-threaded   *)
(* inference executor in front of WhisperEngine.                           *)
(*                                                                         *)
(* Threads are numbered: Main = 0 is the service's main looper, w > 0 is   *)
(* the capture thread started by the w-th AudioRecord.  A thread's steps   *)
(* are its accesses to shared state; local computation is left out.  An    *)
(* audio chunk (50 ms of samples) is a number, in the order the microphone *)
(* produced it, so that text committed to the client can be traced back to *)
(* the speech it came from.  The client is the environment: it may send    *)
(* any command whenever the main thread is ready for one.                  *)
(***************************************************************************)
EXTENDS Naturals, Sequences

CONSTANTS
    MinSpeech,   \* MIN_SPEECH_SAMPLES, in chunks
    MaxSpeech,   \* MAX_SPEECH_SAMPLES, in chunks
    MaxStarts,   \* bound: AudioRecord objects (and threads) ever created
    MaxChunks,   \* bound: chunks the microphone ever produces
    MaxQueue,    \* bound: model loads waiting in the executor
    Faults       \* what the platform may do wrong, a subset of FaultKinds

\* "stall": the capture thread outlives join(500); "read": AudioRecord.read
\* reports an error; "throw": AudioRecord.startRecording throws.
FaultKinds == {"stall", "read", "throw"}

ASSUME VoiceAssumption ==
    /\ MinSpeech \in Nat \ {0}
    /\ MaxSpeech \in Nat \ {0}
    /\ MinSpeech <= MaxSpeech
    /\ MaxStarts \in Nat
    /\ MaxChunks \in Nat
    /\ MaxQueue \in Nat
    /\ Faults \subseteq FaultKinds

Main == 0
Workers == 1..MaxStarts
Threads == 0..MaxStarts
Chunk == 1..MaxChunks

VARIABLES
    life,           \* the Service's lifecycle
    client,         \* clientMessenger # null
    idleArmed,      \* autoShutdownRunnable is posted
    state,          \* currentState
    pipeline,       \* audioPipeline # null
    isRunning, isPaused,    \* AudioRecordPipeline's flags
    recorder,       \* the open AudioRecord, 0 for null
    workerThread,   \* the capture thread the pipeline refers to, 0 for null
    starts,         \* AudioRecord objects created so far
    interrupted,    \* interrupt flag of each capture thread
    speaking,       \* energyVad.isSpeechDetected
    heard,          \* chunks the microphone has produced
    audioBuffer, lockedBy,  \* the sample buffer and the holder of bufferLock
    isTranscribing,
    queue, running, shut,   \* inferenceExecutor: waiting, current, shutdown
    isModelLoaded,  \* contextPtr # 0
    committed,      \* chunks whose text was sent as EVENT_TRANSCRIPTION_COMMIT
    pc, ret,        \* per thread: next step, and where a called method returns
    reading, chunk, \* per thread: the AudioRecord it reads and the last chunk read
    isFinalPass, samplesCopy    \* per thread, in triggerStreamingInference

serviceVars == <<life, client, idleArmed, state, pipeline>>
captureVars == <<isRunning, isPaused, recorder, workerThread, starts, interrupted,
                 speaking, heard>>
inferVars == <<queue, running, shut, isModelLoaded, committed>>
localVars == <<reading, chunk, isFinalPass, samplesCopy>>
threadVars == <<pc, ret, localVars>>
vars == <<serviceVars, captureVars, audioBuffer, lockedBy, isTranscribing,
          inferVars, threadVars>>

ServiceState == {"IDLE", "RECORDING", "PAUSED", "ERROR"}

\* A task of the executor; "init" and "native" are a load and an inference
\* that are in native code, "none" is no task at all.
Task == [kind : {"load", "init", "infer", "native", "none"}, final : BOOLEAN,
         samples : Seq(Chunk)]
Other(kind) == [kind |-> kind, final |-> FALSE, samples |-> <<>>]
Idle == Other("none")

Free(t) == lockedBy \in {Main, t}   \* Main never holds the lock across steps

Goto(t, label) == pc' = [pc EXCEPT ![t] = label]

-----------------------------------------------------------------------------
Init ==
    /\ life = "created" /\ client = FALSE /\ idleArmed = TRUE
    /\ state = "IDLE" /\ pipeline = TRUE
    /\ isRunning = FALSE /\ isPaused = FALSE
    /\ recorder = 0 /\ workerThread = 0 /\ starts = 0
    /\ interrupted = [w \in Workers |-> FALSE]
    /\ speaking = FALSE /\ heard = 0
    /\ audioBuffer = <<>> /\ lockedBy = 0 /\ isTranscribing = FALSE
    /\ queue = <<>> /\ running = Idle /\ shut = FALSE
    /\ isModelLoaded = FALSE /\ committed = <<>>
    /\ pc = [t \in Threads |-> IF t = Main THEN "ready" ELSE "new"]
    /\ ret = [t \in Threads |-> "ready"]
    /\ reading = [t \in Threads |-> 0] /\ chunk = [t \in Threads |-> 0]
    /\ isFinalPass = [t \in Threads |-> FALSE]
    /\ samplesCopy = [t \in Threads |-> <<>>]

-----------------------------------------------------------------------------
\* The main thread: service lifecycle and client commands.

Ready == pc[Main] = "ready"

\* loadActiveModel: a model file of valid size may or may not be there.
LoadActiveModel ==
    \/ /\ ~isModelLoaded /\ Len(queue) < MaxQueue
       /\ queue' = Append(queue, Other("load"))
    \/ UNCHANGED queue

Bind ==
    /\ Ready /\ life = "created"
    /\ life' = "bound" /\ idleArmed' = FALSE
    /\ LoadActiveModel
    /\ UNCHANGED <<client, state, pipeline, captureVars, audioBuffer, lockedBy,
                   isTranscribing, running, shut, isModelLoaded, committed, threadVars>>

RegisterClient ==
    /\ Ready /\ life = "bound"
    /\ client' = TRUE /\ idleArmed' = FALSE
    /\ LoadActiveModel
    /\ UNCHANGED <<life, state, pipeline, captureVars, audioBuffer, lockedBy,
                   isTranscribing, running, shut, isModelLoaded, committed, threadVars>>

\* CMD_START_RECORDING: the state check and audioBuffer.clear().
StartRecording ==
    /\ Ready /\ life = "bound" /\ starts < MaxStarts
    /\ state # "RECORDING"
    /\ Free(Main)
    /\ audioBuffer' = <<>>
    /\ idleArmed' = FALSE
    /\ Goto(Main, "open")
    /\ UNCHANGED <<life, client, state, pipeline, captureVars, lockedBy,
                   isTranscribing, inferVars, ret, localVars>>

\* AudioRecordPipeline.start() returns true at once when isRunning is set.
OpenRunning ==
    /\ pc[Main] = "open" /\ pipeline /\ isRunning
    /\ Goto(Main, "started")
    /\ UNCHANGED <<serviceVars, captureVars, audioBuffer, lockedBy, isTranscribing,
                   inferVars, ret, localVars>>

\* ... or opens an AudioRecord and starts a capture thread on it.
OpenNew ==
    /\ pc[Main] = "open" /\ pipeline /\ ~isRunning
    /\ starts' = starts + 1
    /\ recorder' = starts' /\ workerThread' = starts'
    /\ isRunning' = TRUE /\ isPaused' = FALSE /\ speaking' = FALSE
    /\ pc' = [pc EXCEPT ![Main] = "started", ![starts'] = "loop"]
    /\ UNCHANGED <<serviceVars, interrupted, heard, audioBuffer, lockedBy,
                   isTranscribing, inferVars, ret, localVars>>

\* ... or finds no usable microphone, or the pipeline was released.
OpenFails ==
    /\ pc[Main] = "open" /\ (pipeline => ~isRunning)
    /\ Goto(Main, "failed")
    /\ UNCHANGED <<serviceVars, captureVars, audioBuffer, lockedBy, isTranscribing,
                   inferVars, ret, localVars>>

\* ... or startRecording() throws: release() is stop(), which returns at once
\* because isRunning is still false, and the new AudioRecord stays open.
OpenThrows ==
    /\ "throw" \in Faults
    /\ pc[Main] = "open" /\ pipeline /\ ~isRunning
    /\ starts' = starts + 1 /\ recorder' = starts'
    /\ Goto(Main, "failed")
    /\ UNCHANGED <<serviceVars, isRunning, isPaused, workerThread, interrupted,
                   speaking, heard, audioBuffer, lockedBy, isTranscribing,
                   inferVars, ret, localVars>>

\* The rest of startRecording: the state the service settles in.
FinishStart ==
    /\ pc[Main] \in {"started", "failed"}
    /\ state' = IF pc[Main] = "started" THEN "RECORDING" ELSE "ERROR"
    /\ Goto(Main, "ready")
    /\ UNCHANGED <<life, client, idleArmed, pipeline, captureVars, audioBuffer,
                   lockedBy, isTranscribing, inferVars, ret, localVars>>

PauseRecording ==
    /\ Ready /\ life = "bound" /\ state = "RECORDING"
    /\ state' = "PAUSED" /\ idleArmed' = FALSE
    /\ isPaused' = (pipeline \/ isPaused)
    /\ UNCHANGED <<life, client, pipeline, isRunning, recorder, workerThread, starts,
                   interrupted, speaking, heard, audioBuffer, lockedBy,
                   isTranscribing, inferVars, threadVars>>

ResumeRecording ==
    /\ Ready /\ life = "bound" /\ state = "PAUSED"
    /\ state' = "RECORDING" /\ idleArmed' = FALSE
    /\ isPaused' = (isPaused /\ ~pipeline)
    /\ speaking' = (speaking /\ ~pipeline)
    /\ UNCHANGED <<life, client, pipeline, isRunning, recorder, workerThread, starts,
                   interrupted, heard, audioBuffer, lockedBy, isTranscribing,
                   inferVars, threadVars>>

\* CMD_SET_GAIN, and every command whose handler returns early: the gain only
\* scales samples, what is left is cancelIdleTimeout().
SetGain ==
    /\ Ready /\ life = "bound"
    /\ idleArmed' = FALSE
    /\ UNCHANGED <<life, client, state, pipeline, captureVars, audioBuffer, lockedBy,
                   isTranscribing, inferVars, threadVars>>

\* AudioRecordPipeline.stop() returns early unless a capture is running.
StopNeeded == pipeline /\ isRunning

\* stopRecording() up to the join, with the step that follows its return in
\* ret[Main]: "ready", "release" (releaseAudioPipeline) or "destroy" (onDestroy).
StopRecording(next) ==
    /\ ret' = [ret EXCEPT ![Main] = next]
    /\ IF state = "IDLE" THEN Goto(Main, next) /\ UNCHANGED <<isRunning, isPaused, interrupted>>
       ELSE IF StopNeeded
       THEN /\ Goto(Main, "join")
            /\ isRunning' = FALSE /\ isPaused' = FALSE
            /\ interrupted' = [w \in Workers |-> interrupted[w] \/ w = workerThread]
       ELSE Goto(Main, "flush") /\ UNCHANGED <<isRunning, isPaused, interrupted>>
    /\ UNCHANGED <<state, pipeline, recorder, workerThread, starts, speaking, heard,
                   audioBuffer, lockedBy, isTranscribing, inferVars, localVars>>

CmdStop ==
    /\ Ready /\ life = "bound"
    /\ idleArmed' = FALSE
    /\ StopRecording("ready")
    /\ UNCHANGED <<life, client>>

UnregisterClient ==
    /\ Ready /\ life = "bound"
    /\ client' = FALSE /\ idleArmed' = TRUE
    /\ StopRecording("ready")
    /\ UNCHANGED life

Unbind ==
    /\ Ready /\ life = "bound"
    /\ life' = "unbound" /\ client' = FALSE /\ idleArmed' = TRUE
    /\ StopRecording("ready")

\* CMD_FORCE_RELEASE.  stopSelf() does not end a service that is bound.
ForceRelease ==
    /\ Ready /\ life = "bound"
    /\ idleArmed' = FALSE
    /\ StopRecording("release")
    /\ UNCHANGED <<life, client>>

\* autoShutdownRunnable, 60 s after it was last posted.
IdleTimeout ==
    /\ Ready /\ life = "bound" /\ idleArmed
    /\ idleArmed' = FALSE
    /\ StopRecording("release")
    /\ UNCHANGED <<life, client>>

Destroy ==
    /\ Ready /\ life = "unbound"
    /\ life' = "destroyed" /\ idleArmed' = FALSE
    /\ StopRecording("destroy")
    /\ UNCHANGED client

\* workerThread.join(500) returns when the thread has ended or time is up.
Joined == pc[workerThread] = "done" \/ "stall" \in Faults

\* The join, then AudioRecord.stop() and release().
JoinWorker ==
    /\ pc[Main] = "join"
    /\ Joined
    /\ workerThread' = 0 /\ recorder' = 0
    /\ Goto(Main, "flush")
    /\ UNCHANGED <<serviceVars, isRunning, isPaused, starts, interrupted, speaking,
                   heard, audioBuffer, lockedBy, isTranscribing, inferVars, ret, localVars>>

\* triggerFinalInference(), which returns to "idle".
FlushSpeech ==
    /\ pc[Main] = "flush"
    /\ pc' = [pc EXCEPT ![Main] = "claim"]
    /\ isFinalPass' = [isFinalPass EXCEPT ![Main] = TRUE]
    /\ UNCHANGED <<serviceVars, captureVars, audioBuffer, lockedBy, isTranscribing,
                   inferVars, ret, reading, chunk, samplesCopy>>

FinishStop ==
    /\ pc[Main] = "idle"
    /\ state' = "IDLE"
    /\ Goto(Main, ret[Main])
    /\ UNCHANGED <<life, client, idleArmed, pipeline, captureVars, audioBuffer,
                   lockedBy, isTranscribing, inferVars, ret, localVars>>

\* audioPipeline?.release(); audioPipeline = null.  The release is a second
\* stop(), which finds isRunning false.
ReleasePipeline ==
    /\ pc[Main] \in {"release", "destroy"}
    /\ pipeline' = FALSE
    /\ Goto(Main, IF pc[Main] = "destroy" THEN "free" ELSE "ready")
    /\ UNCHANGED <<life, client, idleArmed, state, captureVars, audioBuffer, lockedBy,
                   isTranscribing, inferVars, ret, localVars>>

\* whisperEngine.release() waits for the engine's monitor.
FreeModel ==
    /\ pc[Main] = "free"
    /\ running.kind \notin {"init", "native"}
    /\ isModelLoaded' = FALSE
    /\ Goto(Main, "shutdown")
    /\ UNCHANGED <<serviceVars, captureVars, audioBuffer, lockedBy, isTranscribing,
                   queue, running, shut, committed, ret, localVars>>

\* inferenceExecutor.shutdownNow(): waiting tasks are dropped, the current
\* one goes on.
ShutdownExecutor ==
    /\ pc[Main] = "shutdown"
    /\ shut' = TRUE /\ queue' = <<>>
    /\ Goto(Main, "done")
    /\ UNCHANGED <<serviceVars, captureVars, audioBuffer, lockedBy, isTranscribing,
                   running, isModelLoaded, committed, ret, localVars>>

-----------------------------------------------------------------------------
\* triggerStreamingInference, run by the main thread and by capture threads.

\* Where a thread's call of triggerStreamingInference returns to.
Return(t) == IF t = Main THEN "idle" ELSE ret[t]

\* isModelLoaded and isTranscribing.getAndSet(true).
ClaimUnchecked == isModelLoaded                                     \* mutant
MayClaim == isModelLoaded /\ ~isTranscribing

Claim(t) ==
    /\ pc[t] = "claim"
    /\ IF MayClaim
       THEN isTranscribing' = TRUE /\ Goto(t, "snapshot")
       ELSE UNCHANGED isTranscribing /\ Goto(t, Return(t))
    /\ UNCHANGED <<serviceVars, captureVars, audioBuffer, lockedBy, inferVars, ret, localVars>>

\* What a copied buffer is left with: a final pass clears it.
CopyOnly(t) == audioBuffer                                          \* mutant
Leftover(t) == IF isFinalPass[t] THEN <<>> ELSE audioBuffer

\* Under bufferLock: give up on too little speech, else copy the buffer.
Snapshot(t) ==
    /\ pc[t] = "snapshot" /\ Free(t)
    /\ IF Len(audioBuffer) < MinSpeech
       THEN /\ isTranscribing' = FALSE
            /\ Goto(t, Return(t))
            /\ UNCHANGED <<audioBuffer, samplesCopy>>
       ELSE /\ samplesCopy' = [samplesCopy EXCEPT ![t] = audioBuffer]
            /\ audioBuffer' = Leftover(t)
            /\ Goto(t, "submit")
            /\ UNCHANGED isTranscribing
    /\ UNCHANGED <<serviceVars, captureVars, lockedBy, inferVars, ret, reading, chunk,
                   isFinalPass>>

\* inferenceExecutor.execute; after shutdownNow it throws
\* RejectedExecutionException, which nothing catches.
Submit(t) ==
    /\ pc[t] = "submit"
    /\ IF shut
       THEN Goto(t, "crashed") /\ UNCHANGED queue
       ELSE /\ queue' = Append(queue, [kind |-> "infer", final |-> isFinalPass[t],
                                       samples |-> samplesCopy[t]])
            /\ Goto(t, Return(t))
    /\ samplesCopy' = [samplesCopy EXCEPT ![t] = <<>>]
    /\ UNCHANGED <<serviceVars, captureVars, audioBuffer, lockedBy, isTranscribing,
                   running, shut, isModelLoaded, committed, ret, reading, chunk,
                   isFinalPass>>

-----------------------------------------------------------------------------
\* recordLoop, on capture thread w.

\* while (isRunning && !isInterrupted()), and the null check of audioRecord
\* which a paused thread does not reach.
LoopEnds(w) == ~isRunning \/ interrupted[w] \/ (~isPaused /\ recorder = 0)

\* A paused thread sleeps and looks again; an interrupt ends it.
LoopTop(w) ==
    /\ pc[w] = "loop"
    /\ IF LoopEnds(w)
       THEN Goto(w, "done") /\ UNCHANGED reading
       ELSE /\ ~isPaused
            /\ reading' = [reading EXCEPT ![w] = recorder]
            /\ Goto(w, "read")
    /\ UNCHANGED <<serviceVars, captureVars, audioBuffer, lockedBy, isTranscribing,
                   inferVars, ret, chunk, isFinalPass, samplesCopy>>

\* A full read, then EnergyVad.processFrame: when speech has just ended a
\* final pass is triggered before the chunk itself is handed over.
ReadChunk(w) ==
    /\ pc[w] = "read"
    /\ reading[w] = recorder /\ heard < MaxChunks
    /\ heard' = heard + 1
    /\ chunk' = [chunk EXCEPT ![w] = heard + 1]
    /\ isFinalPass' = [isFinalPass EXCEPT ![w] = TRUE]
    /\ \E speakingNow \in BOOLEAN :
          /\ speaking' = speakingNow
          /\ IF speaking /\ ~speakingNow
             THEN /\ Goto(w, "claim")
                  /\ ret' = [ret EXCEPT ![w] = "chunk"]
             ELSE Goto(w, "chunk") /\ UNCHANGED ret
    /\ UNCHANGED <<serviceVars, isRunning, isPaused, recorder, workerThread, starts,
                   interrupted, audioBuffer, lockedBy, isTranscribing, inferVars,
                   reading, samplesCopy>>

\* read() returned nothing: zero samples or an error it does not report.
ReadNothing(w) ==
    /\ pc[w] = "read"
    /\ Goto(w, "loop")
    /\ UNCHANGED <<serviceVars, captureVars, audioBuffer, lockedBy, isTranscribing,
                   inferVars, ret, localVars>>

\* ERROR_INVALID_OPERATION, also when the AudioRecord was released under the
\* thread: onError sets ERROR and the thread ends, isRunning untouched.
ReadError(w) ==
    /\ pc[w] = "read"
    /\ "read" \in Faults \/ reading[w] # recorder
    /\ state' = "ERROR"
    /\ Goto(w, "done")
    /\ UNCHANGED <<life, client, idleArmed, pipeline, captureVars, audioBuffer,
                   lockedBy, isTranscribing, inferVars, ret, localVars>>

\* There is room for the chunk: audioBuffer.size + length <= MAX_SPEECH_SAMPLES.
FitsUnlessFull == Len(audioBuffer) <= MaxSpeech                     \* mutant
Fits == Len(audioBuffer) + 1 <= MaxSpeech

\* onAudioChunkAvailable under bufferLock.  A chunk that does not fit is
\* dropped, and a final pass is triggered with the lock held.
BufferChunk(w) ==
    /\ pc[w] = "chunk" /\ Free(w)
    /\ Fits
    /\ audioBuffer' = Append(audioBuffer, chunk[w])
    /\ Goto(w, "interim")
    /\ UNCHANGED <<serviceVars, captureVars, lockedBy, isTranscribing, inferVars,
                   ret, localVars>>

BufferFull(w) ==
    /\ pc[w] = "chunk" /\ Free(w)
    /\ ~Fits
    /\ lockedBy' = w
    /\ isFinalPass' = [isFinalPass EXCEPT ![w] = TRUE]
    /\ ret' = [ret EXCEPT ![w] = "unlock"]
    /\ Goto(w, "claim")
    /\ UNCHANGED <<serviceVars, captureVars, audioBuffer, isTranscribing, inferVars,
                   reading, chunk, samplesCopy>>

\* Mutant: a lock released by hand, and not when the pass was refused.
KeepLock(w) ==
    /\ pc[w] = "unlock"
    /\ Goto(w, "loop")
    /\ UNCHANGED <<serviceVars, captureVars, audioBuffer, lockedBy, isTranscribing,
                   inferVars, ret, localVars>>

Unlock(w) ==
    /\ pc[w] = "unlock"
    /\ lockedBy' = 0
    /\ Goto(w, "loop")
    /\ UNCHANGED <<serviceVars, captureVars, audioBuffer, isTranscribing, inferVars,
                   ret, localVars>>

\* After the lock: an interim pass when the interval has elapsed (a choice),
\* there is enough speech and no pass is under way.
InterimPass(w) ==
    /\ pc[w] = "interim"
    /\ Len(audioBuffer) >= MinSpeech /\ ~isTranscribing
    /\ isFinalPass' = [isFinalPass EXCEPT ![w] = FALSE]
    /\ ret' = [ret EXCEPT ![w] = "loop"]
    /\ Goto(w, "claim")
    /\ UNCHANGED <<serviceVars, captureVars, audioBuffer, lockedBy, isTranscribing,
                   inferVars, reading, chunk, samplesCopy>>

NoInterimPass(w) ==
    /\ pc[w] = "interim"
    /\ Goto(w, "loop")
    /\ UNCHANGED <<serviceVars, captureVars, audioBuffer, lockedBy, isTranscribing,
                   inferVars, ret, localVars>>

-----------------------------------------------------------------------------
\* The executor's thread.

TakeTask ==
    /\ running = Idle /\ queue # <<>>
    /\ running' = Head(queue) /\ queue' = Tail(queue)
    /\ UNCHANGED <<serviceVars, captureVars, audioBuffer, lockedBy, isTranscribing,
                   shut, isModelLoaded, committed, threadVars>>

\* loadModel releases the prior context before it initialises the new one.
LoadBegins ==
    /\ running.kind = "load"
    /\ isModelLoaded' = FALSE
    /\ running' = Other("init")
    /\ UNCHANGED <<serviceVars, captureVars, audioBuffer, lockedBy, isTranscribing,
                   queue, shut, committed, threadVars>>

LoadEnds ==
    /\ running.kind = "init"
    /\ isModelLoaded' \in BOOLEAN
    /\ running' = Idle
    /\ UNCHANGED <<serviceVars, captureVars, audioBuffer, lockedBy, isTranscribing,
                   queue, shut, committed, threadVars>>

\* Mutant: the flag is reset only when there is a result.
InferWithoutModelKeepsFlag ==
    /\ running.kind = "infer" /\ ~isModelLoaded
    /\ running' = Idle
    /\ UNCHANGED <<serviceVars, captureVars, audioBuffer, lockedBy, isTranscribing,
                   queue, shut, isModelLoaded, committed, threadVars>>

\* transcribe() without a model returns null.
InferWithoutModel ==
    /\ running.kind = "infer" /\ ~isModelLoaded
    /\ running' = Idle /\ isTranscribing' = FALSE
    /\ UNCHANGED <<serviceVars, captureVars, audioBuffer, lockedBy, queue, shut,
                   isModelLoaded, committed, threadVars>>

InferBegins ==
    /\ running.kind = "infer" /\ isModelLoaded
    /\ running' = [kind |-> "native", final |-> running.final,
                   samples |-> running.samples]
    /\ UNCHANGED <<serviceVars, captureVars, audioBuffer, lockedBy, isTranscribing,
                   queue, shut, isModelLoaded, committed, threadVars>>

\* EVENT_TRANSCRIPTION_COMMIT is sent for final passes, to a registered client.
CommitsInterim == client                                            \* mutant
Commits == running.final /\ client

\* Text of a final pass is committed to the registered client; blank text, a
\* failure, an interim pass or a missing client commit nothing.
InferEnds ==
    /\ running.kind = "native"
    /\ \/ /\ Commits
          /\ committed' = committed \o running.samples
       \/ UNCHANGED committed
    /\ running' = Idle /\ isTranscribing' = FALSE
    /\ UNCHANGED <<serviceVars, captureVars, audioBuffer, lockedBy, queue, shut,
                   isModelLoaded, threadVars>>

-----------------------------------------------------------------------------
Client ==
    \/ Bind \/ RegisterClient \/ StartRecording \/ PauseRecording
    \/ ResumeRecording \/ CmdStop \/ UnregisterClient \/ Unbind \/ ForceRelease
    \/ SetGain \/ IdleTimeout

MainStep ==
    \/ OpenRunning \/ OpenNew \/ OpenFails \/ OpenThrows \/ FinishStart
    \/ JoinWorker \/ FlushSpeech \/ FinishStop \/ ReleasePipeline
    \/ FreeModel \/ ShutdownExecutor \/ Destroy

Trigger(t) == Claim(t) \/ Snapshot(t) \/ Submit(t)

Capture(w) ==
    \/ LoopTop(w) \/ ReadChunk(w) \/ ReadNothing(w) \/ ReadError(w)
    \/ BufferChunk(w) \/ BufferFull(w) \/ Unlock(w)
    \/ InterimPass(w) \/ NoInterimPass(w)

Executor ==
    \/ TakeTask \/ LoadBegins \/ LoadEnds
    \/ InferWithoutModel \/ InferBegins \/ InferEnds

Next ==
    \/ Client \/ MainStep \/ Executor
    \/ \E t \in Threads : Trigger(t)
    \/ \E w \in Workers : Capture(w)

Spec == Init /\ [][Next]_vars

\* The looper, every started thread and the executor keep being scheduled;
\* nobody has to send a command.
Fairness ==
    /\ WF_vars(MainStep) /\ WF_vars(Trigger(Main)) /\ WF_vars(Executor)
    /\ \A w \in Workers : WF_vars(Trigger(w)) /\ WF_vars(Capture(w))

FairSpec == Spec /\ Fairness

-----------------------------------------------------------------------------
(***************************************************************************)
(* Properties.                                                             *)
(***************************************************************************)

Labels == {"new", "ready", "open", "started", "failed", "join", "flush", "claim",
           "snapshot", "submit", "idle", "release", "destroy", "free", "shutdown",
           "loop", "read", "chunk", "interim", "unlock", "done", "crashed"}

\* The state has the shape the declarations above promise.
FlagsType ==
    /\ life \in {"created", "bound", "unbound", "destroyed"}
    /\ client \in BOOLEAN /\ idleArmed \in BOOLEAN
    /\ state \in ServiceState /\ pipeline \in BOOLEAN
    /\ isRunning \in BOOLEAN /\ isPaused \in BOOLEAN /\ speaking \in BOOLEAN
    /\ isTranscribing \in BOOLEAN /\ shut \in BOOLEAN /\ isModelLoaded \in BOOLEAN

CountersType ==
    /\ recorder \in 0..MaxStarts /\ workerThread \in 0..MaxStarts
    /\ starts \in 0..MaxStarts /\ lockedBy \in 0..MaxStarts
    /\ heard \in 0..MaxChunks

SamplesType ==
    /\ audioBuffer \in Seq(Chunk) /\ samplesCopy \in [Threads -> Seq(Chunk)]
    /\ queue \in Seq(Task) /\ running \in Task
    /\ committed \in Seq(Chunk)

ThreadsType ==
    /\ pc \in [Threads -> Labels] /\ ret \in [Threads -> Labels]
    /\ interrupted \in [Workers -> BOOLEAN] /\ isFinalPass \in [Threads -> BOOLEAN]
    /\ reading \in [Threads -> 0..MaxStarts] /\ chunk \in [Threads -> 0..MaxChunks]

TypeOK == FlagsType /\ CountersType /\ SamplesType /\ ThreadsType

IsInference(task) == task.kind \in {"infer", "native"}
Claimed(t) == pc[t] \in {"snapshot", "submit"}

\* isTranscribing, a flag set by whichever thread wins getAndSet and reset by
\* another one (the executor) or on the too-little-speech path, works as a
\* lock: whoever is between the flag and the task, the queue and the executor
\* together hold at most one inference, and only while the flag is set.
InferenceExclusive ==
    /\ \A t \in Threads : Claimed(t) =>
          /\ isTranscribing
          /\ ~IsInference(running)
          /\ \A u \in Threads \ {t} : ~Claimed(u)
          /\ \A i \in 1..Len(queue) : ~IsInference(queue[i])
    /\ IsInference(running) =>
          /\ isTranscribing
          /\ \A i \in 1..Len(queue) : ~IsInference(queue[i])
    /\ \A i \in 1..Len(queue) : IsInference(queue[i]) =>
          /\ isTranscribing
          /\ \A j \in 1..Len(queue) \ {i} : ~IsInference(queue[j])

\* The sample buffer never outgrows MAX_SPEECH_SAMPLES, whichever threads
\* append to it and whenever a pass fails to empty it.
BufferBounded == Len(audioBuffer) <= MaxSpeech

\* Speech awaiting or having had its final pass: in a thread's samplesCopy,
\* in the executor, or committed.
FinalSamples ==
    {samplesCopy[t] : t \in {t \in Threads : pc[t] = "submit" /\ isFinalPass[t]}}
        \union {queue[i].samples : i \in {i \in 1..Len(queue) :
                    IsInference(queue[i]) /\ queue[i].final}}
        \union (IF IsInference(running) /\ running.final THEN {running.samples} ELSE {})

Occurrences(c, seq) == {i \in 1..Len(seq) : seq[i] = c}

\* The client is never told the same speech twice: a chunk that is committed
\* is neither committed again nor still on its way to a final pass, although
\* interim passes keep copying the buffer it is in.
NoSpeechTwice ==
    \A c \in Chunk :
        LET places == Occurrences(c, committed) IN
        /\ \A i, j \in places : i = j
        /\ places # {} => /\ Occurrences(c, audioBuffer) = {}
                          /\ \A s \in FinalSamples : Occurrences(c, s) = {}

Capturing(w) == pc[w] \notin {"new", "done", "crashed"}

\* Unless a capture thread outlives its join, a second one never runs beside
\* it, however fast recordings are stopped and started.
OneCaptureThread ==
    \A v, w \in Workers : Capturing(v) /\ Capturing(w) => v = w

\* Destroying the service never makes a thread submit to the executor it has
\* shut down (an uncaught exception, which would end the process).
NoRejectedTask == \A t \in Threads : pc[t] # "crashed"

\* The three together, as long as stop() waits for its capture thread: speech is in
\* one place, one thread captures it, and none outlives the executor it submits to.
CaptureSound == TypeOK /\ NoSpeechTwice /\ OneCaptureThread /\ NoRejectedTask

\* A main thread that waits for the capture thread, or for the engine, gets
\* back to its looper: join and the engine's monitor never wait in a circle.
MainReturns == pc[Main] # "ready" ~> pc[Main] \in {"ready", "done"}

\* The transcribing flag is not left set by any path, so voice input does not
\* go deaf; only shutdownNow may drop the task that would have reset it.
TranscribingEnds == isTranscribing ~> (~isTranscribing \/ shut)

\* What a user of dictation is promised, free of threads and buffers: text in
\* the order of speech and nothing twice.
D == INSTANCE Dictation WITH text <- committed
ImplementsDictation == D!Spec

\* A final pass from the moment it holds the speech until its task ends.
FinalPassUnderWay ==
    \/ \E t \in Threads : pc[t] = "submit" /\ isFinalPass[t]
    \/ \E i \in 1..Len(queue) : IsInference(queue[i]) /\ queue[i].final
    \/ IsInference(running) /\ running.final

MainBusy ==
    CASE pc[Main] \in {"open", "started", "failed"} -> "starting"
      [] pc[Main] \in {"join", "flush", "claim", "snapshot", "submit", "idle"} -> "stopping"
      [] OTHER -> "no"

\* What the keyboard's side may rely on (VoiceSession does): however capture
\* threads and executor interleave with the commands, the service reports its
\* states in the order of the commands, fails only while it has the microphone
\* open, and sends text only from a final pass begun while it had.
Promised == INSTANCE VoiceService WITH
        Clients <- {1}, MaxText <- MaxSpeech,
        alive <- life = "bound", client <- IF client THEN 1 ELSE 0,
        busy <- MainBusy, pass <- FinalPassUnderWay, texts <- Len(committed)
ImplementsService == Promised!Spec
=============================================================================

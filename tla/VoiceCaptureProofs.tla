------------------------- MODULE VoiceCaptureProofs -------------------------
(***************************************************************************)
(* Theorems about VoiceCapture for every number of capture threads, chunks *)
(* and queued loads, whatever the platform does wrong, checked by TLAPS.   *)
(***************************************************************************)
EXTENDS VoiceCapture, SequenceTheorems, TLAPS

(***************************************************************************)
(* What TypeOK needs to be inductive: where a thread's calls return to,    *)
(* that a thread about to buffer a chunk has one, and that a start in      *)
(* progress has an AudioRecord left to create.                             *)
(***************************************************************************)
CallInv ==
    /\ ret[Main] \in {"ready", "release", "destroy"}
    /\ \A w \in Workers : ret[w] \in {"ready", "loop", "chunk", "unlock"}
    /\ \A w \in Workers : pc[w] = "chunk" \/ ret[w] = "chunk" => chunk[w] # 0
    /\ pc[Main] = "open" => starts < MaxStarts

TypeInv == TypeOK /\ CallInv

(***************************************************************************)
(* Facts about the data of a step.                                         *)
(***************************************************************************)

\* Threads are the main thread and the capture threads, which differ.
LEMMA ThreadFacts == /\ Main \in Threads /\ Workers \subseteq Threads
                     /\ \A w \in Workers : w # Main
  BY VoiceAssumption DEF Main, Threads, Workers

LEMMA OtherTask == \A k \in {"load", "init", "none"} : Other(k) \in Task
  BY DEF Other, Task

LEMMA AppendTask ==
  ASSUME NEW tasks \in Seq(Task), NEW task \in Task
  PROVE  /\ Append(tasks, task) \in Seq(Task)
         /\ Len(tasks) \in Nat /\ Len(Append(tasks, task)) = Len(tasks) + 1
         /\ \A i \in 1..Len(tasks) : Append(tasks, task)[i] = tasks[i]
         /\ Append(tasks, task)[Len(tasks) + 1] = task
  OBVIOUS

\* What the executor may be handed.
LEMMA SubmitAppends ==
  ASSUME SamplesType, ThreadsType, NEW t \in Threads, Submit(t)
  PROVE  queue' = queue \/ \E task \in Task : queue' = Append(queue, task)
<1> DEFINE task == [kind |-> "infer", final |-> isFinalPass[t],
                    samples |-> samplesCopy[t]]
<1>1. task \in Task
  BY DEF SamplesType, ThreadsType, Task
<1>2. queue' = queue \/ queue' = Append(queue, task)
  BY DEF Submit
<1> QED
  BY <1>1, <1>2

\* A call of triggerStreamingInference does not return into itself.
LEMMA ReturnLabel ==
  ASSUME CallInv, NEW t \in Threads
  PROVE  Return(t) \in Labels \ {"snapshot", "submit"}
  BY VoiceAssumption DEF CallInv, Return, Labels, Threads, Workers, Main

\* The commands that call stopRecording() while the service stays bound, and
\* the two lifecycle callbacks that do, all end in the same way.
Stops == CmdStop \/ UnregisterClient \/ Unbind \/ ForceRelease \/ IdleTimeout \/ Destroy

LEMMA StopsStop ==
  ASSUME Stops
  PROVE  /\ \E next \in {"ready", "release", "destroy"} : StopRecording(next)
         /\ life' \in {life, "unbound", "destroyed"}
         /\ client' \in {client, FALSE} /\ idleArmed' \in BOOLEAN
<1>1. /\ life' \in {life, "unbound", "destroyed"}
      /\ client' \in {client, FALSE} /\ idleArmed' \in BOOLEAN
  BY DEF Stops, CmdStop, UnregisterClient, Unbind, ForceRelease, IdleTimeout, Destroy
<1>2. StopRecording("ready") \/ StopRecording("release") \/ StopRecording("destroy")
  BY DEF Stops, CmdStop, UnregisterClient, Unbind, ForceRelease, IdleTimeout, Destroy
<1> QED
  BY <1>1, <1>2

\* Next, with the actions that share a proof together.
LEMMA NextActions ==
  ASSUME Next
  PROVE  \/ Bind \/ RegisterClient \/ StartRecording
         \/ PauseRecording \/ ResumeRecording \/ SetGain \/ Stops
         \/ OpenRunning \/ OpenNew \/ OpenFails \/ OpenThrows \/ FinishStart
         \/ JoinWorker \/ FlushSpeech \/ FinishStop \/ ReleasePipeline
         \/ FreeModel \/ ShutdownExecutor
         \/ TakeTask \/ LoadBegins \/ LoadEnds
         \/ InferWithoutModel \/ InferBegins \/ InferEnds
         \/ \E t \in Threads : Claim(t) \/ Snapshot(t) \/ Submit(t)
         \/ \E w \in Workers : Capture(w)
<1>1. CASE Client
  BY <1>1 DEF Client, Stops
<1>2. CASE MainStep
  BY <1>2 DEF MainStep, Stops
<1>3. CASE Executor
  BY <1>3 DEF Executor
<1>4. CASE \E t \in Threads : Trigger(t)
  BY <1>4 DEF Trigger
<1>5. CASE \E w \in Workers : Capture(w)
  BY <1>5
<1> QED
  BY <1>1, <1>2, <1>3, <1>4, <1>5 DEF Next

(***************************************************************************)
(* Type correctness, part by part.                                         *)
(***************************************************************************)
LEMMA FlagsStep ==
  ASSUME FlagsType, Next
  PROVE  FlagsType'
<1> USE DEF FlagsType
<1>1. CASE Bind \/ RegisterClient
  BY <1>1 DEF Bind, RegisterClient, captureVars
<1>2. CASE StartRecording \/ SetGain
  <2>1. /\ idleArmed' = FALSE /\ UNCHANGED <<life, client, state, pipeline, captureVars>>
        /\ UNCHANGED <<isTranscribing, shut, isModelLoaded>>
    BY <1>2 DEF StartRecording, SetGain, inferVars
  <2> QED
    BY <2>1 DEF captureVars
<1>3. CASE PauseRecording \/ ResumeRecording
  BY <1>3 DEF PauseRecording, ResumeRecording, ServiceState, inferVars
<1>4. CASE Stops
  <2>1. PICK next \in {"ready", "release", "destroy"} : StopRecording(next)
    BY <1>4, StopsStop
  <2>2. isRunning' \in BOOLEAN /\ isPaused' \in BOOLEAN
    BY <2>1 DEF StopRecording
  <2>3. UNCHANGED <<state, pipeline, speaking, isTranscribing, shut, isModelLoaded>>
    BY <2>1 DEF StopRecording, inferVars
  <2> QED
    BY <1>4, <2>2, <2>3, StopsStop
<1>5. CASE OpenRunning \/ OpenFails \/ OpenThrows \/ JoinWorker \/ FlushSpeech
  BY <1>5 DEF OpenRunning, OpenFails, OpenThrows, JoinWorker, FlushSpeech, serviceVars,
     captureVars, inferVars
<1>6. CASE OpenNew
  BY <1>6 DEF OpenNew, serviceVars, inferVars
<1>7. CASE FinishStart \/ FinishStop
  BY <1>7 DEF FinishStart, FinishStop, ServiceState, captureVars, inferVars
<1>8. CASE ReleasePipeline
  BY <1>8 DEF ReleasePipeline, captureVars, inferVars
<1>9. CASE FreeModel
  BY <1>9 DEF FreeModel, serviceVars, captureVars
<1>10. CASE ShutdownExecutor
  BY <1>10 DEF ShutdownExecutor, serviceVars, captureVars
<1>11. CASE Executor
  <2>1. UNCHANGED <<serviceVars, captureVars, shut>>
    BY <1>11 DEF Executor, TakeTask, LoadBegins, LoadEnds, InferWithoutModel,
       InferBegins, InferEnds
  <2>2. isTranscribing' \in BOOLEAN /\ isModelLoaded' \in BOOLEAN
    BY <1>11 DEF Executor, TakeTask, LoadBegins, LoadEnds, InferWithoutModel,
       InferBegins, InferEnds
  <2> QED
    BY <2>1, <2>2 DEF serviceVars, captureVars
<1>12. ASSUME NEW t \in Threads, Claim(t) \/ Snapshot(t) \/ Submit(t)
       PROVE  FlagsType'
  <2>1. isTranscribing' \in BOOLEAN
    BY <1>12 DEF Claim, Snapshot, Submit
  <2> QED
    BY <1>12, <2>1 DEF Claim, Snapshot, Submit, serviceVars, captureVars, inferVars
<1>13. ASSUME NEW w \in Workers, Capture(w)
       PROVE  FlagsType'
  BY <1>13 DEF Capture, LoopTop, ReadChunk, ReadNothing, ReadError, BufferChunk,
     BufferFull, Unlock, InterimPass, NoInterimPass, serviceVars, captureVars, inferVars,
     ServiceState
<1> QED
  BY NextActions, <1>1, <1>2, <1>3, <1>4, <1>5, <1>6, <1>7, <1>8, <1>9, <1>10, <1>11,
     <1>12, <1>13 DEF Executor

LEMMA CountersStep ==
  ASSUME CountersType, CallInv, Next
  PROVE  CountersType'
<1> USE DEF CountersType
<1>1. CASE Client
  BY <1>1 DEF Client, Bind, RegisterClient, StartRecording, PauseRecording,
     ResumeRecording, CmdStop, UnregisterClient, Unbind, ForceRelease, SetGain,
     IdleTimeout, StopRecording, captureVars
<1>2. CASE OpenNew \/ OpenThrows
  <2>1. starts + 1 \in 0..MaxStarts
    BY <1>2, VoiceAssumption DEF CallInv, OpenNew, OpenThrows
  <2> QED
    BY <1>2, <2>1 DEF OpenNew, OpenThrows
<1>3. CASE JoinWorker
  BY <1>3, VoiceAssumption DEF JoinWorker
<1>4. CASE OpenRunning \/ OpenFails \/ FinishStart \/ FlushSpeech \/ FinishStop
           \/ ReleasePipeline \/ FreeModel \/ ShutdownExecutor \/ Destroy
  BY <1>4 DEF OpenRunning, OpenFails, FinishStart, FlushSpeech, FinishStop,
     ReleasePipeline, FreeModel, ShutdownExecutor, Destroy, StopRecording, captureVars
<1>5. CASE Executor
  BY <1>5 DEF Executor, TakeTask, LoadBegins, LoadEnds, InferWithoutModel, InferBegins,
     InferEnds, captureVars
<1>6. ASSUME NEW t \in Threads, Trigger(t)
      PROVE  CountersType'
  BY <1>6 DEF Trigger, Claim, Snapshot, Submit, captureVars
<1>7. ASSUME NEW w \in Workers, Capture(w), ~ReadChunk(w)
      PROVE  CountersType'
  BY <1>7, VoiceAssumption DEF Capture, LoopTop, ReadNothing, ReadError, BufferChunk,
     BufferFull, Unlock, InterimPass, NoInterimPass, captureVars, Workers
<1>8. ASSUME NEW w \in Workers, ReadChunk(w)
      PROVE  CountersType'
  BY <1>8, VoiceAssumption DEF ReadChunk
<1> QED
  BY <1>1, <1>2, <1>3, <1>4, <1>5, <1>6, <1>7, <1>8 DEF Next, MainStep

LEMMA SamplesStep ==
  ASSUME SamplesType, ThreadsType, CallInv, Next
  PROVE  SamplesType'
<1> USE DEF SamplesType
<1>1. <<>> \in Seq(Chunk)
  OBVIOUS
<1>2. CASE Bind \/ RegisterClient
  <2>1. queue' = Append(queue, Other("load")) \/ UNCHANGED queue
    BY <1>2 DEF Bind, RegisterClient, LoadActiveModel
  <2>2. queue' \in Seq(Task)
    BY <2>1, OtherTask, AppendTask
  <2> QED
    BY <1>2, <2>2 DEF Bind, RegisterClient, threadVars, localVars
<1>3. CASE StartRecording
  BY <1>1, <1>3 DEF StartRecording, inferVars, localVars
<1>4. CASE PauseRecording \/ ResumeRecording \/ SetGain
  BY <1>4 DEF PauseRecording, ResumeRecording, SetGain, inferVars, threadVars, localVars
<1>5. CASE Stops
  <2>1. PICK next \in {"ready", "release", "destroy"} : StopRecording(next)
    BY <1>5, StopsStop
  <2> QED
    BY <2>1 DEF StopRecording, inferVars, localVars
<1>6. CASE OpenRunning \/ OpenNew \/ OpenFails \/ OpenThrows \/ FinishStart \/ JoinWorker
           \/ FlushSpeech \/ FinishStop \/ ReleasePipeline \/ FreeModel
  BY <1>6 DEF OpenRunning, OpenNew, OpenFails, OpenThrows, FinishStart, JoinWorker,
     FlushSpeech, FinishStop, ReleasePipeline, FreeModel, inferVars, localVars
<1>7. CASE ShutdownExecutor
  BY <1>7 DEF ShutdownExecutor, localVars
<1>8. CASE TakeTask
  <2>1. Head(queue) \in Task /\ Tail(queue) \in Seq(Task)
    BY <1>8 DEF TakeTask
  <2> QED
    BY <1>8, <2>1 DEF TakeTask, threadVars, localVars
<1>9. CASE LoadBegins \/ LoadEnds \/ InferWithoutModel
  <2>1. running' \in Task
    BY <1>9, OtherTask DEF LoadBegins, LoadEnds, InferWithoutModel, Idle
  <2> QED
    BY <1>9, <2>1 DEF LoadBegins, LoadEnds, InferWithoutModel, threadVars, localVars
<1>10. CASE InferBegins
  BY <1>10 DEF InferBegins, Task, threadVars, localVars
<1>11. CASE InferEnds
  <2>1. running' \in Task
    BY <1>11, OtherTask DEF InferEnds, Idle
  <2>2. committed \o running.samples \in Seq(Chunk)
    BY DEF Task
  <2> QED
    BY <1>11, <2>1, <2>2 DEF InferEnds, threadVars, localVars
<1>12. ASSUME NEW t \in Threads, Claim(t)
       PROVE  SamplesType'
  BY <1>12 DEF Claim, inferVars, localVars
<1>13. ASSUME NEW t \in Threads, Snapshot(t)
       PROVE  SamplesType'
  <2>1. audioBuffer' = audioBuffer \/ audioBuffer' = <<>>
    BY <1>13 DEF Snapshot, Leftover
  <2>2. samplesCopy' \in [Threads -> Seq(Chunk)]
    BY <1>13 DEF Snapshot
  <2>3. UNCHANGED <<queue, running, committed>>
    BY <1>13 DEF Snapshot, inferVars
  <2> QED
    BY <1>1, <2>1, <2>2, <2>3
<1>14. ASSUME NEW t \in Threads, Submit(t)
       PROVE  SamplesType'
  <2>2. queue' \in Seq(Task)
    BY <1>14, SubmitAppends, AppendTask
  <2>3. samplesCopy' \in [Threads -> Seq(Chunk)]
    BY <1>1, <1>14 DEF Submit
  <2> QED
    BY <1>14, <2>2, <2>3 DEF Submit
<1>15. ASSUME NEW w \in Workers, BufferChunk(w)
       PROVE  SamplesType'
  <2>1. chunk[w] \in Chunk
    BY <1>15, ThreadFacts, VoiceAssumption DEF BufferChunk, CallInv, ThreadsType, Chunk
  <2>2. Append(audioBuffer, chunk[w]) \in Seq(Chunk)
    BY <2>1
  <2> QED
    BY <1>15, <2>2 DEF BufferChunk, inferVars, localVars
<1>16. ASSUME NEW w \in Workers, Capture(w), ~BufferChunk(w)
       PROVE  SamplesType'
  BY <1>16 DEF Capture, LoopTop, ReadChunk, ReadNothing, ReadError, BufferFull, Unlock,
     InterimPass, NoInterimPass, inferVars, localVars
<1> QED
  BY NextActions, <1>2, <1>3, <1>4, <1>5, <1>6, <1>7, <1>8, <1>9, <1>10, <1>11, <1>12,
     <1>13, <1>14, <1>15, <1>16

LEMMA ThreadsStep ==
  ASSUME ThreadsType, CountersType, CallInv, Next
  PROVE  ThreadsType'
<1> USE DEF ThreadsType
<1>1. CASE Bind \/ RegisterClient \/ PauseRecording \/ ResumeRecording \/ SetGain
           \/ TakeTask \/ LoadBegins \/ LoadEnds \/ InferWithoutModel \/ InferBegins
           \/ InferEnds
  BY <1>1 DEF Bind, RegisterClient, PauseRecording, ResumeRecording, SetGain, TakeTask,
     LoadBegins, LoadEnds, InferWithoutModel, InferBegins, InferEnds, threadVars,
     localVars, captureVars
<1>2. CASE StartRecording
  BY <1>2, ThreadFacts DEF StartRecording, Goto, Labels, captureVars, localVars
<1>3. CASE Stops
  <2>1. PICK next \in {"ready", "release", "destroy"} : StopRecording(next)
    BY <1>3, StopsStop
  <2>2. ret' \in [Threads -> Labels]
    BY <2>1, ThreadFacts DEF StopRecording, Labels
  <2>3. pc' \in [Threads -> Labels]
    BY <2>1, ThreadFacts DEF StopRecording, Goto, Labels
  <2>4. interrupted' \in [Workers -> BOOLEAN]
    BY <2>1 DEF StopRecording
  <2>5. UNCHANGED <<isFinalPass, reading, chunk>>
    BY <2>1 DEF StopRecording, localVars
  <2> QED
    BY <2>2, <2>3, <2>4, <2>5
<1>4. CASE OpenNew
  BY <1>4, ThreadFacts DEF OpenNew, Labels, localVars
<1>5. CASE OpenRunning \/ OpenFails \/ OpenThrows \/ FinishStart \/ JoinWorker
           \/ FlushSpeech \/ ReleasePipeline \/ FreeModel \/ ShutdownExecutor
  BY <1>5, ThreadFacts DEF OpenRunning, OpenFails, OpenThrows, FinishStart, JoinWorker,
     FlushSpeech, ReleasePipeline, FreeModel, ShutdownExecutor, captureVars, localVars,
     Goto, Labels
<1>6. CASE FinishStop
  BY <1>6, ThreadFacts DEF FinishStop, Goto, captureVars, localVars
<1>7. ASSUME NEW t \in Threads, Claim(t) \/ Snapshot(t) \/ Submit(t)
      PROVE  ThreadsType'
  BY <1>7 DEF Claim, Snapshot, Submit, captureVars, localVars, Goto, Labels, Return
<1>8. ASSUME NEW w \in Workers, LoopTop(w)
      PROVE  ThreadsType'
  <2>1. pc' \in [Threads -> Labels]
    BY <1>8 DEF LoopTop, Goto, Labels
  <2>2. reading' \in [Threads -> 0..MaxStarts]
    BY <1>8 DEF LoopTop, CountersType
  <2> QED
    BY <1>8, <2>1, <2>2 DEF LoopTop, captureVars
<1>9. ASSUME NEW w \in Workers, ReadChunk(w)
      PROVE  ThreadsType'
  <2>1. pc' \in [Threads -> Labels] /\ ret' \in [Threads -> Labels]
    BY <1>9 DEF ReadChunk, Goto, Labels
  <2>2. heard + 1 \in 0..MaxChunks
    BY <1>9, VoiceAssumption DEF ReadChunk, CountersType
  <2>3. chunk' \in [Threads -> 0..MaxChunks] /\ isFinalPass' \in [Threads -> BOOLEAN]
    BY <1>9, <2>2 DEF ReadChunk
  <2>4. UNCHANGED <<interrupted, reading>>
    BY <1>9 DEF ReadChunk
  <2> QED
    BY <2>1, <2>3, <2>4
<1>10. ASSUME NEW w \in Workers, ReadNothing(w) \/ ReadError(w) \/ BufferChunk(w) \/ BufferFull(w)
       PROVE  ThreadsType'
  BY <1>10 DEF ReadNothing, ReadError, BufferChunk, BufferFull, captureVars, localVars,
     Goto, Labels
<1>11. ASSUME NEW w \in Workers, Unlock(w) \/ InterimPass(w) \/ NoInterimPass(w)
       PROVE  ThreadsType'
  BY <1>11 DEF Unlock, InterimPass, NoInterimPass, captureVars, localVars, Goto, Labels
<1> QED
  BY NextActions, <1>1, <1>2, <1>3, <1>4, <1>5, <1>6, <1>7, <1>8, <1>9, <1>10, <1>11
     DEF Capture

LEMMA CallStep ==
  ASSUME ThreadsType, CountersType, CallInv, Next
  PROVE  CallInv'
<1> USE DEF ThreadsType, CallInv
<1>1. CASE Bind \/ RegisterClient \/ PauseRecording \/ ResumeRecording \/ SetGain
           \/ TakeTask \/ LoadBegins \/ LoadEnds \/ InferWithoutModel \/ InferBegins
           \/ InferEnds
  BY <1>1 DEF Bind, RegisterClient, PauseRecording, ResumeRecording, SetGain, TakeTask,
     LoadBegins, LoadEnds, InferWithoutModel, InferBegins, InferEnds, threadVars,
     localVars, captureVars
<1>2. CASE StartRecording
  BY <1>2, ThreadFacts DEF StartRecording, Goto, captureVars, localVars
<1>3. CASE Stops
  <2>1. PICK next \in {"ready", "release", "destroy"} : StopRecording(next)
    BY <1>3, StopsStop
  <2>2. /\ ret' = [ret EXCEPT ![Main] = next]
        /\ \E l \in {"ready", "release", "destroy", "join", "flush"} : Goto(Main, l)
        /\ UNCHANGED <<chunk, starts>>
    BY <2>1 DEF StopRecording, localVars
  <2> QED
    BY <2>2, ThreadFacts DEF Goto
<1>4. CASE OpenNew
  BY <1>4, ThreadFacts DEF OpenNew, localVars
<1>5. CASE OpenRunning \/ OpenFails \/ OpenThrows \/ FinishStart \/ JoinWorker
           \/ FlushSpeech \/ FinishStop \/ ReleasePipeline \/ FreeModel \/ ShutdownExecutor
  BY <1>5, ThreadFacts DEF OpenRunning, OpenFails, OpenThrows, FinishStart, JoinWorker,
     FlushSpeech, FinishStop, ReleasePipeline, FreeModel, ShutdownExecutor, captureVars,
     localVars, Goto
<1>6. ASSUME NEW t \in Threads, Claim(t) \/ Snapshot(t) \/ Submit(t)
      PROVE  CallInv'
  BY <1>6, ThreadFacts DEF Claim, Snapshot, Submit, captureVars, localVars, Goto, Return
<1>7. ASSUME NEW w \in Workers, ReadChunk(w)
      PROVE  CallInv'
  <2>1. heard + 1 # 0
    BY DEF CountersType
  <2>2. /\ \E l \in {"claim", "chunk"} : Goto(w, l)
        /\ ret' = ret \/ ret' = [ret EXCEPT ![w] = "chunk"]
        /\ chunk' = [chunk EXCEPT ![w] = heard + 1] /\ starts' = starts
    BY <1>7 DEF ReadChunk
  <2> QED
    BY <2>1, <2>2, ThreadFacts DEF Goto
<1>8. ASSUME NEW w \in Workers, Capture(w), ~ReadChunk(w)
      PROVE  CallInv'
  <2>1. CASE LoopTop(w) \/ ReadNothing(w) \/ ReadError(w) \/ BufferChunk(w)
    BY <2>1, ThreadFacts DEF LoopTop, ReadNothing, ReadError, BufferChunk, captureVars,
       localVars, Goto
  <2>2. CASE BufferFull(w) \/ Unlock(w) \/ InterimPass(w) \/ NoInterimPass(w)
    BY <2>2, ThreadFacts DEF BufferFull, Unlock, InterimPass, NoInterimPass, captureVars,
       localVars, Goto
  <2> QED
    BY <1>8, <2>1, <2>2 DEF Capture
<1> QED
  BY NextActions, <1>1, <1>2, <1>3, <1>4, <1>5, <1>6, <1>7, <1>8

LEMMA TypeInvInit == Init => TypeInv
<1> SUFFICES ASSUME Init PROVE TypeInv
  OBVIOUS
<1> USE VoiceAssumption DEF Init
<1>1. FlagsType
  BY DEF FlagsType, ServiceState
<1>2. CountersType
  BY DEF CountersType
<1>3. SamplesType
  BY OtherTask DEF SamplesType, Idle
<1>4. ThreadsType
  BY ThreadFacts DEF ThreadsType, Labels
<1>5. CallInv
  BY ThreadFacts DEF CallInv
<1> QED
  BY <1>1, <1>2, <1>3, <1>4, <1>5 DEF TypeInv, TypeOK

LEMMA TypeInvStep == TypeInv /\ [Next]_vars => TypeInv'
<1> SUFFICES ASSUME TypeInv, [Next]_vars PROVE TypeInv'
  OBVIOUS
<1>1. CASE Next
  BY <1>1, FlagsStep, CountersStep, SamplesStep, ThreadsStep, CallStep DEF TypeInv, TypeOK
<1>2. CASE UNCHANGED vars
  BY <1>2 DEF vars, serviceVars, captureVars, inferVars, threadVars, localVars, TypeInv,
     TypeOK, FlagsType, CountersType, SamplesType, ThreadsType, CallInv
<1> QED
  BY <1>1, <1>2

\* In every reachable state of the voice service, of any size and under any
\* faults, the variables have their declared shape.
THEOREM TypeCorrect == Spec => []TypeOK
<1>1. TypeInv => TypeOK
  BY DEF TypeInv
<1> QED
  BY TypeInvInit, TypeInvStep, <1>1, PTL DEF Spec

(***************************************************************************)
(* The transcribing flag is a lock.  InferenceExclusive is inductive as it *)
(* stands, given the types: a thread claims the flag only when it is down, *)
(* and then neither a thread, the queue nor the executor has an inference. *)
(***************************************************************************)

\* A step that leaves the flag alone and adds no claim and no inference.
LEMMA ExclusiveShrinks ==
  ASSUME InferenceExclusive, UNCHANGED isTranscribing,
         \A t \in Threads : Claimed(t)' => Claimed(t),
         IsInference(running') => IsInference(running),
         \A i \in 1..Len(queue') : IsInference(queue'[i]) =>
             i \in 1..Len(queue) /\ queue'[i] = queue[i]
  PROVE  InferenceExclusive'
<1>1. ASSUME NEW t \in Threads, Claimed(t)'
      PROVE  /\ isTranscribing' /\ ~IsInference(running')
             /\ \A u \in Threads \ {t} : ~Claimed(u)'
             /\ \A i \in 1..Len(queue') : ~IsInference(queue'[i])
  BY <1>1 DEF InferenceExclusive
<1>2. ASSUME IsInference(running')
      PROVE  isTranscribing' /\ \A i \in 1..Len(queue') : ~IsInference(queue'[i])
  BY <1>2 DEF InferenceExclusive
<1>3. ASSUME NEW i \in 1..Len(queue'), IsInference(queue'[i])
      PROVE  isTranscribing' /\ \A j \in 1..Len(queue') \ {i} : ~IsInference(queue'[j])
  BY <1>3 DEF InferenceExclusive
<1> QED
  BY <1>1, <1>2, <1>3 DEF InferenceExclusive, IsInference

\* A step after which the flag is set, t has claimed it and nobody else, or
\* the flag is down and nobody has.
LEMMA ExclusiveAlone ==
  ASSUME NEW t \in Threads,
         \A u \in Threads \ {t} : ~Claimed(u)',
         Claimed(t)' => isTranscribing',
         ~IsInference(running'),
         \A i \in 1..Len(queue') : ~IsInference(queue'[i])
  PROVE  InferenceExclusive'
  BY DEF InferenceExclusive, IsInference

LEMMA ExclusiveStep ==
  ASSUME TypeInv, InferenceExclusive, Next
  PROVE  InferenceExclusive'
<1> USE DEF TypeInv, TypeOK
<1>1. CASE Bind \/ RegisterClient
  <2>1. /\ UNCHANGED <<isTranscribing, running, pc>>
        /\ queue' = Append(queue, Other("load")) \/ queue' = queue
    BY <1>1 DEF Bind, RegisterClient, LoadActiveModel, threadVars
  <2>2. ~IsInference(Other("load"))
    BY DEF IsInference, Other
  <2>3. \A i \in 1..Len(queue') : IsInference(queue'[i]) =>
             i \in 1..Len(queue) /\ queue'[i] = queue[i]
    <3>1. CASE queue' = queue
      BY <3>1
    <3>2. CASE queue' = Append(queue, Other("load"))
      <4>1. /\ Len(queue) \in Nat /\ Len(queue') = Len(queue) + 1
            /\ \A i \in 1..Len(queue) : queue'[i] = queue[i]
            /\ queue'[Len(queue) + 1] = Other("load")
        BY <3>2, OtherTask, AppendTask DEF SamplesType
      <4> QED
        BY <2>2, <4>1
    <3> QED
      BY <2>1, <3>1, <3>2
  <2> QED
    BY <2>1, <2>3, ExclusiveShrinks DEF Claimed
<1>2. CASE PauseRecording \/ ResumeRecording \/ SetGain
  <2>1. UNCHANGED <<isTranscribing, running, queue, pc>>
    BY <1>2 DEF PauseRecording, ResumeRecording, SetGain, inferVars, threadVars
  <2> QED
    BY <2>1, ExclusiveShrinks DEF Claimed, SamplesType
<1>3. CASE StartRecording \/ Stops
  <2>1. /\ UNCHANGED <<isTranscribing, running, queue>>
        /\ \E l \in Labels \ {"snapshot", "submit"} : Goto(Main, l)
    <3>1. CASE StartRecording
      BY <3>1 DEF StartRecording, inferVars, Labels
    <3>2. CASE Stops
      <4>1. PICK next \in {"ready", "release", "destroy"} : StopRecording(next)
        BY <3>2, StopsStop
      <4>2. UNCHANGED <<isTranscribing, running, queue>>
        BY <4>1 DEF StopRecording, inferVars
      <4>3. Goto(Main, next) \/ Goto(Main, "join") \/ Goto(Main, "flush")
        BY <4>1 DEF StopRecording
      <4> QED
        BY <4>2, <4>3 DEF Labels
    <3> QED
      BY <1>3, <3>1, <3>2
  <2>2. \A t \in Threads : Claimed(t)' => Claimed(t)
    BY <2>1, ThreadFacts DEF Claimed, Goto, ThreadsType
  <2> QED
    BY <2>1, <2>2, ExclusiveShrinks
<1>4. CASE \/ OpenRunning \/ OpenNew \/ OpenFails \/ OpenThrows \/ FinishStart
           \/ JoinWorker \/ FlushSpeech \/ FinishStop \/ ReleasePipeline \/ FreeModel
  <2>1. UNCHANGED <<isTranscribing, running, queue>>
    BY <1>4 DEF OpenRunning, OpenNew, OpenFails, OpenThrows, FinishStart, JoinWorker,
       FlushSpeech, FinishStop, ReleasePipeline, FreeModel, inferVars
  <2>2. \A t \in Threads : Claimed(t)' => Claimed(t)
    BY <1>4, ThreadFacts DEF OpenRunning, OpenNew, OpenFails, OpenThrows, FinishStart,
       JoinWorker, FlushSpeech, FinishStop, ReleasePipeline, FreeModel, Goto, Claimed,
       ThreadsType, CallInv
  <2> QED
    BY <2>1, <2>2, ExclusiveShrinks
<1>5. CASE ShutdownExecutor
  <2>1. UNCHANGED <<isTranscribing, running>> /\ queue' = <<>> /\ Goto(Main, "done")
    BY <1>5 DEF ShutdownExecutor
  <2>2. \A t \in Threads : Claimed(t)' => Claimed(t)
    BY <2>1, ThreadFacts DEF Claimed, Goto, ThreadsType
  <2> QED
    BY <2>1, <2>2, ExclusiveShrinks
<1>6. CASE TakeTask
  <2>1. /\ UNCHANGED <<isTranscribing, pc>>
        /\ running' = queue[1] /\ 1 \in 1..Len(queue)
        /\ \A i \in 1..Len(queue') :
              i + 1 \in 1..Len(queue) \ {1} /\ queue'[i] = queue[i + 1]
        /\ \A i, j \in 1..Len(queue') : i # j => i + 1 # j + 1
    BY <1>6 DEF TakeTask, threadVars, SamplesType
  <2>2. ASSUME NEW t \in Threads, Claimed(t)'
        PROVE  /\ isTranscribing' /\ ~IsInference(running')
               /\ \A u \in Threads \ {t} : ~Claimed(u)'
               /\ \A i \in 1..Len(queue') : ~IsInference(queue'[i])
    BY <2>1, <2>2 DEF InferenceExclusive, Claimed
  <2>3. ASSUME IsInference(running')
        PROVE  isTranscribing' /\ \A i \in 1..Len(queue') : ~IsInference(queue'[i])
    BY <2>1, <2>3 DEF InferenceExclusive
  <2>4. ASSUME NEW i \in 1..Len(queue'), IsInference(queue'[i])
        PROVE  isTranscribing' /\ \A j \in 1..Len(queue') \ {i} : ~IsInference(queue'[j])
    BY <2>1, <2>4 DEF InferenceExclusive
  <2> QED
    BY <2>2, <2>3, <2>4 DEF InferenceExclusive, IsInference
<1>7. CASE LoadBegins \/ LoadEnds \/ InferBegins
  <2>1. /\ UNCHANGED <<isTranscribing, queue, pc>>
        /\ IsInference(running') => IsInference(running)
    BY <1>7 DEF LoadBegins, LoadEnds, InferBegins, threadVars, IsInference, Other, Idle
  <2> QED
    BY <2>1, ExclusiveShrinks DEF Claimed
<1>8. CASE InferWithoutModel \/ InferEnds
  <2>1. /\ IsInference(running) /\ ~IsInference(running')
        /\ UNCHANGED <<queue, pc>>
    BY <1>8 DEF InferWithoutModel, InferEnds, threadVars, IsInference, Other, Idle
  <2>2. /\ \A t \in Threads : ~Claimed(t)'
        /\ \A i \in 1..Len(queue') : ~IsInference(queue'[i])
    BY <2>1 DEF InferenceExclusive, Claimed
  <2> QED
    BY <2>1, <2>2, ThreadFacts, ExclusiveAlone
<1>9. ASSUME NEW t \in Threads, Claim(t)
      PROVE  InferenceExclusive'
  <2>1. UNCHANGED <<running, queue>>
    BY <1>9 DEF Claim, inferVars
  <2>2. CASE MayClaim
    <3>1. isTranscribing' /\ Goto(t, "snapshot") /\ ~isTranscribing
      BY <1>9, <2>2 DEF Claim, MayClaim
    <3>2. /\ \A u \in Threads \ {t} : ~Claimed(u)'
          /\ ~IsInference(running') /\ \A i \in 1..Len(queue') : ~IsInference(queue'[i])
      BY <2>1, <3>1 DEF InferenceExclusive, Claimed, Goto, ThreadsType
    <3> QED
      BY <3>1, <3>2, ExclusiveAlone
  <2>3. CASE ~MayClaim
    <3>1. UNCHANGED isTranscribing /\ Goto(t, Return(t))
      BY <1>9, <2>3 DEF Claim
    <3>2. \A u \in Threads : Claimed(u)' => Claimed(u)
      BY <3>1, ReturnLabel DEF Claimed, Goto, ThreadsType
    <3> QED
      BY <2>1, <3>1, <3>2, ExclusiveShrinks
  <2> QED
    BY <2>2, <2>3
<1>10. ASSUME NEW t \in Threads, Snapshot(t)
       PROVE  InferenceExclusive'
  <2>1. /\ Claimed(t) /\ UNCHANGED <<running, queue>>
        /\ \A u \in Threads \ {t} : ~Claimed(u)
        /\ ~IsInference(running) /\ \A i \in 1..Len(queue) : ~IsInference(queue[i])
        /\ isTranscribing
    BY <1>10 DEF Snapshot, inferVars, Claimed, InferenceExclusive
  <2>2. \/ Goto(t, "submit") /\ UNCHANGED isTranscribing
        \/ Goto(t, Return(t))
    BY <1>10 DEF Snapshot
  <2>3. /\ \A u \in Threads \ {t} : ~Claimed(u)'
        /\ Claimed(t)' => isTranscribing'
    BY <2>1, <2>2, ReturnLabel DEF Claimed, Goto, ThreadsType
  <2> QED
    BY <2>1, <2>3, ExclusiveAlone
<1>11. ASSUME NEW t \in Threads, Submit(t)
       PROVE  InferenceExclusive'
  <2>1. /\ UNCHANGED running /\ isTranscribing' /\ ~IsInference(running)
        /\ \A u \in Threads \ {t} : ~Claimed(u)
        /\ \A i \in 1..Len(queue) : ~IsInference(queue[i])
    BY <1>11 DEF Submit, Claimed, InferenceExclusive
  <2>2. /\ Goto(t, "crashed") \/ Goto(t, Return(t))
    BY <1>11 DEF Submit
  <2>3. \A u \in Threads : ~Claimed(u)'
    BY <2>1, <2>2, ReturnLabel DEF Claimed, Goto, ThreadsType
  <2>4. \A i \in 1..Len(queue') : IsInference(queue'[i]) => i = Len(queue')
    BY <1>11, <2>1, SubmitAppends, AppendTask DEF SamplesType
  <2> QED
    BY <2>1, <2>3, <2>4 DEF InferenceExclusive, IsInference
<1>12. ASSUME NEW w \in Workers, Capture(w)
       PROVE  InferenceExclusive'
  <2>1. UNCHANGED <<isTranscribing, running, queue>>
    BY <1>12 DEF Capture, LoopTop, ReadChunk, ReadNothing, ReadError, BufferChunk,
       BufferFull, Unlock, InterimPass, NoInterimPass, inferVars
  <2>2. \E l \in Labels \ {"snapshot", "submit"} : Goto(w, l) \/ UNCHANGED pc
    BY <1>12 DEF Capture, LoopTop, ReadChunk, ReadNothing, ReadError, BufferChunk,
       BufferFull, Unlock, InterimPass, NoInterimPass, Labels
  <2>3. \A t \in Threads : Claimed(t)' => Claimed(t)
    BY <2>2, ThreadFacts DEF Claimed, Goto, ThreadsType
  <2> QED
    BY <2>1, <2>3, ExclusiveShrinks
<1> QED
  BY NextActions, <1>1, <1>2, <1>3, <1>4, <1>5, <1>6, <1>7, <1>8, <1>9, <1>10, <1>11, <1>12

LEMMA ExclusiveInit == Init => InferenceExclusive
  BY ThreadFacts DEF Init, InferenceExclusive, Claimed, IsInference, Idle, Other

LEMMA ExclusiveStutter == InferenceExclusive /\ UNCHANGED vars => InferenceExclusive'
  BY DEF vars, inferVars, threadVars, InferenceExclusive, Claimed, IsInference

\* However many threads ask for a pass, whenever chunks, stops, loads and
\* faults come: at most one inference exists, and the flag is set for it.
THEOREM InferenceSafe == Spec => []InferenceExclusive
<1>1. Init => TypeInv /\ InferenceExclusive
  BY TypeInvInit, ExclusiveInit
<1>2. TypeInv /\ InferenceExclusive /\ [Next]_vars => (TypeInv /\ InferenceExclusive)'
  BY TypeInvStep, ExclusiveStep, ExclusiveStutter
<1> QED
  BY <1>1, <1>2, PTL DEF Spec

(***************************************************************************)
(* The sample buffer.                                                      *)
(***************************************************************************)

\* Only a chunk that fits makes the buffer longer.
LEMMA BufferStep ==
  ASSUME SamplesType, Next
  PROVE  \/ audioBuffer' = audioBuffer
         \/ audioBuffer' = <<>>
         \/ \E w \in Workers : BufferChunk(w)
<1>1. CASE Client \/ Destroy
  BY <1>1 DEF Client, Bind, RegisterClient, StartRecording, PauseRecording,
     ResumeRecording, CmdStop, UnregisterClient, Unbind, ForceRelease, SetGain,
     IdleTimeout, StopRecording, Destroy
<1>2. CASE MainStep /\ ~Destroy
  BY <1>2 DEF MainStep, OpenRunning, OpenNew, OpenFails, OpenThrows, FinishStart, JoinWorker,
     FlushSpeech, FinishStop, ReleasePipeline, FreeModel, ShutdownExecutor
<1>3. CASE Executor
  BY <1>3 DEF Executor, TakeTask, LoadBegins, LoadEnds, InferWithoutModel, InferBegins,
     InferEnds
<1>4. ASSUME NEW t \in Threads, Trigger(t)
      PROVE  audioBuffer' = audioBuffer \/ audioBuffer' = <<>>
  BY <1>4 DEF Trigger, Claim, Snapshot, Submit, Leftover
<1>5. ASSUME NEW w \in Workers, Capture(w)
      PROVE  audioBuffer' = audioBuffer \/ BufferChunk(w)
  BY <1>5 DEF Capture, LoopTop, ReadChunk, ReadNothing, ReadError, BufferFull,
     Unlock, InterimPass, NoInterimPass
<1> QED
  BY <1>1, <1>2, <1>3, <1>4, <1>5 DEF Next

\* MAX_SPEECH_SAMPLES bounds the buffer whichever passes are refused, even
\* when a second capture thread appends to it.
THEOREM BufferSafe == Spec => []BufferBounded
<1>1. Init => BufferBounded
  BY VoiceAssumption DEF Init, BufferBounded
<1>2. ASSUME TypeInv, BufferBounded, [Next]_vars
      PROVE  BufferBounded'
  <2>1. CASE UNCHANGED audioBuffer
    BY <1>2, <2>1 DEF BufferBounded
  <2>2. CASE audioBuffer' = <<>>
    BY <2>2, VoiceAssumption DEF BufferBounded
  <2>3. ASSUME NEW w \in Workers, BufferChunk(w)
        PROVE  BufferBounded'
    <3>1. Len(audioBuffer') = Len(audioBuffer) + 1
      BY <1>2, <2>3 DEF BufferChunk, TypeInv, TypeOK, SamplesType
    <3> QED
      BY <2>3, <3>1 DEF BufferChunk, Fits, BufferBounded
  <2>4. CASE UNCHANGED vars
    BY <2>1, <2>4 DEF vars
  <2> QED
    BY <1>2, <2>1, <2>2, <2>3, <2>4, BufferStep DEF TypeInv, TypeOK
<1>3. TypeInv /\ BufferBounded /\ [Next]_vars => (TypeInv /\ BufferBounded)'
  BY <1>2, TypeInvStep
<1> QED
  BY TypeInvInit, <1>1, <1>3, PTL DEF Spec

-----------------------------------------------------------------------------
(***************************************************************************)
(* What the service promises as long as stop() waits for its capture       *)
(* thread ("stall" is not among the faults): speech is in one place and    *)
(* becomes text once, the threads keep out of each other's way, and the    *)
(* service implements Dictation and VoiceService.                          *)
(***************************************************************************)

(***************************************************************************)
(* Who runs: a capture thread only while the pipeline's isRunning says so, *)
(* or while the main thread is about to join it; isRunning only while the  *)
(* service is not IDLE, or is just about to leave IDLE.                    *)
(***************************************************************************)
MainLabels == {"ready", "open", "started", "failed", "join", "flush", "claim",
               "snapshot", "submit", "idle", "release", "destroy", "free",
               "shutdown", "done"}
WorkerLabels == {"new", "loop", "read", "chunk", "claim", "snapshot", "submit",
                 "interim", "unlock", "done"}
Passing == {"claim", "snapshot", "submit"}
Stopping == {"join", "flush", "claim", "snapshot", "submit", "idle"}

RunInv ==
    /\ pc[Main] \in MainLabels
    /\ \A w \in Workers : pc[w] \in WorkerLabels
    /\ isRunning => /\ pipeline /\ workerThread \in Workers
                    /\ pc[Main] \in {"ready", "open", "started"}
                    /\ state # "IDLE" \/ pc[Main] = "started"
    /\ pc[Main] = "join" => workerThread \in Workers
    /\ \A w \in Workers : Capturing(w) =>
          w = workerThread /\ (isRunning \/ pc[Main] = "join")
    /\ \A w \in Workers : starts < w => pc[w] = "new"
    /\ \A w \in Workers : pc[w] \in Passing => ret[w] # "ready"
    /\ shut => pc[Main] = "done"
    /\ pc[Main] \in Stopping => state # "IDLE"
    /\ life = "created" => pc[Main] = "ready" /\ ~isRunning /\ ~isTranscribing

(***************************************************************************)
(* Where speech is: what was committed was heard before what is on its way *)
(* to a commit, that before what is in the buffer, and that before the     *)
(* chunk a capture thread has read and not yet buffered.                   *)
(***************************************************************************)
Ascending(s) == \A i, j \in 1..Len(s) : i < j => s[i] < s[j]
UpTo(s, n) == \A i \in 1..Len(s) : s[i] <= n
Before(s, t) == \A i \in 1..Len(s), j \in 1..Len(t) : s[i] < t[j]

Pending(w) ==
    \/ pc[w] = "chunk"
    \/ pc[w] \in Passing /\ ret[w] = "chunk"
Older(s) == \A w \in Workers : Pending(w) => \A i \in 1..Len(s) : s[i] < chunk[w]

Settled(s) ==
    /\ Ascending(s) /\ UpTo(s, heard) /\ Len(s) \in 1..MaxSpeech
    /\ Before(committed, s) /\ Before(s, audioBuffer) /\ Older(s)

SpeechInv ==
    /\ Ascending(committed) /\ UpTo(committed, heard)
    /\ Ascending(audioBuffer) /\ UpTo(audioBuffer, heard)
    /\ Before(committed, audioBuffer)
    /\ Older(committed) /\ Older(audioBuffer)
    /\ \A w \in Workers : Pending(w) => chunk[w] <= heard
    /\ \A s \in FinalSamples : Settled(s)

VoiceInv == TypeInv /\ InferenceExclusive /\ BufferBounded /\ RunInv /\ SpeechInv

-----------------------------------------------------------------------------
(* RunInv is inductive.                                                    *)

\* A step that moves no thread, and takes the service neither to IDLE nor
\* back to its creation.
LEMMA RunFrame ==
  ASSUME RunInv,
         UNCHANGED <<pc, ret, isRunning, workerThread, starts, shut, pipeline>>,
         state' = state \/ state' # "IDLE",
         life' = "created" => life = "created" /\ (isTranscribing' => isTranscribing)
  PROVE  RunInv'
  BY DEF RunInv, Capturing

\* A capture thread goes on.
LEMMA RunWorker ==
  ASSUME TypeInv, RunInv, NEW w \in Workers, Capturing(w),
         NEW l \in WorkerLabels, l # "new", Goto(w, l),
         l \in Passing => ret'[w] # "ready",
         \A v \in Workers : v # w => ret'[v] = ret[v],
         UNCHANGED <<isRunning, workerThread, starts, shut, pipeline, life>>,
         state' = state \/ state' # "IDLE"
  PROVE  RunInv'
<1>1. /\ pc'[Main] = pc[Main] /\ pc'[w] = l
      /\ \A v \in Workers : v # w => pc'[v] = pc[v]
  BY ThreadFacts DEF Goto, TypeInv, TypeOK, ThreadsType
<1>2. life # "created"
  BY DEF RunInv
<1>3. /\ \A v \in Workers : pc'[v] \in WorkerLabels
      /\ \A v \in Workers : Capturing(v)' => Capturing(v)
      /\ \A v \in Workers : starts < v => pc'[v] = "new"
  BY <1>1 DEF RunInv, Capturing
<1> QED
  BY <1>1, <1>2, <1>3 DEF RunInv

\* The main thread goes on; "open" and "started" are for those who start.
LEMMA RunMain ==
  ASSUME TypeInv, RunInv, NEW l \in MainLabels, Goto(Main, l),
         UNCHANGED <<isRunning, workerThread, starts>>,
         \A v \in Workers : ret'[v] = ret[v],
         life' # "created",
         pc[Main] # "join",
         isRunning => /\ pipeline' /\ l \in {"ready", "open", "started"}
                      /\ state' # "IDLE" \/ l = "started",
         l # "join",
         shut' => l = "done",
         l \in Stopping => state' # "IDLE"
  PROVE  RunInv'
<1>1. pc'[Main] = l /\ \A v \in Workers : pc'[v] = pc[v]
  BY ThreadFacts DEF Goto, TypeInv, TypeOK, ThreadsType
<1>2. \A v \in Workers : Capturing(v)' = Capturing(v)
  BY <1>1 DEF Capturing
<1> QED
  BY <1>1, <1>2 DEF RunInv

LEMMA RunStops ==
  ASSUME TypeInv, RunInv, Stops
  PROVE  RunInv'
<1>1. PICK next \in {"ready", "release", "destroy"} : StopRecording(next)
  BY StopsStop
<1>2. /\ pc[Main] = "ready" /\ life # "created" /\ life' # "created"
  BY DEF Stops, CmdStop, UnregisterClient, Unbind, ForceRelease, IdleTimeout, Destroy, Ready
<1>3. UNCHANGED <<state, pipeline, workerThread, starts, shut, isTranscribing>>
  BY <1>1 DEF StopRecording, inferVars
<1>4. ~shut /\ \A v \in Workers : ret'[v] = ret[v]
  BY <1>1, <1>2, ThreadFacts DEF RunInv, StopRecording, TypeInv, TypeOK, ThreadsType
<1>5. CASE state = "IDLE"
  <2>1. Goto(Main, next) /\ UNCHANGED isRunning /\ ~isRunning
    BY <1>1, <1>2, <1>5 DEF StopRecording, RunInv
  <2>2. next \in MainLabels /\ next # "join" /\ next \notin Stopping
    BY DEF MainLabels, Stopping
  <2> QED
    BY <1>2, <1>3, <1>4, <2>1, <2>2, RunMain
<1>6. CASE state # "IDLE" /\ StopNeeded
  <2>1. Goto(Main, "join") /\ isRunning' = FALSE /\ isRunning
    BY <1>1, <1>6 DEF StopRecording, StopNeeded
  <2>2. pc'[Main] = "join" /\ \A v \in Workers : pc'[v] = pc[v]
    BY <2>1, ThreadFacts DEF Goto, TypeInv, TypeOK, ThreadsType
  <2>3. \A v \in Workers : Capturing(v)' = Capturing(v)
    BY <2>2 DEF Capturing
  <2> QED
    BY <1>2, <1>3, <1>4, <1>6, <2>1, <2>2, <2>3 DEF RunInv, MainLabels, Stopping
<1>7. CASE state # "IDLE" /\ ~StopNeeded
  <2>1. Goto(Main, "flush") /\ UNCHANGED isRunning /\ ~isRunning
    BY <1>1, <1>7 DEF StopRecording, StopNeeded, RunInv
  <2>2. "flush" \in MainLabels
    BY DEF MainLabels
  <2> QED
    BY <1>2, <1>3, <1>4, <1>7, <2>1, <2>2, RunMain
<1> QED
  BY <1>5, <1>6, <1>7

LEMMA RunOpenNew ==
  ASSUME TypeInv, RunInv, OpenNew
  PROVE  RunInv'
<1>1. /\ pc[Main] = "open" /\ starts' = starts + 1 /\ workerThread' = starts'
      /\ isRunning' = TRUE /\ ~isRunning /\ pipeline
      /\ pc' = [pc EXCEPT ![Main] = "started", ![starts'] = "loop"]
      /\ UNCHANGED <<life, state, pipeline, shut, ret>>
  BY DEF OpenNew, serviceVars, inferVars
<1>2. starts' \in Workers /\ starts \in Nat
  BY <1>1, VoiceAssumption DEF TypeInv, TypeOK, CountersType, CallInv, Workers
<1>3. /\ pc'[Main] = "started" /\ pc'[starts'] = "loop"
      /\ \A v \in Workers : v # starts' => pc'[v] = pc[v]
  BY <1>1, <1>2, ThreadFacts DEF TypeInv, TypeOK, ThreadsType
<1>4. life # "created" /\ ~shut
  BY <1>1 DEF RunInv
<1>5. \A v \in Workers : Capturing(v)' => v = starts'
  BY <1>1, <1>3 DEF RunInv, Capturing
<1>6. \A v \in Workers : starts' < v => pc'[v] = "new"
  <2> SUFFICES ASSUME NEW v \in Workers, starts' < v
               PROVE  pc'[v] = "new"
    OBVIOUS
  <2>1. starts < v /\ v # starts'
    BY <1>1, <1>2 DEF Workers
  <2> QED
    BY <1>3, <2>1 DEF RunInv
<1>7. \A v \in Workers : /\ pc'[v] \in WorkerLabels
                         /\ pc'[v] \in Passing => ret'[v] # "ready"
  BY <1>1, <1>3 DEF RunInv, WorkerLabels, Passing
<1>8. \A v \in Workers : Capturing(v)' => v = workerThread' /\ isRunning'
  BY <1>1, <1>5
<1>9. ~shut' /\ life' # "created" /\ pipeline' /\ workerThread' \in Workers
  BY <1>1, <1>2, <1>4
<1>10. pc'[Main] \in MainLabels /\ pc'[Main] \notin Stopping
  BY <1>3 DEF MainLabels, Stopping
<1> QED
  BY <1>1, <1>3, <1>6, <1>7, <1>8, <1>9, <1>10 DEF RunInv

LEMMA RunOpenThrows ==
  ASSUME TypeInv, RunInv, OpenThrows
  PROVE  RunInv'
<1>1. /\ pc[Main] = "open" /\ starts' = starts + 1 /\ ~isRunning
      /\ Goto(Main, "failed")
      /\ UNCHANGED <<life, state, pipeline, shut, isRunning, workerThread, ret>>
  BY DEF OpenThrows, serviceVars, inferVars
<1>2. pc'[Main] = "failed" /\ \A v \in Workers : pc'[v] = pc[v]
  BY <1>1, ThreadFacts DEF Goto, TypeInv, TypeOK, ThreadsType
<1>3. \A v \in Workers : starts' < v => pc'[v] = "new"
  <2> SUFFICES ASSUME NEW v \in Workers, starts' < v
               PROVE  pc'[v] = "new"
    OBVIOUS
  <2>1. starts < v
    BY <1>1 DEF Workers, TypeInv, TypeOK, CountersType
  <2> QED
    BY <1>2, <2>1 DEF RunInv
<1>4. \A v \in Workers : Capturing(v)' => FALSE
  BY <1>1, <1>2 DEF RunInv, Capturing
<1>5. life # "created" /\ ~shut
  BY <1>1 DEF RunInv
<1> QED
  BY <1>1, <1>2, <1>3, <1>4, <1>5 DEF RunInv, MainLabels, Stopping

\* The join returns when the thread has ended, so that none captures.
LEMMA RunJoin ==
  ASSUME "stall" \notin Faults, TypeInv, RunInv, JoinWorker
  PROVE  RunInv' /\ \A w \in Workers : ~Capturing(w)
<1>1. /\ pc[Main] = "join" /\ pc[workerThread] = "done" /\ Goto(Main, "flush")
      /\ UNCHANGED <<life, state, pipeline, shut, isRunning, starts, ret>>
  BY DEF JoinWorker, Joined, serviceVars, inferVars
<1>2. pc'[Main] = "flush" /\ \A v \in Workers : pc'[v] = pc[v]
  BY <1>1, ThreadFacts DEF Goto, TypeInv, TypeOK, ThreadsType
<1>3. \A v \in Workers : ~Capturing(v) /\ ~Capturing(v)'
  BY <1>1, <1>2 DEF RunInv, Capturing
<1>4. ~isRunning /\ life # "created" /\ ~shut /\ state # "IDLE"
  BY <1>1 DEF RunInv, Stopping
<1> QED
  BY <1>1, <1>2, <1>3, <1>4 DEF RunInv, MainLabels, Stopping

LEMMA RunMainSteps ==
  ASSUME TypeInv, RunInv,
         \/ StartRecording \/ OpenRunning \/ OpenFails \/ FinishStart \/ FlushSpeech
         \/ FinishStop \/ ReleasePipeline \/ FreeModel \/ ShutdownExecutor
  PROVE  RunInv'
<1>1. UNCHANGED <<isRunning, workerThread, starts, life, ret>>
  BY DEF StartRecording, OpenRunning, OpenFails, FinishStart, FlushSpeech, FinishStop,
     ReleasePipeline, FreeModel, ShutdownExecutor, serviceVars, captureVars
<1>2. life # "created"
  BY DEF StartRecording, OpenRunning, OpenFails, FinishStart, FlushSpeech, FinishStop,
     ReleasePipeline, FreeModel, ShutdownExecutor, RunInv
<1> USE DEF RunInv, MainLabels, Stopping
<1>3. CASE StartRecording
  <2>1. Goto(Main, "open") /\ pc[Main] = "ready" /\ UNCHANGED <<state, pipeline, shut>>
    BY <1>3 DEF StartRecording, Ready, inferVars
  <2> QED
    BY <1>1, <1>2, <2>1, RunMain
<1>4. CASE OpenRunning
  <2>1. Goto(Main, "started") /\ pc[Main] = "open" /\ UNCHANGED <<state, pipeline, shut>>
    BY <1>4 DEF OpenRunning, serviceVars, inferVars
  <2> QED
    BY <1>1, <1>2, <2>1, RunMain
<1>5. CASE OpenFails
  <2>1. /\ Goto(Main, "failed") /\ pc[Main] = "open" /\ ~isRunning
        /\ UNCHANGED <<state, pipeline, shut>>
    BY <1>5 DEF OpenFails, serviceVars, inferVars
  <2> QED
    BY <1>1, <1>2, <2>1, RunMain
<1>6. CASE FinishStart
  <2>1. /\ Goto(Main, "ready") /\ pc[Main] \in {"started", "failed"} /\ state' # "IDLE"
        /\ UNCHANGED <<pipeline, shut>>
    BY <1>6 DEF FinishStart, inferVars
  <2> QED
    BY <1>1, <1>2, <2>1, RunMain
<1>7. CASE FlushSpeech
  <2>1. Goto(Main, "claim") /\ pc[Main] = "flush" /\ UNCHANGED <<state, pipeline, shut>>
    BY <1>7 DEF FlushSpeech, Goto, serviceVars, inferVars
  <2> QED
    BY <1>1, <1>2, <2>1, RunMain
<1>8. CASE FinishStop
  <2>1. Goto(Main, ret[Main]) /\ pc[Main] = "idle" /\ UNCHANGED <<pipeline, shut>>
    BY <1>8 DEF FinishStop, inferVars
  <2>2. ret[Main] \in {"ready", "release", "destroy"}
    BY DEF TypeInv, CallInv
  <2> QED
    BY <1>1, <1>2, <2>1, <2>2, RunMain
<1>9. CASE ReleasePipeline
  <2>1. /\ Goto(Main, IF pc[Main] = "destroy" THEN "free" ELSE "ready")
        /\ pc[Main] \in {"release", "destroy"} /\ UNCHANGED <<state, shut>>
    BY <1>9 DEF ReleasePipeline, inferVars
  <2> QED
    BY <1>1, <1>2, <2>1, RunMain
<1>10. CASE FreeModel
  <2>1. Goto(Main, "shutdown") /\ pc[Main] = "free" /\ UNCHANGED <<state, pipeline, shut>>
    BY <1>10 DEF FreeModel, serviceVars
  <2> QED
    BY <1>1, <1>2, <2>1, RunMain
<1>11. CASE ShutdownExecutor
  <2>1. Goto(Main, "done") /\ pc[Main] = "shutdown" /\ UNCHANGED <<state, pipeline>>
    BY <1>11 DEF ShutdownExecutor, serviceVars
  <2> QED
    BY <1>1, <1>2, <2>1, RunMain
<1> QED
  BY <1>3, <1>4, <1>5, <1>6, <1>7, <1>8, <1>9, <1>10, <1>11

\* A pass, on the main thread or a capture thread; none finds the executor shut down.
LEMMA RunPass ==
  ASSUME TypeInv, RunInv, NEW t \in Threads, Trigger(t)
  PROVE  RunInv' /\ ~shut
<1>1. UNCHANGED <<isRunning, workerThread, starts, life, state, pipeline, shut, ret>>
  BY DEF Trigger, Claim, Snapshot, Submit, serviceVars, captureVars, inferVars
<1>2. pc[t] \in {"claim", "snapshot", "submit"}
  BY DEF Trigger, Claim, Snapshot, Submit
<1>3. CASE t = Main
  <2>1. ~shut
    BY <1>2, <1>3 DEF RunInv
  <2>2. \E l \in {"snapshot", "submit", "idle"} : Goto(Main, l)
    BY <1>3, <2>1 DEF Trigger, Claim, Snapshot, Submit, Return
  <2>3. /\ ~isRunning /\ life # "created" /\ state # "IDLE"
    BY <1>2, <1>3 DEF RunInv, Stopping
  <2> QED
    BY <1>1, <1>2, <1>3, <2>1, <2>2, <2>3, RunMain DEF MainLabels
<1>4. CASE t # Main
  <2>1. t \in Workers
    BY <1>4, VoiceAssumption DEF Main, Threads, Workers
  <2>2. Capturing(t)
    BY <1>2 DEF Capturing
  <2>3. ~shut
    BY <2>1, <2>2 DEF RunInv
  <2>4. ret[t] \in WorkerLabels \ {"new"}
    BY <1>2, <2>1 DEF RunInv, Passing, TypeInv, CallInv, WorkerLabels
  <2>5. /\ \E l \in WorkerLabels \ {"new"} : Goto(t, l)
        /\ ret[t] # "ready"
    BY <1>2, <1>4, <2>1, <2>3, <2>4 DEF Trigger, Claim, Snapshot, Submit, Return, WorkerLabels, RunInv, Passing
  <2> QED
    BY <1>1, <2>1, <2>2, <2>3, <2>5, RunWorker
<1> QED
  BY <1>3, <1>4

LEMMA RunCapture ==
  ASSUME TypeInv, RunInv, NEW w \in Workers, Capture(w)
  PROVE  RunInv' /\ Capturing(w)
<1>1. UNCHANGED <<isRunning, workerThread, starts, life, pipeline, shut>>
  BY DEF Capture, LoopTop, ReadChunk, ReadNothing, ReadError, BufferChunk,
     BufferFull, Unlock, InterimPass, NoInterimPass, serviceVars, captureVars, inferVars
<1>2. Capturing(w)
  BY DEF Capture, LoopTop, ReadChunk, ReadNothing, ReadError, BufferChunk,
     BufferFull, Unlock, InterimPass, NoInterimPass, Capturing
<1>3. state' = state \/ state' # "IDLE"
  BY DEF Capture, LoopTop, ReadChunk, ReadNothing, ReadError, BufferChunk,
     BufferFull, Unlock, InterimPass, NoInterimPass, serviceVars
<1>4. \E l \in WorkerLabels \ {"new"} :
         Goto(w, l) /\ (l \in Passing => ret'[w] # "ready")
  BY ThreadFacts DEF Capture, LoopTop, ReadChunk, ReadNothing, ReadError, BufferChunk,
     BufferFull, Unlock, InterimPass, NoInterimPass, WorkerLabels, Passing,
     TypeInv, TypeOK, ThreadsType
<1>5. \A v \in Workers : v # w => ret'[v] = ret[v]
  BY ThreadFacts DEF Capture, LoopTop, ReadChunk, ReadNothing, ReadError, BufferChunk,
     BufferFull, Unlock, InterimPass, NoInterimPass, TypeInv, TypeOK, ThreadsType
<1> QED
  BY <1>1, <1>2, <1>3, <1>4, <1>5, RunWorker

LEMMA RunStep ==
  ASSUME "stall" \notin Faults, TypeInv, RunInv, Next
  PROVE  RunInv'
<1>1. CASE Bind \/ RegisterClient \/ PauseRecording \/ ResumeRecording \/ SetGain
  <2>1. UNCHANGED <<pc, ret, isRunning, workerThread, starts, shut, pipeline>>
    BY <1>1 DEF Bind, RegisterClient, PauseRecording, ResumeRecording, SetGain,
       captureVars, threadVars, inferVars
  <2>2. (state' = state \/ state' # "IDLE") /\ life' # "created"
    BY <1>1 DEF Bind, RegisterClient, PauseRecording, ResumeRecording, SetGain
  <2> QED
    BY <2>1, <2>2, RunFrame
<1>2. CASE Executor
  <2>1. UNCHANGED <<pc, ret, isRunning, workerThread, starts, shut, pipeline, state, life>>
    BY <1>2 DEF Executor, TakeTask, LoadBegins, LoadEnds, InferWithoutModel, InferBegins,
       InferEnds, serviceVars, captureVars, threadVars
  <2>2. isTranscribing' => isTranscribing
    BY <1>2 DEF Executor, TakeTask, LoadBegins, LoadEnds, InferWithoutModel, InferBegins,
       InferEnds
  <2> QED
    BY <2>1, <2>2, RunFrame
<1> QED
  BY NextActions, <1>1, <1>2, RunStops, RunOpenNew, RunOpenThrows, RunJoin, RunMainSteps,
     RunPass, RunCapture DEF Executor, Trigger

LEMMA RunStutter == RunInv /\ UNCHANGED vars => RunInv'
  BY RunFrame DEF vars, serviceVars, captureVars, inferVars, threadVars

LEMMA RunInit == Init => RunInv
  BY ThreadFacts, VoiceAssumption
  DEF Init, RunInv, MainLabels, WorkerLabels, Stopping, Capturing, Passing

-----------------------------------------------------------------------------
(* SpeechInv is inductive.                                                 *)

LEMMA ChunkNat ==
  ASSUME NEW s \in Seq(Chunk), NEW i \in 1..Len(s)
  PROVE  s[i] \in Nat
<1>1. s[i] \in Chunk
  OBVIOUS
<1> QED
  BY <1>1 DEF Chunk

LEMMA FinalPlaces ==
  ASSUME NEW s
  PROVE  s \in FinalSamples <=>
           \/ \E t \in Threads : pc[t] = "submit" /\ isFinalPass[t] /\ s = samplesCopy[t]
           \/ \E i \in 1..Len(queue) :
                 IsInference(queue[i]) /\ queue[i].final /\ s = queue[i].samples
           \/ IsInference(running) /\ running.final /\ s = running.samples
  BY DEF FinalSamples

LEMMA FinalType ==
  ASSUME TypeInv
  PROVE  \A s \in FinalSamples : s \in Seq(Chunk)
<1>1. \A t \in Threads : samplesCopy[t] \in Seq(Chunk)
  BY DEF TypeInv, TypeOK, SamplesType
<1>2. \A i \in 1..Len(queue) : queue[i].samples \in Seq(Chunk)
  <2>1. \A i \in 1..Len(queue) : queue[i] \in Task
    BY DEF TypeInv, TypeOK, SamplesType
  <2> QED
    BY <2>1 DEF Task
<1>3. running.samples \in Seq(Chunk)
  BY DEF TypeInv, TypeOK, SamplesType, Task
<1> QED
  BY <1>1, <1>2, <1>3, FinalPlaces

LEMMA PendingCaptures == \A w \in Workers : Pending(w) => Capturing(w)
  BY DEF Pending, Capturing, Passing

\* Whatever was heard stays older than what a thread may still buffer, and a
\* thread only ever gets something to buffer that was not heard before.
LEMMA HeardStays ==
  ASSUME NEW s \in Seq(Chunk), UpTo(s, heard), Older(s), heard \in Nat, heard' \in Nat,
         heard <= heard',
         \A w \in Workers : Pending(w)' =>
            \/ Pending(w) /\ chunk'[w] = chunk[w]
            \/ chunk'[w] = heard' /\ heard < heard'
  PROVE  UpTo(s, heard)' /\ Older(s)'
<1>1. \A i \in 1..Len(s) : s[i] \in Nat
  BY ChunkNat
<1>2. \A i \in 1..Len(s) : s[i] <= heard'
  BY <1>1 DEF UpTo
<1>3. ASSUME NEW w \in Workers, Pending(w)', NEW i \in 1..Len(s)
      PROVE  s[i] < chunk'[w]
  BY <1>1, <1>3 DEF UpTo, Older
<1> QED
  BY <1>2, <1>3 DEF UpTo, Older

\* A step that commits nothing and adds nothing to the buffer; what leaves
\* the buffer may be on its way to a commit.
LEMMA SpeechFrame ==
  ASSUME TypeInv, SpeechInv, committed' = committed,
         audioBuffer' = audioBuffer \/ audioBuffer' = <<>>,
         heard' \in Nat, heard <= heard',
         \A w \in Workers : Pending(w)' =>
            \/ Pending(w) /\ chunk'[w] = chunk[w]
            \/ chunk'[w] = heard' /\ heard < heard',
         \A s \in FinalSamples' :
            \/ s \in FinalSamples
            \/ s = audioBuffer /\ audioBuffer' = <<>> /\ Len(audioBuffer) \in 1..MaxSpeech
  PROVE  SpeechInv'
<1>1. heard \in Nat /\ committed \in Seq(Chunk) /\ audioBuffer \in Seq(Chunk)
  BY DEF TypeInv, TypeOK, SamplesType, CountersType
<1>2. UpTo(committed, heard)' /\ Older(committed)'
  BY <1>1, HeardStays DEF SpeechInv
<1>3. UpTo(audioBuffer, heard') /\ \A w \in Workers : Pending(w)' =>
         \A i \in 1..Len(audioBuffer) : audioBuffer[i] < chunk'[w]
  <2> DEFINE b == audioBuffer
  <2>1. \A s \in Seq(Chunk) : UpTo(s, heard) /\ Older(s) => UpTo(s, heard)' /\ Older(s)'
    BY <1>1, HeardStays
  <2> QED
    BY <1>1, <2>1 DEF SpeechInv, UpTo, Older
<1>4. /\ Ascending(audioBuffer)' /\ UpTo(audioBuffer, heard)'
      /\ Before(committed, audioBuffer)' /\ Older(audioBuffer)'
  <2>1. CASE audioBuffer' = audioBuffer
    BY <1>3, <2>1 DEF SpeechInv, Ascending, UpTo, Before, Older
  <2>2. CASE audioBuffer' = <<>>
    BY <2>2 DEF Ascending, UpTo, Before, Older
  <2> QED
    BY <2>1, <2>2
<1>5. \A w \in Workers : Pending(w)' => chunk'[w] <= heard'
  <2> SUFFICES ASSUME NEW w \in Workers, Pending(w)' PROVE chunk'[w] <= heard'
    OBVIOUS
  <2>1. CASE Pending(w) /\ chunk'[w] = chunk[w]
    <3>1. chunk[w] \in Nat /\ chunk[w] <= heard
      BY <2>1, ThreadFacts, VoiceAssumption DEF SpeechInv, TypeInv, TypeOK, ThreadsType
    <3> QED
      BY <1>1, <2>1, <3>1
  <2>2. CASE chunk'[w] = heard'
    BY <2>2
  <2> QED
    BY <2>1, <2>2
<1>6. ASSUME NEW s \in FinalSamples'
      PROVE  Settled(s)'
  <2>1. CASE s \in FinalSamples
    <3>1. Settled(s) /\ s \in Seq(Chunk)
      BY <2>1, FinalType DEF SpeechInv
    <3>2. UpTo(s, heard)' /\ Older(s)'
      BY <1>1, <3>1, HeardStays DEF Settled
    <3>3. Before(s, audioBuffer)'
      BY <3>1 DEF Settled, Before
    <3> QED
      BY <3>1, <3>2, <3>3 DEF Settled, Ascending, Before
  <2>2. CASE s = audioBuffer /\ audioBuffer' = <<>> /\ Len(audioBuffer) \in 1..MaxSpeech
    <3>1. Ascending(s) /\ Before(committed, s) /\ Len(s) \in 1..MaxSpeech
      BY <2>2 DEF SpeechInv
    <3>2. UpTo(s, heard)' /\ Older(s)'
      BY <1>3, <2>2 DEF UpTo, Older
    <3>3. Before(s, audioBuffer)'
      BY <2>2 DEF Before
    <3> QED
      BY <3>1, <3>2, <3>3 DEF Settled, Ascending, Before
  <2> QED
    BY <2>1, <2>2
<1>7. Ascending(committed)'
  BY DEF SpeechInv, Ascending
<1> QED
  BY <1>2, <1>4, <1>5, <1>6, <1>7 DEF SpeechInv

\* Only reading a chunk gives a thread something to buffer.
LEMMA PendingStep ==
  ASSUME TypeInv, RunInv, Next, \A v \in Workers : ~ReadChunk(v), NEW w \in Workers, Pending(w)'
  PROVE  Pending(w) /\ chunk'[w] = chunk[w]
<1> USE DEF Pending, Passing
<1>1. CASE Bind \/ RegisterClient \/ PauseRecording \/ ResumeRecording \/ SetGain \/ Executor
  BY <1>1 DEF Bind, RegisterClient, PauseRecording, ResumeRecording, SetGain, Executor, TakeTask,
     LoadBegins, LoadEnds, InferWithoutModel, InferBegins, InferEnds, threadVars, localVars
<1>2. CASE StartRecording \/ OpenRunning \/ OpenFails \/ OpenThrows \/ FinishStart
           \/ JoinWorker \/ FlushSpeech \/ FinishStop \/ ReleasePipeline \/ FreeModel
           \/ ShutdownExecutor
  <2>1. UNCHANGED <<ret, chunk>> /\ pc'[w] = pc[w]
    BY <1>2, ThreadFacts DEF StartRecording, OpenRunning, OpenFails, OpenThrows, FinishStart,
       JoinWorker, FlushSpeech, FinishStop, ReleasePipeline, FreeModel, ShutdownExecutor,
       Goto, localVars, TypeInv, TypeOK, ThreadsType
  <2> QED
    BY <2>1
<1>3. CASE Stops
  <2>1. PICK next \in {"ready", "release", "destroy"} : StopRecording(next)
    BY <1>3, StopsStop
  <2>2. ret'[w] = ret[w] /\ pc'[w] = pc[w] /\ chunk' = chunk
    BY <2>1, ThreadFacts DEF StopRecording, Goto, localVars, TypeInv, TypeOK, ThreadsType
  <2> QED
    BY <2>2
<1>4. CASE OpenNew
  <2>1. UNCHANGED <<ret, chunk>> /\ (pc'[w] = pc[w] \/ pc'[w] = "loop")
    BY <1>4, ThreadFacts DEF OpenNew, localVars, TypeInv, TypeOK, ThreadsType
  <2> QED
    BY <2>1
<1>5. ASSUME NEW t \in Threads, Trigger(t)
      PROVE  Pending(w) /\ chunk'[w] = chunk[w]
  <2>1. /\ UNCHANGED <<ret, chunk>> /\ pc[t] \in Passing
        /\ \E l : Goto(t, l) /\ l \in Passing \union {Return(t), "crashed"}
    BY <1>5 DEF Trigger, Claim, Snapshot, Submit, localVars
  <2>2. CASE t = w
    <3>1. pc'[w] \in Passing \union {ret[w], "crashed"}
      BY <2>1, <2>2, ThreadFacts DEF Goto, Return, TypeInv, TypeOK, ThreadsType
    <3> QED
      BY <2>1, <2>2, <3>1
  <2>3. CASE t # w
    <3>1. pc'[w] = pc[w]
      BY <2>1, <2>3 DEF Goto, TypeInv, TypeOK, ThreadsType
    <3> QED
      BY <2>1, <3>1
  <2> QED
    BY <2>2, <2>3
<1>6. ASSUME NEW v \in Workers, Capture(v)
      PROVE  Pending(w) /\ chunk'[w] = chunk[w]
  <2>1. UNCHANGED chunk
    BY <1>6 DEF Capture, LoopTop, ReadNothing, ReadError, BufferChunk, BufferFull, Unlock,
       InterimPass, NoInterimPass, localVars
  <2>2. CASE v = w
    <3>1. pc'[w] \notin {"chunk", "snapshot", "submit"} /\ (pc'[w] = "claim" => ret'[w] # "chunk")
      BY <1>6, <2>2, ThreadFacts DEF Capture, LoopTop, ReadNothing, ReadError, BufferChunk,
         BufferFull, Unlock, InterimPass, NoInterimPass, Goto, TypeInv, TypeOK, ThreadsType
    <3> QED
      BY <3>1
  <2>3. CASE v # w
    <3>1. pc'[w] = pc[w] /\ ret'[w] = ret[w]
      BY <1>6, <2>3, ThreadFacts DEF Capture, LoopTop, ReadNothing, ReadError, BufferChunk,
         BufferFull, Unlock, InterimPass, NoInterimPass, Goto, TypeInv, TypeOK, ThreadsType
    <3> QED
      BY <2>1, <3>1
  <2> QED
    BY <2>2, <2>3
<1> QED
  BY NextActions, <1>1, <1>2, <1>3, <1>4, <1>5, <1>6 DEF Executor, Trigger

\* What a thread about to hand over speech holds, it held before or has just
\* copied from the buffer.
Copies(t) == /\ Snapshot(t) /\ samplesCopy'[t] = audioBuffer /\ audioBuffer' = Leftover(t)
             /\ MinSpeech <= Len(audioBuffer)

LEMMA SubmitStays ==
  ASSUME TypeInv, Next, NEW t \in Threads, pc'[t] = "submit"
  PROVE  /\ isFinalPass'[t] = isFinalPass[t]
         /\ Copies(t) \/ (pc[t] = "submit" /\ samplesCopy'[t] = samplesCopy[t])
<1>0. \A u \in Threads : Return(u) # "submit"
  BY ReturnLabel DEF TypeInv
<1>1. CASE Bind \/ RegisterClient \/ PauseRecording \/ ResumeRecording \/ SetGain \/ Executor
  BY <1>1 DEF Bind, RegisterClient, PauseRecording, ResumeRecording, SetGain, Executor, TakeTask,
     LoadBegins, LoadEnds, InferWithoutModel, InferBegins, InferEnds, threadVars, localVars
<1>2. CASE \/ StartRecording \/ OpenRunning \/ OpenNew \/ OpenFails \/ OpenThrows \/ FinishStart
           \/ JoinWorker \/ FinishStop \/ ReleasePipeline \/ FreeModel \/ ShutdownExecutor
  <2>1. UNCHANGED <<isFinalPass, samplesCopy>> /\ pc[t] = "submit"
    BY <1>2, ThreadFacts DEF StartRecording, OpenRunning, OpenNew, OpenFails, OpenThrows, FinishStart,
       JoinWorker, FinishStop, ReleasePipeline, FreeModel, ShutdownExecutor,
       Goto, localVars, TypeInv, TypeOK, ThreadsType, CallInv
  <2> QED
    BY <2>1
<1>3. CASE FlushSpeech
  <2>1. UNCHANGED samplesCopy /\ pc[t] = "submit" /\ isFinalPass'[t] = isFinalPass[t]
    BY <1>3, ThreadFacts DEF FlushSpeech, TypeInv, TypeOK, ThreadsType
  <2> QED
    BY <2>1
<1>4. CASE Stops
  <2>1. PICK next \in {"ready", "release", "destroy"} : StopRecording(next)
    BY <1>4, StopsStop
  <2>2. UNCHANGED <<isFinalPass, samplesCopy>> /\ pc[t] = "submit"
    BY <2>1, ThreadFacts DEF StopRecording, Goto, localVars, TypeInv, TypeOK, ThreadsType
  <2> QED
    BY <2>2
<1>5. ASSUME NEW u \in Threads, Claim(u)
      PROVE  UNCHANGED <<isFinalPass, samplesCopy>> /\ pc[t] = "submit"
  BY <1>0, <1>5 DEF Claim, Goto, localVars, TypeInv, TypeOK, ThreadsType
<1>6. ASSUME NEW u \in Threads, Submit(u)
      PROVE  UNCHANGED isFinalPass /\ pc[t] = "submit" /\ samplesCopy'[t] = samplesCopy[t]
  <2>1. t # u /\ pc[t] = "submit"
    BY <1>0, <1>6 DEF Submit, Goto, TypeInv, TypeOK, ThreadsType
  <2> QED
    BY <1>6, <2>1 DEF Submit, TypeInv, TypeOK, SamplesType
<1>7. ASSUME NEW u \in Threads, Snapshot(u)
      PROVE  /\ isFinalPass'[t] = isFinalPass[t]
             /\ Copies(t) \/ (pc[t] = "submit" /\ samplesCopy'[t] = samplesCopy[t])
  <2>1. UNCHANGED isFinalPass
    BY <1>7 DEF Snapshot
  <2>2. CASE t # u
    BY <1>7, <2>1, <2>2 DEF Snapshot, Goto, TypeInv, TypeOK, ThreadsType, SamplesType
  <2>3. CASE t = u
    <3>1. ~(Len(audioBuffer) < MinSpeech)
      BY <1>0, <1>7, <2>3 DEF Snapshot, Goto, TypeInv, TypeOK, ThreadsType
    <3>2. samplesCopy'[t] = audioBuffer /\ audioBuffer' = Leftover(t)
      BY <1>7, <2>3, <3>1 DEF Snapshot, TypeInv, TypeOK, SamplesType
    <3>3. MinSpeech <= Len(audioBuffer)
      BY <3>1, VoiceAssumption DEF TypeInv, TypeOK, SamplesType
    <3>4. Copies(t)
      BY <1>7, <2>3, <3>2, <3>3 DEF Copies
    <3> QED
      BY <2>1, <3>4
  <2> QED
    BY <2>2, <2>3
<1>8. ASSUME NEW w \in Workers, Capture(w)
      PROVE  isFinalPass'[t] = isFinalPass[t] /\ samplesCopy' = samplesCopy /\ pc[t] = "submit"
  <2>1. UNCHANGED samplesCopy /\ w \in Threads
    BY <1>8, ThreadFacts DEF Capture, LoopTop, ReadChunk, ReadNothing, ReadError, BufferChunk,
       BufferFull, Unlock, InterimPass, NoInterimPass, localVars
  <2>2. t # w /\ pc'[t] = pc[t]
    BY <1>8, <2>1 DEF Capture, LoopTop, ReadChunk, ReadNothing, ReadError, BufferChunk,
       BufferFull, Unlock, InterimPass, NoInterimPass, Goto, TypeInv, TypeOK, ThreadsType
  <2>3. isFinalPass' = isFinalPass \/ \E b : isFinalPass' = [isFinalPass EXCEPT ![w] = b]
    BY <1>8 DEF Capture, LoopTop, ReadChunk, ReadNothing, ReadError, BufferChunk,
       BufferFull, Unlock, InterimPass, NoInterimPass, localVars
  <2> QED
    BY <2>1, <2>2, <2>3 DEF TypeInv, TypeOK, ThreadsType
<1> QED
  BY NextActions, <1>1, <1>2, <1>3, <1>4, <1>5, <1>6, <1>7, <1>8 DEF Executor

\* What is in the executor was there before or has just been handed over.
Held(s) == s \in FinalSamples

LEMMA TasksStay ==
  ASSUME TypeInv, Next
  PROVE  /\ \A i \in 1..Len(queue') : IsInference(queue'[i]) /\ queue'[i].final =>
               Held(queue'[i].samples)
         /\ IsInference(running') /\ running'.final => Held(running'.samples)
<1> DEFINE Queued == \A i \in 1..Len(queue') : IsInference(queue'[i]) /\ queue'[i].final =>
                        Held(queue'[i].samples)
           Runs == IsInference(running') /\ running'.final => Held(running'.samples)
<1>1. queue' = queue => Queued
  BY FinalPlaces DEF Held
<1>2. running' = running => Runs
  BY FinalPlaces DEF Held
<1>3. \A k \in {"load", "init", "none"} : ~IsInference(Other(k))
  BY DEF IsInference, Other
<1>4. queue \in Seq(Task)
  BY DEF TypeInv, TypeOK, SamplesType
<1>5. CASE Bind \/ RegisterClient
  <2>1. queue' = queue \/ queue' = Append(queue, Other("load"))
    BY <1>5 DEF Bind, RegisterClient, LoadActiveModel
  <2>2. ASSUME queue' = Append(queue, Other("load"))
        PROVE  Queued
    <3> SUFFICES ASSUME NEW i \in 1..Len(queue'), IsInference(queue'[i]), queue'[i].final
                 PROVE  Held(queue'[i].samples)
      OBVIOUS
    <3>1. i \in 1..Len(queue) /\ queue'[i] = queue[i]
      BY <1>3, <1>4, <2>2, OtherTask, AppendTask
    <3> QED
      BY <3>1, FinalPlaces DEF Held
  <2> QED
    BY <1>1, <1>2, <1>5, <2>1, <2>2 DEF Bind, RegisterClient
<1>6. CASE TakeTask
  <2>1. running' = queue[1] /\ queue' = Tail(queue) /\ Len(queue) \in Nat /\ Len(queue) >= 1
    BY <1>4, <1>6 DEF TakeTask
  <2>2. Runs
    BY <2>1, FinalPlaces DEF Held
  <2>3. \A i \in 1..Len(queue') : i + 1 \in 1..Len(queue) /\ queue'[i] = queue[i + 1]
    BY <1>4, <2>1
  <2>4. Queued
    BY <2>3, FinalPlaces DEF Held
  <2> QED
    BY <2>2, <2>4
<1>7. CASE LoadBegins \/ LoadEnds \/ InferWithoutModel \/ InferEnds
  <2>1. UNCHANGED queue /\ \E k \in {"load", "init", "none"} : running' = Other(k)
    BY <1>7 DEF LoadBegins, LoadEnds, InferWithoutModel, InferEnds, Idle
  <2> QED
    BY <1>1, <1>3, <2>1
<1>8. CASE InferBegins
  <2>1. UNCHANGED queue /\ running'.final = running.final /\ running'.samples = running.samples
        /\ IsInference(running)
    BY <1>8 DEF InferBegins, IsInference
  <2> QED
    BY <1>1, <2>1, FinalPlaces DEF Held
<1>9. CASE ShutdownExecutor
  <2>1. queue' = <<>> /\ UNCHANGED running
    BY <1>9 DEF ShutdownExecutor
  <2> QED
    BY <1>2, <2>1
<1>10. CASE \/ StartRecording \/ OpenRunning \/ OpenNew \/ OpenFails \/ OpenThrows \/ FinishStart
            \/ JoinWorker \/ FlushSpeech \/ FinishStop \/ ReleasePipeline \/ FreeModel
            \/ PauseRecording \/ ResumeRecording \/ SetGain
  BY <1>1, <1>2, <1>10 DEF StartRecording, OpenRunning, OpenNew, OpenFails, OpenThrows, FinishStart,
     JoinWorker, FlushSpeech, FinishStop, ReleasePipeline, FreeModel, PauseRecording,
     ResumeRecording, SetGain, inferVars
<1>11. CASE Stops
  <2>1. PICK next \in {"ready", "release", "destroy"} : StopRecording(next)
    BY <1>11, StopsStop
  <2> QED
    BY <1>1, <1>2, <2>1 DEF StopRecording, inferVars
<1>12. ASSUME NEW t \in Threads, Claim(t) \/ Snapshot(t)
       PROVE  Queued /\ Runs
  BY <1>1, <1>2, <1>12 DEF Claim, Snapshot, inferVars
<1>13. ASSUME NEW t \in Threads, Submit(t)
       PROVE  Queued /\ Runs
  <2> DEFINE task == [kind |-> "infer", final |-> isFinalPass[t], samples |-> samplesCopy[t]]
  <2>1. UNCHANGED running /\ pc[t] = "submit" /\ (queue' = queue \/ queue' = Append(queue, task))
    BY <1>13 DEF Submit
  <2>2. task \in Task
    BY DEF TypeInv, TypeOK, SamplesType, ThreadsType, Task
  <2>3. task.final => Held(task.samples)
    BY <2>1, FinalPlaces DEF Held
  <2> HIDE DEF task
  <2>4. ASSUME queue' = Append(queue, task)
        PROVE  Queued
    <3> SUFFICES ASSUME NEW i \in 1..Len(queue'), IsInference(queue'[i]), queue'[i].final
                 PROVE  Held(queue'[i].samples)
      OBVIOUS
    <3>1. /\ Len(queue) \in Nat /\ Len(queue') = Len(queue) + 1
          /\ \A j \in 1..Len(queue) : queue'[j] = queue[j]
          /\ queue'[Len(queue) + 1] = task
      BY <1>4, <2>2, <2>4, AppendTask
    <3>2. queue'[i] = task \/ (i \in 1..Len(queue) /\ queue'[i] = queue[i])
      <4>1. i \in 1..Len(queue) \/ i = Len(queue) + 1
        BY <3>1
      <4> QED
        BY <3>1, <4>1
    <3> QED
      BY <2>3, <3>2, FinalPlaces DEF Held
  <2> QED
    BY <1>1, <1>2, <2>1, <2>4
<1>14. ASSUME NEW w \in Workers, Capture(w)
       PROVE  Queued /\ Runs
  BY <1>1, <1>2, <1>14 DEF Capture, LoopTop, ReadChunk, ReadNothing, ReadError, BufferChunk,
     BufferFull, Unlock, InterimPass, NoInterimPass, inferVars
<1> QED
  BY NextActions, <1>5, <1>6, <1>7, <1>8, <1>9, <1>10, <1>11, <1>12, <1>13, <1>14

LEMMA FinalStep ==
  ASSUME TypeInv, Next, NEW s \in FinalSamples'
  PROVE  \/ s \in FinalSamples
         \/ \E t \in Threads : Copies(t) /\ isFinalPass[t] /\ s = audioBuffer
<1>1. CASE \E t \in Threads : pc'[t] = "submit" /\ isFinalPass'[t] /\ s = samplesCopy'[t]
  <2>1. PICK t \in Threads : pc'[t] = "submit" /\ isFinalPass'[t] /\ s = samplesCopy'[t]
    BY <1>1
  <2>2. /\ isFinalPass[t]
        /\ Copies(t) \/ (pc[t] = "submit" /\ samplesCopy'[t] = samplesCopy[t])
    BY <2>1, SubmitStays
  <2> QED
    BY <2>1, <2>2, FinalPlaces DEF Copies
<1>2. CASE \E i \in 1..Len(queue') :
             IsInference(queue'[i]) /\ queue'[i].final /\ s = queue'[i].samples
  BY <1>2, TasksStay DEF Held
<1>3. CASE IsInference(running') /\ running'.final /\ s = running'.samples
  BY <1>3, TasksStay DEF Held
<1> QED
  BY <1>1, <1>2, <1>3 DEF FinalSamples, IsInference

LEMMA CommitsAtEnd ==
  ASSUME Next
  PROVE  UNCHANGED committed \/ InferEnds
<1>1. CASE Stops
  <2>1. PICK next \in {"ready", "release", "destroy"} : StopRecording(next)
    BY <1>1, StopsStop
  <2> QED
    BY <2>1 DEF StopRecording, inferVars
<1>2. CASE \/ Bind \/ RegisterClient \/ StartRecording \/ PauseRecording \/ ResumeRecording
           \/ SetGain \/ OpenRunning \/ OpenNew \/ OpenFails \/ OpenThrows \/ FinishStart
           \/ JoinWorker \/ FlushSpeech \/ FinishStop \/ ReleasePipeline \/ FreeModel
           \/ ShutdownExecutor \/ TakeTask \/ LoadBegins \/ LoadEnds \/ InferWithoutModel
           \/ InferBegins
  BY <1>2 DEF Bind, RegisterClient, StartRecording, PauseRecording, ResumeRecording, SetGain,
     OpenRunning, OpenNew, OpenFails, OpenThrows, FinishStart, JoinWorker, FlushSpeech, FinishStop,
     ReleasePipeline, FreeModel, ShutdownExecutor, TakeTask, LoadBegins, LoadEnds,
     InferWithoutModel, InferBegins, inferVars
<1>3. ASSUME NEW t \in Threads, Claim(t) \/ Snapshot(t) \/ Submit(t)
      PROVE  UNCHANGED committed
  BY <1>3 DEF Claim, Snapshot, Submit, inferVars
<1>4. ASSUME NEW w \in Workers, Capture(w)
      PROVE  UNCHANGED committed
  BY <1>4 DEF Capture, LoopTop, ReadChunk, ReadNothing, ReadError, BufferChunk, BufferFull,
     Unlock, InterimPass, NoInterimPass, inferVars
<1> QED
  BY NextActions, <1>1, <1>2, <1>3, <1>4

LEMMA HeardStep ==
  ASSUME Next
  PROVE  UNCHANGED heard \/ \E w \in Workers : ReadChunk(w)
<1>1. CASE Stops
  <2>1. PICK next \in {"ready", "release", "destroy"} : StopRecording(next)
    BY <1>1, StopsStop
  <2> QED
    BY <2>1 DEF StopRecording
<1>2. CASE \/ Bind \/ RegisterClient \/ StartRecording \/ PauseRecording \/ ResumeRecording
           \/ SetGain \/ OpenRunning \/ OpenNew \/ OpenFails \/ OpenThrows \/ FinishStart
           \/ JoinWorker \/ FlushSpeech \/ FinishStop \/ ReleasePipeline \/ FreeModel
           \/ ShutdownExecutor \/ Executor
  BY <1>2 DEF Bind, RegisterClient, StartRecording, PauseRecording, ResumeRecording, SetGain,
     OpenRunning, OpenNew, OpenFails, OpenThrows, FinishStart, JoinWorker, FlushSpeech, FinishStop,
     ReleasePipeline, FreeModel, ShutdownExecutor, Executor, TakeTask, LoadBegins, LoadEnds,
     InferWithoutModel, InferBegins, InferEnds, captureVars
<1>3. ASSUME NEW t \in Threads, Claim(t) \/ Snapshot(t) \/ Submit(t)
      PROVE  UNCHANGED heard
  BY <1>3 DEF Claim, Snapshot, Submit, captureVars
<1>4. ASSUME NEW w \in Workers, Capture(w), ~ReadChunk(w)
      PROVE  UNCHANGED heard
  BY <1>4 DEF Capture, LoopTop, ReadNothing, ReadError, BufferChunk, BufferFull,
     Unlock, InterimPass, NoInterimPass, captureVars
<1> QED
  BY NextActions, <1>1, <1>2, <1>3, <1>4 DEF Executor

\* What is on its way to a commit was so before, or was the whole buffer.
LEMMA FinalFromBuffer ==
  ASSUME TypeInv, BufferBounded, Next, NEW s \in FinalSamples'
  PROVE  \/ s \in FinalSamples
         \/ s = audioBuffer /\ audioBuffer' = <<>> /\ Len(audioBuffer) \in 1..MaxSpeech
<1>1. ASSUME NEW t \in Threads, Copies(t), isFinalPass[t]
      PROVE  audioBuffer' = <<>> /\ Len(audioBuffer) \in 1..MaxSpeech
  <2>1. audioBuffer' = <<>> /\ MinSpeech <= Len(audioBuffer)
    BY <1>1 DEF Copies, Leftover
  <2> QED
    BY <2>1, VoiceAssumption DEF BufferBounded, TypeInv, TypeOK, SamplesType
<1> QED
  BY <1>1, FinalStep

\* Text is sent, or is not, and nothing else is on its way to be.
LEMMA SpeechCommitted ==
  ASSUME TypeInv, InferenceExclusive, SpeechInv, InferEnds
  PROVE  SpeechInv'
<1>1. /\ UNCHANGED <<audioBuffer, heard, pc, ret, chunk, samplesCopy, isFinalPass, queue>>
      /\ IsInference(running) /\ ~IsInference(running')
  BY DEF InferEnds, captureVars, threadVars, localVars, IsInference, Idle, Other
<1>2. FinalSamples' = {}
  <2>1. \A t \in Threads : pc'[t] # "submit"
    BY <1>1 DEF InferenceExclusive, Claimed
  <2>2. \A i \in 1..Len(queue') : ~IsInference(queue'[i])
    BY <1>1 DEF InferenceExclusive
  <2> QED
    BY <1>1, <2>1, <2>2 DEF FinalSamples, IsInference
<1>4. CASE committed' = committed
  BY <1>1, <1>2, <1>4 DEF SpeechInv, Ascending, UpTo, Before, Older, Pending
<1>5. CASE Commits /\ committed' = committed \o running.samples
  <2> DEFINE s == running.samples
             n == Len(committed)
  <2>1. s \in FinalSamples
    BY <1>1, <1>5, FinalPlaces DEF Commits
  <2>2. s \in Seq(Chunk) /\ committed \in Seq(Chunk)
    BY <2>1, FinalType DEF TypeInv, TypeOK, SamplesType
  <2>3. Settled(s) /\ Ascending(committed) /\ UpTo(committed, heard)
        /\ Before(committed, audioBuffer) /\ Older(committed)
    BY <2>1 DEF SpeechInv
  <2> HIDE DEF s
  <2>4. /\ n \in Nat /\ Len(s) \in Nat /\ Len(committed') = n + Len(s)
        /\ \A i \in 1..n : committed'[i] = committed[i]
        /\ \A i \in 1..Len(s) : committed'[n + i] = s[i]
    BY <1>5, <2>2 DEF s
  <2>5. \A i \in 1..Len(committed') : i \in 1..n \/ (i - n \in 1..Len(s) /\ i = n + (i - n))
    BY <2>4
  <2>6. \A i \in 1..Len(committed') :
           \/ i \in 1..n /\ committed'[i] = committed[i]
           \/ i - n \in 1..Len(s) /\ committed'[i] = s[i - n]
    BY <2>4, <2>5
  <2>7. \A i \in 1..Len(committed') : i - n \in 1..Len(s) => committed'[i] = s[i - n]
    <3> SUFFICES ASSUME NEW i \in 1..Len(committed'), i - n \in 1..Len(s)
                 PROVE  committed'[i] = s[i - n]
      OBVIOUS
    <3>1. i = n + (i - n)
      BY <2>4
    <3> QED
      BY <2>4, <3>1
  <2>8. Ascending(committed')
    <3> SUFFICES ASSUME NEW i \in 1..Len(committed'), NEW j \in 1..Len(committed'), i < j
                 PROVE  committed'[i] < committed'[j]
      BY DEF Ascending
    <3>1. CASE i \in 1..n /\ j \in 1..n
      BY <2>3, <2>4, <3>1 DEF Ascending
    <3>2. CASE i \in 1..n /\ j - n \in 1..Len(s)
      BY <2>3, <2>4, <2>7, <3>2 DEF Settled, Before
    <3>3. CASE i - n \in 1..Len(s) /\ j - n \in 1..Len(s)
      <4>1. i - n < j - n
        BY <2>4, <3>3
      <4> QED
        BY <2>3, <2>7, <3>3, <4>1 DEF Settled, Ascending
    <3> QED
      BY <2>4, <2>5, <3>1, <3>2, <3>3
  <2>9. UpTo(committed', heard) /\ Before(committed', audioBuffer)
        /\ \A w \in Workers : Pending(w) => \A i \in 1..Len(committed') : committed'[i] < chunk[w]
    BY <2>3, <2>6 DEF Settled, UpTo, Before, Older
  <2> QED
    BY <1>1, <1>2, <2>8, <2>9 DEF SpeechInv, Ascending, UpTo, Before, Older, Pending
<1> QED
  BY <1>4, <1>5 DEF InferEnds

\* The only capture thread buffers what it has just read.
LEMMA SpeechBuffered ==
  ASSUME TypeInv, RunInv, SpeechInv, Next, NEW w \in Workers, BufferChunk(w)
  PROVE  SpeechInv'
<1> DEFINE c == chunk[w]
           n == Len(audioBuffer)
<1>1. /\ UNCHANGED <<heard, chunk, ret, committed>> /\ pc[w] = "chunk"
      /\ audioBuffer' = Append(audioBuffer, c)
  BY DEF BufferChunk, captureVars, localVars, inferVars
<1>2. c \in Chunk /\ c <= heard /\ heard \in Nat
  BY <1>1, ThreadFacts, VoiceAssumption
  DEF SpeechInv, Pending, TypeInv, TypeOK, CallInv, ThreadsType, CountersType, Chunk
<1>3. audioBuffer \in Seq(Chunk) /\ committed \in Seq(Chunk)
  BY DEF TypeInv, TypeOK, SamplesType
<1>4. \A v \in Workers : ~Pending(v)'
  <2> SUFFICES ASSUME NEW v \in Workers, Pending(v)' PROVE FALSE
    OBVIOUS
  <2>0. \A u \in Workers : ~ReadChunk(u)
    BY <1>1, <1>2 DEF ReadChunk
  <2>1. Pending(v)
    BY <2>0, PendingStep
  <2>2. Capturing(v) /\ Capturing(w)
    BY <1>1, <2>1, PendingCaptures DEF Pending
  <2>3. v = w
    BY <2>2 DEF RunInv
  <2>4. pc'[w] = "interim"
    BY ThreadFacts DEF BufferChunk, Goto, TypeInv, TypeOK, ThreadsType
  <2> QED
    BY <2>3, <2>4 DEF Pending, Passing
<1>5. /\ n \in Nat /\ Len(audioBuffer') = n + 1 /\ audioBuffer'[n + 1] = c
      /\ \A i \in 1..n : audioBuffer'[i] = audioBuffer[i]
  BY <1>1, <1>2, <1>3
<1>6. Pending(w)
  BY <1>1 DEF Pending
<1>7. \A i \in 1..Len(audioBuffer') : (i \in 1..n /\ audioBuffer'[i] = audioBuffer[i])
                                      \/ (i = n + 1 /\ audioBuffer'[i] = c)
  BY <1>5
<1>8. Ascending(audioBuffer')
  <2>1. Ascending(audioBuffer) /\ \A i \in 1..n : audioBuffer[i] < c
    BY <1>6 DEF SpeechInv, Older
  <2> QED
    BY <1>5, <1>7, <2>1 DEF Ascending
<1>9. UpTo(audioBuffer', heard)
  BY <1>2, <1>7 DEF SpeechInv, UpTo
<1>10. ASSUME NEW s, Before(s, audioBuffer), Older(s)
       PROVE  Before(s, audioBuffer')
  BY <1>6, <1>7, <1>10 DEF Before, Older
<1>11. \A s \in FinalSamples' : s \in FinalSamples
  <2>1. audioBuffer' # <<>>
    BY <1>5, <1>3
  <2> QED
    BY <2>1, FinalStep DEF Copies, Leftover
<1>12. \A s \in FinalSamples' : Settled(s)'
  <2> SUFFICES ASSUME NEW s \in FinalSamples' PROVE Settled(s)'
    OBVIOUS
  <2>1. Settled(s)
    BY <1>11 DEF SpeechInv
  <2>2. Before(s, audioBuffer') /\ Older(s)'
    BY <1>4, <1>10, <2>1 DEF Settled, Older
  <2> QED
    BY <1>1, <2>1, <2>2 DEF Settled, Ascending, UpTo, Before
<1>13. Before(committed, audioBuffer')
  BY <1>10 DEF SpeechInv
<1> QED
  BY <1>1, <1>4, <1>8, <1>9, <1>12, <1>13 DEF SpeechInv, Ascending, UpTo, Before, Older

LEMMA SpeechStep ==
  ASSUME TypeInv, InferenceExclusive, BufferBounded, RunInv, SpeechInv, Next
  PROVE  SpeechInv'
<1>1. CASE InferEnds
  BY <1>1, SpeechCommitted
<1>2. CASE \E w \in Workers : BufferChunk(w)
  BY <1>2, SpeechBuffered
<1>3. heard \in Nat
  BY DEF TypeInv, TypeOK, CountersType
<1>4. \A s \in FinalSamples' :
         \/ s \in FinalSamples
         \/ s = audioBuffer /\ audioBuffer' = <<>> /\ Len(audioBuffer) \in 1..MaxSpeech
  BY FinalFromBuffer
<1>5. ASSUME NEW w \in Workers, ReadChunk(w)
      PROVE  SpeechInv'
  <2>1. UNCHANGED <<committed, audioBuffer>> /\ heard' = heard + 1
    BY <1>5 DEF ReadChunk, inferVars
  <2>2. ASSUME NEW v \in Workers, Pending(v)'
        PROVE  \/ Pending(v) /\ chunk'[v] = chunk[v]
               \/ chunk'[v] = heard' /\ heard < heard'
    <3>1. CASE v = w
      BY <1>3, <1>5, <2>1, <3>1, ThreadFacts DEF ReadChunk, TypeInv, TypeOK, ThreadsType
    <3>2. CASE v # w
      <4>1. pc'[v] = pc[v] /\ ret'[v] = ret[v] /\ chunk'[v] = chunk[v]
        BY <1>5, <3>2, ThreadFacts DEF ReadChunk, Goto, TypeInv, TypeOK, ThreadsType
      <4> QED
        BY <2>2, <4>1 DEF Pending
    <3> QED
      BY <3>1, <3>2
  <2> QED
    BY <1>3, <1>4, <2>1, <2>2, SpeechFrame
<1>6. CASE /\ \A w \in Workers : ~ReadChunk(w) /\ ~BufferChunk(w)
           /\ ~InferEnds
  <2>1. UNCHANGED <<committed, heard>>
    BY <1>6, CommitsAtEnd, HeardStep
  <2>2. \A w \in Workers : Pending(w)' => Pending(w) /\ chunk'[w] = chunk[w]
    BY <1>6, PendingStep
  <2>3. UNCHANGED audioBuffer \/ audioBuffer' = <<>>
    BY <1>6, BufferStep DEF TypeInv, TypeOK
  <2> QED
    BY <1>3, <1>4, <2>1, <2>2, <2>3, SpeechFrame
<1> QED
  BY <1>1, <1>2, <1>5, <1>6

LEMMA SpeechStutter == SpeechInv /\ UNCHANGED vars => SpeechInv'
  BY DEF vars, captureVars, inferVars, threadVars, localVars, SpeechInv, Ascending, UpTo, Before,
     Older, Pending, Settled, FinalSamples, IsInference

LEMMA SpeechInit == Init => SpeechInv
<1> SUFFICES ASSUME Init PROVE SpeechInv
  OBVIOUS
<1>1. committed = <<>> /\ audioBuffer = <<>> /\ queue = <<>> /\ ~IsInference(running)
  BY DEF Init, IsInference, Idle, Other
<1>2. \A t \in Threads : pc[t] \in {"ready", "new"}
  BY DEF Init
<1>3. FinalSamples = {}
  BY <1>1, <1>2 DEF FinalSamples
<1>4. \A w \in Workers : ~Pending(w)
  BY <1>2, ThreadFacts DEF Pending, Passing
<1> QED
  BY <1>1, <1>3, <1>4 DEF SpeechInv, Ascending, UpTo, Before, Older

-----------------------------------------------------------------------------
(* The theorems.                                                           *)

\* The invariant behind the theorems below: the threads keep out of each
\* other's way, and speech moves from the microphone through the buffer and
\* a final pass to the text in one direction only.
THEOREM VoiceInvHolds ==
  ASSUME "stall" \notin Faults
  PROVE  Spec => []VoiceInv
<1>1. Init => RunInv /\ SpeechInv
  BY RunInit, SpeechInit
<1>2. TypeInv /\ InferenceExclusive /\ BufferBounded /\ RunInv /\ SpeechInv /\ [Next]_vars
         => (RunInv /\ SpeechInv)'
  BY RunStep, SpeechStep, RunStutter, SpeechStutter
<1>3. VoiceInv <=> TypeInv /\ InferenceExclusive /\ BufferBounded /\ RunInv /\ SpeechInv
  BY DEF VoiceInv
<1> QED
  BY <1>1, <1>2, <1>3, TypeInvInit, TypeInvStep, InferenceSafe, BufferSafe, PTL DEF Spec

\* Speech in one order is in one place.
LEMMA AscendingOnce ==
  ASSUME NEW s \in Seq(Chunk), Ascending(s), NEW c, NEW i \in Occurrences(c, s),
         NEW j \in Occurrences(c, s)
  PROVE  i = j
<1>1. i \in 1..Len(s) /\ j \in 1..Len(s) /\ s[i] = c /\ s[j] = c
  BY DEF Occurrences
<1>2. s[i] \in Nat /\ s[j] \in Nat
  BY <1>1, ChunkNat
<1> QED
  BY <1>1, <1>2 DEF Ascending

LEMMA BeforeApart ==
  ASSUME NEW s \in Seq(Chunk), NEW t \in Seq(Chunk), Before(s, t), NEW c,
         NEW i \in Occurrences(c, s)
  PROVE  Occurrences(c, t) = {}
<1> SUFFICES ASSUME NEW j \in Occurrences(c, t) PROVE FALSE
  OBVIOUS
<1>1. i \in 1..Len(s) /\ j \in 1..Len(t) /\ s[i] = c /\ t[j] = c
  BY DEF Occurrences
<1>2. s[i] \in Nat
  BY <1>1, ChunkNat
<1> QED
  BY <1>1, <1>2 DEF Before

\* As long as stop() waits for its capture thread, no speech becomes text
\* twice, a second capture thread never runs beside the first, and no thread
\* submits to an executor that was shut down.
THEOREM CaptureSafe ==
  ASSUME "stall" \notin Faults
  PROVE  Spec => []CaptureSound
<1>1. VoiceInv => CaptureSound
  <2> SUFFICES ASSUME VoiceInv PROVE CaptureSound
    OBVIOUS
  <2>1. TypeOK /\ committed \in Seq(Chunk) /\ audioBuffer \in Seq(Chunk)
    BY DEF VoiceInv, TypeInv, TypeOK, SamplesType
  <2>2. OneCaptureThread
    BY DEF VoiceInv, RunInv, OneCaptureThread
  <2>3. NoRejectedTask
    <3> SUFFICES ASSUME NEW t \in Threads PROVE pc[t] # "crashed"
      BY DEF NoRejectedTask
    <3>1. t = Main \/ t \in Workers
      BY VoiceAssumption DEF Main, Threads, Workers
    <3> QED
      BY <3>1 DEF VoiceInv, RunInv, MainLabels, WorkerLabels
  <2>4. NoSpeechTwice
    <3> SUFFICES ASSUME NEW c \in Chunk
                 PROVE  /\ \A i, j \in Occurrences(c, committed) : i = j
                        /\ Occurrences(c, committed) # {} =>
                              /\ Occurrences(c, audioBuffer) = {}
                              /\ \A s \in FinalSamples : Occurrences(c, s) = {}
      BY DEF NoSpeechTwice
    <3>1. /\ Ascending(committed) /\ Before(committed, audioBuffer)
          /\ \A s \in FinalSamples : s \in Seq(Chunk) /\ Before(committed, s)
      BY FinalType DEF VoiceInv, SpeechInv, Settled
    <3> QED
      BY <2>1, <3>1, AscendingOnce, BeforeApart
  <2> QED
    BY <2>1, <2>2, <2>3, <2>4 DEF CaptureSound
<1> QED
  BY <1>1, VoiceInvHolds, PTL

-----------------------------------------------------------------------------
(* VoiceCapture implements Dictation.                                      *)

LEMMA RangedSeq ==
  ASSUME NEW S, NEW n \in Nat, NEW s \in [1 .. n -> S]
  PROVE  s \in Seq(S)
<1>1. s \in UNION {[1 .. m -> S] : m \in Nat}
  OBVIOUS
<1> QED
  BY <1>1, SeqDef, Zenon

\* Whatever the threads do, what becomes text was heard, comes in the order
\* it was heard in, and nothing of it comes again.
THEOREM DictationImplemented ==
  ASSUME "stall" \notin Faults
  PROVE  Spec => ImplementsDictation
<1>1. Init => D!Init
  BY DEF Init, D!Init
<1>2. ASSUME VoiceInv, VoiceInv', Next
      PROVE  D!Next \/ UNCHANGED <<heard, committed>>
  <2>1. CASE \E w \in Workers : ReadChunk(w)
    BY <2>1 DEF ReadChunk, inferVars, D!Next, D!Hear
  <2>2. CASE InferEnds /\ committed' # committed
    <3> DEFINE s == running.samples
               n == Len(committed)
    <3>1. committed' = committed \o s /\ UNCHANGED heard
      BY <2>2 DEF InferEnds, captureVars
    <3>2. s \in Seq(Chunk) /\ committed \in Seq(Chunk) /\ heard \in Nat
      <4>1. running \in Task /\ committed \in Seq(Chunk) /\ heard \in Nat
        BY <1>2 DEF VoiceInv, TypeInv, TypeOK, SamplesType, CountersType
      <4> QED
        BY <4>1 DEF Task
    <3>3. committed' \in Seq(Chunk) /\ Ascending(committed') /\ UpTo(committed', heard)
      <4>1. committed' \in Seq(Chunk)
        BY <3>1, <3>2
      <4>2. SpeechInv'
        BY <1>2 DEF VoiceInv
      <4> QED
        BY <3>1, <4>1, <4>2 DEF SpeechInv, Ascending, UpTo
    <3> HIDE DEF s
    <3>4. /\ n \in Nat /\ Len(committed') \in Nat /\ n <= Len(committed')
          /\ SubSeq(committed', 1, n) = committed
      BY <3>1, <3>2
    <3>5. committed' \in Seq(1 .. heard)
      <4>1. \A i \in 1 .. Len(committed') : committed'[i] \in 1 .. heard
        <5> SUFFICES ASSUME NEW i \in 1 .. Len(committed') PROVE committed'[i] \in 1 .. heard
          OBVIOUS
        <5>1. committed'[i] \in Chunk /\ committed'[i] <= heard
          BY <3>3 DEF UpTo
        <5> QED
          BY <3>2, <5>1, VoiceAssumption DEF Chunk
      <4>2. committed' \in [1 .. Len(committed') -> 1 .. heard]
        BY <3>3, <4>1, LenProperties
      <4> QED
        BY <3>4, <4>2, RangedSeq
    <3>6. \A i \in n + 1 .. Len(committed') : i > 1 => committed'[i - 1] < committed'[i]
      BY <3>3, <3>4 DEF Ascending
    <3> QED
      BY <3>1, <3>4, <3>5, <3>6 DEF D!Next, D!Write
  <2> QED
    BY <1>2, <2>1, <2>2, HeardStep, CommitsAtEnd
<1>3. VoiceInv /\ VoiceInv' /\ [Next]_vars => [D!Next]_<<heard, committed>>
  BY <1>2 DEF vars, captureVars, inferVars
<1> QED
  BY <1>1, <1>3, VoiceInvHolds, PTL DEF Spec, ImplementsDictation, D!Spec

-----------------------------------------------------------------------------
(* VoiceCapture implements VoiceService.                                   *)

Starting == {"open", "started", "failed"}

LEMMA Busy ==
  /\ pc[Main] \in Starting => MainBusy = "starting"
  /\ pc[Main] \in Stopping => MainBusy = "stopping"
  /\ pc[Main] \notin Starting \union Stopping => MainBusy = "no"
  BY DEF MainBusy, Starting, Stopping

LEMMA BusyNext ==
  /\ pc'[Main] \in Starting => MainBusy' = "starting"
  /\ pc'[Main] \in Stopping => MainBusy' = "stopping"
  /\ pc'[Main] \notin Starting \union Stopping => MainBusy' = "no"
  BY DEF MainBusy, Starting, Stopping

\* A thread with a pass in its hands stays where it is unless it moves itself.
Submits(t) == pc[t] = "submit" /\ isFinalPass[t]

Commands == Bind \/ RegisterClient \/ StartRecording \/ PauseRecording \/ ResumeRecording \/ SetGain
Openings == OpenRunning \/ OpenNew \/ OpenFails \/ OpenThrows
Quiet ==
    \/ Commands \/ Stops \/ Openings \/ FinishStart \/ JoinWorker \/ FlushSpeech \/ FinishStop
    \/ ReleasePipeline \/ FreeModel \/ ShutdownExecutor \/ Executor
    \/ (\E u \in Threads : Claim(u)) \/ (\E w \in Workers : Capture(w))

LEMMA QuietSteps == Next <=> Quiet \/ \E u \in Threads : Snapshot(u) \/ Submit(u)
<1>1. Next => Quiet \/ \E u \in Threads : Snapshot(u) \/ Submit(u)
  BY NextActions DEF Quiet, Commands, Openings, Executor
<1>2. Quiet \/ (\E u \in Threads : Snapshot(u) \/ Submit(u)) => Next
  BY DEF Quiet, Commands, Openings, Stops, Next, Client, MainStep, Trigger
<1> QED
  BY <1>1, <1>2

LEMMA SubmitsStay ==
  ASSUME TypeInv, RunInv, Quiet, NEW t \in Threads
  PROVE  Submits(t)' <=> Submits(t)
<1>1. pc[t] \in {"snapshot", "submit"} => pc'[t] = pc[t]
  <2> SUFFICES ASSUME pc[t] \in {"snapshot", "submit"} PROVE pc'[t] = pc[t]
    OBVIOUS
  <2>1. CASE \/ Bind \/ RegisterClient \/ PauseRecording \/ ResumeRecording \/ SetGain \/ Executor
    BY <2>1 DEF Bind, RegisterClient, PauseRecording, ResumeRecording, SetGain, Executor, TakeTask,
       LoadBegins, LoadEnds, InferWithoutModel, InferBegins, InferEnds, threadVars
  <2>2. CASE \/ StartRecording \/ OpenRunning \/ OpenFails \/ OpenThrows \/ FinishStart
             \/ JoinWorker \/ FinishStop \/ ReleasePipeline \/ FreeModel \/ ShutdownExecutor
             \/ FlushSpeech
    BY <2>2, ThreadFacts DEF StartRecording, Ready, OpenRunning, OpenFails, OpenThrows, FinishStart,
       JoinWorker, FinishStop, ReleasePipeline, FreeModel, ShutdownExecutor, FlushSpeech, Goto,
       TypeInv, TypeOK, ThreadsType
  <2>3. CASE Stops
    <3>1. PICK next \in {"ready", "release", "destroy"} : StopRecording(next)
      BY <2>3, StopsStop
    <3>2. pc[Main] = "ready"
      BY <2>3 DEF Stops, CmdStop, UnregisterClient, Unbind, ForceRelease, IdleTimeout, Destroy, Ready
    <3> QED
      BY <3>1, <3>2, ThreadFacts DEF StopRecording, Goto, TypeInv, TypeOK, ThreadsType
  <2>4. CASE OpenNew
    <3>1. starts' \in Workers /\ starts < starts'
      BY <2>4, VoiceAssumption DEF OpenNew, TypeInv, TypeOK, CountersType, CallInv, Workers
    <3>2. pc[starts'] = "new" /\ pc[Main] = "open"
      BY <2>4, <3>1 DEF RunInv, OpenNew
    <3> QED
      BY <2>4, <3>2 DEF OpenNew, TypeInv, TypeOK, ThreadsType
  <2>5. ASSUME NEW u \in Threads, Claim(u)
        PROVE  pc'[t] = pc[t]
    BY <2>5 DEF Claim, Goto, TypeInv, TypeOK, ThreadsType
  <2>6. ASSUME NEW w \in Workers, Capture(w)
        PROVE  pc'[t] = pc[t]
    <3>1. pc[w] \notin {"snapshot", "submit"} /\ \E l : Goto(w, l)
      BY <2>6 DEF Capture, LoopTop, ReadChunk, ReadNothing, ReadError, BufferChunk, BufferFull,
         Unlock, InterimPass, NoInterimPass
    <3> QED
      BY <3>1, ThreadFacts DEF Goto, TypeInv, TypeOK, ThreadsType
  <2> QED
    BY <2>1, <2>2, <2>3, <2>4, <2>5, <2>6 DEF Quiet, Commands, Openings
<1>2. pc'[t] = "submit" => pc[t] = "submit" /\ isFinalPass'[t] = isFinalPass[t]
  <2> SUFFICES ASSUME pc'[t] = "submit" PROVE pc[t] = "submit" /\ isFinalPass'[t] = isFinalPass[t]
    OBVIOUS
  <2>1. isFinalPass'[t] = isFinalPass[t] /\ (Copies(t) \/ pc[t] = "submit")
    BY QuietSteps, SubmitStays
  <2>2. ~Copies(t)
    BY <1>1 DEF Copies, Snapshot
  <2> QED
    BY <2>1, <2>2
<1>3. pc[t] = "submit" => pc'[t] = "submit"
  BY <1>1
<1> QED
  BY <1>2, <1>3 DEF Submits

\* The executor's share of a final pass.
Tasks ==
    \/ \E i \in 1..Len(queue) : IsInference(queue[i]) /\ queue[i].final
    \/ IsInference(running) /\ running.final

LEMMA PassFrame ==
  ASSUME TypeInv, RunInv, Quiet, Tasks' <=> Tasks
  PROVE  FinalPassUnderWay' = FinalPassUnderWay
<1>1. (\E t \in Threads : Submits(t)') <=> (\E t \in Threads : Submits(t))
  BY SubmitsStay
<1>2. FinalPassUnderWay <=> (\E t \in Threads : Submits(t)) \/ Tasks
  BY DEF FinalPassUnderWay, Submits, Tasks
<1>3. FinalPassUnderWay' <=> (\E t \in Threads : Submits(t)') \/ Tasks'
  BY DEF FinalPassUnderWay, Submits, Tasks
<1>4. FinalPassUnderWay' <=> FinalPassUnderWay
  BY <1>1, <1>2, <1>3
<1> QED
  BY <1>4 DEF FinalPassUnderWay

ServiceStep == Promised!Next \/ UNCHANGED Promised!serviceVars

\* Commands.
LEMMA CommandsSeen ==
  ASSUME TypeInv, RunInv, InferenceExclusive, Commands
  PROVE  ServiceStep
<1>1. pc[Main] = "ready" /\ UNCHANGED <<committed, running>>
  BY DEF Commands, Bind, RegisterClient, StartRecording, PauseRecording, ResumeRecording, SetGain,
     Ready, inferVars
<1>2. MainBusy = "no"
  BY <1>1, Busy DEF Starting, Stopping
<1>3. Tasks' <=> Tasks
  <2>1. queue' = queue \/ queue' = Append(queue, Other("load"))
    BY DEF Commands, Bind, RegisterClient, LoadActiveModel, StartRecording, PauseRecording,
       ResumeRecording, SetGain, inferVars
  <2>2. CASE queue' = queue
    BY <1>1, <2>2 DEF Tasks, IsInference
  <2>3. CASE queue' = Append(queue, Other("load"))
    <3>1. /\ Len(queue) \in Nat /\ Len(queue') = Len(queue) + 1
          /\ \A i \in 1..Len(queue) : queue'[i] = queue[i]
          /\ queue'[Len(queue) + 1].kind = "load"
      BY <2>3, OtherTask, AppendTask DEF TypeInv, TypeOK, SamplesType, Other
    <3>2. (\E i \in 1..Len(queue') : IsInference(queue'[i]) /\ queue'[i].final)
           <=> (\E i \in 1..Len(queue) : IsInference(queue[i]) /\ queue[i].final)
      BY <3>1 DEF IsInference
    <3> QED
      BY <1>1, <3>2 DEF Tasks, IsInference
  <2> QED
    BY <2>1, <2>2, <2>3
<1>4. FinalPassUnderWay' = FinalPassUnderWay
  BY <1>3, PassFrame DEF Quiet
<1>5. CASE Bind
  <2>1. MainBusy' = "no"
    BY <1>1, <1>5, BusyNext DEF Bind, threadVars, Starting, Stopping
  <2>2. ~FinalPassUnderWay
    <3>1. ~isTranscribing
      BY <1>5 DEF Bind, RunInv
    <3> QED
      BY <3>1 DEF FinalPassUnderWay, InferenceExclusive, Claimed, IsInference
  <2>3. FinalPassUnderWay' = FALSE
    BY <1>4, <2>2
  <2>4. Promised!Connect
    BY <1>1, <1>2, <1>5, <2>1, <2>3 DEF Bind, Promised!Connect
  <2> QED
    BY <2>4 DEF ServiceStep, Promised!Next
<1>6. CASE RegisterClient
  <2>1. MainBusy' = "no"
    BY <1>1, <1>6, BusyNext DEF RegisterClient, threadVars, Starting, Stopping
  <2>2. Promised!Register(1)
    BY <1>1, <1>2, <1>4, <1>6, <2>1 DEF RegisterClient, Promised!Register, Promised!Ready
  <2> QED
    BY <2>2 DEF ServiceStep, Promised!Next
<1>7. CASE StartRecording
  <2>1. MainBusy' = "starting"
    BY <1>7, BusyNext, ThreadFacts DEF StartRecording, Goto, Starting, TypeInv, TypeOK, ThreadsType
  <2>2. Promised!BeginStart
    BY <1>1, <1>2, <1>4, <1>7, <2>1 DEF StartRecording, Promised!BeginStart, Promised!Ready
  <2> QED
    BY <2>2 DEF ServiceStep, Promised!Next
<1>8. CASE PauseRecording \/ ResumeRecording \/ SetGain
  <2>1. MainBusy' = "no"
    BY <1>1, <1>8, BusyNext
    DEF PauseRecording, ResumeRecording, SetGain, threadVars, Starting, Stopping
  <2>2. Promised!Pause \/ Promised!Resume \/ Promised!Attend
    BY <1>1, <1>2, <1>4, <1>8, <2>1
    DEF PauseRecording, ResumeRecording, SetGain, Promised!Pause, Promised!Resume, Promised!Attend,
        Promised!Ready
  <2> QED
    BY <2>2 DEF ServiceStep, Promised!Next
<1> QED
  BY <1>5, <1>6, <1>7, <1>8 DEF Commands

LEMMA StopsSeen ==
  ASSUME TypeInv, RunInv, Stops
  PROVE  ServiceStep
<1>1. PICK next \in {"ready", "release", "destroy"} : StopRecording(next)
  BY StopsStop
<1>2. pc[Main] = "ready" /\ UNCHANGED <<committed, queue, running, state>>
  BY <1>1 DEF Stops, CmdStop, UnregisterClient, Unbind, ForceRelease, IdleTimeout, Destroy, Ready,
     StopRecording, inferVars
<1>3. MainBusy = "no"
  BY <1>2, Busy DEF Starting, Stopping
<1>4. FinalPassUnderWay' = FinalPassUnderWay
  BY <1>2, PassFrame DEF Quiet, Tasks, IsInference
<1>5. pc'[Main] \in IF state = "IDLE" THEN {next} ELSE {"join", "flush"}
  BY <1>1, ThreadFacts DEF StopRecording, Goto, TypeInv, TypeOK, ThreadsType
<1>6. MainBusy' = IF state = "IDLE" THEN "no" ELSE "stopping"
  BY <1>5, BusyNext DEF Starting, Stopping
<1>7. Promised!BeginStop
  BY <1>2, <1>3, <1>4, <1>6 DEF Promised!BeginStop
<1>8. \/ Promised!Stop \/ Promised!Unregister \/ Promised!IdleFires \/ Promised!Disconnect
      \/ Promised!Destroy
  BY <1>3, <1>7 DEF Stops, CmdStop, UnregisterClient, Unbind, ForceRelease, IdleTimeout, Destroy,
     Promised!Stop, Promised!Unregister, Promised!IdleFires, Promised!Disconnect, Promised!Destroy,
     Promised!Ready, Promised!NoClient
<1> QED
  BY <1>8 DEF ServiceStep, Promised!Next

\* The other steps of the main thread.
LEMMA MainSeen ==
  ASSUME TypeInv, RunInv,
         \/ Openings \/ FinishStart \/ JoinWorker \/ FlushSpeech \/ FinishStop
         \/ ReleasePipeline \/ FreeModel
  PROVE  ServiceStep
<1>1. UNCHANGED <<committed, queue, running, life, client, idleArmed>>
  BY DEF Openings, OpenRunning, OpenNew, OpenFails, OpenThrows, FinishStart, JoinWorker, FlushSpeech,
     FinishStop, ReleasePipeline, FreeModel, inferVars, serviceVars
<1>2. FinalPassUnderWay' = FinalPassUnderWay
  BY <1>1, PassFrame DEF Quiet, Tasks, IsInference
<1>3. ASSUME MainBusy' = MainBusy, UNCHANGED state
      PROVE  ServiceStep
  BY <1>1, <1>2, <1>3 DEF ServiceStep, Promised!serviceVars
<1>4. CASE Openings
  <2>1. pc[Main] \in Starting /\ UNCHANGED state
    BY <1>4 DEF Openings, OpenRunning, OpenNew, OpenFails, OpenThrows, serviceVars, Starting
  <2>2. pc'[Main] \in Starting
    <3>1. CASE OpenNew
      <4>1. starts' # Main
        BY <3>1, VoiceAssumption DEF OpenNew, TypeInv, TypeOK, CountersType, Main
      <4> QED
        BY <3>1, <4>1, ThreadFacts DEF OpenNew, Starting, TypeInv, TypeOK, ThreadsType
    <3>2. CASE OpenRunning \/ OpenFails \/ OpenThrows
      BY <3>2, ThreadFacts
      DEF OpenRunning, OpenFails, OpenThrows, Goto, Starting, TypeInv, TypeOK, ThreadsType
    <3> QED
      BY <1>4, <3>1, <3>2 DEF Openings
  <2> QED
    BY <1>3, <2>1, <2>2, Busy, BusyNext
<1>5. CASE JoinWorker \/ FlushSpeech
  <2>1. pc[Main] \in Stopping /\ pc'[Main] \in Stopping /\ UNCHANGED state
    BY <1>5, ThreadFacts
    DEF JoinWorker, FlushSpeech, Goto, serviceVars, Stopping, TypeInv, TypeOK, ThreadsType
  <2> QED
    BY <1>3, <2>1, Busy, BusyNext
<1>6. CASE ReleasePipeline \/ FreeModel
  <2>1. /\ pc[Main] \notin Starting \union Stopping /\ pc'[Main] \notin Starting \union Stopping
        /\ UNCHANGED state
    BY <1>6, ThreadFacts
    DEF ReleasePipeline, FreeModel, Goto, serviceVars, Starting, Stopping, TypeInv, TypeOK, ThreadsType
  <2> QED
    BY <1>3, <2>1, Busy, BusyNext
<1>7. CASE FinishStart
  <2>1. /\ pc[Main] \in Starting /\ pc'[Main] \notin Starting \union Stopping
        /\ state' \in {"RECORDING", "ERROR"}
    BY <1>7, ThreadFacts DEF FinishStart, Goto, Starting, Stopping, TypeInv, TypeOK, ThreadsType
  <2>2. Promised!EndStart
    BY <1>1, <1>2, <2>1, Busy, BusyNext DEF Promised!EndStart
  <2> QED
    BY <2>2 DEF ServiceStep, Promised!Next
<1>8. CASE FinishStop
  <2>1. /\ pc[Main] \in Stopping /\ pc'[Main] \notin Starting \union Stopping
        /\ state' = "IDLE"
    BY <1>8, ThreadFacts
    DEF FinishStop, Goto, Starting, Stopping, TypeInv, TypeOK, ThreadsType, CallInv
  <2>2. Promised!EndStop
    BY <1>1, <1>2, <2>1, Busy, BusyNext DEF Promised!EndStop
  <2> QED
    BY <2>2 DEF ServiceStep, Promised!Next
<1> QED
  BY <1>4, <1>5, <1>6, <1>7, <1>8

\* A pass that ends, or is dropped with the executor's queue.
LEMMA ExecutorSeen ==
  ASSUME TypeInv, RunInv, InferenceExclusive, SpeechInv, Executor \/ ShutdownExecutor
  PROVE  ServiceStep
<1>1. UNCHANGED <<life, client, idleArmed, state>>
  BY DEF Executor, ShutdownExecutor, TakeTask, LoadBegins, LoadEnds, InferWithoutModel, InferBegins,
     InferEnds, serviceVars
<1>2. MainBusy' = MainBusy
  <2>1. CASE Executor
    BY <2>1 DEF Executor, TakeTask, LoadBegins, LoadEnds, InferWithoutModel, InferBegins,
       InferEnds, threadVars, MainBusy
  <2>2. CASE ShutdownExecutor
    <3>1. pc[Main] \notin Starting \union Stopping /\ pc'[Main] \notin Starting \union Stopping
      BY <2>2, ThreadFacts
      DEF ShutdownExecutor, Goto, Starting, Stopping, TypeInv, TypeOK, ThreadsType
    <3> QED
      BY <3>1, Busy, BusyNext
  <2> QED
    BY <2>1, <2>2
<1>3. ASSUME Tasks' <=> Tasks, UNCHANGED committed
      PROVE  ServiceStep
  <2>1. FinalPassUnderWay' = FinalPassUnderWay
    BY <1>3, PassFrame DEF Quiet
  <2> QED
    BY <1>1, <1>2, <1>3, <2>1 DEF ServiceStep, Promised!serviceVars
<1>4. ASSUME FinalPassUnderWay, ~FinalPassUnderWay', UNCHANGED committed
      PROVE  ServiceStep
  <2>1. FinalPassUnderWay' = FALSE
    BY <1>4 DEF FinalPassUnderWay
  <2>2. Promised!LoseText
    BY <1>1, <1>2, <1>4, <2>1 DEF Promised!LoseText
  <2> QED
    BY <2>2 DEF ServiceStep, Promised!Next
<1>5. CASE TakeTask
  <2>1. /\ queue \in Seq(Task) /\ Len(queue) \in Nat /\ 1 <= Len(queue)
        /\ running' = queue[1] /\ queue' = Tail(queue) /\ running = Idle /\ UNCHANGED committed
    BY <1>5 DEF TakeTask, TypeInv, TypeOK, SamplesType
  <2>2. /\ Len(queue') = Len(queue) - 1 /\ \A i \in 1..Len(queue') : queue'[i] = queue[i + 1]
    BY <2>1
  <2>3. ~IsInference(running)
    BY <2>1 DEF Idle, Other, IsInference
  <2>4. (\E i \in 1..Len(queue) : IsInference(queue[i]) /\ queue[i].final)
          <=> \/ IsInference(queue[1]) /\ queue[1].final
              \/ \E i \in 1..Len(queue') : IsInference(queue'[i]) /\ queue'[i].final
    <3>1. \A i \in 1..Len(queue') : i + 1 \in 1..Len(queue)
      BY <2>1, <2>2
    <3>2. \A i \in 1..Len(queue) : i = 1 \/ (i - 1 \in 1..Len(queue') /\ queue'[i - 1] = queue[i])
      BY <2>1, <2>2
    <3>3. 1 \in 1..Len(queue)
      BY <2>1
    <3> QED
      BY <2>2, <3>1, <3>2, <3>3
  <2>5. Tasks' <=> Tasks
    BY <2>1, <2>3, <2>4 DEF Tasks, IsInference
  <2> QED
    BY <1>3, <2>1, <2>5
<1>6. CASE LoadBegins \/ LoadEnds
  <2>1. /\ ~IsInference(running) /\ ~IsInference(running') /\ UNCHANGED <<committed, queue>>
    BY <1>6 DEF LoadBegins, LoadEnds, IsInference, Idle, Other
  <2>2. Tasks' <=> Tasks
    BY <2>1 DEF Tasks, IsInference
  <2> QED
    BY <1>3, <2>1, <2>2
<1>7. CASE InferBegins
  <2>1. /\ IsInference(running) /\ IsInference(running') /\ running'.final = running.final
        /\ UNCHANGED <<committed, queue>>
    BY <1>7 DEF InferBegins, IsInference
  <2>2. Tasks' <=> Tasks
    BY <2>1 DEF Tasks, IsInference
  <2> QED
    BY <1>3, <2>1, <2>2
<1>8. CASE ShutdownExecutor
  <2>1. queue' = <<>> /\ UNCHANGED <<committed, running>>
    BY <1>8 DEF ShutdownExecutor
  <2>2. Tasks' => Tasks
    BY <2>1 DEF Tasks, IsInference
  <2>3. \A t \in Threads : Submits(t)' <=> Submits(t)
    BY <1>8, SubmitsStay DEF Quiet
  <2>4. FinalPassUnderWay' => FinalPassUnderWay
    BY <2>2, <2>3 DEF FinalPassUnderWay, Submits, Tasks
  <2>5. CASE FinalPassUnderWay' <=> FinalPassUnderWay
    <3>1. FinalPassUnderWay' = FinalPassUnderWay
      BY <2>5 DEF FinalPassUnderWay
    <3> QED
      BY <1>1, <1>2, <2>1, <3>1 DEF ServiceStep, Promised!serviceVars
  <2> QED
    BY <1>4, <2>1, <2>4, <2>5
<1>9. CASE InferWithoutModel \/ InferEnds
  <2>1. IsInference(running) /\ ~IsInference(running') /\ UNCHANGED <<queue, pc, isFinalPass>>
    BY <1>9 DEF InferWithoutModel, InferEnds, IsInference, Idle, Other, threadVars, localVars
  <2>2. FinalPassUnderWay <=> running.final
    BY <2>1 DEF FinalPassUnderWay, InferenceExclusive, Claimed
  <2>3. ~FinalPassUnderWay'
    BY <2>1 DEF FinalPassUnderWay, InferenceExclusive, Claimed, IsInference
  <2>4. CASE UNCHANGED committed /\ FinalPassUnderWay
    BY <1>4, <2>3, <2>4
  <2>5. CASE UNCHANGED committed /\ ~FinalPassUnderWay
    <3>1. FinalPassUnderWay' = FinalPassUnderWay
      BY <2>3, <2>5 DEF FinalPassUnderWay
    <3> QED
      BY <1>1, <1>2, <2>5, <3>1 DEF ServiceStep, Promised!serviceVars
  <2>6. CASE Commits /\ committed' = committed \o running.samples
    <3> DEFINE s == running.samples
    <3>1. FinalPassUnderWay /\ client /\ s \in FinalSamples
      BY <2>1, <2>2, <2>6, FinalPlaces DEF Commits
    <3>2. Len(s) \in 1..MaxSpeech /\ s \in Seq(Chunk) /\ committed \in Seq(Chunk)
      BY <3>1, FinalType DEF SpeechInv, Settled, TypeInv, TypeOK, SamplesType
    <3>3. Len(committed') = Len(committed) + Len(s)
      BY <2>6, <3>2
    <3>4. FinalPassUnderWay' = FALSE
      BY <2>3 DEF FinalPassUnderWay
    <3>5. Promised!Deliver(Len(s))
      BY <1>1, <1>2, <3>1, <3>3, <3>4 DEF Promised!Deliver, Promised!NoClient
    <3> QED
      BY <3>2, <3>5 DEF ServiceStep, Promised!Next
  <2> QED
    BY <1>9, <2>4, <2>5, <2>6 DEF InferWithoutModel, InferEnds
<1> QED
  BY <1>5, <1>6, <1>7, <1>8, <1>9 DEF Executor

\* A thread with the microphone open works for a service that is not IDLE.
LEMMA CapturingSeen ==
  ASSUME RunInv, NEW w \in Workers, Capturing(w)
  PROVE  state # "IDLE" \/ MainBusy = "starting"
  BY Busy DEF RunInv, Starting, Stopping

\* A final pass begins when it has copied the buffer.
LEMMA PassSeen ==
  ASSUME TypeInv, RunInv, InferenceExclusive, NEW t \in Threads, Trigger(t)
  PROVE  ServiceStep
<1>1. /\ UNCHANGED <<life, client, idleArmed, state, committed, running, isFinalPass>>
      /\ pc[t] \in Passing
  BY DEF Trigger, Claim, Snapshot, Submit, serviceVars, inferVars, localVars, Passing
<1>2. ~shut /\ RunInv'
  BY RunPass
<1>3. t = Main \/ (t \in Workers /\ t # Main)
  BY VoiceAssumption DEF Main, Threads, Workers
<1>4. /\ \A u \in Threads : u # t => pc'[u] = pc[u]
      /\ t = Main => pc'[t] \in {"snapshot", "submit", "idle"}
  BY <1>2 DEF Trigger, Claim, Snapshot, Submit, Goto, Return, TypeInv, TypeOK, ThreadsType
<1>5. MainBusy' = MainBusy
  <2>1. CASE t = Main
    <3>1. pc[Main] \in Stopping /\ pc'[Main] \in Stopping
      BY <1>1, <1>4, <2>1 DEF Passing, Stopping
    <3> QED
      BY <3>1, Busy, BusyNext
  <2>2. CASE t # Main
    <3>1. pc'[Main] = pc[Main]
      BY <1>4, <2>2, ThreadFacts
    <3> QED
      BY <3>1 DEF MainBusy
  <2> QED
    BY <2>1, <2>2
<1>6. ASSUME FinalPassUnderWay' <=> FinalPassUnderWay
      PROVE  ServiceStep
  <2>1. FinalPassUnderWay' = FinalPassUnderWay
    BY <1>6 DEF FinalPassUnderWay
  <2> QED
    BY <1>1, <1>5, <2>1 DEF ServiceStep, Promised!serviceVars
<1>7. CASE Claim(t)
  <2>1. Tasks' <=> Tasks
    BY <1>7 DEF Claim, inferVars, Tasks, IsInference
  <2>2. FinalPassUnderWay' = FinalPassUnderWay
    BY <1>7, <2>1, PassFrame DEF Quiet
  <2> QED
    BY <1>6, <2>2
<1>8. CASE Snapshot(t)
  <2>1. UNCHANGED queue /\ Claimed(t) /\ pc[t] = "snapshot"
    BY <1>8 DEF Snapshot, inferVars, Claimed
  <2>2. ~FinalPassUnderWay
    BY <2>1 DEF FinalPassUnderWay, InferenceExclusive, Claimed
  <2>3. FinalPassUnderWay' <=> pc'[t] = "submit" /\ isFinalPass[t]
    <3>1. \A u \in Threads : u # t => pc[u] # "submit"
      BY <2>1 DEF InferenceExclusive, Claimed
    <3>2. ~Tasks'
      BY <1>1, <2>1 DEF InferenceExclusive, Tasks, IsInference
    <3>3. (\E u \in Threads : pc'[u] = "submit" /\ isFinalPass'[u])
            <=> pc'[t] = "submit" /\ isFinalPass[t]
      BY <1>1, <1>4, <3>1
    <3> QED
      BY <3>2, <3>3 DEF FinalPassUnderWay, Tasks
  <2>4. CASE ~FinalPassUnderWay'
    BY <1>6, <2>2, <2>4
  <2>5. CASE FinalPassUnderWay'
    <3>1. FinalPassUnderWay' = TRUE
      BY <2>5 DEF FinalPassUnderWay
    <3>2. state # "IDLE" \/ MainBusy = "starting"
      <4>1. CASE t = Main
        BY <2>1, <4>1 DEF RunInv, Stopping
      <4>2. CASE t \in Workers
        BY <2>1, <4>2, CapturingSeen DEF Capturing
      <4> QED
        BY <1>3, <4>1, <4>2
    <3>3. Promised!BeginPass
      BY <1>1, <1>5, <2>2, <3>1, <3>2 DEF Promised!BeginPass
    <3> QED
      BY <3>3 DEF ServiceStep, Promised!Next
  <2> QED
    BY <2>4, <2>5
<1>9. CASE Submit(t)
  <2> DEFINE task == [kind |-> "infer", final |-> isFinalPass[t], samples |-> samplesCopy[t]]
  <2>1. queue' = Append(queue, task) /\ Claimed(t) /\ pc[t] = "submit"
    BY <1>2, <1>9 DEF Submit, Claimed
  <2>2. task \in Task /\ task.final = isFinalPass[t] /\ task.kind = "infer"
    BY DEF TypeInv, TypeOK, SamplesType, ThreadsType, Task
  <2>3. FinalPassUnderWay <=> isFinalPass[t]
    BY <2>1 DEF FinalPassUnderWay, InferenceExclusive, Claimed
  <2> HIDE DEF task
  <2>4. /\ Len(queue) \in Nat /\ Len(queue') = Len(queue) + 1
        /\ \A i \in 1..Len(queue) : queue'[i] = queue[i]
        /\ queue'[Len(queue) + 1] = task
    BY <2>1, <2>2, AppendTask DEF TypeInv, TypeOK, SamplesType
  <2>5. (\E i \in 1..Len(queue') : IsInference(queue'[i]) /\ queue'[i].final) <=> task.final
    <3>1. \A i \in 1..Len(queue) : ~IsInference(queue[i])
      BY <2>1 DEF InferenceExclusive
    <3>2. \A i \in 1..Len(queue') : i \in 1..Len(queue) \/ i = Len(queue) + 1
      BY <2>4
    <3>3. \A i \in 1..Len(queue') : IsInference(queue'[i]) => queue'[i] = task
      BY <2>4, <3>1, <3>2 DEF IsInference
    <3>4. Len(queue) + 1 \in 1..Len(queue') /\ IsInference(task)
      BY <2>2, <2>4 DEF IsInference
    <3> QED
      BY <2>4, <3>3, <3>4
  <2>6. ~(IsInference(running') /\ running'.final)
    BY <1>1, <2>1 DEF InferenceExclusive, IsInference
  <2>7. \A u \in Threads : pc'[u] # "submit"
    <3>1. \A u \in Threads : u # t => pc[u] # "submit"
      BY <2>1 DEF InferenceExclusive, Claimed
    <3>2. pc'[t] # "submit"
      BY <1>2, <1>9, ReturnLabel DEF Submit, Goto, TypeInv, TypeOK, ThreadsType
    <3> QED
      BY <1>4, <3>1, <3>2
  <2>8. Tasks' <=> task.final
    BY <2>5, <2>6 DEF Tasks, IsInference
  <2>9. FinalPassUnderWay' <=> Tasks'
    BY <2>7 DEF FinalPassUnderWay, Tasks
  <2> QED
    BY <1>6, <2>2, <2>3, <2>8, <2>9
<1> QED
  BY <1>7, <1>8, <1>9 DEF Trigger

LEMMA CaptureSeen ==
  ASSUME TypeInv, RunInv, NEW w \in Workers, Capture(w)
  PROVE  ServiceStep
<1>1. UNCHANGED <<life, client, idleArmed, committed, queue, running>>
  BY DEF Capture, LoopTop, ReadChunk, ReadNothing, ReadError, BufferChunk, BufferFull, Unlock,
     InterimPass, NoInterimPass, serviceVars, inferVars
<1>2. FinalPassUnderWay' = FinalPassUnderWay
  BY <1>1, PassFrame DEF Quiet, Tasks, IsInference
<1>3. MainBusy' = MainBusy
  <2>1. \E l : Goto(w, l)
    BY DEF Capture, LoopTop, ReadChunk, ReadNothing, ReadError, BufferChunk, BufferFull, Unlock,
       InterimPass, NoInterimPass
  <2>2. pc'[Main] = pc[Main]
    BY <2>1, ThreadFacts DEF Goto, TypeInv, TypeOK, ThreadsType
  <2> QED
    BY <2>2 DEF MainBusy
<1>4. CASE ReadError(w)
  <2>1. state # "IDLE" \/ MainBusy = "starting"
    BY <1>4, CapturingSeen DEF ReadError, Capturing
  <2>2. Promised!MicFails
    BY <1>1, <1>2, <1>3, <1>4, <2>1 DEF ReadError, Promised!MicFails
  <2> QED
    BY <2>2 DEF ServiceStep, Promised!Next
<1>5. CASE ~ReadError(w)
  <2>1. UNCHANGED state
    BY <1>5 DEF Capture, LoopTop, ReadChunk, ReadNothing, BufferChunk, BufferFull, Unlock,
       InterimPass, NoInterimPass, serviceVars
  <2> QED
    BY <1>1, <1>2, <1>3, <2>1 DEF ServiceStep, Promised!serviceVars
<1> QED
  BY <1>4, <1>5

LEMMA NextSeen ==
  ASSUME TypeInv, RunInv, InferenceExclusive, SpeechInv, Next
  PROVE  ServiceStep
  BY NextActions, CommandsSeen, StopsSeen, MainSeen, ExecutorSeen, PassSeen, CaptureSeen
  DEF Commands, Openings, Executor, Trigger

\* The client of the service may rely on VoiceService: however capture threads
\* and executor interleave with its commands, states are reported in the order
\* of the commands, the microphone fails only while it is open, and text is
\* sent only from a final pass that was begun while it was.
THEOREM ServiceImplemented ==
  ASSUME "stall" \notin Faults
  PROVE  Spec => ImplementsService
<1>1. Init => Promised!Init
  <2> SUFFICES ASSUME Init PROVE Promised!Init
    OBVIOUS
  <2>1. pc[Main] = "ready" /\ \A t \in Threads : pc[t] # "submit"
    BY ThreadFacts DEF Init
  <2>2. MainBusy = "no"
    BY <2>1, Busy DEF Starting, Stopping
  <2>3. FinalPassUnderWay = FALSE
    BY <2>1 DEF Init, FinalPassUnderWay, IsInference, Idle, Other
  <2> QED
    BY <2>2, <2>3 DEF Init, Promised!Init, Promised!NoClient
<1>2. VoiceInv /\ [Next]_vars => [Promised!Next]_(Promised!serviceVars)
  <2>1. CASE UNCHANGED vars
    BY <2>1 DEF vars, serviceVars, inferVars, threadVars, localVars, Promised!serviceVars, MainBusy,
       FinalPassUnderWay, IsInference
  <2>2. CASE VoiceInv /\ Next
    BY <2>2, NextSeen DEF VoiceInv, ServiceStep
  <2> QED
    BY <2>1, <2>2
<1> QED
  BY <1>1, <1>2, VoiceInvHolds, PTL DEF Spec, ImplementsService, Promised!Spec
=============================================================================

--------------------------- MODULE TextEngineProofs ---------------------------
(***************************************************************************)
(* Theorems about TextEngine and the French dictionary in it, for words,   *)
(* fields, queries and scenarios without bound, checked by TLAPS.          *)
(***************************************************************************)
EXTENDS TextEngine, SequenceTheorems, TLAPS

(***************************************************************************)
(* Sequences that keep their elements in a set.  The sets below say more   *)
(* than the types of TypeOK: that is how an invariant of every element is  *)
(* carried along.                                                          *)
(***************************************************************************)

\* A sequence without one of its elements; Finished is the same for the jobs.
LEMMA Removal ==
  ASSUME NEW S, NEW seq \in Seq(S), NEW i \in DOMAIN seq
  PROVE  SubSeq(seq, 1, i - 1) \o SubSeq(seq, i + 1, Len(seq)) \in Seq(S)
<1>1. DOMAIN seq = 1 .. Len(seq) /\ Len(seq) \in Nat /\ i \in Int
  BY LenProperties
<1>2. SubSeq(seq, 1, i - 1) \in Seq(S)
  BY <1>1, SubSeqProperties, ElementOfSeq
<1>3. SubSeq(seq, i + 1, Len(seq)) \in Seq(S)
  BY <1>1, SubSeqProperties, ElementOfSeq
<1> QED
  BY <1>2, <1>3, ConcatProperties

LEMMA ElementOf ==
  ASSUME NEW S, NEW seq \in Seq(S), NEW i \in DOMAIN seq
  PROVE  seq[i] \in S
  BY LenProperties, ElementOfSeq

LEMMA Replacement ==
  ASSUME NEW S, NEW seq \in Seq(S), NEW i \in DOMAIN seq, NEW e \in S
  PROVE  [seq EXCEPT ![i] = e] \in Seq(S)
  BY LenProperties, ExceptSeq

(***************************************************************************)
(* French: types, that a coroutine holds a dictionary that was opened, and *)
(* that it sleeps exactly in English.                                      *)
(***************************************************************************)
OpenedJob == {j \in Job : j.dict <= opened}

FrenchInv ==
    /\ FrenchTypeOK
    /\ jobs \in Seq(OpenedJob)
    /\ DormantSpeaksEnglish

FlagsTyped == /\ dormant \in BOOLEAN /\ trimmed \in BOOLEAN /\ loading \in BOOLEAN
              /\ timer \in BOOLEAN /\ expired \in BOOLEAN

\* What a step does to the dictionary: one of the functions, or of the coroutines' steps.
FrenchCall ==
    \/ UNCHANGED frenchVars
    \/ \E target \in {"french", "dual"}, force \in BOOLEAN : AwakenFrench(target, force)
    \/ \E to \in Modes : SwitchLanguage(to)
    \/ Shed \/ Reload \/ FreshStart \/ CloseForFrench
    \/ \E french \in BOOLEAN : NoteWord(french)
    \/ \E j \in DOMAIN jobs : JobStep(j)
    \/ \E j \in DOMAIN jobs : /\ jobs' = Finished(j)
                              /\ UNCHANGED <<loading, facilitator, suggest, opened>>
                              /\ UNCHANGED mainThread
    \/ TimerExpires \/ ForgetTrim

LEMMA FrenchCalled ==
  ASSUME [Next]_vars
  PROVE  FrenchCall
<1>1. CASE UNCHANGED vars
  BY <1>1 DEF vars, FrenchCall
<1>2. ASSUME NEW restarting \in BOOLEAN, StartInputView(restarting)
      PROVE  FrenchCall
  BY <1>2 DEF StartInputView, FrenchCall
<1>3. CASE FinishInputView
  BY <1>3 DEF FinishInputView, FrenchCall
<1>4. CASE TypeSecretly \/ Delete \/ Space \/ Punctuate \/ MoveCursor \/ UpdateSelection
  BY <1>4 DEF TypeSecretly, Delete, Space, Punctuate, MoveCursor, UpdateSelection, FrenchCall
<1>5. ASSUME NEW diacritic \in BOOLEAN, TypeCharacter(diacritic)
      PROVE  FrenchCall
  BY <1>5 DEF TypeCharacter, FrenchCall
<1>6. ASSUME NEW c \in strip, NEW french \in BOOLEAN, SelectSuggestion(c, french)
      PROVE  FrenchCall
  BY <1>6 DEF SelectSuggestion, SelectVault, SelectWord, FrenchCall
<1>7. ASSUME NEW type \in {"privacy", "security"}, OpenPattern(type)
      PROVE  FrenchCall
  BY <1>7 DEF OpenPattern, FrenchCall
<1>8. CASE Verify \/ DismissPattern \/ TogglePartition \/ SessionEnds
  BY <1>8 DEF Verify, DismissPattern, TogglePartition, SessionEnds, FrenchCall
<1>9. ASSUME NEW to \in Modes, SetLanguageMode(to)
      PROVE  FrenchCall
  BY <1>9 DEF SetLanguageMode, FrenchCall
<1>10. CASE OnTrimMemory \/ ReloadDictionaries
  BY <1>10 DEF OnTrimMemory, ReloadDictionaries, FrenchCall
<1>11. ASSUME NEW i \in DOMAIN verified, UnlockCallback(i)
       PROVE  FrenchCall
  BY <1>11 DEF UnlockCallback, FrenchCall
<1>12. ASSUME NEW q \in DOMAIN queries, QueryStep(q)
       PROVE  FrenchCall
  BY <1>12 DEF QueryStep, Search, Match, Check, Publish, FrenchCall
<1>13. ASSUME NEW j \in DOMAIN jobs, Coroutine(j) \/ NotifyLoaded(j)
       PROVE  FrenchCall
  BY <1>13 DEF Coroutine, NotifyLoaded, FrenchCall
<1>14. CASE Debounce
  BY <1>14 DEF Debounce, FrenchCall
<1> QED
  BY <1>1, <1>2, <1>3, <1>4, <1>5, <1>6, <1>7, <1>8, <1>9, <1>10, <1>11, <1>12, <1>13,
     <1>14 DEF Next, UserOrSystem, Background

LEMMA FrenchInitially == Init => FrenchInv
<1> SUFFICES ASSUME Init PROVE FrenchInv
  OBVIOUS
<1>1. jobs \in Seq(Job) /\ jobs \in Seq(OpenedJob)
  BY EmptySeq DEF Init, FrenchInit
<1>2. FlagsTyped /\ DormantSpeaksEnglish
  BY DEF Init, FrenchInit, FlagsTyped, DormantSpeaksEnglish
<1>3. mode \in Modes /\ streak \in 0 .. StreakLimit - 1 /\ opened \in Nat
      /\ {facilitator, suggest} \subseteq 0 .. opened
  BY StreakAssumption DEF Init, FrenchInit, Modes
<1> QED
  BY <1>1, <1>2, <1>3 DEF FrenchInv, FrenchTypeOK, FlagsTyped

\* The mode and the flags, above all that of its sleep.
LEMMA ModeStep ==
  ASSUME FrenchInv, FrenchCall
  PROVE  mode' \in Modes /\ FlagsTyped' /\ DormantSpeaksEnglish'
<1> DEFINE Kept == mode' \in Modes /\ FlagsTyped' /\ DormantSpeaksEnglish'
<1> USE DEF DormantSpeaksEnglish, Modes, FlagsTyped
<1>a. mode \in Modes /\ FlagsTyped /\ DormantSpeaksEnglish /\ jobs \in Seq(Job)
  BY DEF FrenchInv, FrenchTypeOK
<1>1. ASSUME NEW target \in {"french", "dual"}, NEW force \in BOOLEAN, AwakenFrench(target, force)
      PROVE  Kept
  BY <1>a, <1>1 DEF AwakenFrench, EnsureFrenchLoaded, frenchVars
<1>2. ASSUME NEW to \in Modes, SwitchLanguage(to)
      PROVE  Kept
  <2>1. CASE to \in {"french", "dual"}
    BY <1>1, <1>2, <2>1 DEF SwitchLanguage
  <2>2. CASE to = "english"
    BY <1>a, <1>2, <2>2 DEF SwitchLanguage, SleepFrench, frenchFiles
  <2> QED
    BY <2>1, <2>2
<1>3. ASSUME NEW french \in BOOLEAN, NoteWord(french)
      PROVE  Kept
  <2>1. CASE french /\ ~trimmed
    BY <1>1, <1>3, <2>1 DEF NoteWord
  <2>2. CASE ~(french /\ ~trimmed)
    BY <1>a, <1>3, <2>2 DEF NoteWord, SleepFrench, frenchFiles
  <2> QED
    BY <2>1, <2>2
<1>4. CASE UNCHANGED frenchVars
  BY <1>a, <1>4 DEF frenchVars
<1>5. CASE Shed \/ Reload \/ FreshStart \/ CloseForFrench
  <2>1. CASE Shed
    BY <1>a, <2>1 DEF Shed, SleepFrench
  <2>2. CASE Reload
    BY <1>a, <2>2 DEF Reload
  <2>3. CASE FreshStart
    BY <1>a, <2>3 DEF FreshStart, SleepFrench, frenchFiles
  <2>4. CASE CloseForFrench
    BY <1>a, <2>4 DEF CloseForFrench, SleepFrench, frenchFiles
  <2> QED
    BY <1>5, <2>1, <2>2, <2>3, <2>4
<1>6. ASSUME NEW j \in DOMAIN jobs, JobStep(j)
      PROVE  Kept
  <2>1. UNCHANGED mainThread
    BY <1>6 DEF JobStep, Open, Close, AssignFacilitator, AssignSuggest, LoadAgain
  <2>2. jobs[j].task \in {"load", "unload", "reload"}
    <3>1. jobs[j] \in Job
      BY <1>a, ElementOf
    <3> QED
      BY <3>1 DEF Job
  <2>3. loading' \in BOOLEAN
    BY <1>a, <1>6, <2>2 DEF JobStep, Open, Close, AssignFacilitator, AssignSuggest, LoadAgain
  <2> QED
    BY <1>a, <2>1, <2>3 DEF mainThread
<1>7. CASE TimerExpires \/ ForgetTrim
  <2>1. CASE TimerExpires
    BY <1>a, <2>1 DEF TimerExpires, frenchFiles
  <2>2. CASE ForgetTrim
    BY <1>a, <2>2 DEF ForgetTrim, frenchFiles
  <2> QED
    BY <1>7, <2>1, <2>2
<1>8. ASSUME UNCHANGED loading, UNCHANGED mainThread
      PROVE  Kept
  BY <1>a, <1>8 DEF mainThread
<1> QED
  BY <1>1, <1>2, <1>3, <1>4, <1>5, <1>6, <1>7, <1>8 DEF FrenchCall

LEMMA StreakStep ==
  ASSUME FrenchInv, FrenchCall
  PROVE  streak' \in 0 .. StreakLimit - 1
<1> DEFINE Kept == streak' \in 0 .. StreakLimit - 1
<1>a. streak \in 0 .. StreakLimit - 1 /\ 0 \in 0 .. StreakLimit - 1
  BY StreakAssumption DEF FrenchInv, FrenchTypeOK
<1>1. ASSUME NEW target, NEW force, AwakenFrench(target, force)
      PROVE  Kept
  BY <1>a, <1>1 DEF AwakenFrench, frenchVars
<1>2. ASSUME NEW from, SleepFrench(from)
      PROVE  Kept
  BY <1>a, <1>2 DEF SleepFrench
<1>3. ASSUME NEW to \in Modes, SwitchLanguage(to)
      PROVE  Kept
  BY <1>1, <1>2, <1>3 DEF SwitchLanguage
<1>4. ASSUME NEW french \in BOOLEAN, NoteWord(french)
      PROVE  Kept
  <2>1. streak + 1 < StreakLimit => streak + 1 \in 0 .. StreakLimit - 1
    BY <1>a, StreakAssumption
  <2>2. streak + 1 >= StreakLimit \/ streak + 1 < StreakLimit
    BY <1>a, StreakAssumption
  <2> QED
    BY <1>a, <1>1, <1>2, <1>4, <2>1, <2>2 DEF NoteWord
<1>5. CASE UNCHANGED frenchVars \/ Reload
  BY <1>a, <1>5 DEF frenchVars, Reload
<1>6. CASE Shed \/ FreshStart \/ CloseForFrench
  BY <1>a, <1>2, <1>6 DEF Shed, FreshStart, CloseForFrench
<1>7. ASSUME NEW j \in DOMAIN jobs, JobStep(j)
      PROVE  Kept
  BY <1>a, <1>7 DEF JobStep, Open, Close, AssignFacilitator, AssignSuggest, LoadAgain, mainThread
<1>8. CASE TimerExpires \/ ForgetTrim
  BY <1>a, <1>8 DEF TimerExpires, ForgetTrim
<1>9. ASSUME UNCHANGED mainThread
      PROVE  Kept
  BY <1>a, <1>9 DEF mainThread
<1> QED
  BY <1>1, <1>3, <1>4, <1>5, <1>6, <1>7, <1>8, <1>9 DEF FrenchCall

\* A job that the main thread launches holds no dictionary yet.
LEMMA Launched ==
  ASSUME FrenchInv, NEW task \in {"load", "unload", "reload"}, NEW at \in {"open", "close"},
         Launch(task, at), UNCHANGED opened
  PROVE  jobs' \in Seq(Job) /\ jobs' \in Seq(OpenedJob')
<1> DEFINE job == [task |-> task, at |-> at, dict |-> 0]
<1>1. jobs \in Seq(Job) /\ jobs \in Seq(OpenedJob)
  BY DEF FrenchInv, FrenchTypeOK
<1>2. job \in Job /\ OpenedJob' = OpenedJob
  BY DEF Job, OpenedJob
<1>3. job \in OpenedJob
  BY <1>2 DEF FrenchInv, FrenchTypeOK, OpenedJob
<1>4. jobs' = Append(jobs, job)
  BY DEF Launch
<1> QED
  BY <1>1, <1>2, <1>3, <1>4, AppendProperties

\* No coroutine assigns a dictionary but one that was opened.
LEMMA JobsStep ==
  ASSUME FrenchInv, NEW j \in DOMAIN jobs, JobStep(j)
  PROVE  /\ opened' \in Nat /\ {facilitator, suggest}' \subseteq 0 .. opened'
         /\ jobs' \in Seq(Job) /\ jobs' \in Seq(OpenedJob')
<1>1. /\ jobs \in Seq(Job) /\ jobs \in Seq(OpenedJob)
      /\ opened \in Nat /\ facilitator \in 0 .. opened /\ suggest \in 0 .. opened
  BY DEF FrenchInv, FrenchTypeOK
<1>2. jobs[j] \in Job /\ jobs[j].dict <= opened
  BY <1>1, ElementOf DEF OpenedJob
<1>3. Finished(j) \in Seq(Job) /\ Finished(j) \in Seq(OpenedJob)
  BY <1>1, Removal DEF Finished
<1>4. ASSUME NEW place \in {"facilitator", "suggest", "again", "notify"}
      PROVE  MovedTo(j, place) \in Seq(Job) /\ MovedTo(j, place) \in Seq(OpenedJob)
  <2> DEFINE moved == [jobs[j] EXCEPT !.at = place]
  <2>1. moved \in Job /\ moved.dict = jobs[j].dict
    BY <1>2 DEF Job
  <2>2. moved \in OpenedJob
    BY <1>2, <2>1 DEF OpenedJob
  <2>3. MovedTo(j, place) = [jobs EXCEPT ![j] = moved]
    BY DEF MovedTo
  <2> QED
    BY <1>1, <2>1, <2>2, <2>3, Replacement
<1>5. CASE Open(j)
  <2>1. CASE opened' = opened + 1
    <3> DEFINE opening == [jobs[j] EXCEPT !.dict = opened + 1, !.at = "facilitator"]
    <3>1. opening \in Job /\ opening.dict = opened + 1
      <4>1. opened + 1 \in Nat
        BY <1>1
      <4> QED
        BY <1>2, <4>1 DEF Job
    <3>2. OpenedJob \subseteq OpenedJob' /\ opening \in OpenedJob'
      <4>1. \A job \in Job : job.dict \in Nat
        BY DEF Job
      <4>2. \A job \in OpenedJob : job \in Job /\ job.dict <= opened'
        BY <1>1, <2>1, <4>1 DEF OpenedJob
      <4>3. opening.dict <= opened'
        BY <1>1, <2>1, <3>1
      <4> QED
        BY <3>1, <4>2, <4>3 DEF OpenedJob
    <3>3. jobs' = [jobs EXCEPT ![j] = opening]
      BY <1>1, <1>5, <2>1 DEF Open
    <3>4. jobs \in Seq(OpenedJob')
      BY <1>1, <3>2, SeqMonotonic
    <3> QED
      BY <1>1, <1>5, <2>1, <3>1, <3>2, <3>3, <3>4, Replacement DEF Open
  <2>2. CASE opened' # opened + 1
    <3>1. jobs' = Finished(j) /\ UNCHANGED <<opened, facilitator, suggest>>
      BY <1>5, <2>2 DEF Open
    <3> QED
      BY <1>1, <1>3, <3>1 DEF OpenedJob
  <2> QED
    BY <2>1, <2>2
<1>6. CASE Close(j) \/ AssignFacilitator(j)
  <2>1. jobs' \in {MovedTo(j, "facilitator"), MovedTo(j, "suggest")} /\ UNCHANGED <<suggest, opened>>
        /\ facilitator' \in {facilitator, jobs[j].dict}
    BY <1>6 DEF Close, AssignFacilitator
  <2>2. OpenedJob' = OpenedJob
    BY <2>1 DEF OpenedJob
  <2>3. jobs' \in Seq(Job) /\ jobs' \in Seq(OpenedJob)
    BY <1>4, <2>1
  <2>4. jobs[j].dict \in 0 .. opened
    BY <1>1, <1>2 DEF Job
  <2>5. opened' = opened /\ facilitator' \in 0 .. opened /\ suggest' \in 0 .. opened
    BY <1>1, <2>1, <2>4
  <2> QED
    BY <1>1, <2>2, <2>3, <2>5
<1>7. CASE AssignSuggest(j)
  <2>1. jobs' \in {Finished(j), MovedTo(j, "notify"), MovedTo(j, "again")}
        /\ UNCHANGED <<facilitator, opened>> /\ suggest' = jobs[j].dict
    BY <1>2, <1>7 DEF AssignSuggest, Job
  <2>2. OpenedJob' = OpenedJob
    BY <2>1 DEF OpenedJob
  <2> QED
    BY <1>1, <1>2, <1>3, <1>4, <2>1, <2>2 DEF Job
<1>8. CASE LoadAgain(j)
  <2> DEFINE job == [task |-> "load", at |-> "open", dict |-> 0]
  <2>1. jobs' \in {Finished(j), Append(Finished(j), job)} /\ UNCHANGED <<facilitator, suggest, opened>>
    BY <1>8 DEF LoadAgain
  <2>2. OpenedJob' = OpenedJob /\ job \in Job
    BY <2>1 DEF OpenedJob, Job
  <2>3. job \in OpenedJob
    BY <1>1, <2>2 DEF OpenedJob
  <2>4. Append(Finished(j), job) \in Seq(Job) /\ Append(Finished(j), job) \in Seq(OpenedJob)
    BY <1>3, <2>2, <2>3, AppendProperties
  <2> QED
    BY <1>1, <1>3, <2>1, <2>2, <2>4
<1> QED
  BY <1>5, <1>6, <1>7, <1>8 DEF JobStep

LEMMA FilesStep ==
  ASSUME FrenchInv, FrenchCall
  PROVE  /\ opened' \in Nat /\ {facilitator, suggest}' \subseteq 0 .. opened'
         /\ jobs' \in Seq(Job) /\ jobs' \in Seq(OpenedJob')
<1> DEFINE Kept == /\ opened' \in Nat /\ {facilitator, suggest}' \subseteq 0 .. opened'
                   /\ jobs' \in Seq(Job) /\ jobs' \in Seq(OpenedJob')
<1>a. /\ jobs \in Seq(Job) /\ jobs \in Seq(OpenedJob)
      /\ opened \in Nat /\ {facilitator, suggest} \subseteq 0 .. opened
  BY DEF FrenchInv, FrenchTypeOK
<1>b. ASSUME UNCHANGED <<facilitator, suggest, opened, jobs>>
      PROVE  Kept
  BY <1>a, <1>b DEF OpenedJob
<1>c. ASSUME UNCHANGED <<facilitator, suggest, opened>>, Launch("load", "open") \/
             Launch("unload", "close") \/ Launch("reload", "close")
      PROVE  Kept
  BY <1>a, <1>c, Launched
<1>d. CASE EnsureFrenchLoaded
  BY <1>b, <1>c, <1>d DEF EnsureFrenchLoaded
<1>1. ASSUME NEW target, NEW force, AwakenFrench(target, force)
      PROVE  Kept
  BY <1>b, <1>d, <1>1 DEF AwakenFrench, frenchVars
<1>2. ASSUME NEW to \in Modes, SwitchLanguage(to)
      PROVE  Kept
  BY <1>b, <1>1, <1>2 DEF SwitchLanguage, frenchFiles
<1>3. ASSUME NEW french \in BOOLEAN, NoteWord(french)
      PROVE  Kept
  BY <1>b, <1>1, <1>3 DEF NoteWord, frenchFiles
<1>4. CASE Shed \/ Reload
  BY <1>c, <1>4 DEF Shed, Reload
<1>5. CASE UNCHANGED frenchVars \/ FreshStart \/ CloseForFrench \/ TimerExpires \/ ForgetTrim
  BY <1>b, <1>5 DEF frenchVars, FreshStart, CloseForFrench, TimerExpires, ForgetTrim, frenchFiles
<1>6. ASSUME NEW j \in DOMAIN jobs, jobs' = Finished(j), UNCHANGED <<facilitator, suggest, opened>>
      PROVE  Kept
  BY <1>a, <1>6, Removal DEF Finished, OpenedJob
<1> QED
  BY <1>1, <1>2, <1>3, <1>4, <1>5, <1>6, JobsStep DEF FrenchCall

LEMMA FrenchStep == FrenchInv /\ [Next]_vars => FrenchInv'
<1> SUFFICES ASSUME FrenchInv, [Next]_vars PROVE FrenchInv'
  OBVIOUS
<1> QED
  BY FrenchCalled, ModeStep, StreakStep, FilesStep DEF FrenchInv, FrenchTypeOK, FlagsTyped

\* French sleeps exactly in English mode, whichever handler wakes it, puts it to sleep,
\* sheds it or changes the mode (DormantSpeaksEnglish, the safety part of FrenchSettles).
THEOREM FrenchSleepsInEnglish == Spec => []DormantSpeaksEnglish
  BY FrenchInitially, FrenchStep, PTL DEF Spec, FrenchInv

(***************************************************************************)
(* The rest of the state, part by part.                                    *)
(***************************************************************************)

\* Where the user is, and how many events there have been.
PlaceInv ==
    /\ field \in 0 .. MaxFields /\ starts \in 0 .. MaxFields
    /\ scenario \in Scenarios /\ events \in 0 .. scenario.most

\* The composer and the editor's span, which show the same word.
TypingInv == typed \in 0 .. MaxWord /\ span \in 0 .. MaxWord /\ ComposingShown

AskingInv ==
    /\ queries \in Seq(Query) /\ words \in SuggestedWords
    /\ strip \subseteq Candidate /\ mapped \subseteq Candidate

\* A pattern view that was opened for a candidate is one of the phrases' vault, and so is
\* every callback in its delay: that is why a pending commit finds the vault open.
Asked == {m \in Modal : m.commit # 0 => m.type = "privacy"}
Rightly == {s \in [to : 0 .. MaxFields, from : Fields, open : BOOLEAN] : s.to = s.from /\ s.open}

LockingInv ==
    /\ secret \in BOOLEAN /\ unlocked \in BOOLEAN
    /\ modal \in Asked /\ verified \in Seq(Asked)
    /\ sent \subseteq Rightly

TextInv == FrenchInv /\ PlaceInv /\ TypingInv /\ AskingInv /\ LockingInv /\ remembered \in Seq(Words)

LEMMA TextInitially == Init => TextInv
<1> SUFFICES ASSUME Init PROVE TextInv
  OBVIOUS
<1>1. PlaceInv
  BY FieldsAssumption, ScenariosAssumption DEF Init, PlaceInv
<1>2. TypingInv
  BY WordsAssumption DEF Init, TypingInv, ComposingShown
<1>3. AskingInv
  <2>1. words \in SuggestedWords
    BY WordsAssumption DEF Init, NoWords, SuggestedWords
  <2>2. queries \in Seq(Query)
    BY EmptySeq DEF Init
  <2> QED
    BY <2>1, <2>2 DEF Init, AskingInv
<1>4. LockingInv
  <2>1. modal \in Asked
    BY FieldsAssumption DEF Init, NoModal, Asked, Modal
  <2>2. verified \in Seq(Asked)
    BY EmptySeq DEF Init
  <2> QED
    BY <2>1, <2>2 DEF Init, LockingInv
<1>5. remembered \in Seq(Words)
  BY EmptySeq DEF Init
<1> QED
  BY <1>1, <1>2, <1>3, <1>4, <1>5, FrenchInitially DEF TextInv

\* The events, and everything that happens without one.
Events ==
    \/ \E restarting \in BOOLEAN : StartInputView(restarting)
    \/ FinishInputView \/ TypeSecretly
    \/ \E diacritic \in BOOLEAN : TypeCharacter(diacritic)
    \/ Delete \/ Space \/ Punctuate \/ MoveCursor \/ UpdateSelection
    \/ \E c \in strip, french \in BOOLEAN : SelectSuggestion(c, french)
    \/ \E type \in {"privacy", "security"} : OpenPattern(type)
    \/ Verify \/ DismissPattern \/ TogglePartition
    \/ \E to \in Modes : SetLanguageMode(to)
    \/ OnTrimMemory \/ ReloadDictionaries

LEMMA EventCounted ==
  ASSUME Events
  PROVE  events < scenario.most /\ events' = events + 1 /\ UNCHANGED scenario
  BY DEF Events, StartInputView, FinishInputView, TypeSecretly, TypeCharacter, Delete, Space,
     Punctuate, MoveCursor, UpdateSelection, SelectSuggestion, OpenPattern, Verify,
     DismissPattern, TogglePartition, SetLanguageMode, OnTrimMemory, ReloadDictionaries,
     Typing, Event

LEMMA BackgroundQuiet ==
  ASSUME Background
  PROVE  UNCHANGED quiet
  BY DEF Background, SessionEnds, UnlockCallback, QueryStep, Search, Match, Check, Publish,
     Coroutine, NotifyLoaded, Debounce

LEMMA EventOrBackground ==
  ASSUME [Next]_vars
  PROVE  Events \/ Background \/ UNCHANGED vars
  BY DEF Next, UserOrSystem, Events

LEMMA PlaceStep ==
  ASSUME PlaceInv, [Next]_vars
  PROVE  PlaceInv'
<1>1. CASE Events
  <2>1. scenario' \in Scenarios /\ events' \in 0 .. scenario'.most
    BY <1>1, EventCounted, ScenariosAssumption DEF PlaceInv
  <2>2. \/ UNCHANGED <<field, starts>>
        \/ field' = 0 /\ UNCHANGED starts
        \/ starts < MaxFields /\ starts' = starts + 1 /\ field' = starts + 1
    BY <1>1 DEF Events, StartInputView, FinishInputView, TypeSecretly, TypeCharacter, Delete,
       Space, Punctuate, MoveCursor, UpdateSelection, SelectSuggestion, OpenPattern, Verify,
       DismissPattern, TogglePartition, SetLanguageMode, OnTrimMemory, ReloadDictionaries
  <2>3. field' \in 0 .. MaxFields /\ starts' \in 0 .. MaxFields
    BY <2>2, FieldsAssumption DEF PlaceInv
  <2> QED
    BY <2>1, <2>3 DEF PlaceInv
<1>2. CASE Background
  BY <1>2, BackgroundQuiet DEF PlaceInv, quiet
<1>3. CASE UNCHANGED vars
  BY <1>3 DEF PlaceInv, vars
<1> QED
  BY <1>1, <1>2, <1>3, EventOrBackground

\* What a step does to the composer and to the span.
TypingCall ==
    \/ UNCHANGED <<typed, span>>
    \/ typed' = 0 /\ span' \in {0, span}
    \/ typed' \in 0 .. MaxWord /\ span' = typed'
    \/ UNCHANGED typed /\ span' \in {0, span}

LEMMA TypingCalled ==
  ASSUME TypingInv, [Next]_vars
  PROVE  TypingCall
<1> USE DEF TypingCall, Underline, Commit
<1>1. ASSUME NEW restarting \in BOOLEAN, StartInputView(restarting)
      PROVE  TypingCall
  BY <1>1 DEF StartInputView
<1>2. CASE FinishInputView \/ TypeSecretly \/ Punctuate \/ MoveCursor \/ UpdateSelection
  BY <1>2 DEF FinishInputView, TypeSecretly, Punctuate, MoveCursor, UpdateSelection
<1>3. ASSUME NEW diacritic \in BOOLEAN, TypeCharacter(diacritic)
      PROVE  TypingCall
  BY <1>3, WordsAssumption DEF TypeCharacter, TypingInv
<1>4. CASE Delete
  <2>1. CASE DeleteSecretly
    BY <2>1 DEF DeleteSecretly
  <2>2. CASE Shorten
    <3>1. typed - 1 \in 0 .. MaxWord /\ (typed > 1 \/ typed - 1 = 0)
      BY <2>2, WordsAssumption DEF Shorten, TypingInv
    <3> QED
      BY <2>2, <3>1 DEF Shorten
  <2>3. ASSUME NEW before \in 0 .. MaxWord, DeleteBefore(before)
        PROVE  TypingCall
    <3>1. before > 1 => before - 1 \in 0 .. MaxWord
      BY WordsAssumption
    <3> QED
      BY <2>3, <3>1 DEF DeleteBefore
  <2> QED
    BY <1>4, <2>1, <2>2, <2>3 DEF Delete
<1>5. CASE Space
  BY <1>5 DEF Space, SpaceAfterWord, SpaceAlone
<1>6. ASSUME NEW c \in strip, NEW french \in BOOLEAN, SelectSuggestion(c, french)
      PROVE  TypingCall
  BY <1>6 DEF SelectSuggestion, SelectVault, SelectWord, CommitVaultPhrase, typing
<1>7. ASSUME NEW type \in {"privacy", "security"}, OpenPattern(type)
      PROVE  TypingCall
  BY <1>7 DEF OpenPattern, typing
<1>8. CASE Verify \/ DismissPattern \/ TogglePartition \/ OnTrimMemory \/ ReloadDictionaries
           \/ SessionEnds \/ Debounce
  BY <1>8 DEF Verify, DismissPattern, TogglePartition, OnTrimMemory, ReloadDictionaries,
     SessionEnds, Debounce, typing
<1>9. ASSUME NEW to \in Modes, SetLanguageMode(to)
      PROVE  TypingCall
  BY <1>9 DEF SetLanguageMode
<1>10. ASSUME NEW i \in DOMAIN verified, UnlockCallback(i)
       PROVE  TypingCall
  BY <1>10 DEF UnlockCallback, CommitVaultPhrase, typing
<1>11. ASSUME NEW q \in DOMAIN queries, QueryStep(q)
       PROVE  TypingCall
  BY <1>11 DEF QueryStep, Search, Match, Check, Publish, typing
<1>12. ASSUME NEW j \in DOMAIN jobs, Coroutine(j) \/ NotifyLoaded(j)
       PROVE  TypingCall
  BY <1>12 DEF Coroutine, NotifyLoaded, typing
<1>13. CASE UNCHANGED vars
  BY <1>13 DEF vars, typing
<1> QED
  BY <1>1, <1>2, <1>3, <1>4, <1>5, <1>6, <1>7, <1>8, <1>9, <1>10, <1>11, <1>12, <1>13
     DEF Next, UserOrSystem, Background

LEMMA TypingStep ==
  ASSUME TypingInv, [Next]_vars
  PROVE  TypingInv'
<1>1. TypingCall
  BY TypingCalled
<1> QED
  BY <1>1, WordsAssumption DEF TypingCall, TypingInv, ComposingShown

\* What a step does to the suggestions and the queries.
AskingCall ==
    \/ UNCHANGED asking
    \/ \E next \in BOOLEAN : Ask(next)
    \/ ClearSuggestions
    \/ strip' = {} /\ UNCHANGED <<queries, words, mapped>>
    \/ \E q \in DOMAIN queries : QueryStep(q)

LEMMA AskingCalled ==
  ASSUME [Next]_vars
  PROVE  AskingCall
<1> USE DEF AskingCall
<1>1. ASSUME NEW restarting \in BOOLEAN, StartInputView(restarting)
      PROVE  AskingCall
  BY <1>1 DEF StartInputView
<1>2. CASE FinishInputView \/ TypeSecretly \/ Punctuate \/ MoveCursor \/ UpdateSelection
  BY <1>2 DEF FinishInputView, TypeSecretly, Punctuate, MoveCursor, UpdateSelection
<1>3. ASSUME NEW diacritic \in BOOLEAN, TypeCharacter(diacritic)
      PROVE  AskingCall
  BY <1>3 DEF TypeCharacter
<1>4. CASE Delete
  BY <1>4 DEF Delete, DeleteSecretly, Shorten, DeleteBefore
<1>5. CASE Space
  BY <1>5 DEF Space, SpaceAfterWord, SpaceAlone
<1>6. ASSUME NEW c \in strip, NEW french \in BOOLEAN, SelectSuggestion(c, french)
      PROVE  AskingCall
  BY <1>6 DEF SelectSuggestion, SelectVault, SelectWord, CommitVaultPhrase
<1>7. ASSUME NEW type \in {"privacy", "security"}, OpenPattern(type)
      PROVE  AskingCall
  BY <1>7 DEF OpenPattern
<1>8. CASE Verify \/ DismissPattern \/ TogglePartition \/ OnTrimMemory \/ ReloadDictionaries
           \/ SessionEnds \/ Debounce
  BY <1>8 DEF Verify, DismissPattern, TogglePartition, OnTrimMemory, ReloadDictionaries,
     SessionEnds, Debounce
<1>9. ASSUME NEW to \in Modes, SetLanguageMode(to)
      PROVE  AskingCall
  BY <1>9 DEF SetLanguageMode
<1>10. ASSUME NEW i \in DOMAIN verified, UnlockCallback(i)
       PROVE  AskingCall
  BY <1>10 DEF UnlockCallback, CommitVaultPhrase
<1>11. ASSUME NEW q \in DOMAIN queries, QueryStep(q)
       PROVE  AskingCall
  BY <1>11
<1>12. ASSUME NEW j \in DOMAIN jobs, Coroutine(j) \/ NotifyLoaded(j)
       PROVE  AskingCall
  BY <1>12 DEF Coroutine, NotifyLoaded
<1>13. CASE UNCHANGED vars
  BY <1>13 DEF vars
<1> QED
  BY <1>1, <1>2, <1>3, <1>4, <1>5, <1>6, <1>7, <1>8, <1>9, <1>10, <1>11, <1>12, <1>13
     DEF Next, UserOrSystem, Background

\* The candidates a query finds are candidates, whatever the composer holds by then.
LEMMA CorrectionWord ==
  ASSUME NEW w \in 0 .. MaxWord
  PROVE  Correction(w) \in Words
  BY WordsAssumption DEF Correction, Words

LEMMA ShownCandidate ==
  ASSUME NEW w \in Words, NEW as \in {"word", "masked", "plain"}
  PROVE  Shown(as, w) \in Candidate
  BY DEF Shown, Candidate

LEMMA PhraseCandidate ==
  /\ Shown("word", Phrase) \in Candidate
  /\ Shown("plain", Phrase) \in Candidate
  /\ Shown("masked", Phrase) \in Candidate
  BY WordsAssumption, ShownCandidate

LEMMA SearchTyped ==
  ASSUME AskingInv, typed \in 0 .. MaxWord, NEW q \in DOMAIN queries, Search(q)
  PROVE  queries' \in Seq(Query)
<1>1. queries[q] \in Query /\ queries \in Seq(Query)
  BY ElementOf DEF AskingInv
<1>2. PICK corrects \in BOOLEAN, found \in BOOLEAN, for \in 0 .. MaxWord :
        queries' = [queries EXCEPT
               ![q].at = IF queries[q].next THEN "check" ELSE "match",
               ![q].found = IF found /\ ~queries[q].next
                            THEN [for |-> for, corrects |-> corrects]
                            ELSE NoWords,
               ![q].list = (IF for = 0 THEN {} ELSE {Shown("word", for)})
                           \cup (IF found THEN {Shown("word", Correction(for))} ELSE {})]
  <2> DEFINE After(corrects, found, for) == [queries EXCEPT
               ![q].at = IF queries[q].next THEN "check" ELSE "match",
               ![q].found = IF found /\ ~queries[q].next
                            THEN [for |-> for, corrects |-> corrects]
                            ELSE NoWords,
               ![q].list = (IF for = 0 THEN {} ELSE {Shown("word", for)})
                           \cup (IF found THEN {Shown("word", Correction(for))} ELSE {})]
  <2>1. 0 \in 0 .. MaxWord
    BY WordsAssumption
  <2>2. PICK c \in BOOLEAN, hit \in BOOLEAN :
           queries' = After(c, hit /\ (mode = "french" => suggest # 0),
                            IF queries[q].next THEN 0 ELSE typed)
    BY DEF Search
  <2>3. (IF queries[q].next THEN 0 ELSE typed) \in 0 .. MaxWord
    BY <2>1
  <2>4. (hit /\ (mode = "french" => suggest # 0)) \in BOOLEAN
    OBVIOUS
  <2> HIDE DEF After
  <2>5. \E corrects \in BOOLEAN, found \in BOOLEAN, for \in 0 .. MaxWord :
           queries' = After(corrects, found, for)
    BY <2>2, <2>3, <2>4, Zenon
  <2> QED
    BY <2>5, Zenon DEF After
<1> DEFINE at == IF queries[q].next THEN "check" ELSE "match"
           words1 == IF found /\ ~queries[q].next
                     THEN [for |-> for, corrects |-> corrects] ELSE NoWords
           list == (IF for = 0 THEN {} ELSE {Shown("word", for)})
                   \cup (IF found THEN {Shown("word", Correction(for))} ELSE {})
           query == [queries[q] EXCEPT !.at = at, !.found = words1, !.list = list]
<1>3. at \in {"search", "match", "check", "publish"}
  OBVIOUS
<1>4. words1 \in SuggestedWords
  BY WordsAssumption DEF SuggestedWords, NoWords
<1>5. list \in SUBSET Candidate
  <2>1. for # 0 => for \in Words
    BY WordsAssumption DEF Words
  <2> QED
    BY <2>1, CorrectionWord, ShownCandidate
<1>6. query \in Query
  <2> HIDE DEF at, words1, list
  <2> QED
    BY <1>1, <1>3, <1>4, <1>5 DEF Query
<1>7. queries' = [queries EXCEPT ![q] = query]
  BY <1>1, <1>2
<1> HIDE DEF query
<1> QED
  BY <1>1, <1>6, <1>7, Replacement

LEMMA AskingStep ==
  ASSUME AskingInv, TypingInv, [Next]_vars
  PROVE  AskingInv'
<1>a. /\ queries \in Seq(Query) /\ words \in SuggestedWords
      /\ strip \subseteq Candidate /\ mapped \subseteq Candidate
  BY DEF AskingInv
<1>b. NoWords \in SuggestedWords /\ {} \subseteq Candidate
  BY WordsAssumption DEF NoWords, SuggestedWords
<1>1. CASE UNCHANGED asking
  BY <1>a, <1>1 DEF asking, AskingInv
<1>2. ASSUME NEW next \in BOOLEAN, Ask(next)
      PROVE  AskingInv'
  <2> DEFINE older == [q \in DOMAIN queries |-> [queries[q] EXCEPT !.newest = FALSE]]
             query == [newest |-> TRUE, next |-> next, at |-> "search",
                       found |-> NoWords, list |-> {}]
  <2>1. Len(queries) \in Nat /\ DOMAIN queries = 1 .. Len(queries)
    BY <1>a, LenProperties
  <2>2. \A q \in DOMAIN queries : [queries[q] EXCEPT !.newest = FALSE] \in Query
    <3> SUFFICES ASSUME NEW q \in DOMAIN queries
                 PROVE  [queries[q] EXCEPT !.newest = FALSE] \in Query
      OBVIOUS
    <3>1. queries[q] \in Query
      BY <1>a, ElementOf
    <3> QED
      BY <3>1 DEF Query
  <2>3. older \in Seq(Query)
    BY <2>1, <2>2, SeqDef
  <2>4. query \in Query
    BY <1>b DEF Query
  <2>5. queries' = Append(older, query) /\ UNCHANGED <<words, strip, mapped>>
    BY <1>2 DEF Ask
  <2>6. queries' \in Seq(Query)
    <3> HIDE DEF older, query
    <3> QED
      BY <2>3, <2>4, <2>5, AppendProperties
  <2> QED
    BY <1>a, <2>5, <2>6 DEF AskingInv
<1>3. CASE ClearSuggestions
  BY <1>a, <1>b, <1>3 DEF ClearSuggestions, AskingInv
<1>4. CASE strip' = {} /\ UNCHANGED <<queries, words, mapped>>
  BY <1>a, <1>4 DEF AskingInv
<1>5. ASSUME NEW q \in DOMAIN queries, QueryStep(q)
      PROVE  AskingInv'
  <2>1. queries[q] \in Query /\ RemoveAt(queries, q) \in Seq(Query)
    BY <1>a, ElementOf, Removal DEF RemoveAt
  <2>2. queries[q].found \in SuggestedWords /\ queries[q].list \subseteq Candidate
    BY <2>1 DEF Query
  <2>3. ASSUME NEW place \in {"search", "match", "check", "publish"}
        PROVE  Went(q, place) \in Seq(Query)
    <3>1. [queries[q] EXCEPT !.at = place] \in Query
      BY <2>1 DEF Query
    <3> QED
      BY <1>a, <3>1, Replacement DEF Went
  <2>4. CASE Search(q)
    <3>1. queries' \in Seq(Query)
      BY <2>4, SearchTyped DEF TypingInv
    <3> QED
      BY <1>a, <2>4, <3>1 DEF Search, AskingInv
  <2>5. CASE Match(q)
    <3>1. PICK display \in Candidate :
            \/ /\ queries' = [queries EXCEPT ![q].list = @ \cup {display}, ![q].at = "check"]
               /\ mapped' \in {mapped, mapped \cup {display}}
            \/ queries' = Went(q, "check") /\ UNCHANGED mapped
      BY <2>5, PhraseCandidate DEF Match
    <3> DEFINE query == [queries[q] EXCEPT !.list = @ \cup {display}, !.at = "check"]
    <3>2. query \in Query
      BY <2>1, <2>2 DEF Query
    <3>3. [queries EXCEPT ![q].list = @ \cup {display}, ![q].at = "check"]
          = [queries EXCEPT ![q] = query]
      BY <1>a, LenProperties
    <3>4. [queries EXCEPT ![q] = query] \in Seq(Query)
      <4> HIDE DEF query
      <4> QED
        BY <1>a, <3>2, Replacement
    <3>5. queries' \in Seq(Query) /\ mapped' \subseteq Candidate
      BY <1>a, <2>3, <3>1, <3>3, <3>4
    <3> QED
      BY <1>a, <2>5, <3>5 DEF Match, AskingInv
  <2>6. CASE Check(q)
    BY <1>a, <2>1, <2>3, <2>6 DEF Check, AskingInv
  <2>7. CASE Publish(q)
    BY <1>a, <2>1, <2>2, <2>7 DEF Publish, AskingInv
  <2> QED
    BY <1>5, <2>4, <2>5, <2>6, <2>7 DEF QueryStep
<1> QED
  BY AskingCalled, <1>1, <1>2, <1>3, <1>4, <1>5 DEF AskingCall

\* What a step does to the vault: the pattern view and its callbacks.
LockingCall ==
    \/ UNCHANGED <<secret, locking>>
    \/ secret' = ~secret /\ UNCHANGED locking
    \/ FinishInputView
    \/ field # 0 /\ unlocked /\ CommitVaultPhrase(field, unlocked)
       /\ UNCHANGED <<secret, unlocked, modal, verified>>
    \/ field # 0 /\ modal' = [type |-> "privacy", commit |-> field, done |-> FALSE]
       /\ UNCHANGED <<secret, unlocked, verified, sent>>
    \/ \E type \in {"privacy", "security"} : OpenPattern(type)
    \/ Verify \/ DismissPattern \/ SessionEnds
    \/ \E i \in DOMAIN verified : UnlockCallback(i)

LEMMA LockingCalled ==
  ASSUME [Next]_vars
  PROVE  LockingCall
<1> USE DEF LockingCall
<1>1. ASSUME NEW restarting \in BOOLEAN, StartInputView(restarting)
      PROVE  LockingCall
  BY <1>1 DEF StartInputView
<1>2. CASE FinishInputView \/ Verify \/ DismissPattern \/ SessionEnds
  BY <1>2
<1>3. CASE TypeSecretly \/ Delete \/ Space \/ Punctuate \/ MoveCursor \/ UpdateSelection
  BY <1>3 DEF TypeSecretly, Delete, Space, Punctuate, MoveCursor, UpdateSelection
<1>4. ASSUME NEW diacritic \in BOOLEAN, TypeCharacter(diacritic)
      PROVE  LockingCall
  BY <1>4 DEF TypeCharacter
<1>5. ASSUME NEW c \in strip, NEW french \in BOOLEAN, SelectSuggestion(c, french)
      PROVE  LockingCall
  <2>1. field # 0 /\ UNCHANGED <<secret, unlocked, verified>> /\ (SelectVault(c) \/ SelectWord(c, french))
    BY <1>5 DEF SelectSuggestion, Typing
  <2>2. CASE SelectVault(c) /\ unlocked
    BY <2>1, <2>2 DEF SelectVault
  <2>3. CASE SelectVault(c) /\ ~unlocked
    BY <2>1, <2>3 DEF SelectVault
  <2>4. CASE SelectWord(c, french)
    BY <2>1, <2>4 DEF SelectWord, locking
  <2> QED
    BY <2>1, <2>2, <2>3, <2>4
<1>6. ASSUME NEW type \in {"privacy", "security"}, OpenPattern(type)
      PROVE  LockingCall
  BY <1>6
<1>7. CASE TogglePartition
  BY <1>7 DEF TogglePartition
<1>8. CASE OnTrimMemory \/ ReloadDictionaries
  BY <1>8 DEF OnTrimMemory, ReloadDictionaries
<1>9. ASSUME NEW to \in Modes, SetLanguageMode(to)
      PROVE  LockingCall
  BY <1>9 DEF SetLanguageMode
<1>10. ASSUME NEW i \in DOMAIN verified, UnlockCallback(i)
       PROVE  LockingCall
  BY <1>10
<1>11. ASSUME NEW q \in DOMAIN queries, QueryStep(q)
       PROVE  LockingCall
  BY <1>11 DEF QueryStep, Search, Match, Check, Publish, quiet
<1>12. ASSUME NEW j \in DOMAIN jobs, Coroutine(j) \/ NotifyLoaded(j)
       PROVE  LockingCall
  BY <1>12 DEF Coroutine, NotifyLoaded, quiet
<1>13. CASE Debounce
  BY <1>13 DEF Debounce, quiet
<1>14. CASE UNCHANGED vars
  BY <1>14 DEF vars
<1> QED
  BY <1>1, <1>2, <1>3, <1>4, <1>5, <1>6, <1>7, <1>8, <1>9, <1>10, <1>11, <1>12, <1>13,
     <1>14 DEF Next, UserOrSystem, Background

\* An open vault writes its phrase where its candidate was tapped.
LEMMA PhraseSent ==
  ASSUME sent \subseteq Rightly, NEW ic \in Fields, NEW open, open = TRUE, CommitVaultPhrase(ic, open)
  PROVE  sent' \subseteq Rightly
<1> DEFINE phrase == [to |-> ic, from |-> ic, open |-> open]
<1>1. sent' = sent \cup {phrase}
  BY DEF CommitVaultPhrase, CommitTarget
<1>2. ic \in 0 .. MaxFields
  BY FieldsAssumption DEF Fields
<1>3. open \in BOOLEAN
  OBVIOUS
<1>4. phrase \in [to : 0 .. MaxFields, from : Fields, open : BOOLEAN]
  BY <1>2, <1>3, Zenon
<1>5. phrase.to = phrase.from /\ phrase.open = TRUE
  OBVIOUS
<1>6. phrase \in Rightly
  <2> HIDE DEF phrase
  <2> QED
    BY <1>4, <1>5 DEF Rightly
<1> QED
  BY <1>1, <1>6

LEMMA LockingStep ==
  ASSUME LockingInv, PlaceInv, [Next]_vars
  PROVE  LockingInv'
<1>a. /\ secret \in BOOLEAN /\ unlocked \in BOOLEAN
      /\ modal \in Asked /\ verified \in Seq(Asked) /\ sent \subseteq Rightly
  BY DEF LockingInv
<1>b. NoModal \in Asked
  BY FieldsAssumption DEF NoModal, Asked, Modal
<1>c. field # 0 => field \in Fields
  BY FieldsAssumption DEF PlaceInv, Fields
<1>d. Fields \subseteq 0 .. MaxFields /\ 0 \in 0 .. MaxFields /\ 0 \notin Fields
  BY FieldsAssumption DEF Fields
<1>e. \A m \in Asked : m.commit # 0 => m.commit \in Fields /\ m.type = "privacy"
  BY FieldsAssumption DEF Asked, Modal, Fields
<1> USE DEF LockingInv
<1>1. CASE UNCHANGED <<secret, locking>>
  BY <1>a, <1>1 DEF locking
<1>2. CASE secret' = ~secret /\ UNCHANGED locking
  BY <1>a, <1>2 DEF locking
<1>3. CASE FinishInputView
  BY <1>a, <1>b, <1>3 DEF FinishInputView
<1>4. CASE /\ field # 0 /\ unlocked /\ CommitVaultPhrase(field, unlocked)
           /\ UNCHANGED <<secret, unlocked, modal, verified>>
  <2>1. sent' \subseteq Rightly
    BY <1>a, <1>c, <1>4, PhraseSent
  <2> QED
    BY <1>a, <1>4, <2>1
<1>5. CASE /\ field # 0 /\ modal' = [type |-> "privacy", commit |-> field, done |-> FALSE]
           /\ UNCHANGED <<secret, unlocked, verified, sent>>
  <2>1. modal' \in Asked
    BY <1>c, <1>d, <1>5 DEF Asked, Modal
  <2> QED
    BY <1>a, <1>5, <2>1
<1>6. ASSUME NEW type \in {"privacy", "security"}, OpenPattern(type)
      PROVE  LockingInv'
  <2>1. modal' \in Asked
    BY <1>d, <1>6 DEF OpenPattern, Asked, Modal
  <2> QED
    BY <1>a, <1>6, <2>1 DEF OpenPattern
<1>7. CASE Verify
  <2>1. modal' \in Asked
    BY <1>a, <1>7 DEF Verify, Asked, Modal
  <2>2. verified' \in Seq(Asked)
    BY <1>a, <1>7, AppendProperties DEF Verify
  <2> QED
    BY <1>a, <1>7, <2>1, <2>2 DEF Verify
<1>8. CASE DismissPattern
  BY <1>a, <1>b, <1>8 DEF DismissPattern
<1>9. CASE SessionEnds
  BY <1>a, <1>9 DEF SessionEnds, quiet
<1>10. ASSUME NEW i \in DOMAIN verified, UnlockCallback(i)
       PROVE  LockingInv'
  <2>1. verified[i] \in Asked /\ verified' \in Seq(Asked)
    BY <1>a, <1>10, ElementOf, Removal DEF UnlockCallback, RemoveAt
  <2>2. unlocked' \in BOOLEAN /\ (verified[i].type = "privacy" => unlocked' = TRUE)
    <3>1. unlocked' = (unlocked \/ verified[i].type = "privacy")
      BY <1>10 DEF UnlockCallback
    <3> QED
      BY <1>a, <3>1
  <2>3. sent' \subseteq Rightly
    <3>1. CASE verified[i].commit # 0
      <4>1. verified[i].commit \in Fields /\ unlocked' = TRUE
        BY <1>e, <2>1, <2>2, <3>1
      <4>2. CommitVaultPhrase(verified[i].commit, unlocked')
        BY <1>10, <3>1 DEF UnlockCallback
      <4> QED
        BY <1>a, <4>1, <4>2, PhraseSent
    <3>2. CASE verified[i].commit = 0
      BY <1>a, <1>10, <3>2 DEF UnlockCallback
    <3> QED
      BY <3>1, <3>2
  <2> QED
    BY <1>a, <1>b, <1>10, <2>1, <2>2, <2>3 DEF UnlockCallback, quiet
<1> QED
  BY LockingCalled, <1>1, <1>2, <1>3, <1>4, <1>5, <1>6, <1>7, <1>8, <1>9, <1>10 DEF LockingCall

\* A word that is remembered is at the end of the history, and was no word of the vault.
LEMMA WordRemembered ==
  ASSUME remembered \in Seq(Words), NEW w \in Words, Remember(w)
  PROVE  /\ remembered' \in Seq(Words)
         /\ remembered' # remembered => ~IsVaultWord(w) /\ Last(remembered') = w
<1> DEFINE longer == Append(remembered, w)
           from == IF Len(longer) > MaxRemember THEN 2 ELSE 1
<1>1. CASE IsVaultWord(w)
  BY <1>1 DEF Remember
<1>2. CASE ~IsVaultWord(w)
  <2>1. longer \in Seq(Words) /\ Len(longer) = Len(remembered) + 1 /\ longer[Len(longer)] = w
        /\ Len(remembered) \in Nat
    BY AppendProperties, LenProperties
  <2>2. MaxRemember \in Nat \ {0}
    BY SizesAssumption
  <2>3. from \in 1 .. Len(longer) /\ Len(longer) \in Nat
    BY <2>1, <2>2
  <2>4. remembered' = SubSeq(longer, from, Len(longer))
    BY <1>2 DEF Remember
  <2> HIDE DEF longer, from
  <2>5. \A i \in from .. Len(longer) : longer[i] \in Words
    BY <2>1, <2>3, ElementOfSeq
  <2>6. /\ remembered' \in Seq(Words) /\ Len(remembered') = Len(longer) - from + 1
        /\ \A i \in 1 .. Len(longer) - from + 1 : remembered'[i] = longer[from + i - 1]
    BY <2>3, <2>4, <2>5, SubSeqProperties
  <2>7. remembered'[Len(remembered')] = w
    BY <2>1, <2>3, <2>6
  <2> QED
    BY <1>2, <2>6, <2>7 DEF Last
<1> QED
  BY <1>1, <1>2

LEMMA RememberedStep ==
  ASSUME remembered \in Seq(Words), TypingInv, AskingInv, [Next]_vars
  PROVE  /\ remembered' \in Seq(Words)
         /\ remembered' # remembered => ~IsVaultWord(Last(remembered'))
<1> DEFINE Kept == /\ remembered' \in Seq(Words)
                   /\ remembered' # remembered => ~IsVaultWord(Last(remembered'))
<1>1. CASE UNCHANGED remembered
  BY <1>1
<1>2. ASSUME NEW w \in Words, Remember(w)
      PROVE  Kept
  BY <1>2, WordRemembered
<1>3. CASE SpaceAfterWord
  <2>1. (IF words.corrects THEN Correction(words.for) ELSE typed) \in Words
    <3>1. words.for \in 0 .. MaxWord
      BY DEF AskingInv, SuggestedWords
    <3>2. typed \in Words
      BY <1>3, WordsAssumption DEF SpaceAfterWord, TypingInv, Words
    <3> QED
      BY <3>1, <3>2, CorrectionWord
  <2> QED
    BY <1>2, <1>3, <2>1 DEF SpaceAfterWord
<1>4. ASSUME NEW c \in strip, NEW french \in BOOLEAN, SelectWord(c, french)
      PROVE  Kept
  <2>1. c.word \in Words
    BY DEF AskingInv, Candidate
  <2> QED
    BY <1>2, <1>4, <2>1 DEF SelectWord
<1>5. \/ UNCHANGED remembered \/ SpaceAfterWord
      \/ \E c \in strip, french \in BOOLEAN : SelectWord(c, french)
  BY DEF Next, UserOrSystem, Background, vars, StartInputView, FinishInputView, TypeSecretly,
     TypeCharacter, Delete, Space, SpaceAlone, Punctuate, MoveCursor, UpdateSelection,
     SelectSuggestion, SelectVault, OpenPattern, Verify, DismissPattern, TogglePartition,
     SetLanguageMode, OnTrimMemory, ReloadDictionaries, SessionEnds, UnlockCallback, QueryStep,
     Search, Match, Check, Publish, Coroutine, NotifyLoaded, Debounce, quiet
<1> QED
  BY <1>1, <1>3, <1>4, <1>5

LEMMA TextStep == TextInv /\ [Next]_vars => TextInv'
  BY FrenchStep, PlaceStep, TypingStep, AskingStep, LockingStep, RememberedStep DEF TextInv

LEMMA TextTyped == TextInv => TypeOK
<1> SUFFICES ASSUME TextInv PROVE TypeOK
  OBVIOUS
<1>1. modal \in Modal /\ verified \in Seq(Modal)
  BY SeqMonotonic DEF TextInv, LockingInv, Asked
<1>2. sent \subseteq [to : 0 .. MaxFields, from : Fields, open : BOOLEAN]
  BY DEF TextInv, LockingInv, Rightly
<1> QED
  BY <1>1, <1>2 DEF TextInv, FrenchInv, PlaceInv, TypingInv, AskingInv, LockingInv, TypeOK

(***************************************************************************)
(* What the runs check, for every value of the constants.                  *)
(***************************************************************************)

\* The state is well typed, and a secret's phrase was never written but into the field
\* where its candidate was tapped, by an open vault: CommitVaultPhrase, by a tap and by an
\* unlock callback of any age (SecretsKept).
THEOREM SecretsSafe == Spec => []SecretsKept
<1>1. TextInv => SecretsKept
  <2>1. ASSUME LockingInv
        PROVE  SecretToItsField /\ SecretNeedsUnlock
    BY <2>1 DEF LockingInv, Rightly, SecretToItsField, SecretNeedsUnlock
  <2> QED
    BY <2>1, TextTyped DEF TextInv, SecretsKept
<1> QED
  BY <1>1, TextInitially, TextStep, PTL DEF Spec

\* The editor underlines the word the composer holds, unless one of them is empty, through
\* every handler that types, resumes, commits or clears (ComposingShown).
THEOREM ComposingAgrees == Spec => []ComposingShown
<1>1. TextInv => ComposingShown
  BY DEF TextInv, TypingInv
<1> QED
  BY <1>1, TextInitially, TextStep, PTL DEF Spec

\* No step remembers a word that is the vault's at that moment, whether it was typed,
\* corrected to, predicted or tapped (ZeroLearning, of recordWordInHistory).
THEOREM VaultWordsForgotten == Spec => ZeroLearning
<1>1. TextInv /\ [Next]_vars
      => [remembered' # remembered => ~IsVaultWord(Last(remembered'))]_vars
  BY RememberedStep DEF TextInv
<1> QED
  BY <1>1, TextInitially, TextStep, PTL DEF Spec, ZeroLearning

===============================================================================

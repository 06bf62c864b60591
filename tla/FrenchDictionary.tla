--------------------------- MODULE FrenchDictionary ---------------------------
(***************************************************************************)
(* The life of the French dictionary in TextEngineBridge: it sleeps until  *)
(* the user needs it, is opened and closed by coroutines on Dispatchers.IO *)
(* that take no lock, and is shed when Android asks for memory.            *)
(*                                                                         *)
(* The operators without a guard are the functions other handlers call;    *)
(* each says what becomes of every variable of this module.  A coroutine   *)
(* is an element of jobs and takes one step per shared variable it         *)
(* assigns.                                                                *)
(***************************************************************************)
EXTENDS Naturals, Sequences

CONSTANTS
    StreakLimit   \* committed words that are not French before French sleeps (6 in the code)

ASSUME StreakAssumption == StreakLimit \in Nat \ {0}

VARIABLES
    mode,        \* currentMode
    dormant,     \* isFrenchDormant
    trimmed,     \* isFrenchTrimmedByMemory
    timer,       \* frenchTrimDebounceJob is in its delay
    expired,     \* a debounce job is past its delay and has not cleared the flag yet
    streak,      \* nonFrenchWordStreak
    loading,     \* isFrenchLoading
    facilitator, \* frFacilitator: the number of the dictionary it holds, 0 for null
    suggest,     \* frSuggest, likewise
    opened,      \* how many dictionaries have been opened
    jobs         \* the coroutines on Dispatchers.IO

frenchVars == <<mode, dormant, trimmed, timer, expired, streak, loading,
                facilitator, suggest, opened, jobs>>
frenchFiles == <<loading, facilitator, suggest, opened, jobs>>

Modes == {"english", "french", "dual"}
Job == [task : {"load", "unload", "reload"},
        at : {"open", "close", "facilitator", "suggest", "again", "notify"},
        dict : Nat]

FrenchTypeOK ==
    /\ mode \in Modes
    /\ dormant \in BOOLEAN /\ trimmed \in BOOLEAN /\ loading \in BOOLEAN
    /\ timer \in BOOLEAN /\ expired \in BOOLEAN
    /\ streak \in 0 .. StreakLimit - 1
    /\ opened \in Nat
    /\ {facilitator, suggest} \subseteq 0 .. opened
    /\ jobs \in Seq(Job)

FrenchInit ==
    /\ mode = "english" /\ dormant = TRUE
    /\ trimmed = FALSE /\ timer = FALSE /\ expired = FALSE
    /\ streak = 0 /\ loading = FALSE
    /\ facilitator = 0 /\ suggest = 0 /\ opened = 0
    /\ jobs = <<>>

-------------------------------------------------------------------------------
(* Functions of the main thread *)

Launch(task, at) == jobs' = Append(jobs, [task |-> task, at |-> at, dict |-> 0])

NeedsFrench == (facilitator = 0 \/ suggest = 0) /\ ~loading

EnsureFrenchLoaded ==
    /\ IF NeedsFrench
       THEN loading' = TRUE /\ Launch("load", "open")
       ELSE UNCHANGED <<loading, jobs>>
    /\ UNCHANGED <<facilitator, suggest, opened>>

AwakenFrench(target, force) ==
    IF trimmed /\ ~force
    THEN UNCHANGED frenchVars
    ELSE /\ trimmed' = FALSE
         /\ timer' = (timer /\ ~force)
         /\ dormant' = FALSE /\ streak' = 0 /\ mode' = target
         /\ EnsureFrenchLoaded
         /\ UNCHANGED expired

\* sleepFrench, called when the mode is from (setLanguageMode has changed it before).
SleepFrench(from) ==
    /\ dormant' = TRUE
    /\ streak' = IF dormant THEN streak ELSE 0
    /\ mode' = IF dormant THEN from ELSE "english"

\* setLanguageMode, without the composer and the strip.
SwitchLanguage(to) ==
    IF to \in {"french", "dual"}
    THEN AwakenFrench(to, TRUE)
    ELSE /\ SleepFrench(to)
         /\ UNCHANGED <<trimmed, timer, expired>>
         /\ UNCHANGED frenchFiles

\* onTrimMemory: unloadFrench, and a new debounce job instead of the old one.
Shed ==
    /\ trimmed' = TRUE /\ timer' = TRUE
    /\ SleepFrench(mode)
    /\ Launch("unload", "close")
    /\ UNCHANGED <<expired, loading, facilitator, suggest, opened>>

\* reloadDictionaries, the broadcast after an import.
Reload ==
    /\ Launch("reload", "close")
    /\ UNCHANGED <<mode, dormant, trimmed, timer, expired, streak>>
    /\ UNCHANGED <<loading, facilitator, suggest, opened>>

\* onStartInput: a new field, not a restart, forgets the trim and sleeps.
FreshStart ==
    /\ trimmed' = FALSE /\ timer' = FALSE
    /\ IF mode # "english" THEN SleepFrench(mode) ELSE UNCHANGED <<mode, dormant, streak>>
    /\ UNCHANGED expired
    /\ UNCHANGED frenchFiles

\* onFinishInput
CloseForFrench ==
    /\ SleepFrench(mode)
    /\ UNCHANGED <<trimmed, timer, expired>>
    /\ UNCHANGED frenchFiles

\* The end of selectSuggestion: French wakes for a French word and sleeps after
\* StreakLimit others.
NoteWord(french) ==
    IF french /\ ~trimmed
    THEN AwakenFrench("dual", FALSE)
    ELSE /\ IF dormant THEN UNCHANGED <<mode, dormant, streak>>
            ELSE IF streak + 1 >= StreakLimit THEN SleepFrench(mode)
            ELSE streak' = streak + 1 /\ UNCHANGED <<mode, dormant>>
         /\ UNCHANGED <<trimmed, timer, expired>>
         /\ UNCHANGED frenchFiles

-------------------------------------------------------------------------------
(* Coroutines *)

At(j, place) == j \in DOMAIN jobs /\ jobs[j].at = place
Finished(j) == SubSeq(jobs, 1, j - 1) \o SubSeq(jobs, j + 1, Len(jobs))
MovedTo(j, place) == [jobs EXCEPT ![j].at = place]
mainThread == <<mode, dormant, trimmed, timer, expired, streak>>

\* resetDictionaries opens the files, which may throw.
Open(j) ==
    /\ At(j, "open")
    /\ \/ /\ opened' = opened + 1
          /\ jobs' = [jobs EXCEPT ![j].dict = opened + 1, ![j].at = "facilitator"]
          /\ UNCHANGED loading
       \/ loading' = FALSE /\ jobs' = Finished(j) /\ UNCHANGED opened
    /\ UNCHANGED <<facilitator, suggest>> /\ UNCHANGED mainThread

\* closeDictionaries of whatever frFacilitator holds now.
Close(j) ==
    /\ At(j, "close")
    /\ jobs' = MovedTo(j, "facilitator")
    /\ UNCHANGED <<loading, facilitator, suggest, opened>> /\ UNCHANGED mainThread

AssignFacilitator(j) ==
    /\ At(j, "facilitator")
    /\ facilitator' = jobs[j].dict
    /\ jobs' = MovedTo(j, "suggest")
    /\ UNCHANGED <<loading, suggest, opened>> /\ UNCHANGED mainThread

\* Mutant: a load that has ended is not noted.
AssignSuggestOnly(j) ==
    /\ At(j, "suggest")
    /\ suggest' = jobs[j].dict
    /\ CASE jobs[j].task = "load" -> jobs' = MovedTo(j, "notify")
         [] jobs[j].task = "unload" -> jobs' = Finished(j)
         [] jobs[j].task = "reload" -> jobs' = MovedTo(j, "again")
    /\ UNCHANGED <<facilitator, opened, loading>> /\ UNCHANGED mainThread

AssignSuggest(j) ==
    /\ At(j, "suggest")
    /\ suggest' = jobs[j].dict
    /\ CASE jobs[j].task = "load" -> loading' = FALSE /\ jobs' = MovedTo(j, "notify")
         [] jobs[j].task = "unload" -> jobs' = Finished(j) /\ UNCHANGED loading
         [] jobs[j].task = "reload" -> jobs' = MovedTo(j, "again") /\ UNCHANGED loading
    /\ UNCHANGED <<facilitator, opened>> /\ UNCHANGED mainThread

\* The end of reloadDictionaries: French is opened again if the mode uses it.
LoadAgain(j) ==
    /\ At(j, "again")
    /\ IF mode # "english" /\ NeedsFrench
       THEN /\ loading' = TRUE
            /\ jobs' = Append(Finished(j), [task |-> "load", at |-> "open", dict |-> 0])
       ELSE jobs' = Finished(j) /\ UNCHANGED loading
    /\ UNCHANGED <<facilitator, suggest, opened>> /\ UNCHANGED mainThread

JobStep(j) == Open(j) \/ Close(j) \/ AssignFacilitator(j) \/ AssignSuggest(j) \/ LoadAgain(j)

\* The debounce job: its delay ends, and it clears the flag.
TimerExpires ==
    /\ timer /\ ~expired
    /\ timer' = FALSE /\ expired' = TRUE
    /\ UNCHANGED <<mode, dormant, trimmed, streak>> /\ UNCHANGED frenchFiles

ForgetTrim ==
    /\ expired
    /\ expired' = FALSE /\ trimmed' = FALSE
    /\ UNCHANGED <<mode, dormant, timer, streak>> /\ UNCHANGED frenchFiles
===============================================================================

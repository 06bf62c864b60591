------------------------------ MODULE TextEngine ------------------------------
(***************************************************************************)
(* TextEngineBridge and the part of VianBoardService around it: composing, *)
(* the suggestion queries, the vault's candidates with their pattern       *)
(* unlock, and the French dictionary.                                      *)
(*                                                                         *)
(* The main thread runs one handler, or one posted runnable, per step.  A  *)
(* query is a coroutine on Dispatchers.Default: it reads the composer, the *)
(* vault and the session when it gets there, not when it was started.      *)
(*                                                                         *)
(* A word is the number of its letters: the words are the prefixes of one  *)
(* string, so that a key makes the next one and a delete the one before,   *)
(* and the trie corrects a word to the next.  0 is no word.  The editor is *)
(* external: what stands before the cursor is any word, and of its text    *)
(* only the underlined span is kept.                                       *)
(***************************************************************************)
EXTENDS FrenchDictionary, Integers, FiniteSets, SequencesExt

CONSTANTS
    MaxWord,     \* the longest word
    Shortcut,    \* the word that is the shortcut of the one secret
    Phrase,      \* the word that is its phrase
    MaxFields,   \* how many times an input view is started
    Sensitive,   \* the fields that are password fields
    MaxRemember, \* NgramContext.MAX_PREV_WORD_COUNT
    AutoRelock,  \* isAutoRelockOnCloseEnabled
    MaxQueries,  \* how many queries may run at a time
    Scenarios    \* the kinds of events a behaviour has, and how many at most

Words == 1 .. MaxWord
Fields == 1 .. MaxFields

ASSUME WordsAssumption == MaxWord \in Nat \ {0} /\ {Shortcut, Phrase} \subseteq Words
ASSUME FieldsAssumption == MaxFields \in Nat \ {0} /\ Sensitive \subseteq Fields
ASSUME SizesAssumption == {MaxRemember, MaxQueries} \subseteq Nat \ {0} /\ AutoRelock \in BOOLEAN
ASSUME ScenariosAssumption == \A s \in Scenarios : s.most \in Nat

VARIABLES
    field,     \* the field whose input view is shown, 0 for none
    starts,    \* how many input views have been started
    typed,     \* wordComposer.typedWord
    span,      \* the editor's underlined text
    queries,   \* the running query coroutines
    words,     \* currentSuggestedWords
    strip,     \* the candidates the keyboard shows
    mapped,    \* the keys of vaultCandidateMap
    secret,    \* the entry is in the PRIVACY_VAULT partition
    unlocked,  \* isPrivacyUnlocked
    modal,     \* the pattern view, if one is shown
    verified,  \* unlock callbacks that are in their delay
    remembered,\* committedWordsHistory
    sent,      \* history: where the phrase went, where it was chosen, was the vault open
    scenario,  \* which of the Scenarios this behaviour follows
    events     \* events so far

typing == <<typed, span>>
asking == <<queries, words, strip, mapped>>
locking == <<unlocked, modal, verified, sent>>
vars == <<field, starts, typing, asking, secret, locking, remembered, scenario, events, frenchVars>>

Shown(as, w) == [as |-> as, word |-> w]
Candidate == [as : {"word", "masked", "plain"}, word : Words]
NoWords == [for |-> 0, corrects |-> FALSE]
SuggestedWords == [for : 0 .. MaxWord, corrects : BOOLEAN]
NoModal == [type |-> "none", commit |-> 0, done |-> FALSE]
Modal == [type : {"none", "privacy", "security"}, commit : 0 .. MaxFields, done : BOOLEAN]
Query == [newest : BOOLEAN, next : BOOLEAN, at : {"search", "match", "check", "publish"},
          found : SuggestedWords, list : SUBSET Candidate]

TypeOK ==
    /\ FrenchTypeOK
    /\ field \in 0 .. MaxFields /\ starts \in 0 .. MaxFields
    /\ {typed, span} \subseteq 0 .. MaxWord
    /\ secret \in BOOLEAN /\ unlocked \in BOOLEAN
    /\ scenario \in Scenarios /\ events \in 0 .. scenario.most
    /\ queries \in Seq(Query) /\ words \in SuggestedWords
    /\ strip \subseteq Candidate /\ mapped \subseteq Candidate
    /\ modal \in Modal /\ verified \in Seq(Modal)
    /\ remembered \in Seq(Words)
    /\ sent \subseteq [to : 0 .. MaxFields, from : Fields, open : BOOLEAN]

Init ==
    /\ FrenchInit
    /\ field = 1 /\ starts = 1
    /\ typed = 0 /\ span = 0
    /\ queries = <<>> /\ words = NoWords
    /\ strip = {} /\ mapped = {}
    /\ secret = TRUE /\ unlocked = FALSE
    /\ modal = NoModal /\ verified = <<>>
    /\ remembered = <<>> /\ sent = {}
    /\ scenario \in Scenarios /\ events = 0

-------------------------------------------------------------------------------
(* Functions the handlers call *)

Correction(w) == IF w = MaxWord THEN w ELSE w + 1
IsVaultWord(w) == secret /\ w \in {Shortcut, Phrase}

\* querySuggestionsAsync and queryNextWordPredictions (next).  sequenceNumber is only
\* compared for equality: a query keeps the flag newest until the next one starts.
Ask(next) ==
    /\ Len(queries) < MaxQueries
    /\ queries' = Append([q \in DOMAIN queries |-> [queries[q] EXCEPT !.newest = FALSE]],
                         [newest |-> TRUE, next |-> next, at |-> "search",
                          found |-> NoWords, list |-> {}])
    /\ UNCHANGED <<words, strip, mapped>>

\* clearSuggestions: the running queries go on, and the newest stays the newest.  The
\* empty list it posts to its own thread is shown at once.
ClearSuggestions ==
    /\ words' = NoWords
    /\ strip' = {}
    /\ UNCHANGED <<queries, mapped>>

\* Mutant: the zero-learning check is left out.
RememberAnything(w) ==
    LET longer == Append(remembered, w)
    IN remembered' = SubSeq(longer, IF Len(longer) > MaxRemember THEN 2 ELSE 1, Len(longer))

\* recordWordInHistory.  The coroutine that hands the word to the dictionaries is
\* left out: they are opened read-only and refuse it.
Remember(w) ==
    IF IsVaultWord(w)
    THEN UNCHANGED remembered
    ELSE LET longer == Append(remembered, w)
         IN remembered' = SubSeq(longer, IF Len(longer) > MaxRemember THEN 2 ELSE 1, Len(longer))

\* setComposingText
Underline(w) == span' = w
\* commitText, which replaces the span, and finishComposingText, which keeps its text.
Commit == span' = 0

\* Mutant: the phrase goes to whatever field is current.
CommitTargetNow(ic) == field
\* onVaultUnlockRequested captured the InputConnection of the field of the tap.
CommitTarget(ic) == ic

\* commitVaultPhrase, for a candidate tapped in the field ic, with the vault open or not.
CommitVaultPhrase(ic, open) ==
    /\ sent' = sent \cup {[to |-> CommitTarget(ic), from |-> ic, open |-> open]}
    /\ IF CommitTarget(ic) = field THEN Commit ELSE UNCHANGED span
    /\ typed' = 0
    /\ strip' = {}
    /\ UNCHANGED <<queries, words, mapped>>

-------------------------------------------------------------------------------
(* Events of the user and the system; each is of a kind the scenario has *)

Event(kind) ==
    /\ kind \in scenario.kinds /\ events < scenario.most
    /\ events' = events + 1 /\ UNCHANGED scenario
Typing(kind) == Event(kind) /\ field # 0 /\ modal = NoModal

\* onStartInputView; a restart keeps the field, and the editor may keep its span.
StartInputView(restarting) ==
    /\ Event("start")
    /\ IF restarting
       THEN field # 0 /\ UNCHANGED <<field, starts>> /\ span' \in {0, span}
       ELSE /\ field = 0 /\ starts < MaxFields
            /\ starts' = starts + 1 /\ field' = starts + 1
            /\ span' = 0
    /\ typed' = 0
    /\ ClearSuggestions
    /\ IF restarting THEN UNCHANGED frenchVars ELSE FreshStart
    /\ UNCHANGED <<secret, locking, remembered>>

\* onFinishInputView
FinishInputView ==
    /\ Event("finish") /\ field # 0
    /\ field' = 0
    /\ modal' = NoModal
    /\ unlocked' = (unlocked /\ ~AutoRelock)
    /\ span' = IF typed # 0 THEN 0 ELSE span
    /\ typed' = 0
    /\ ClearSuggestions
    /\ CloseForFrench
    /\ UNCHANGED <<starts, secret, verified, sent, remembered>>

\* handleCharacter in a password field
TypeSecretly ==
    /\ Typing("type") /\ field \in Sensitive
    /\ Commit /\ typed' = 0
    /\ ClearSuggestions
    /\ UNCHANGED <<field, starts, secret, locking, remembered>> /\ UNCHANGED frenchVars

\* handleCharacter; a diacritic wakes French.
TypeCharacter(diacritic) ==
    /\ Typing(IF diacritic THEN "accent" ELSE "type") /\ field \notin Sensitive /\ typed < MaxWord
    /\ IF diacritic /\ dormant /\ ~trimmed
       THEN AwakenFrench("dual", FALSE)
       ELSE UNCHANGED frenchVars
    /\ typed' = typed + 1
    /\ Underline(typed + 1)
    /\ Ask(FALSE)
    /\ UNCHANGED <<field, starts, secret, locking, remembered>>

\* Mutant: the shortened word is not underlined again.
ShortenSilently ==
    /\ typed > 0
    /\ typed' = typed - 1
    /\ UNCHANGED span
    /\ IF typed > 1 THEN Ask(FALSE) ELSE ClearSuggestions

\* handleDelete while composing
Shorten ==
    /\ typed > 0
    /\ typed' = typed - 1
    /\ IF typed > 1
       THEN Underline(typed - 1) /\ Ask(FALSE)
       ELSE Commit /\ ClearSuggestions

\* handleDelete with no word being composed: a word of two letters or more before the
\* cursor is composed again without its last, else one character or the selection goes.
DeleteBefore(before) ==
    /\ typed = 0
    /\ \/ /\ before > 1
          /\ typed' = before - 1
          /\ Underline(before - 1) /\ Ask(FALSE)
       \/ /\ before <= 1
          /\ (Commit \/ UNCHANGED span)
          /\ ClearSuggestions /\ UNCHANGED typed

\* handleDelete in a password field leaves the composer alone.
DeleteSecretly ==
    /\ field \in Sensitive
    /\ (Commit \/ UNCHANGED span)
    /\ UNCHANGED <<typed, asking>>

Delete ==
    /\ Typing("delete")
    /\ \/ DeleteSecretly
       \/ field \notin Sensitive /\ (Shorten \/ \E before \in 0 .. MaxWord : DeleteBefore(before))
    /\ UNCHANGED <<field, starts, secret, locking, remembered>> /\ UNCHANGED frenchVars

\* handleSpace while composing: the correction of the last suggested words, whatever
\* word they were found for, or the typed word.
SpaceAfterWord ==
    LET word == IF words.corrects THEN Correction(words.for) ELSE typed
    IN /\ typed > 0
       /\ Commit
       /\ Remember(word)
       /\ typed' = 0
       /\ Ask(TRUE)

SpaceAlone ==
    /\ typed = 0
    /\ Commit
    /\ (Ask(TRUE) \/ ClearSuggestions)
    /\ UNCHANGED <<typed, remembered>>

Space ==
    /\ Typing("space")
    /\ \/ /\ field \in Sensitive
          /\ Commit /\ typed' = 0 /\ ClearSuggestions /\ UNCHANGED remembered
       \/ field \notin Sensitive /\ (SpaceAfterWord \/ SpaceAlone)
    /\ UNCHANGED <<field, starts, secret, locking>> /\ UNCHANGED frenchVars

\* The comma, the period and the keys that commit their label: nothing but commitText.
Punctuate ==
    /\ Typing("punctuate")
    /\ Commit
    /\ UNCHANGED <<field, starts, typed, asking, secret, locking, remembered>>
    /\ UNCHANGED frenchVars

\* The user moves the cursor, or the editor drops the span.
MoveCursor ==
    /\ Event("move") /\ field # 0
    /\ Commit
    /\ UNCHANGED <<field, starts, typed, asking, secret, locking, remembered>>
    /\ UNCHANGED frenchVars

\* onUpdateSelection with no span, for a commit or a move of any time before, and not
\* within the 150 ms in which it is dropped.
UpdateSelection ==
    /\ Event("move") /\ field # 0
    /\ typed # 0 /\ typed' = 0
    /\ ClearSuggestions
    /\ UNCHANGED <<field, starts, span, secret, locking, remembered>> /\ UNCHANGED frenchVars

\* selectSuggestion
VaultCandidate(c) == c \in mapped \/ (c.as = "word" /\ c.word = Phrase /\ secret)

SelectVault(c) ==
    /\ VaultCandidate(c)
    /\ IF unlocked
       THEN CommitVaultPhrase(field, unlocked) /\ UNCHANGED modal
       ELSE /\ modal' = [type |-> "privacy", commit |-> field, done |-> FALSE]
            /\ UNCHANGED <<sent, typing, asking>>
    /\ UNCHANGED remembered
    /\ UNCHANGED frenchVars

SelectWord(c, french) ==
    /\ ~VaultCandidate(c)
    /\ Commit
    /\ NoteWord(french)
    /\ Remember(c.word)
    /\ typed' = 0
    /\ Ask(TRUE)
    /\ UNCHANGED <<modal, sent>>

SelectSuggestion(c, french) ==
    /\ Typing(IF french THEN "accent" ELSE "select")
    /\ SelectVault(c) \/ SelectWord(c, french)
    /\ UNCHANGED <<field, starts, secret, unlocked, verified>>

\* A toolbar tool or the symbols key opens a pattern view without a pending commit.
OpenPattern(type) ==
    /\ Typing("pattern")
    /\ modal' = [type |-> type, commit |-> 0, done |-> FALSE]
    /\ UNCHANGED <<field, starts, typing, asking, secret, unlocked, verified, sent, remembered>>
    /\ UNCHANGED frenchVars

\* The right pattern: the view calls back after 100 or 180 ms.
Verify ==
    /\ Event("pattern") /\ modal # NoModal /\ ~modal.done
    /\ modal' = [modal EXCEPT !.done = TRUE]
    /\ verified' = Append(verified, modal)
    /\ UNCHANGED <<field, starts, typing, asking, secret, unlocked, sent, remembered>>
    /\ UNCHANGED frenchVars

DismissPattern ==
    /\ Event("dismiss") /\ modal # NoModal
    /\ modal' = NoModal
    /\ UNCHANGED <<field, starts, typing, asking, secret, unlocked, verified, sent, remembered>>
    /\ UNCHANGED frenchVars

\* The settings move the entry to the other partition.
TogglePartition ==
    /\ Event("toggle")
    /\ secret' = ~secret
    /\ UNCHANGED <<field, starts, typing, asking, locking, remembered>> /\ UNCHANGED frenchVars

\* A long press on the space bar, or the language popup.
SetLanguageMode(to) ==
    /\ Typing("language")
    /\ to = "dual" \/ mode = "dual"
    /\ SwitchLanguage(to)
    /\ typed' = 0
    /\ ClearSuggestions
    /\ UNCHANGED <<field, starts, span, secret, locking, remembered>>

OnTrimMemory ==
    /\ Event("trim")
    /\ Shed
    /\ UNCHANGED <<field, starts, typing, asking, secret, locking, remembered>>

ReloadDictionaries ==
    /\ Event("reload")
    /\ Reload
    /\ UNCHANGED <<field, starts, typing, asking, secret, locking, remembered>>

-------------------------------------------------------------------------------
(* What runs by itself *)

quiet == <<field, starts, secret, remembered, scenario, events>>

SessionEnds ==
    /\ unlocked
    /\ unlocked' = FALSE
    /\ UNCHANGED <<typing, asking, modal, verified, sent>>
    /\ UNCHANGED quiet /\ UNCHANGED frenchVars

\* onUnlockSuccess: it outlives the view that posted it, and dismisses any other.
UnlockCallback(i) ==
    /\ i \in DOMAIN verified
    /\ verified' = RemoveAt(verified, i)
    /\ unlocked' = (unlocked \/ verified[i].type = "privacy")
    /\ IF verified[i].commit # 0
       THEN CommitVaultPhrase(verified[i].commit, unlocked')
       ELSE UNCHANGED <<sent, typing, asking>>
    /\ modal' = NoModal
    /\ UNCHANGED quiet /\ UNCHANGED frenchVars

Doing(q, place) == q \in DOMAIN queries /\ queries[q].at = place
Went(q, place) == [queries EXCEPT ![q].at = place]

\* getSuggestedWords of the composer as it is now.  A closed or missing dictionary finds
\* nothing, an open one may or may not correct.
Search(q) ==
    /\ Doing(q, "search")
    /\ \E corrects \in {c \in BOOLEAN : c => ~queries[q].next /\ typed # 0}, hit \in BOOLEAN :
          LET found == hit /\ (mode = "french" => suggest # 0)
              for == IF queries[q].next THEN 0 ELSE typed
          IN queries' = [queries EXCEPT
               ![q].at = IF queries[q].next THEN "check" ELSE "match",
               ![q].found = IF found /\ ~queries[q].next
                            THEN [for |-> for, corrects |-> corrects]
                            ELSE NoWords,
               ![q].list = (IF for = 0 THEN {} ELSE {Shown("word", for)})
                           \cup (IF found THEN {Shown("word", Correction(for))} ELSE {})]
    /\ UNCHANGED <<words, strip, mapped, typing, locking>>
    /\ UNCHANGED quiet /\ UNCHANGED frenchVars

\* findMatches for the composer as it is now: the entry's candidate, masked unless the
\* vault is open.
Match(q) ==
    LET display == CASE ~secret -> Shown("word", Phrase)
                     [] secret /\ unlocked -> Shown("plain", Phrase)
                     [] OTHER -> Shown("masked", Phrase)
    IN /\ Doing(q, "match")
       /\ IF typed = Shortcut
          THEN /\ queries' = [queries EXCEPT ![q].list = @ \cup {display}, ![q].at = "check"]
               /\ mapped' = IF secret THEN mapped \cup {display} ELSE mapped
          ELSE queries' = Went(q, "check") /\ UNCHANGED mapped
       /\ UNCHANGED <<words, strip, typing, locking>>
       /\ UNCHANGED quiet /\ UNCHANGED frenchVars

Check(q) ==
    /\ Doing(q, "check")
    /\ queries' = IF queries[q].newest THEN Went(q, "publish") ELSE RemoveAt(queries, q)
    /\ UNCHANGED <<words, strip, mapped, typing, locking>>
    /\ UNCHANGED quiet /\ UNCHANGED frenchVars

Publish(q) ==
    /\ Doing(q, "publish")
    /\ words' = queries[q].found
    /\ strip' = queries[q].list
    /\ queries' = RemoveAt(queries, q)
    /\ UNCHANGED <<mapped, typing, locking>>
    /\ UNCHANGED quiet /\ UNCHANGED frenchVars

QueryStep(q) == Search(q) \/ Match(q) \/ Check(q) \/ Publish(q)

\* The end of a load, back on the main thread: a word being composed is searched again.
NotifyLoaded(j) ==
    /\ At(j, "notify")
    /\ jobs' = Finished(j)
    /\ IF typed # 0 THEN Ask(FALSE) ELSE UNCHANGED asking
    /\ UNCHANGED <<typing, locking>> /\ UNCHANGED quiet
    /\ UNCHANGED <<loading, facilitator, suggest, opened>> /\ UNCHANGED mainThread

Coroutine(j) ==
    /\ JobStep(j)
    /\ UNCHANGED <<typing, asking, locking>> /\ UNCHANGED quiet

Debounce ==
    /\ TimerExpires \/ ForgetTrim
    /\ UNCHANGED <<typing, asking, locking>> /\ UNCHANGED quiet

-------------------------------------------------------------------------------
UserOrSystem ==
    \/ \E restarting \in BOOLEAN : StartInputView(restarting)
    \/ FinishInputView
    \/ TypeSecretly
    \/ \E diacritic \in BOOLEAN : TypeCharacter(diacritic)
    \/ Delete \/ Space \/ Punctuate \/ MoveCursor \/ UpdateSelection
    \/ \E c \in strip, french \in BOOLEAN : SelectSuggestion(c, french)
    \/ \E type \in {"privacy", "security"} : OpenPattern(type)
    \/ Verify \/ DismissPattern \/ TogglePartition
    \/ \E to \in Modes : SetLanguageMode(to)
    \/ OnTrimMemory \/ ReloadDictionaries

Background ==
    \/ SessionEnds
    \/ \E i \in DOMAIN verified : UnlockCallback(i)
    \/ \E q \in DOMAIN queries : QueryStep(q)
    \/ \E j \in DOMAIN jobs : Coroutine(j) \/ NotifyLoaded(j)
    \/ Debounce

Next == UserOrSystem \/ Background
Spec == Init /\ [][Next]_vars

\* The scheduler runs every coroutine that is ready and a delay comes to its end; of the
\* user nothing is assumed.
Fairness ==
    /\ WF_vars(\E q \in DOMAIN queries : QueryStep(q))
    /\ WF_vars(\E j \in DOMAIN jobs : Coroutine(j) \/ NotifyLoaded(j))
    /\ WF_vars(Debounce)
FairSpec == Spec /\ Fairness

-------------------------------------------------------------------------------
(* Properties *)

\* A secret reaches no field but the one in which its candidate was tapped, however long
\* the pattern and its delayed callback take and whatever field is shown by then.
SecretToItsField == \A s \in sent : s.to = s.from

\* The phrase is committed only while the vault is open: by a tap on a candidate that was
\* computed when it was, by a pending commit, and through a word that became a secret.
SecretNeedsUnlock == \A s \in sent : s.open

\* A secret is written where it was asked for, and only by an unlocked vault.
SecretsKept == TypeOK /\ SecretToItsField /\ SecretNeedsUnlock

\* No word that is a secret's phrase or shortcut at that moment is remembered, whether it
\* was typed, corrected to, predicted, or tapped after the settings had made it a secret.
ZeroLearning ==
    [][remembered' # remembered => ~IsVaultWord(Last(remembered'))]_vars

\* French sleeps exactly while the mode is English: none of the handlers that wake it, put
\* it to sleep or change the mode leaves a mode whose dictionary is asleep.
DormantSpeaksEnglish == dormant <=> mode = "english"

\* What the editor underlines is what the composer holds, through resumed words, cursor
\* moves, late selection updates and unlock callbacks, unless one of the two is empty.
ComposingShown == span # 0 /\ typed # 0 => span = typed

\* The flag of a memory trim never stays for good: some debounce job is left to clear it.
TrimForgotten == trimmed ~> ~trimmed

\* isFrenchLoading, which blocks every other load, is always given back.
LoadingEnds == loading ~> ~loading

\* French settles: each request to sleep, wake or shed it leaves mode and dictionary in
\* agreement, and no flag that would keep it away is left set.
FrenchSettles == []DormantSpeaksEnglish /\ TrimForgotten /\ LoadingEnds
===============================================================================

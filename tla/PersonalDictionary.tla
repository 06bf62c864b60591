-------------------------- MODULE PersonalDictionary --------------------------
(***************************************************************************)
(* PersonalDictionaryStorage: the user's phrases in two partitions, NORMAL *)
(* (mirrored into the system's user dictionary) and PRIVACY_VAULT (masked, *)
(* never learned), with its lookup indices, its file, and the two settings *)
(* activities that edit it.                                                *)
(*                                                                         *)
(* Every edit runs on the main thread: the indices change first, then the  *)
(* file is truncated and written, then the provider is called.  The        *)
(* process may die between any two of those steps.  A map whose keys are   *)
(* computed from its values (by id, by shortcut) is the set of its values. *)
(***************************************************************************)
EXTENDS Naturals, Sequences, FiniteSets

CONSTANTS
    Ids,        \* UUIDs
    Phrases,    \* phrases as typed, trimmed by the dialogs
    Shortcuts,  \* shortcuts, lower-cased by the dialogs
    NoShortcut, \* the empty shortcut, which is never a key
    Lowercase,  \* lowercase() of each phrase
    Defaults,   \* the entries populateDefaultEntries() writes
    MaxEdits,   \* bound: edits confirmed in a dialog
    MaxDialogs, \* bound: dialogs open at once
    MaxCrashes, \* bound: deaths of the process
    Faults      \* what may fail, a subset of FaultKinds

\* "disk": the file cannot be opened or written; "provider": a call of the
\* content resolver throws.
FaultKinds == {"disk", "provider"}
Partitions == {"NORMAL", "PRIVACY_VAULT"}

Entry == [id : Ids, phrase : Phrases, shortcut : Shortcuts \union {NoShortcut},
          partition : Partitions]

UniqueIds(S) == \A e, f \in S : e.id = f.id => e = f

ASSUME DictionaryAssumption ==
    /\ NoShortcut \notin Shortcuts
    /\ Lowercase \in [Phrases -> Phrases]
    /\ Defaults \subseteq Entry /\ Defaults # {} /\ UniqueIds(Defaults)
    /\ MaxEdits \in Nat /\ MaxDialogs \in Nat /\ MaxCrashes \in Nat
    /\ Faults \subseteq FaultKinds

VARIABLES
    entriesById, normalShortcuts, vaultShortcuts,   \* sets of entries
    vaultPhrases,       \* keys, lower case
    masterFile,         \* [state, entries]: "torn" is truncated or half written
    saving,             \* where saveToDisk() is: "no", "open" or "write"
    toRemove,           \* demoted entries whose row is to be deleted
    toMirror, inserting,    \* mirrorNormalEntry(): not begun, between its calls
    systemRows,         \* the rows of the system's user dictionary
    dialogs,            \* open dialogs, each with the entry it was opened on
    edits, crashes,     \* so far
    trouble             \* history: what has gone wrong or clashed so far

indices == <<entriesById, normalShortcuts, vaultShortcuts, vaultPhrases>>
mirroring == <<toRemove, toMirror, inserting, systemRows>>
vars == <<indices, masterFile, saving, mirroring, dialogs, edits, crashes, trouble>>

Rest == saving = "no" /\ toRemove = {} /\ toMirror = {} /\ inserting = {}

IsVault(e) == e.partition = "PRIVACY_VAULT"
Key(e) == Lowercase[e.phrase]
Row(e) == <<e.phrase, e.shortcut>>

-----------------------------------------------------------------------------
\* The indices.

\* removeIndex of the entries in old takes their shortcut out of both maps and
\* their phrase out of vaultPhrases, whoever put it there.
WithoutNothing(map, old) == map                                     \* mutant
Without(map, old) == {x \in map : \A o \in old : x.shortcut # o.shortcut}

\* Puts replace the values under the same keys; an empty shortcut is no key.
Put(map, new) ==
    LET keyed == {e \in new : e.shortcut # NoShortcut}
    IN Without(map, keyed) \union keyed

\* addOrUpdateEntry and deleteEntry: the entry with the same id is unindexed,
\* the new one indexed.
Reindex(old, new) ==
    /\ entriesById' = (entriesById \ old) \union new
    /\ normalShortcuts' = Put(Without(normalShortcuts, old), {e \in new : ~IsVault(e)})
    /\ vaultShortcuts' = Put(Without(vaultShortcuts, old), {e \in new : IsVault(e)})
    /\ vaultPhrases' = (vaultPhrases \ {Key(o) : o \in old})
                       \union {Key(e) : e \in {x \in new : IsVault(x)}}

\* What putting the entries of S one after another leaves: one of them for each
\* shortcut; the order in the file is that of a hash map.
Winners(S) ==
    {map \in SUBSET {e \in S : e.shortcut # NoShortcut} :
        \A e \in S : e.shortcut # NoShortcut =>
            \E w \in map : {x \in map : x.shortcut = e.shortcut} = {w}}

\* Mutant: loading forgets "vaultPhrases[...] = true".
IndexAllButPhrases(S) ==
    /\ entriesById' = S
    /\ normalShortcuts' \in Winners({e \in S : ~IsVault(e)})
    /\ vaultShortcuts' \in Winners({e \in S : IsVault(e)})
    /\ vaultPhrases' = {}

\* loadFromDisk: every entry read is indexed.
IndexAll(S) ==
    /\ entriesById' = S
    /\ normalShortcuts' \in Winners({e \in S : ~IsVault(e)})
    /\ vaultShortcuts' \in Winners({e \in S : IsVault(e)})
    /\ vaultPhrases' = {Key(e) : e \in {x \in S : IsVault(x)}}

IsVaultPhrase(p) ==
    \/ Lowercase[p] \in vaultPhrases
    \/ \E e \in vaultShortcuts : Key(e) = Lowercase[p]

\* Exact matches of findMatches.
FindMatches(s) == {e \in vaultShortcuts \union normalShortcuts : e.shortcut = s}

\* Two entries that would share a key of some index.
Clash(S) == \E e, f \in S : /\ e.id # f.id
                            /\ \/ e.shortcut = f.shortcut /\ e.shortcut # NoShortcut
                               \/ Key(e) = Key(f)

-----------------------------------------------------------------------------
\* Edits.

Confirmed ==
    /\ trouble' = IF Clash(entriesById') THEN trouble \union {"clash"} ELSE trouble
    /\ edits' = edits + 1

\* Mutant: only an entry that is new is mirrored.
AddOrUpdateMirrorsNew(e) ==
    LET old == {x \in entriesById : x.id = e.id}
    IN /\ Reindex(old, {e})
       /\ saving' = "open"
       /\ toMirror' = IF IsVault(e) \/ old # {} THEN {} ELSE {e}
       /\ toRemove' = IF IsVault(e) THEN {o \in old : ~IsVault(o)} ELSE {}

AddOrUpdateEntry(e) ==
    LET old == {x \in entriesById : x.id = e.id}
    IN /\ Reindex(old, {e})
       /\ saving' = "open"
       /\ toMirror' = IF IsVault(e) THEN {} ELSE {e}
       /\ toRemove' = IF IsVault(e) THEN {o \in old : ~IsVault(o)} ELSE {}

\* Mutant: a deletion that is not saved.
DeleteUnsaved(e) ==
    /\ Reindex({e}, {})
    /\ saving' = "no"
    /\ toMirror' = {}
    /\ toRemove' = {o \in {e} : ~IsVault(o)}

DeleteEntry(e) ==
    /\ Reindex({e}, {})
    /\ saving' = "open"
    /\ toMirror' = {}
    /\ toRemove' = {o \in {e} : ~IsVault(o)}

\* togglePartition acts on the entry the id has now.
Toggled(e) == [e EXCEPT !.partition = IF IsVault(e) THEN "NORMAL" ELSE "PRIVACY_VAULT"]

\* An edit begins when the main thread is free.
MayEdit == Rest /\ edits < MaxEdits
EditFrame == UNCHANGED <<masterFile, inserting, systemRows, crashes>>

\* "Add": a new UUID, in the partition of the activity.
SaveNew(phrase, shortcut, partition) ==
    /\ MayEdit
    /\ \E id \in Ids :
          /\ \A e \in entriesById : e.id # id
          /\ \A i \in DOMAIN dialogs : dialogs[i].entry.id # id
          /\ AddOrUpdateEntry([id |-> id, phrase |-> phrase, shortcut |-> shortcut,
                               partition |-> partition])
    /\ Confirmed
    /\ EditFrame /\ UNCHANGED dialogs

\* A tap on a button of an entry in an activity's list; until the dialog has the
\* focus a second tap opens the same dialog again.
OpenDialog(kind, e) ==
    /\ MayEdit /\ Len(dialogs) < MaxDialogs
    /\ \A i \in DOMAIN dialogs : dialogs[i] = [kind |-> kind, entry |-> e]
    /\ dialogs' = Append(dialogs, [kind |-> kind, entry |-> e])
    /\ UNCHANGED <<indices, masterFile, saving, mirroring, edits, crashes, trouble>>

Top == dialogs[Len(dialogs)]
CloseTop == dialogs' = SubSeq(dialogs, 1, Len(dialogs) - 1)

\* "Save" copies the entry the dialog was opened on, partition included.
SaveEdited(phrase, shortcut) ==
    /\ MayEdit /\ dialogs # <<>> /\ Top.kind = "edit"
    /\ AddOrUpdateEntry([Top.entry EXCEPT !.phrase = phrase, !.shortcut = shortcut])
    /\ Confirmed
    /\ CloseTop /\ EditFrame

Move ==
    /\ MayEdit /\ dialogs # <<>> /\ Top.kind = "move"
    /\ \E e \in entriesById : e.id = Top.entry.id /\ AddOrUpdateEntry(Toggled(e))
    /\ Confirmed
    /\ CloseTop /\ EditFrame

Delete ==
    /\ MayEdit /\ dialogs # <<>> /\ Top.kind = "delete"
    /\ \E e \in entriesById : e.id = Top.entry.id /\ DeleteEntry(e)
    /\ Confirmed
    /\ CloseTop /\ EditFrame

\* "Cancel", and the early returns for an id that is gone.
Cancel ==
    /\ Rest /\ dialogs # <<>>
    /\ CloseTop
    /\ UNCHANGED <<indices, masterFile, saving, mirroring, edits, crashes, trouble>>

-----------------------------------------------------------------------------
\* saveToDisk and the mirror.

Torn == [state |-> "torn", entries |-> {}]

\* writeText truncates the file when it opens it.
OpenFile ==
    /\ saving = "open"
    /\ masterFile' = Torn /\ saving' = "write"
    /\ UNCHANGED <<indices, mirroring, dialogs, edits, crashes, trouble>>

WriteFile ==
    /\ saving = "write"
    /\ masterFile' = [state |-> "whole", entries |-> entriesById]
    /\ saving' = "no"
    /\ UNCHANGED <<indices, mirroring, dialogs, edits, crashes, trouble>>

\* The exception is logged; the edit goes on.
SaveFails ==
    /\ "disk" \in Faults /\ saving # "no"
    /\ saving' = "no" /\ trouble' = trouble \union {"disk"}
    /\ UNCHANGED <<indices, masterFile, mirroring, dialogs, edits, crashes>>

RemoveRow ==
    /\ saving = "no"
    /\ \E o \in toRemove : /\ systemRows' = systemRows \ {Row(o)}
                           /\ toRemove' = toRemove \ {o}
    /\ UNCHANGED <<indices, masterFile, saving, toMirror, inserting, dialogs,
                   edits, crashes, trouble>>

\* mirrorNormalEntry deletes the row it is about to insert.
DeleteRow ==
    /\ saving = "no" /\ inserting = {}
    /\ \E e \in toMirror : /\ systemRows' = systemRows \ {Row(e)}
                           /\ toMirror' = toMirror \ {e} /\ inserting' = {e}
    /\ UNCHANGED <<indices, masterFile, saving, toRemove, dialogs, edits, crashes, trouble>>

InsertRow ==
    /\ \E e \in inserting : systemRows' = systemRows \union {Row(e)}
    /\ inserting' = {}
    /\ UNCHANGED <<indices, masterFile, saving, toRemove, toMirror, dialogs,
                   edits, crashes, trouble>>

\* A call of the provider throws: the rest of that entry's calls is skipped.
ProviderThrows ==
    /\ "provider" \in Faults /\ saving = "no" /\ ~Rest
    /\ \/ inserting # {} /\ inserting' = {} /\ UNCHANGED <<toRemove, toMirror>>
       \/ /\ inserting = {} /\ UNCHANGED inserting
          /\ \/ \E o \in toRemove : toRemove' = toRemove \ {o} /\ UNCHANGED toMirror
             \/ \E e \in toMirror : toMirror' = toMirror \ {e} /\ UNCHANGED toRemove
    /\ trouble' = trouble \union {"provider"}
    /\ UNCHANGED <<indices, masterFile, saving, systemRows, dialogs, edits, crashes>>

-----------------------------------------------------------------------------
\* The start of the process.

\* getInstance: load, and populate an empty dictionary with the defaults.
Start(loaded) ==
    LET empty == loaded = {}
    IN /\ IndexAll(IF empty THEN Defaults ELSE loaded)
       /\ saving' = IF empty THEN "open" ELSE "no"
       /\ toMirror' = IF empty THEN {e \in Defaults : ~IsVault(e)} ELSE {}
       /\ toRemove' = {} /\ inserting' = {} /\ dialogs' = <<>>

\* A file that is missing, blank or half written loads nothing.
Loaded == IF masterFile.state = "whole" THEN masterFile.entries ELSE {}

Crash ==
    /\ crashes < MaxCrashes
    /\ crashes' = crashes + 1
    /\ Start(Loaded)
    /\ trouble' = trouble \union (IF Rest THEN {} ELSE {"crash"})
    /\ UNCHANGED <<masterFile, systemRows, edits>>

\* The first start, in init {}.
Init ==
    /\ entriesById = Defaults
    /\ normalShortcuts \in Winners({e \in Defaults : ~IsVault(e)})
    /\ vaultShortcuts \in Winners({e \in Defaults : IsVault(e)})
    /\ vaultPhrases = {Key(e) : e \in {x \in Defaults : IsVault(x)}}
    /\ masterFile = [state |-> "missing", entries |-> {}]
    /\ saving = "open" /\ toMirror = {e \in Defaults : ~IsVault(e)}
    /\ toRemove = {} /\ inserting = {} /\ systemRows = {}
    /\ dialogs = <<>> /\ edits = 0 /\ crashes = 0
    /\ trouble = IF Clash(Defaults) THEN {"clash"} ELSE {}

Next ==
    \/ \E p \in Phrases, s \in Shortcuts \union {NoShortcut} :
          SaveEdited(p, s) \/ \E part \in Partitions : SaveNew(p, s, part)
    \/ \E kind \in {"edit", "move", "delete"}, e \in entriesById : OpenDialog(kind, e)
    \/ Move \/ Delete \/ Cancel
    \/ OpenFile \/ WriteFile \/ SaveFails
    \/ RemoveRow \/ DeleteRow \/ InsertRow \/ ProviderThrows
    \/ Crash

Spec == Init /\ [][Next]_vars

-----------------------------------------------------------------------------
\* Properties.

TypeOK ==
    /\ entriesById \subseteq Entry
    /\ normalShortcuts \subseteq Entry /\ vaultShortcuts \subseteq Entry
    /\ vaultPhrases \subseteq Phrases
    /\ masterFile \in [state : {"missing", "torn", "whole"}, entries : SUBSET Entry]
    /\ saving \in {"no", "open", "write"}
    /\ toRemove \subseteq Entry /\ toMirror \subseteq Entry /\ inserting \subseteq Entry
    /\ systemRows \subseteq Phrases \X (Shortcuts \union {NoShortcut})
    /\ dialogs \in Seq([kind : {"edit", "move", "delete"}, entry : Entry])
    /\ edits \in Nat /\ crashes \in Nat
    /\ trouble \subseteq FaultKinds \union {"crash", "clash"}

\* What a lookup by shortcut returns is an entry of the dictionary as it is now,
\* in the partition it has now, whatever was edited, moved, deleted or loaded:
\* no deleted secret and no entry under the mask, or without the mask, of an
\* earlier partition (addOrUpdateEntry, deleteEntry, loadFromDisk).
LookupsAreLive ==
    /\ normalShortcuts \subseteq {e \in entriesById : ~IsVault(e)}
    /\ vaultShortcuts \subseteq {e \in entriesById : IsVault(e)}

\* As long as no two entries ever shared a shortcut or a phrase, every entry is
\* found by its shortcut, and every vault phrase is recognized by isVaultPhrase,
\* on which learning and clipboard capture rely.
EntriesAreFound ==
    "clash" \notin trouble =>
        /\ \A e \in entriesById : e.shortcut # NoShortcut => FindMatches(e.shortcut) = {e}
        /\ \A e \in entriesById : IsVault(e) => IsVaultPhrase(e.phrase)

\* Once an edit is done, and as long as nothing failed, no edit was cut short and
\* no entries clashed, the system's dictionary has a row for each normal entry,
\* also after demotions, promotions and repeated dialogs (mirrorNormalEntry).
NormalIsMirrored ==
    Rest /\ trouble = {} =>
        \A e \in entriesById : ~IsVault(e) => Row(e) \in systemRows

\* A death of the process costs at most the edit that was under way, and nothing
\* when there was none, unless it hit the file between truncation and writing,
\* the disk failed, or the dictionary was empty.
EditsSurvive ==
    [][crashes' # crashes /\ masterFile.state = "whole" /\ masterFile.entries # {}
         /\ "disk" \notin trouble =>
            /\ Rest => entriesById' = entriesById
            /\ \A e, f \in (entriesById \ entriesById') \union (entriesById' \ entriesById) :
                  e.id = f.id]_vars
===============================================================================

------------------------ MODULE PersonalDictionaryProofs ------------------------
(***************************************************************************)
(* Proofs about PersonalDictionary, for any phrases, shortcuts, defaults   *)
(* and faults.  LookupsAreLive is inductive by itself.  EntriesAreFound    *)
(* needs that ids are unique, in memory and in the file, and that as long  *)
(* as nothing clashed every entry sits under each of its keys; an edit     *)
(* then takes away only the keys of the entry it replaces.                 *)
(***************************************************************************)
EXTENDS PersonalDictionary, TLAPS

-----------------------------------------------------------------------------
\* LookupsAreLive.

\* A reindexing or a load keeps lookups live: what stays in a map is not of a
\* removed entry, and what is put is the new one.
LEMMA ReindexIsLive ==
    ASSUME LookupsAreLive, NEW old, NEW new, Reindex(old, new)
    PROVE  LookupsAreLive'
BY Zenon DEF LookupsAreLive, Reindex, Without, Put, IsVault

LEMMA LoadIsLive ==
    ASSUME NEW S, IndexAll(S)
    PROVE  LookupsAreLive'
BY Zenon DEF LookupsAreLive, IndexAll, Winners, IsVault

LEMMA InitIsLive == Init => LookupsAreLive
BY Zenon DEF Init, LookupsAreLive, Winners, IsVault

LEMMA NextIsLive == LookupsAreLive /\ [Next]_vars => LookupsAreLive'
<1> SUFFICES ASSUME LookupsAreLive, [Next]_vars PROVE LookupsAreLive'
  OBVIOUS
<1> USE DEF AddOrUpdateEntry, DeleteEntry
<1>1. ASSUME NEW p \in Phrases, NEW s \in Shortcuts \union {NoShortcut}, SaveEdited(p, s)
      PROVE  LookupsAreLive'
  BY <1>1, ReindexIsLive, Zenon DEF SaveEdited
<1>2. ASSUME NEW p \in Phrases, NEW s \in Shortcuts \union {NoShortcut},
             NEW part \in Partitions, SaveNew(p, s, part)
      PROVE  LookupsAreLive'
  BY <1>2, ReindexIsLive, Zenon DEF SaveNew
<1>3. CASE Move
  BY <1>3, ReindexIsLive, Zenon DEF Move
<1>4. CASE Delete
  BY <1>4, ReindexIsLive, Zenon DEF Delete
<1>5. CASE Crash
  BY <1>5, LoadIsLive, Zenon DEF Crash, Start
<1>6. CASE UNCHANGED indices
  BY <1>6 DEF indices, LookupsAreLive
<1> QED
  BY <1>1, <1>2, <1>3, <1>4, <1>5, <1>6
     DEF Next, OpenDialog, Cancel, OpenFile, WriteFile, SaveFails, RemoveRow,
         DeleteRow, InsertRow, ProviderThrows, vars

\* A lookup by shortcut only ever returns entries as they are now, in the
\* partition they are in now (findMatches over the maps that indexEntry and
\* removeIndex maintain).
THEOREM LookupsLive == Spec => []LookupsAreLive
<1>1. Init => LookupsAreLive
  BY InitIsLive
<1>2. LookupsAreLive /\ [Next]_vars => LookupsAreLive'
  BY NextIsLive
<1> QED
  BY <1>1, <1>2, PTL DEF Spec

-----------------------------------------------------------------------------
\* EntriesAreFound.

\* Every entry is under each of its keys.
KeysHeld ==
    \A e \in entriesById :
        /\ e.shortcut # NoShortcut => e \in normalShortcuts \union vaultShortcuts
        /\ IsVault(e) => Key(e) \in vaultPhrases

FoundInv ==
    /\ UniqueIds(entriesById) /\ UniqueIds(masterFile.entries)
    /\ "clash" \notin trouble =>
          /\ ~Clash(entriesById) /\ ~Clash(masterFile.entries) /\ ~Clash(Defaults)
          /\ KeysHeld

\* Replacing entries of one id takes away no key of an entry with another id,
\* and puts the new entry under each of its keys.
LEMMA ReindexHolds ==
    ASSUME KeysHeld, ~Clash(entriesById), NEW old \in SUBSET entriesById, NEW new,
           Reindex(old, new), ~Clash(entriesById'),
           \A f \in entriesById \ old : \A o \in old \union new : f.id # o.id
    PROVE  KeysHeld'
<1> SUFFICES ASSUME NEW f \in entriesById'
             PROVE  /\ f.shortcut # NoShortcut => f \in normalShortcuts' \union vaultShortcuts'
                    /\ IsVault(f) => Key(f) \in vaultPhrases'
  BY DEF KeysHeld, IsVault, Key
<1>1. CASE f \in new
  BY <1>1 DEF Reindex, Put
<1>2. CASE f \notin new
  <2>1. f \in entriesById \ old
    BY <1>2 DEF Reindex
  <2>2. \A o \in old \union new : f.id # o.id
    BY <2>1
  <2>3. \A o \in old : Key(f) # Key(o) /\ (f.shortcut # NoShortcut => f.shortcut # o.shortcut)
    BY <2>1, <2>2 DEF Clash
  <2>4. \A o \in new : Key(f) # Key(o) /\ (f.shortcut # NoShortcut => f.shortcut # o.shortcut)
    BY <2>1, <2>2, Zenon DEF Clash, Reindex
  <2>5. ASSUME f.shortcut # NoShortcut
        PROVE  f \in normalShortcuts' \union vaultShortcuts'
    <3>1. f \in normalShortcuts \union vaultShortcuts
      BY <2>1, <2>5 DEF KeysHeld
    <3> QED
      BY <3>1, <2>3, <2>4, <2>5, Zenon DEF Reindex, Without, Put
  <2>6. ASSUME IsVault(f) PROVE Key(f) \in vaultPhrases'
    BY <2>1, <2>3, <2>6 DEF KeysHeld, Reindex
  <2> QED
    BY <2>5, <2>6
<1> QED
  BY <1>1, <1>2

LEMMA LoadHolds ==
    ASSUME NEW S, UniqueIds(S), ~Clash(S), IndexAll(S)
    PROVE  KeysHeld'
<1> SUFFICES ASSUME NEW e \in S
             PROVE  /\ e.shortcut # NoShortcut => e \in normalShortcuts' \union vaultShortcuts'
                    /\ IsVault(e) => Key(e) \in vaultPhrases'
  BY DEF KeysHeld, IsVault, Key, IndexAll
<1>1. IsVault(e) => Key(e) \in vaultPhrases'
  BY DEF IndexAll
<1>2. ASSUME NEW T \in SUBSET S, e \in T, NEW map \in Winners(T), e.shortcut # NoShortcut
      PROVE  e \in map
  <2>1. PICK w \in map : {x \in map : x.shortcut = e.shortcut} = {w}
    BY <1>2 DEF Winners
  <2>2. w \in S /\ w.shortcut = e.shortcut
    BY <1>2, <2>1 DEF Winners
  <2>3. w = e
    BY <1>2, <2>2 DEF Clash, UniqueIds
  <2> QED
    BY <2>3
<1>3. ASSUME e.shortcut # NoShortcut PROVE e \in normalShortcuts' \union vaultShortcuts'
  <2>1. CASE IsVault(e)
    BY <1>2, <1>3, <2>1, e \in {x \in S : IsVault(x)}, Zenon DEF IndexAll
  <2>2. CASE ~IsVault(e)
    BY <1>2, <1>3, <2>2, e \in {x \in S : ~IsVault(x)}, Zenon DEF IndexAll
  <2> QED
    BY <2>1, <2>2
<1> QED
  BY <1>1, <1>3

\* A confirmed edit: e replaces the entry with its id, or is taken out.
LEMMA UpdateKeepsFound ==
    ASSUME FoundInv, NEW e, AddOrUpdateEntry(e), Confirmed, UNCHANGED masterFile
    PROVE  FoundInv'
<1> DEFINE old == {x \in entriesById : x.id = e.id}
<1>1. Reindex(old, {e})
  BY DEF AddOrUpdateEntry
<1>2. UniqueIds(entriesById')
  BY <1>1, Zenon DEF FoundInv, UniqueIds, Reindex
<1>3. ASSUME "clash" \notin trouble'
      PROVE  "clash" \notin trouble /\ ~Clash(entriesById')
  BY <1>3 DEF Confirmed
<1>4. ASSUME "clash" \notin trouble' PROVE KeysHeld'
  BY <1>1, <1>3, <1>4, ReindexHolds DEF FoundInv
<1> QED
  BY <1>2, <1>3, <1>4 DEF FoundInv, Clash, UniqueIds, Key

LEMMA DeleteKeepsFound ==
    ASSUME FoundInv, NEW e \in entriesById, DeleteEntry(e), Confirmed, UNCHANGED masterFile
    PROVE  FoundInv'
<1>1. Reindex({e}, {})
  BY DEF DeleteEntry
<1>2. UniqueIds(entriesById')
  BY <1>1, Zenon DEF FoundInv, UniqueIds, Reindex
<1>3. ASSUME "clash" \notin trouble'
      PROVE  "clash" \notin trouble /\ ~Clash(entriesById')
  BY <1>3 DEF Confirmed
<1>4. \A f \in entriesById \ {e} : \A o \in {e} \union {} : f.id # o.id
  BY DEF FoundInv, UniqueIds
<1>5. ASSUME "clash" \notin trouble' PROVE KeysHeld'
  BY <1>1, <1>3, <1>4, <1>5, ReindexHolds DEF FoundInv
<1> QED
  BY <1>2, <1>3, <1>5 DEF FoundInv, Clash, UniqueIds, Key

LEMMA CrashKeepsFound ==
    ASSUME FoundInv, Crash
    PROVE  FoundInv'
<1> DEFINE S == IF Loaded = {} THEN Defaults ELSE Loaded
<1>1. IndexAll(S)
  BY DEF Crash, Start
<1>2. UniqueIds(S)
  BY DictionaryAssumption DEF FoundInv, Loaded, UniqueIds
<1>3. UniqueIds(entriesById')
  BY <1>1, <1>2 DEF IndexAll
<1>4. ASSUME "clash" \notin trouble' PROVE ~Clash(S) /\ "clash" \notin trouble
  <2>1. "clash" \notin trouble
    BY <1>4 DEF Crash
  <2>2. ~Clash({})
    BY DEF Clash
  <2> QED
    BY <2>1, <2>2 DEF FoundInv, Loaded
<1>5. ASSUME "clash" \notin trouble' PROVE KeysHeld' /\ ~Clash(entriesById')
  <2>1. KeysHeld'
    BY <1>1, <1>2, <1>4, <1>5, LoadHolds
  <2>2. entriesById' = S
    BY <1>1 DEF IndexAll
  <2> QED
    BY <1>4, <1>5, <2>1, <2>2
<1>6. masterFile' = masterFile
  BY DEF Crash
<1> QED
  BY <1>3, <1>4, <1>5, <1>6 DEF FoundInv, Clash, UniqueIds, Key

LEMMA InitFound == Init => FoundInv
<1> SUFFICES ASSUME Init PROVE FoundInv
  OBVIOUS
<1>1. UniqueIds(entriesById) /\ UniqueIds(masterFile.entries) /\ ~Clash(masterFile.entries)
  BY DictionaryAssumption DEF Init, UniqueIds, Clash
<1>2. ASSUME "clash" \notin trouble PROVE ~Clash(Defaults)
  BY <1>2 DEF Init
<1>3. ASSUME "clash" \notin trouble, NEW e \in Defaults, e.shortcut # NoShortcut,
             NEW T \in SUBSET Defaults, e \in T, NEW map \in Winners(T)
      PROVE  e \in map
  <2>1. PICK w \in map : {x \in map : x.shortcut = e.shortcut} = {w}
    BY <1>3 DEF Winners
  <2>2. w \in Defaults /\ w.shortcut = e.shortcut
    BY <1>3, <2>1 DEF Winners
  <2>3. w = e
    BY <1>2, <1>3, <2>2, DictionaryAssumption DEF Clash, UniqueIds
  <2> QED
    BY <2>3
<1>4. ASSUME "clash" \notin trouble PROVE KeysHeld
  <2> SUFFICES ASSUME NEW e \in Defaults
               PROVE  /\ e.shortcut # NoShortcut => e \in normalShortcuts \union vaultShortcuts
                      /\ IsVault(e) => Key(e) \in vaultPhrases
    BY DEF Init, KeysHeld
  <2>1. CASE IsVault(e)
    BY <1>3, <1>4, <2>1, e \in {x \in Defaults : IsVault(x)}, Zenon DEF Init
  <2>2. CASE ~IsVault(e)
    BY <1>3, <1>4, <2>2, e \in {x \in Defaults : ~IsVault(x)}, Zenon DEF Init
  <2> QED
    BY <2>1, <2>2
<1> QED
  BY <1>1, <1>2, <1>4 DEF FoundInv, Init

LEMMA NextFound == FoundInv /\ [Next]_vars => FoundInv'
<1> SUFFICES ASSUME FoundInv, [Next]_vars PROVE FoundInv'
  OBVIOUS
<1>1. ASSUME NEW p \in Phrases, NEW s \in Shortcuts \union {NoShortcut}, SaveEdited(p, s)
      PROVE  FoundInv'
  BY <1>1, UpdateKeepsFound DEF SaveEdited, EditFrame
<1>2. ASSUME NEW p \in Phrases, NEW s \in Shortcuts \union {NoShortcut},
             NEW part \in Partitions, SaveNew(p, s, part)
      PROVE  FoundInv'
  BY <1>2, UpdateKeepsFound DEF SaveNew, EditFrame
<1>3. CASE Move
  BY <1>3, UpdateKeepsFound DEF Move, EditFrame
<1>4. CASE Delete
  BY <1>4, DeleteKeepsFound DEF Delete, EditFrame
<1>5. CASE Crash
  BY <1>5, CrashKeepsFound
<1>6. CASE WriteFile
  BY <1>6 DEF WriteFile, FoundInv, KeysHeld, UniqueIds, Clash, Key, IsVault, indices
<1>7. CASE OpenFile
  BY <1>7 DEF OpenFile, Torn, FoundInv, KeysHeld, UniqueIds, Clash, Key, IsVault, indices
<1>8. ASSUME UNCHANGED <<indices, masterFile>>, trouble \subseteq trouble'
      PROVE  FoundInv'
  BY <1>8 DEF FoundInv, KeysHeld, UniqueIds, Clash, Key, IsVault, indices
<1>9. CASE SaveFails \/ ProviderThrows
  BY <1>8, <1>9 DEF SaveFails, ProviderThrows
<1>10. CASE \/ Cancel \/ RemoveRow \/ DeleteRow \/ InsertRow \/ UNCHANGED vars
            \/ \E kind \in {"edit", "move", "delete"}, e \in entriesById : OpenDialog(kind, e)
  BY <1>8, <1>10 DEF Cancel, RemoveRow, DeleteRow, InsertRow, OpenDialog, vars
<1> QED
  BY <1>1, <1>2, <1>3, <1>4, <1>5, <1>6, <1>7, <1>9, <1>10 DEF Next

\* Keys under which the entries are, and lookups that are live, find exactly the
\* entry that has the shortcut.
LEMMA HeldAreFound == LookupsAreLive /\ FoundInv => EntriesAreFound
<1> SUFFICES ASSUME LookupsAreLive, FoundInv, "clash" \notin trouble, NEW e \in entriesById
             PROVE  /\ e.shortcut # NoShortcut => FindMatches(e.shortcut) = {e}
                    /\ IsVault(e) => IsVaultPhrase(e.phrase)
  BY DEF EntriesAreFound
<1>1. IsVault(e) => IsVaultPhrase(e.phrase)
  BY DEF FoundInv, KeysHeld, IsVaultPhrase, Key
<1>2. ASSUME e.shortcut # NoShortcut PROVE FindMatches(e.shortcut) = {e}
  <2>1. e \in FindMatches(e.shortcut)
    BY <1>2 DEF FoundInv, KeysHeld, FindMatches
  <2>2. ASSUME NEW f \in FindMatches(e.shortcut) PROVE f = e
    <3>1. f \in entriesById /\ f.shortcut = e.shortcut
      BY DEF FindMatches, LookupsAreLive
    <3> QED
      BY <1>2, <3>1 DEF FoundInv, Clash, UniqueIds
  <2> QED
    BY <2>1, <2>2
<1> QED
  BY <1>1, <1>2

\* While no two entries ever shared a key, every entry is found by its shortcut
\* and every vault phrase is recognized (isVaultPhrase, findMatches).
THEOREM EntriesFound == Spec => []EntriesAreFound
<1>1. Init => LookupsAreLive /\ FoundInv
  BY InitIsLive, InitFound
<1>2. (LookupsAreLive /\ FoundInv) /\ [Next]_vars => (LookupsAreLive /\ FoundInv)'
  BY NextIsLive, NextFound
<1>3. LookupsAreLive /\ FoundInv => EntriesAreFound
  BY HeldAreFound
<1> QED
  BY <1>1, <1>2, <1>3, PTL DEF Spec

-----------------------------------------------------------------------------
\* TypeOK.

\* The variables an edit writes, and the ones a start writes.
IndexTypes ==
    /\ entriesById \subseteq Entry
    /\ normalShortcuts \subseteq Entry /\ vaultShortcuts \subseteq Entry
    /\ vaultPhrases \subseteq Phrases
WorkTypes ==
    /\ saving \in {"no", "open", "write"}
    /\ toRemove \subseteq Entry /\ toMirror \subseteq Entry

LEMMA KeyTyped ==
    \A e \in Entry : /\ Key(e) \in Phrases
                     /\ Row(e) \in Phrases \X (Shortcuts \union {NoShortcut})
BY DictionaryAssumption DEF Entry, Key, Row

LEMMA ReindexTyped ==
    ASSUME IndexTypes, NEW old, NEW new \in SUBSET Entry, Reindex(old, new)
    PROVE  IndexTypes'
<1>1. entriesById' \subseteq Entry
  BY DEF IndexTypes, Reindex
<1>2. normalShortcuts' \subseteq Entry /\ vaultShortcuts' \subseteq Entry
  BY Zenon DEF IndexTypes, Reindex, Put, Without
<1>3. vaultPhrases' \subseteq Phrases
  BY KeyTyped, Zenon DEF IndexTypes, Reindex
<1> QED
  BY <1>1, <1>2, <1>3 DEF IndexTypes

LEMMA LoadTyped ==
    ASSUME NEW S \in SUBSET Entry, IndexAll(S)
    PROVE  IndexTypes'
<1>1. vaultPhrases' \subseteq Phrases
  BY KeyTyped, Zenon DEF IndexAll
<1> QED
  BY <1>1 DEF IndexTypes, IndexAll, Winners

LEMMA UpdateTyped ==
    ASSUME IndexTypes, NEW e \in Entry, AddOrUpdateEntry(e)
    PROVE  IndexTypes' /\ WorkTypes'
<1> DEFINE old == {x \in entriesById : x.id = e.id}
<1>1. Reindex(old, {e})
  BY DEF AddOrUpdateEntry
<1>2. IndexTypes'
  BY <1>1, ReindexTyped
<1>3. old \subseteq Entry
  BY DEF IndexTypes
<1>4. WorkTypes'
  BY <1>3 DEF AddOrUpdateEntry, WorkTypes
<1> QED
  BY <1>2, <1>4

LEMMA DeleteTyped ==
    ASSUME IndexTypes, NEW e \in entriesById, DeleteEntry(e)
    PROVE  IndexTypes' /\ WorkTypes'
<1>1. IndexTypes'
  BY ReindexTyped, Reindex({e}, {}) DEF DeleteEntry
<1> QED
  BY <1>1 DEF DeleteEntry, WorkTypes, IndexTypes

LEMMA ToggledTyped == \A e \in Entry : Toggled(e) \in Entry
BY DEF Entry, Toggled, Partitions

LEMMA CloseTopTyped ==
    ASSUME NEW K, dialogs \in Seq(K), dialogs # <<>>, CloseTop
    PROVE  dialogs' \in Seq(K) /\ Top \in K
<1>1. Len(dialogs) \in Nat /\ Len(dialogs) # 0
  BY SMT
<1> QED
  BY <1>1 DEF CloseTop, Top

Dialog == [kind : {"edit", "move", "delete"}, entry : Entry]
OtherTypes ==
    /\ masterFile \in [state : {"missing", "torn", "whole"}, entries : SUBSET Entry]
    /\ inserting \subseteq Entry
    /\ systemRows \subseteq Phrases \X (Shortcuts \union {NoShortcut})
    /\ crashes \in Nat
DialogTypes == dialogs \in Seq(Dialog)
CountTypes == edits \in Nat /\ trouble \subseteq FaultKinds \union {"crash", "clash"}

Types == IndexTypes /\ WorkTypes /\ OtherTypes /\ DialogTypes /\ CountTypes

LEMMA TypeParts == Types => TypeOK
BY DEF Types, TypeOK, IndexTypes, WorkTypes, OtherTypes, DialogTypes, CountTypes, Dialog

LEMMA ConfirmedTyped == CountTypes /\ Confirmed => CountTypes'
BY DEF CountTypes, Confirmed

LEMMA InitTyped == Init => Types
<1> SUFFICES ASSUME Init PROVE Types
  OBVIOUS
<1>1. IndexTypes
  BY DictionaryAssumption, KeyTyped DEF Init, IndexTypes, Winners
<1>2. WorkTypes /\ OtherTypes
  BY DictionaryAssumption DEF Init, WorkTypes, OtherTypes
<1>3. DialogTypes /\ CountTypes
  BY DEF Init, DialogTypes, CountTypes
<1> QED
  BY <1>1, <1>2, <1>3 DEF Types

LEMMA NextTyped == Types /\ [Next]_vars => Types'
<1> SUFFICES ASSUME Types, [Next]_vars PROVE Types'
  OBVIOUS
<1> USE DEF Types
<1> DEFINE AllShortcuts == Shortcuts \union {NoShortcut}
<1>1. ASSUME NEW p \in Phrases, NEW s \in AllShortcuts, SaveEdited(p, s)
      PROVE  Types'
  <2>1. Top \in Dialog /\ DialogTypes'
    BY <1>1, CloseTopTyped DEF SaveEdited, DialogTypes
  <2>2. [Top.entry EXCEPT !.phrase = p, !.shortcut = s] \in Entry
    BY <2>1 DEF Dialog, Entry
  <2>3. IndexTypes' /\ WorkTypes'
    BY <1>1, <2>2, UpdateTyped DEF SaveEdited
  <2>4. CountTypes' /\ OtherTypes'
    BY <1>1, ConfirmedTyped DEF SaveEdited, EditFrame, OtherTypes
  <2> QED
    BY <2>1, <2>3, <2>4
<1>2. ASSUME NEW p \in Phrases, NEW s \in AllShortcuts, NEW part \in Partitions,
             SaveNew(p, s, part)
      PROVE  Types'
  <2>1. PICK id \in Ids :
          AddOrUpdateEntry([id |-> id, phrase |-> p, shortcut |-> s, partition |-> part])
    BY <1>2 DEF SaveNew
  <2>2. [id |-> id, phrase |-> p, shortcut |-> s, partition |-> part] \in Entry
    BY DEF Entry
  <2>3. IndexTypes' /\ WorkTypes'
    BY <2>1, <2>2, UpdateTyped
  <2>4. CountTypes' /\ OtherTypes' /\ DialogTypes'
    BY <1>2, ConfirmedTyped DEF SaveNew, EditFrame, OtherTypes, DialogTypes
  <2> QED
    BY <2>3, <2>4
<1>3. CASE Move
  <2>1. DialogTypes'
    BY <1>3, CloseTopTyped DEF Move, DialogTypes
  <2>2. PICK e \in entriesById : AddOrUpdateEntry(Toggled(e))
    BY <1>3 DEF Move
  <2>3. Toggled(e) \in Entry
    BY ToggledTyped DEF IndexTypes
  <2>4. IndexTypes' /\ WorkTypes'
    BY <2>2, <2>3, UpdateTyped
  <2>5. CountTypes' /\ OtherTypes'
    BY <1>3, ConfirmedTyped DEF Move, EditFrame, OtherTypes
  <2> QED
    BY <2>1, <2>4, <2>5
<1>4. CASE Delete
  <2>1. DialogTypes'
    BY <1>4, CloseTopTyped DEF Delete, DialogTypes
  <2>2. IndexTypes' /\ WorkTypes'
    BY <1>4, DeleteTyped DEF Delete
  <2>3. CountTypes' /\ OtherTypes'
    BY <1>4, ConfirmedTyped DEF Delete, EditFrame, OtherTypes
  <2> QED
    BY <2>1, <2>2, <2>3
<1>5. ASSUME NEW kind \in {"edit", "move", "delete"}, NEW e \in entriesById,
             OpenDialog(kind, e)
      PROVE  Types'
  <2>1. [kind |-> kind, entry |-> e] \in Dialog
    BY DEF Dialog, IndexTypes
  <2>2. DialogTypes'
    BY <1>5, <2>1 DEF OpenDialog, DialogTypes
  <2>3. IndexTypes' /\ WorkTypes' /\ OtherTypes' /\ CountTypes'
    BY <1>5 DEF OpenDialog, indices, mirroring, IndexTypes, WorkTypes, OtherTypes, CountTypes
  <2> QED
    BY <2>2, <2>3
<1>6. CASE Cancel
  <2>1. DialogTypes'
    BY <1>6, CloseTopTyped DEF Cancel, DialogTypes
  <2>2. IndexTypes' /\ WorkTypes' /\ OtherTypes' /\ CountTypes'
    BY <1>6 DEF Cancel, indices, mirroring, IndexTypes, WorkTypes, OtherTypes, CountTypes
  <2> QED
    BY <2>1, <2>2
<1>7. CASE OpenFile \/ WriteFile \/ SaveFails
  <2>1. masterFile' \in [state : {"missing", "torn", "whole"}, entries : SUBSET Entry]
    BY <1>7 DEF OpenFile, WriteFile, SaveFails, Torn, IndexTypes, OtherTypes
  <2>2. /\ UNCHANGED <<indices, mirroring, dialogs, edits, crashes>>
        /\ saving' \in {"no", "open", "write"}
        /\ trouble' \subseteq trouble \union {"disk"}
    BY <1>7 DEF OpenFile, WriteFile, SaveFails
  <2> QED
    BY <2>1, <2>2 DEF indices, mirroring, FaultKinds,
              IndexTypes, WorkTypes, OtherTypes, DialogTypes, CountTypes
<1>8. CASE RemoveRow \/ DeleteRow \/ InsertRow
  <2>1. systemRows' \subseteq Phrases \X AllShortcuts
    <3>1. CASE InsertRow
      <4>1. PICK e \in inserting : systemRows' = systemRows \union {Row(e)}
        BY <3>1 DEF InsertRow
      <4> QED
        BY <4>1, KeyTyped DEF OtherTypes
    <3>2. CASE RemoveRow \/ DeleteRow
      BY <3>2 DEF RemoveRow, DeleteRow, OtherTypes
    <3> QED
      BY <1>8, <3>1, <3>2
  <2>2. /\ UNCHANGED <<indices, masterFile, saving, crashes>>
        /\ toRemove' \subseteq Entry /\ toMirror' \subseteq Entry /\ inserting' \subseteq Entry
    BY <1>8 DEF RemoveRow, DeleteRow, InsertRow, WorkTypes, OtherTypes
  <2>3. DialogTypes' /\ CountTypes'
    BY <1>8 DEF RemoveRow, DeleteRow, InsertRow, DialogTypes, CountTypes
  <2> QED
    BY <2>1, <2>2, <2>3 DEF indices, IndexTypes, WorkTypes, OtherTypes
<1>9. CASE ProviderThrows
  BY <1>9 DEF ProviderThrows, indices, FaultKinds,
              IndexTypes, WorkTypes, OtherTypes, DialogTypes, CountTypes
<1>10. CASE Crash
  <2>1. IF Loaded = {} THEN Defaults \in SUBSET Entry ELSE Loaded \in SUBSET Entry
    BY DictionaryAssumption DEF Loaded, OtherTypes
  <2>2. IndexTypes'
    BY <1>10, <2>1, LoadTyped DEF Crash, Start
  <2>3. WorkTypes'
    BY <1>10, DictionaryAssumption DEF Crash, Start, WorkTypes
  <2>4. OtherTypes' /\ DialogTypes' /\ CountTypes'
    BY <1>10 DEF Crash, Start, OtherTypes, DialogTypes, CountTypes
  <2> QED
    BY <2>2, <2>3, <2>4
<1>11. CASE UNCHANGED vars
  BY <1>11 DEF vars, indices, mirroring,
               IndexTypes, WorkTypes, OtherTypes, DialogTypes, CountTypes
<1> QED
  BY <1>1, <1>2, <1>3, <1>4, <1>5, <1>6, <1>7, <1>8, <1>9, <1>10, <1>11 DEF Next

\* Every variable of the dictionary keeps its shape, for any phrases, shortcuts,
\* defaults and failures.
THEOREM TypeCorrect == Spec => []TypeOK
BY InitTyped, NextTyped, TypeParts, PTL DEF Spec

-----------------------------------------------------------------------------
\* EditsSurvive.

OneId(S, T) == \A e, f \in (S \ T) \union (T \ S) : e.id = f.id

\* What the file holds at each stage of a save, while the disk never failed.
FileInv ==
    /\ saving \in {"no", "open", "write"}
    /\ saving = "write" => masterFile.state = "torn"
    /\ "disk" \notin trouble /\ saving = "no" =>
          masterFile.state = "whole" /\ masterFile.entries = entriesById
    /\ "disk" \notin trouble /\ masterFile.state = "whole" /\ masterFile.entries # {} =>
          OneId(entriesById, masterFile.entries)

LEMMA EditKeepsFile ==
    ASSUME FileInv, Rest, NEW old, NEW new, NEW id, Reindex(old, new),
           \A e \in old \union new : e.id = id,
           Confirmed, UNCHANGED masterFile, saving' = "open"
    PROVE  FileInv'
<1>1. "disk" \notin trouble' => "disk" \notin trouble
  BY DEF Confirmed
<1>2. "disk" \notin trouble => OneId(entriesById', masterFile.entries)
  BY DEF FileInv, Rest, Reindex, OneId
<1> QED
  BY <1>1, <1>2 DEF FileInv, OneId

LEMMA CrashKeepsFile == FileInv /\ Crash => FileInv'
<1> SUFFICES ASSUME FileInv, Crash PROVE FileInv'
  OBVIOUS
<1>1. /\ Loaded # {} => entriesById' = Loaded
      /\ saving' = IF Loaded = {} THEN "open" ELSE "no"
      /\ masterFile' = masterFile
  BY DEF Crash, Start, IndexAll
<1>2. CASE Loaded = {}
  BY <1>1, <1>2 DEF FileInv, Loaded, OneId
<1>3. CASE Loaded # {}
  BY <1>1, <1>3 DEF FileInv, Loaded, OneId
<1> QED
  BY <1>2, <1>3

LEMMA NextKeepsFile == FileInv /\ [Next]_vars => FileInv'
<1> SUFFICES ASSUME FileInv, [Next]_vars PROVE FileInv'
  OBVIOUS
<1>1. ASSUME NEW e, MayEdit, AddOrUpdateEntry(e), Confirmed, EditFrame
      PROVE  FileInv'
  BY <1>1, EditKeepsFile DEF MayEdit, AddOrUpdateEntry, EditFrame
<1>2. CASE Delete
  <2>1. PICK e \in entriesById : DeleteEntry(e)
    BY <1>2 DEF Delete
  <2>2. Rest /\ Confirmed /\ UNCHANGED masterFile
    BY <1>2 DEF Delete, MayEdit, EditFrame
  <2>3. Reindex({e}, {}) /\ saving' = "open" /\ \A x \in {e} \union {} : x.id = e.id
    BY <2>1 DEF DeleteEntry
  <2> QED
    BY <2>2, <2>3, EditKeepsFile
<1>3. CASE Crash
  BY <1>3, CrashKeepsFile
<1>4. CASE OpenFile
  BY <1>4 DEF OpenFile, Torn, FileInv
<1>5. CASE WriteFile
  BY <1>5 DEF WriteFile, FileInv, OneId, indices
<1>6. CASE SaveFails
  BY <1>6 DEF SaveFails, FileInv
<1>7. ASSUME UNCHANGED <<indices, masterFile, saving>>, trouble \subseteq trouble'
      PROVE  FileInv'
  BY <1>7 DEF FileInv, OneId, indices
<1>8. CASE \/ Cancel \/ RemoveRow \/ DeleteRow \/ InsertRow \/ ProviderThrows
           \/ UNCHANGED vars
           \/ \E kind \in {"edit", "move", "delete"}, e \in entriesById : OpenDialog(kind, e)
  BY <1>7, <1>8 DEF Cancel, RemoveRow, DeleteRow, InsertRow, ProviderThrows, OpenDialog, vars
<1>9. ASSUME NEW p \in Phrases, NEW s \in Shortcuts \union {NoShortcut},
             \/ SaveEdited(p, s)
             \/ \E part \in Partitions : SaveNew(p, s, part)
      PROVE  FileInv'
  BY <1>1, <1>9, Zenon DEF SaveEdited, SaveNew
<1>10. CASE Move
  BY <1>1, <1>10, Zenon DEF Move
<1> QED
  BY <1>2, <1>3, <1>4, <1>5, <1>6, <1>8, <1>9, <1>10 DEF Next

LEMMA CrashLosesLittle ==
    ASSUME FileInv, Next, crashes' # crashes, masterFile.state = "whole",
           masterFile.entries # {}, "disk" \notin trouble
    PROVE  (Rest => entriesById' = entriesById) /\ OneId(entriesById, entriesById')
<1>1. Crash
  BY DEF Next, SaveEdited, SaveNew, Move, Delete, EditFrame, OpenDialog, Cancel, OpenFile,
         WriteFile, SaveFails, RemoveRow, DeleteRow, InsertRow, ProviderThrows
<1>2. entriesById' = masterFile.entries
  BY <1>1 DEF Crash, Start, IndexAll, Loaded
<1> QED
  BY <1>2 DEF FileInv, Rest

\* Whatever the defaults, the entries and the moment of the crash, a death of
\* the process costs at most the edit under way, and nothing at rest (the order
\* index, truncate, write of addOrUpdateEntry and saveToDisk).
THEOREM CrashesAreSurvived == Spec => EditsSurvive
<1>1. Init => FileInv
  BY DEF Init, FileInv
<1>2. FileInv /\ [Next]_vars => FileInv'
  BY NextKeepsFile
<1>3. FileInv /\ [Next]_vars =>
        [crashes' # crashes /\ masterFile.state = "whole" /\ masterFile.entries # {}
         /\ "disk" \notin trouble =>
            /\ Rest => entriesById' = entriesById
            /\ \A e, f \in (entriesById \ entriesById') \union (entriesById' \ entriesById) :
                  e.id = f.id]_vars
  BY CrashLosesLittle DEF OneId
<1> QED
  BY <1>1, <1>2, <1>3, PTL DEF Spec, EditsSurvive

-----------------------------------------------------------------------------
\* NormalIsMirrored.

\* While nothing went wrong: a normal entry has its row or is about to get it,
\* and no row about to go is one's of a normal entry.
MirrorInv ==
    trouble = {} =>
        /\ toMirror \subseteq entriesById /\ inserting \subseteq entriesById
        /\ \A e, f \in inserting : e = f
        /\ \A e \in entriesById :
              ~IsVault(e) => Row(e) \in systemRows \/ e \in toMirror \union inserting
        /\ \A o \in toRemove : \A e \in entriesById : ~IsVault(e) => Key(o) # Key(e)

LEMMA InitMirrors == Init => MirrorInv
BY Zenon DEF Init, MirrorInv

LEMMA RowHasKey == ASSUME NEW e, NEW f, Row(e) = Row(f) PROVE Key(e) = Key(f)
BY DEF Row, Key

LEMMA UpdateMirrors ==
    ASSUME MirrorInv, FoundInv, MayEdit, NEW e, AddOrUpdateEntry(e), Confirmed, EditFrame
    PROVE  MirrorInv'
<1> SUFFICES ASSUME trouble' = {} PROVE MirrorInv'
  BY DEF MirrorInv
<1> DEFINE old == {x \in entriesById : x.id = e.id}
<1>1. trouble = {} /\ ~Clash(entriesById)
  BY DEF Confirmed, FoundInv
<1>2. /\ entriesById' = (entriesById \ old) \union {e}
      /\ toMirror' = IF IsVault(e) THEN {} ELSE {e}
      /\ toRemove' = IF IsVault(e) THEN {o \in old : ~IsVault(o)} ELSE {}
      /\ inserting = {} /\ toMirror = {} /\ UNCHANGED <<inserting, systemRows>>
  BY DEF AddOrUpdateEntry, Reindex, EditFrame, MayEdit, Rest
<1>3. \A f \in entriesById' :
         ~IsVault(f) => Row(f) \in systemRows' \/ f \in toMirror' \union inserting'
  BY <1>1, <1>2, Zenon DEF MirrorInv
<1>4. ASSUME NEW o \in toRemove', NEW f \in entriesById', ~IsVault(f)
      PROVE  Key(o) # Key(f)
  BY <1>1, <1>2, <1>4, Zenon DEF Clash
<1> QED
  BY <1>2, <1>3, <1>4, Zenon DEF MirrorInv, IsVault, Key, Row

LEMMA DeleteMirrors == MirrorInv /\ FoundInv /\ Delete => MirrorInv'
<1> SUFFICES ASSUME MirrorInv, FoundInv, Delete, trouble' = {} PROVE MirrorInv'
  BY DEF MirrorInv
<1>1. trouble = {} /\ ~Clash(entriesById) /\ UniqueIds(entriesById)
  BY DEF Delete, Confirmed, FoundInv
<1>2. PICK e \in entriesById : DeleteEntry(e)
  BY DEF Delete
<1>3. /\ entriesById' = entriesById \ {e}
      /\ toMirror' = {} /\ toRemove' \subseteq {e}
      /\ inserting = {} /\ toMirror = {} /\ UNCHANGED <<inserting, systemRows>>
  BY <1>2 DEF Delete, DeleteEntry, Reindex, EditFrame, MayEdit, Rest
<1>4. \A f \in entriesById' :
         ~IsVault(f) => Row(f) \in systemRows' \/ f \in toMirror' \union inserting'
  BY <1>1, <1>3, Zenon DEF MirrorInv
<1>5. ASSUME NEW o \in toRemove', NEW f \in entriesById' PROVE Key(o) # Key(f)
  BY <1>1, <1>3, Zenon DEF Clash, UniqueIds
<1> QED
  BY <1>3, <1>4, <1>5, Zenon DEF MirrorInv, IsVault, Key, Row

LEMMA CrashMirrors == MirrorInv /\ FileInv /\ Crash => MirrorInv'
<1> SUFFICES ASSUME MirrorInv, FileInv, Crash, trouble' = {} PROVE MirrorInv'
  BY DEF MirrorInv
<1>1. trouble = {} /\ Rest
  BY DEF Crash
<1>2. Loaded = entriesById
  BY <1>1 DEF FileInv, Rest, Loaded
<1>3. /\ inserting' = {} /\ toRemove' = {} /\ UNCHANGED systemRows
      /\ entriesById' = IF entriesById = {} THEN Defaults ELSE entriesById
      /\ toMirror' = IF entriesById = {} THEN {e \in Defaults : ~IsVault(e)} ELSE {}
  BY <1>2 DEF Crash, Start, IndexAll
<1>4. \A e \in entriesById : ~IsVault(e) => Row(e) \in systemRows
  BY <1>1 DEF MirrorInv, Rest
<1> QED
  BY <1>3, <1>4, Zenon DEF MirrorInv, IsVault, Key, Row

LEMMA RowsMirror == MirrorInv /\ FoundInv /\ (RemoveRow \/ DeleteRow \/ InsertRow) => MirrorInv'
<1> SUFFICES ASSUME MirrorInv, FoundInv, RemoveRow \/ DeleteRow \/ InsertRow, trouble' = {}
             PROVE  MirrorInv'
  BY DEF MirrorInv
<1>1. trouble = {} /\ UNCHANGED entriesById
  BY DEF RemoveRow, DeleteRow, InsertRow, indices
<1>2. CASE RemoveRow
  <2>1. PICK o \in toRemove : systemRows' = systemRows \ {Row(o)} /\ toRemove' = toRemove \ {o}
    BY <1>2 DEF RemoveRow
  <2>2. \A e \in entriesById : ~IsVault(e) => Row(e) # Row(o)
    BY <1>1, RowHasKey, Zenon DEF MirrorInv
  <2>3. UNCHANGED <<toMirror, inserting>>
    BY <1>2 DEF RemoveRow
  <2> QED
    BY <1>1, <2>1, <2>2, <2>3, Zenon DEF MirrorInv, IsVault, Key, Row
<1>3. CASE DeleteRow
  <2>1. PICK e \in toMirror : /\ systemRows' = systemRows \ {Row(e)}
                              /\ toMirror' = toMirror \ {e} /\ inserting' = {e}
    BY <1>3 DEF DeleteRow
  <2>2. inserting = {} /\ toRemove' = toRemove
    BY <1>3 DEF DeleteRow
  <2>3. e \in entriesById /\ \A f \in entriesById : f # e => Row(f) # Row(e)
    BY <1>1, RowHasKey, Zenon DEF MirrorInv, FoundInv, Clash, UniqueIds
  <2>4. \A f \in entriesById : ~IsVault(f) =>
           Row(f) \in systemRows' \/ f \in toMirror' \union inserting'
    BY <1>1, <2>1, <2>2, <2>3, Zenon DEF MirrorInv
  <2> QED
    BY <1>1, <2>1, <2>2, <2>3, <2>4, Zenon DEF MirrorInv, IsVault, Key, Row
<1>4. CASE InsertRow
  <2>1. PICK e \in inserting : systemRows' = systemRows \union {Row(e)}
    BY <1>4 DEF InsertRow
  <2>2. inserting' = {} /\ UNCHANGED <<toMirror, toRemove>>
    BY <1>4 DEF InsertRow
  <2>3. \A f \in entriesById : ~IsVault(f) =>
           Row(f) \in systemRows' \/ f \in toMirror' \union inserting'
    BY <1>1, <2>1, <2>2, Zenon DEF MirrorInv
  <2> QED
    BY <1>1, <2>2, <2>3, Zenon DEF MirrorInv, IsVault, Key, Row
<1> QED
  BY <1>2, <1>3, <1>4

LEMMA NextMirrors == MirrorInv /\ FoundInv /\ FileInv /\ [Next]_vars => MirrorInv'
<1> SUFFICES ASSUME MirrorInv, FoundInv, FileInv, [Next]_vars PROVE MirrorInv'
  OBVIOUS
<1>1. ASSUME NEW p \in Phrases, NEW s \in Shortcuts \union {NoShortcut},
             \/ SaveEdited(p, s)
             \/ \E part \in Partitions : SaveNew(p, s, part)
      PROVE  MirrorInv'
  BY <1>1, UpdateMirrors, Zenon DEF SaveEdited, SaveNew
<1>2. CASE Move
  BY <1>2, UpdateMirrors, Zenon DEF Move
<1>3. CASE Delete
  BY <1>3, DeleteMirrors
<1>4. CASE Crash
  BY <1>4, CrashMirrors
<1>5. CASE RemoveRow \/ DeleteRow \/ InsertRow
  BY <1>5, RowsMirror
<1>6. CASE SaveFails \/ ProviderThrows
  BY <1>6 DEF SaveFails, ProviderThrows, MirrorInv
<1>7. ASSUME UNCHANGED <<indices, mirroring, trouble>> PROVE MirrorInv'
  BY <1>7 DEF MirrorInv, IsVault, Key, Row, indices, mirroring
<1>8. CASE \/ Cancel \/ OpenFile \/ WriteFile \/ UNCHANGED vars
           \/ \E kind \in {"edit", "move", "delete"}, e \in entriesById : OpenDialog(kind, e)
  BY <1>7, <1>8 DEF Cancel, OpenFile, WriteFile, OpenDialog, vars
<1> QED
  BY <1>1, <1>2, <1>3, <1>4, <1>5, <1>6, <1>8 DEF Next

\* While nothing failed and nothing clashed, the system's dictionary has a row
\* for each normal entry whenever no edit is under way (mirrorNormalEntry after
\* every save and promotion; removeNormalEntry takes no other entry's row).
THEOREM NormalMirrored == Spec => []NormalIsMirrored
<1>1. Init => MirrorInv /\ FoundInv /\ FileInv
  BY InitMirrors, InitFound DEF Init, FileInv
<1>2. (MirrorInv /\ FoundInv /\ FileInv) /\ [Next]_vars => (MirrorInv /\ FoundInv /\ FileInv)'
  BY NextMirrors, NextFound, NextKeepsFile
<1>3. MirrorInv => NormalIsMirrored
  BY DEF MirrorInv, NormalIsMirrored, Rest
<1> QED
  BY <1>1, <1>2, <1>3, PTL DEF Spec
===============================================================================

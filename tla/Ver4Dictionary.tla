---------------------------- MODULE Ver4Dictionary ----------------------------
(***************************************************************************)
(* The life of a dictionary that learns, as the keyboard's history and     *)
(* personal dictionaries use it: it is created or opened, updated in       *)
(* memory, written to its directory by flush and flushWithGC               *)
(* (v4/ver4_patricia_trie_policy.cpp, v4/ver4_dict_buffers.cpp), and the   *)
(* process may die at any step of the writing.                             *)
(***************************************************************************)
EXTENDS PatriciaTrie

CONSTANTS Words,        \* words that are learned, as sequences of code points
          Grams,        \* n-grams: previous words, most recent first, and the word
          Values,       \* probabilities
          Earlier,      \* dictionaries that earlier sessions may have left
          MaxUpdates    \* bound on the updates of a behaviour

VARIABLES dict,         \* the dictionary in memory
          view,         \* what a reader finds in it: computed once for each update
          isOpen,       \* whether the application holds it
          file,         \* the directory of the dictionary
          tmp,          \* the directory with the suffix .tmp, whose files are
                        \* never read, only renamed or removed
          phase,        \* how far a flush has come
          image,        \* what the flush writes
          closing,      \* the flush is the one before close()
          updates

vars == <<dict, view, isOpen, file, tmp, phase, image, closing, updates>>

-----------------------------------------------------------------------------
(* What a reader finds: the words, and the entries by their words. *)

Known(t) == {w \in Words : WordId(t, w) # NoId}

(* The word of a terminal id, removed or not: each id is in one node.      *)
WordOfId(t, id) ==
    ReadUp(t, CHOOSE p \in DOMAIN t.nodes :
                  t.nodes[p].term /\ t.nodes[p].id = id /\ t.nodes[p].state # "moved")

Learned(t) ==
    {<<[i \in DOMAIN x[1] |-> WordOfId(t, x[1][i])], x[2]>> : x \in AllEntries(t.lm, RootMap, <<>>)}

Reading(t) == [entries |-> Learned(t), known |-> Known(t)]

(* A directory: absent, without one of its files, or with both. *)
Absent == [kind |-> "none", t |-> EmptyDictionary, seen |-> Reading(EmptyDictionary)]
Torn == [Absent EXCEPT !.kind = "torn"]
Whole(t, seen) == [kind |-> "whole", t |-> t, seen |-> seen]

Init ==
    /\ dict = EmptyDictionary /\ isOpen = FALSE
    /\ file \in {Absent} \union {Whole(t, Reading(t)) : t \in Earlier} /\ tmp = "none"
    /\ view = Absent.seen
    /\ phase = "idle" /\ image = Absent /\ closing = FALSE
    /\ updates = 0

-----------------------------------------------------------------------------
(* Updates; none of them runs inside a flush. *)

Update(t) ==
    /\ isOpen /\ phase = "idle" /\ updates < MaxUpdates
    /\ dict' = t /\ dict' # dict
    /\ view' = Reading(dict')
    /\ updates' = updates + 1
    /\ UNCHANGED <<isOpen, file, tmp, phase, image, closing>>

AddUnigramEntry(w, v) == Update(AddUnigram(dict, w, v))
RemoveUnigramEntry(w) == Update(RemoveUnigram(dict, w))
AddNgramEntry(g, v) == Update(AddNgram(dict, g, v))
RemoveNgramEntry(g) == Update(RemoveNgram(dict, g))

-----------------------------------------------------------------------------
(* flushHeaderAndDictBuffers: a stale temporary directory is removed and a *)
(* new one begun; it is whole once the body is written; then the old       *)
(* directory is emptied and removed, and the new one takes its name.       *)

StartWriting(t, seen) ==
    /\ phase' = "writing" /\ image' = Whole(t, seen) /\ tmp' = "torn"

Flush ==
    /\ isOpen /\ phase = "idle"
    /\ StartWriting(dict, view)
    /\ UNCHANGED <<dict, view, isOpen, file, closing, updates>>

FlushWithGC ==
    /\ isOpen /\ phase = "idle"
    /\ LET t == RunGC(dict) IN StartWriting(t, Reading(t))
    /\ closing' = TRUE
    /\ UNCHANGED <<dict, view, isOpen, file, updates>>

FinishWriting ==
    /\ phase = "writing"
    /\ tmp' = "whole" /\ phase' = "written"
    /\ UNCHANGED <<dict, view, isOpen, file, image, closing, updates>>

RemoveFiles ==
    /\ phase = "written" /\ file # Absent
    /\ file' = Torn /\ phase' = "removing"
    /\ UNCHANGED <<dict, view, isOpen, tmp, image, closing, updates>>

RemoveDirectory ==
    /\ phase = "removing" \/ (phase = "written" /\ file = Absent)
    /\ file' = Absent /\ phase' = "removed"
    /\ UNCHANGED <<dict, view, isOpen, tmp, image, closing, updates>>

(* The flush returns; after the last one the dictionary is closed. *)
Return ==
    /\ phase' = "idle" /\ image' = Absent /\ closing' = FALSE
    /\ isOpen' = (isOpen /\ ~ closing)
    /\ IF closing THEN dict' = EmptyDictionary /\ view' = Absent.seen ELSE UNCHANGED <<dict, view>>
    /\ UNCHANGED updates

Rename ==
    /\ phase = "removed"
    /\ file' = image /\ tmp' = "none"
    /\ Return

(* Any of the file operations may fail: the flush returns false. *)
FlushFails ==
    /\ phase # "idle"
    /\ Return
    /\ UNCHANGED <<file, tmp>>

Crash ==
    /\ isOpen \/ phase # "idle"
    /\ isOpen' = FALSE /\ dict' = EmptyDictionary /\ view' = Absent.seen
    /\ phase' = "idle" /\ image' = Absent /\ closing' = FALSE
    /\ UNCHANGED <<file, tmp, updates>>

-----------------------------------------------------------------------------
(* resetDictionaries: an empty dictionary is created when there is none;   *)
(* an existing directory is opened when both of its files can be read.     *)

CreateEmptyDictFile ==
    /\ ~ isOpen /\ phase = "idle" /\ file = Absent
    /\ StartWriting(EmptyDictionary, view)
    /\ UNCHANGED <<dict, view, isOpen, file, closing, updates>>

OpenVer4DictBuffers ==
    /\ ~ isOpen /\ phase = "idle" /\ file # Absent
    /\ isOpen' = (file.kind = "whole")
    /\ dict' = file.t /\ view' = file.seen
    /\ UNCHANGED <<file, tmp, phase, image, closing, updates>>

Next ==
    \/ \E w \in Words, v \in Values : AddUnigramEntry(w, v)
    \/ \E w \in Words : RemoveUnigramEntry(w)
    \/ \E g \in Grams, v \in Values : AddNgramEntry(g, v)
    \/ \E g \in Grams : RemoveNgramEntry(g)
    \/ Flush \/ FlushWithGC
    \/ FinishWriting \/ RemoveFiles \/ RemoveDirectory \/ Rename \/ FlushFails
    \/ Crash
    \/ CreateEmptyDictFile \/ OpenVer4DictBuffers

Spec == Init /\ [][Next]_vars

-----------------------------------------------------------------------------
(* The store that the dictionary implements. *)

VersionOf(d) == [entries |-> d.seen.entries, known |-> d.seen.known, whole |-> d.kind]

Store == INSTANCE WordStore WITH
    entries <- view.entries, known <- view.known, isOpen <- isOpen,
    Earlier <- {VersionOf(Whole(t, Reading(t))) : t \in Earlier},
    saved <- VersionOf(file), pending <- VersionOf(image)

-----------------------------------------------------------------------------
(* Properties *)

TypeOK ==
    /\ isOpen \in BOOLEAN /\ closing \in BOOLEAN
    /\ phase \in {"idle", "writing", "written", "removing", "removed"}
    /\ file.kind \in {"none", "torn", "whole"} /\ tmp \in {"none", "torn", "whole"}
    /\ \A p \in DOMAIN dict.nodes :
          LET n == dict.nodes[p]
          IN  /\ Len(n.cp) > 0
              /\ n.par \in 0 .. Len(dict.nodes) /\ n.kids \in 0 .. Len(dict.arrays)
              /\ n.term <=> n.id \in 0 .. Len(dict.table) - 1
    /\ updates \in 0 .. MaxUpdates

(* The trie, its parent links, the table of terminal ids and the iteration *)
(* tell of the same words: a word that is found has an id whose node reads *)
(* back, towards the root, as that word; every id in the table is that of  *)
(* the word it reads back as; the iteration meets each word once.          *)
IteratedOnce(words) == Len(words) = Cardinality(view.known) /\ Range(words) = view.known
WordsAgree ==
    LET t == dict
        live == {id \in 0 .. Len(t.table) - 1 : t.table[id + 1] # 0}
    IN  /\ \A w \in view.known : CodePoints(t, WordId(t, w)) = w
        /\ \A id \in live : WordId(t, CodePoints(t, id)) = id
        /\ IteratedOnce(AllWords(t))

(* What the iteration over the language model lists is what a lookup under *)
(* the same context returns, and no lookup finds a valid entry besides.    *)
LookupsAgree ==
    LET ids == 0 .. Len(dict.table) - 1
        listed == AllEntries(dict.lm, RootMap, <<>>)
        Found(path) == LET v == Probability(dict.lm, path) IN v # None /\ IsValid(v)
    IN  /\ \A x \in listed : Probability(dict.lm, x[1]) = x[2]
        /\ \A path \in UNION {[1 .. n -> ids] : n \in 1 .. 2} :
               Found(path) => \E x \in listed : x[1] = path

(* The tables of the trie map share no entry, neither with each other nor  *)
(* with the free tables that will be handed out again.                     *)
TablesSound == TablesDisjoint(dict.lm)

(* All that is kept twice agrees: the trie with the id table, the listing  *)
(* with the lookups, the tables with the memory they are made of.          *)
ReadsAgree == TypeOK /\ WordsAgree /\ LookupsAgree /\ TablesSound

(* The dictionary implements the store of words: updates, lookups, the     *)
(* collection, and what a crash leaves of the saved version.               *)
Implements == Store!Spec
=============================================================================

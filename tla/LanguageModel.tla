---------------------------- MODULE LanguageModel ----------------------------
(***************************************************************************)
(* The probabilities of words and n-grams                                  *)
(* (v4/content/language_model_dict_content.cpp) in a trie map: level 0 is  *)
(* keyed by the id of the most recent previous word, or by the word itself *)
(* for a unigram, level 1 by the word before it, and so on; the last key   *)
(* is the word that is predicted.  Dictionaries of the keyboard keep no    *)
(* historical information, so an entry is flags and a probability.         *)
(***************************************************************************)
EXTENDS TrieMap

(* ProbabilityEntry::encode of the dummy entry: the flag "not a valid      *)
(* entry" above a byte holding the probability -1.                         *)
Placeholder == 2 * 256 + 255

IsValid(val) == (val \div 512) % 2 = 0

(* createAndGetBitmapEntryIndex: the level below a context, with invalid   *)
(* entries put in for the previous words that have none.                   *)
RECURSIVE CreateContext(_, _, _)
WithEntry(b, id, m) == IF Get(b, id, m).ok THEN b ELSE Put(b, id, Placeholder, m)
CreateBelow(t, ids) == CreateContext(t.b, ids, t.at)
CreateContext(b, ids, m) ==
    IF ids = <<>> THEN [b |-> b, at |-> m]
    ELSE CreateBelow(NextLevel(WithEntry(b, Head(ids), m), Head(ids), m), Tail(ids))

(* getBitmapEntryIndex: a word without a level below it does not end the   *)
(* loop; the next word is then looked up in the entry before the root.     *)
RECURSIVE Context(_, _, _)
ContextBelow(b, ids, r) == IF r.ok THEN Context(b, ids, r.next) ELSE None
Context(b, ids, m) == IF ids = <<>> THEN m ELSE ContextBelow(b, Tail(ids), Get(b, Head(ids), m))

(* setNgramProbabilityEntry, getNgramProbabilityEntry and                  *)
(* removeNgramProbabilityEntry; a path is a context and then the word.     *)
PutBelow(c, id, val) == Put(c.b, id, val, c.at)
SetEntry(b, path, val) == PutBelow(CreateContext(b, Front(path), RootMap), Last(path), val)

GetBelow(b, id, m) == IF m = None THEN Missing ELSE Get(b, id, m)
GetEntry(b, path) == GetBelow(b, Last(path), Context(b, Front(path), RootMap))

RemoveFrom(b, id, m) == IF m = None THEN b ELSE RemoveKey(b, id, m)
RemoveEntry(b, path) == RemoveFrom(b, Last(path), Context(b, Front(path), RootMap))

(* getWordAttributes with mustMatchAllPrevWords: the probability under     *)
(* exactly this context, else none.                                        *)
Value(r) == IF r.ok THEN r.val ELSE None
Probability(b, path) == Value(GetEntry(b, path))

(* All valid entries with their paths                                      *)
(* (exportAllNgramEntriesRelatedToWord, for every word).                   *)
RECURSIVE AllEntries(_, _, _)
AllEntries(b, m, prefix) ==
    UNION {LET path == Append(prefix, x.key)
           IN  (IF IsValid(x.val) THEN {<<path, x.val>>} ELSE {}) \union AllEntries(b, x.next, path) :
           x \in Range(Entries(b, m))}

(* updateAllProbabilityEntriesForGCInner: an n-gram entry whose last word  *)
(* has no unigram entry is removed with what is below it.                  *)
RECURSIVE PruneForGC(_, _, _)
PruneForGC(b, m, depth) ==
    LET Visit(c, x) ==
            IF depth > 0 /\ IsValid(x.val) /\ ~ Get(c, x.key, RootMap).ok
            THEN RemoveKey(c, x.key, m)
            ELSE PruneForGC(c, x.next, depth + 1)
    IN  FoldLeft(Visit, b, Entries(b, m))

(* runGCInner: the entries of the old map under the new ids of their       *)
(* words; those of words that have none are dropped.                       *)
RECURSIVE CopyForGC(_, _, _, _, _)
CopyBelow(old, oldMap, newId, below) == CopyForGC(old, oldMap, newId, below.b, below.at)
CopyEntry(old, x, newId, b, id, m) ==
    IF x.next = None THEN b ELSE CopyBelow(old, x.next, newId, NextLevel(b, id, m))
CopyForGC(old, oldMap, newId, b, m) ==
    LET Visit(c, x) ==
            IF x.key \notin DOMAIN newId THEN c
            ELSE CopyEntry(old, x, newId, Put(c, newId[x.key], x.val, m), newId[x.key], m)
    IN  FoldLeft(Visit, b, Entries(old, oldMap))
=============================================================================

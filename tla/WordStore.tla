------------------------------ MODULE WordStore ------------------------------
(***************************************************************************)
(* What a dictionary that learns promises: entries for paths of words (a   *)
(* word, or previous words from the most recent one and then the word), a  *)
(* set of words it knows, and a saved version that is replaced as a whole. *)
(***************************************************************************)
EXTENDS SequencesExt

CONSTANTS Words,      \* the words that may be added
          Grams,      \* the n-grams: previous words, then the word
          Values,     \* probabilities
          Earlier     \* versions that may be there at first

VARIABLES entries,    \* set of <<path, value>>
          known,      \* the words that can be looked up
          isOpen,
          saved,      \* the saved version, NoVersion, or TornVersion
          pending     \* the version being saved, or NoVersion

vars == <<entries, known, isOpen, saved, pending>>

NoVersion == [entries |-> {}, known |-> {}, whole |-> "none"]
TornVersion == [NoVersion EXCEPT !.whole = "torn"]
Version(e, k) == [entries |-> e, known |-> k, whole |-> "whole"]

Init == /\ entries = {} /\ known = {}
        /\ ~ isOpen
        /\ saved \in {NoVersion} \union Earlier /\ pending = NoVersion

Idle == pending = NoVersion

Set(path, val) == {x \in entries : x[1] # path} \union {<<path, val>>}
Below(path) == {x \in entries : IsPrefix(path, x[1])}

(* Adding a word may bring back one word that was removed. *)
Add(word, val) ==
    /\ isOpen /\ Idle
    /\ entries' = Set(<<word>>, val)
    /\ \E back \in {{}} \union {{w} : w \in Words} : known' = known \union {word} \union back
    /\ UNCHANGED <<isOpen, saved, pending>>

(* A removed word takes along everything that was learned to follow it. *)
Forget(word) ==
    /\ isOpen /\ Idle /\ word \in known
    /\ entries' = entries \ Below(<<word>>)
    /\ known' = known \ {word}
    /\ UNCHANGED <<isOpen, saved, pending>>

AddGram(gram, val) ==
    /\ isOpen /\ Idle /\ \A i \in DOMAIN gram : gram[i] \in known
    /\ entries' = Set(gram, val)
    /\ UNCHANGED <<known, isOpen, saved, pending>>

RemoveGram(gram) ==
    /\ isOpen /\ Idle /\ \A i \in DOMAIN gram : gram[i] \in known
    /\ entries' = entries \ Below(gram)
    /\ UNCHANGED <<known, isOpen, saved, pending>>

(* What a collection keeps: the words with an entry, and the paths made of *)
(* such words.                                                             *)
Collected ==
    LET words == {w \in known : \E x \in entries : x[1] = <<w>>}
    IN  Version({x \in entries : \A i \in DOMAIN x[1] : x[1][i] \in words}, words)

BeginSave ==
    /\ Idle
    /\ \/ /\ isOpen
          /\ pending' \in {Version(entries, known), Collected}
       \/ /\ ~ isOpen /\ saved = NoVersion
          /\ pending' = Version({}, {})
    /\ UNCHANGED <<entries, known, isOpen, saved>>

(* The old version goes before the new one is in its place. *)
LoseOld ==
    /\ ~ Idle
    /\ \/ saved' = TornVersion /\ saved.whole = "whole"
       \/ saved' = NoVersion
    /\ UNCHANGED <<entries, known, isOpen, pending>>

Closed == isOpen' = FALSE /\ entries' = {} /\ known' = {}

(* The save before closing closes with it. *)
Commit ==
    /\ ~ Idle /\ saved = NoVersion
    /\ saved' = pending
    /\ pending' = NoVersion
    /\ Closed \/ UNCHANGED <<entries, known, isOpen>>

GiveUp ==
    /\ ~ Idle
    /\ pending' = NoVersion
    /\ Closed \/ UNCHANGED <<entries, known, isOpen>>
    /\ UNCHANGED saved

Close ==
    /\ Closed
    /\ pending' = NoVersion
    /\ UNCHANGED saved

Open ==
    /\ ~ isOpen /\ Idle /\ saved.whole = "whole"
    /\ entries' = saved.entries /\ known' = saved.known
    /\ isOpen' = TRUE
    /\ UNCHANGED <<saved, pending>>

Next ==
    \/ \E w \in Words, v \in Values : Add(w, v)
    \/ \E w \in Words : Forget(w)
    \/ \E g \in Grams : RemoveGram(g)
    \/ \E g \in Grams, v \in Values : AddGram(g, v)
    \/ BeginSave \/ LoseOld \/ Commit \/ GiveUp \/ Close \/ Open

Spec == Init /\ [][Next]_vars
=============================================================================

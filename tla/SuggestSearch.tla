--------------------------- MODULE SuggestSearch ---------------------------
(***************************************************************************)
(* The search for suggestions (suggest.cpp) and the long-lived session it  *)
(* works in (DicTraverseSession with its DicNodesCache), as the keyboard   *)
(* uses them: every query passes the whole word being composed and the     *)
(* words before it.  A query that begins with the touches of the one       *)
(* before is answered from the nodes that one left in the session, the     *)
(* others from the root.  The search is a beam: queues of bounded size     *)
(* hold the nodes of one level, and the words found.                       *)
(*                                                                         *)
(* The queries come one at a time, in any order the typist and the         *)
(* debouncing of the keyboard make (a query reads the word as it is when   *)
(* it runs, so that any of Inputs may follow any other).                   *)
(***************************************************************************)
EXTENDS DicNodes

CONSTANTS Files,          \* the dictionary files, by name
          Inputs,         \* for each, words that may be composed for a query
          Contexts,       \* and the words before them
          NextActiveSize, \* MAX_CACHE_DIC_NODE_SIZE_FOR_LOW_PROBABILITY_LOCALE
          SinglePointSize,\* MAX_CACHE_DIC_NODE_SIZE_FOR_SINGLE_POINT
          MaxResults,     \* MAX_RESULTS
          CacheBackLength,        \* CACHE_BACK_LENGTH
          MinContinuousInputSize  \* MIN_CONTINUOUS_SUGGESTION_INPUT_SIZE
ASSUME SizeAssumption ==
    {NextActiveSize, SinglePointSize, MaxResults, CacheBackLength,
     MinContinuousInputSize} \subseteq Nat \ {0}

VARIABLES
    dict,        \* the dictionary in use
    phase,       \* "idle", or "searching" while getSuggestions runs
    typed,       \* the word it is asked for
    previous,    \* the word before it
    sampled,     \* mSampledInputXs and Ys: the touches of the latest query
    mInputIndex,
    mLastCachedInputIndex,
    active,      \* mActiveDicNodes
    activeSize,  \* the size of mNextActiveDicNodes
    cached,      \* mCachedDicNodesForContinuousSuggestion
    terminals,   \* mTerminalDicNodes
    results,     \* what the keyboard is given
    seed         \* whose nodes the search started from: the query that left
                 \* them in the cache (history: no code reads it), or None
vars == <<dict, phase, typed, previous, sampled, mInputIndex, mLastCachedInputIndex,
          active, activeSize, cached, terminals, results, seed>>

\* Files of other formats are not opened.
Readable == {f \in DOMAIN Files : UnderstoodVersion(Files[f])}
Opened == Tabled([f \in Readable |-> OpenFile(Files[f])])
Lexicons == Tabled([f \in Readable |-> LexiconOf(Opened[f], Contexts[f])])
Lexicon == Lexicons[dict]

None == [typed |-> <<>>, previous |-> <<>>, same |-> TRUE]
q == ProximityState(typed, sampled)
size == Len(typed)

Init ==
    /\ dict \in Readable
    /\ phase = "idle"
    /\ typed = <<>> /\ previous = <<>> /\ sampled = <<>>
    /\ mInputIndex = 0 /\ mLastCachedInputIndex = 0
    /\ active = {} /\ activeSize = NextActiveSize
    /\ cached = {} /\ terminals = {} /\ results = {}
    /\ seed = None

\* The nodes a search started from are those of a beginning of its own word,
\* after its own previous word.  A query for other letters on the same keys,
\* or after another word, may be continued as well.
SameQuery ==
    \/ seed = None
    \/ /\ seed.same
       /\ seed.previous = previous
       /\ \A i \in DOMAIN seed.typed : typed[i] = seed.typed[i]

-----------------------------------------------------------------------------
(* The beginning of a query.                                               *)

\* checkAndReturnIsContinuousSuggestionPossible: the touches of the latest
\* query are the first ones of this query.
BeginsWithSampled(input) ==
    /\ Len(input) >= Len(sampled)
    /\ \A i \in DOMAIN sampled : input[i].at = sampled[i]

\* Mutant: the search goes on but its index starts over.
RestartsIndex ==
    /\ active' = cached /\ cached' = {}
    /\ mInputIndex' = 0
    /\ UNCHANGED <<mLastCachedInputIndex, activeSize>>
continueSearch ==
    /\ active' = cached /\ cached' = {}
    /\ mInputIndex' = mLastCachedInputIndex
    /\ UNCHANGED <<mLastCachedInputIndex, activeSize>>

reset(input, context) ==
    /\ active' = {Root(context)} /\ cached' = {}
    /\ mInputIndex' = 0 /\ mLastCachedInputIndex' = 0
    /\ activeSize' = IF Len(input) <= 1 THEN SinglePointSize ELSE NextActiveSize

getSuggestions ==
    /\ phase = "idle"
    /\ \E input \in Inputs[dict], context \in Contexts[dict] :
          /\ phase' = "searching"
          /\ typed' = input /\ previous' = context
          /\ sampled' = [i \in DOMAIN input |-> SampledAt(input, i)]
          /\ LET continues == /\ Len(input) > MinContinuousInputSize
                              /\ cached # {}
                              /\ BeginsWithSampled(input)
             IN  \/ continues /\ continueSearch
                    /\ seed' = [typed |-> typed, previous |-> previous,
                                same |-> SameQuery]
                 \/ ~continues /\ reset(input, context)
                    /\ seed' = None
    /\ results' = {}
    /\ UNCHANGED <<dict, terminals>>

-----------------------------------------------------------------------------
(* One pass of the search: every active node goes on to the next level.    *)

\* isCacheBorderForTyping.
IsCacheBorder(length, index, lastCached) ==
    /\ length - CacheBackLength = index
    /\ index # lastCached

\* The nodes are taken worst first; at the first whose word is too long the
\* pass ends, and the better ones are not looked at.
Taken(nodes) ==
    {n \in nodes : \A m \in nodes : IsTooLong(m) => Better(m, n)}

Found(nodes, query, index) ==
    UNION {Continuations(n, query, Lexicon, index) : n \in nodes}

\* advanceInputIndex.
Advanced(index, length) == IF index < length THEN index + 1 ELSE index

NextActive(nodes, found, query, index, limit) ==
    KeepBest({n \in found : HasChildren(n, Lexicon)}
             \cup {n \in nodes : StaysForLookAhead(n, query, index)}, limit)

expandCurrentDicNodes ==
    /\ phase = "searching" /\ active # {}
    /\ \E query \in {q}, nodes \in {Taken(active)},
          border \in {IsCacheBorder(size, mInputIndex, mLastCachedInputIndex)} :
       \E found \in {Found(nodes, query, mInputIndex)} :
           /\ cached' = IF border THEN cached \cup nodes ELSE cached
           /\ mLastCachedInputIndex' =
                 IF border THEN mInputIndex ELSE mLastCachedInputIndex
           /\ terminals' =
                 KeepBest(terminals \cup Terminals(found, query, Lexicon),
                          MaxResults)
           /\ active' = NextActive(nodes, found, query, mInputIndex, activeSize)
    /\ mInputIndex' = Advanced(mInputIndex, size)
    /\ UNCHANGED <<dict, phase, typed, previous, sampled, activeSize, results,
                   seed>>

outputSuggestions ==
    /\ phase = "searching" /\ active = {}
    /\ phase' = "idle"
    /\ results' = Suggestions(terminals, size, Lexicon)
    /\ terminals' = {}
    /\ UNCHANGED <<dict, typed, previous, sampled, mInputIndex,
                   mLastCachedInputIndex, active, activeSize, cached, seed>>

\* Nothing is being composed: the words that follow the previous one.  The
\* session's nodes and touches are left as they are.
getPredictions ==
    /\ phase = "idle"
    /\ \E context \in Contexts[dict] :
          LET entries == {[word |-> p.word, score |-> p.score, exact |-> FALSE] :
                             p \in {r \in Lexicon.next[context] : r.word # <<>>}}
          IN  \E best \in SUBSET entries :
                 /\ Cardinality(best) = Min({Cardinality(entries), MaxResults})
                 /\ \A r \in best, o \in entries \ best :
                       \/ r.score > o.score
                       \/ r.score = o.score /\ Len(r.word) <= Len(o.word)
                 /\ results' = best
    /\ UNCHANGED <<dict, phase, typed, previous, sampled, mInputIndex,
                   mLastCachedInputIndex, active, activeSize, cached,
                   terminals, seed>>

Next ==
    \/ getSuggestions
    \/ expandCurrentDicNodes
    \/ outputSuggestions
    \/ getPredictions

\* A query that was begun is worked on until it is answered.
Fairness == WF_vars(expandCurrentDicNodes) /\ WF_vars(outputSuggestions)

Spec == Init /\ [][Next]_vars /\ Fairness

-----------------------------------------------------------------------------
(* Properties.                                                             *)

TypeOK ==
    /\ dict \in Readable
    /\ phase \in {"idle", "searching"}
    /\ mInputIndex \in 0 .. size /\ mLastCachedInputIndex \in 0 .. size
    /\ Cardinality(active) <= activeSize
    /\ Cardinality(terminals) <= MaxResults
    /\ Cardinality(results) <= MaxResults
    /\ \A n \in active \cup cached \cup terminals :
          n.word \in DOMAIN Lexicon.children /\ n.dist >= 0 /\ n.idx >= 0

\* Every word of the dictionary in use has a position that leads to its
\* letters, and its letters lead to its position, wherever the file has put
\* its node and however many bytes its distances take: a suggestion carries
\* the one, what is typed the other, and no code compares them.
PositionsReadBack == Tabled([f \in Readable |-> ReadsBack(Opened[f])])
WordsReadBack == PositionsReadBack[dict]

\* What was typed is the word, but for its case and its accents.
SpeltAs(word) ==
    /\ Len(word) = size
    /\ \A i \in DOMAIN word :
          Lower(typed[i].c) \in {Lower(word[i]), BaseLower(word[i])}

\* A word of the dictionary that was typed in full, with or without its
\* accents and in whatever case, is among the suggestions: the queues, which
\* keep only the best nodes of a level, never lose it, whether the search
\* begins at the root or goes on from the nodes of an earlier query.
FindsTyped ==
    [][outputSuggestions =>
         \A w \in DOMAIN Lexicon.prob \ Lexicon.hidden :
             SpeltAs(w) => \E r \in results' : r.word = w]_vars

\* The words which a search from the root finds from one of its levels on.
RECURSIVE FoundFrom(_, _, _, _)
FoundOn(taken, found, query, index, first) ==
    (IF index >= first THEN Terminals(found, query, Lexicon) ELSE {})
    \cup FoundFrom(NextActive(taken, found, query, index, NextActiveSize),
                   query, Advanced(index, size), first)
FoundAfter(taken, query, index, first) ==
    FoundOn(taken, Found(taken, query, index), query, index, first)
FoundFrom(nodes, query, index, first) ==
    IF nodes = {} THEN {} ELSE FoundAfter(Taken(nodes), query, index, first)

\* A search that goes on from the nodes of an earlier query for a beginning
\* of the same word finds what a search from the root would have found past
\* the level at which those nodes were kept: going on costs no word and no
\* accuracy but the words found before that level.
ContinuesLikeFresh ==
    phase = "searching" /\ active = {} /\ seed # None /\ SameQuery =>
        terminals = KeepBest(FoundFrom({Root(previous)}, q, 0,
                                       Len(seed.typed) - CacheBackLength),
                             MaxResults)

\* Whatever the order of queries, the search keeps to its limits and loses nothing
\* by going on.
SearchSound == TypeOK /\ ContinuesLikeFresh

\* Every query is answered: no kind of correction keeps a node in the search
\* for ever without consuming touches.
SearchEnds == phase = "searching" ~> phase = "idle"

\* A query is answered, and with the word that was typed if it is one.
QueriesAnswered == FindsTyped /\ SearchEnds
=============================================================================

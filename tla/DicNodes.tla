------------------------------ MODULE DicNodes ------------------------------
(***************************************************************************)
(* What the native suggestion engine (jni/src/suggest) does to one node of *)
(* its search.  A node (dic_node.h) stands for a prefix of dictionary      *)
(* words, the number of typed letters it has consumed, the distance it has *)
(* collected and the kinds of errors it assumes of the typist.  The        *)
(* traversal (typing_traversal.h) says which corrections a node may take,  *)
(* the weighting (typing_weighting.h) what they cost, in hundred           *)
(* thousandths; the scoring (typing_scoring.h) turns a distance into the   *)
(* score the keyboard sorts by, in ten thousandths.                        *)
(*                                                                         *)
(* Characters are their code points.  A lexicon is what a dictionary holds *)
(* (LexiconOf): "prob" gives each word its probability after each previous *)
(* word, "children" gives each prefix those of one letter more, "hidden"   *)
(* has the words it must not show.  A typed letter is a record: its code   *)
(* point "c", and the key "at" which it was touched (NoTouch when the word *)
(* was taken back from the text).  The keyboard is a row of keys: Key      *)
(* gives the place of a lower-case letter's key.                           *)
(*                                                                         *)
(* Out of scope, as nothing the keyboard asks reaches it: gestures, the    *)
(* German digraphs, words joined without a space (the options it passes    *)
(* are all zero, so weightForLocale is 0).                                 *)
(***************************************************************************)
EXTENDS Ver2Dictionary

CONSTANTS Key,      \* the key of each lower-case letter that has one
          English   \* whether the keyboard's locale is English
ASSUME KeyAssumption == Key \in [DOMAIN Key -> Nat \ {0}] /\ English \in BOOLEAN

NoTouch == 0
SingleQuote == 39
HyphenMinus == 45
MayBeOmitted(c) == c \in {SingleQuote, HyphenMinus}

-----------------------------------------------------------------------------
(* The touches of a query (proximity_info_state.h): the typed letters and  *)
(* the letters near each touch.                                            *)

KeyOf(c) == IF Lower(c) \in DOMAIN Key THEN Key[Lower(c)] ELSE NoTouch

\* The letters whose keys are nearer to the touch than a key's width.
NearLetters(t) ==
    IF t.at = NoTouch THEN {}
    ELSE {d \in DOMAIN Key : Key[d] - t.at \in -1 .. 1} \ {t.c}

Vowels == {97, 101, 105, 111, 117}
AdditionalLetters(t) ==
    IF English /\ t.at # NoTouch /\ t.c \in Vowels
    THEN (Vowels \ {t.c}) \ NearLetters(t) ELSE {}

\* Where the i-th touch of a typed word is taken to be: a letter without a
\* place, and every letter of a word that begins with one, is put in the
\* middle of its key.
SampledAt(typed, i) ==
    IF typed[1].at = NoTouch \/ typed[i].at = NoTouch THEN KeyOf(typed[i].c)
    ELSE typed[i].at

\* A letter, in lower case, without its accent, and both.
Forms(c) == [self |-> c, lower |-> Lower(c), base |-> Base(c),
             both |-> BaseLower(c)]

ProximityState(typed, sampled) ==
    [size |-> Len(typed),
     c    |-> [i \in DOMAIN typed |-> typed[i].c],
     forms |-> [i \in DOMAIN typed |-> Forms(typed[i].c)],
     at   |-> sampled,
     near |-> [i \in DOMAIN typed |-> NearLetters(typed[i])],
     more |-> [i \in DOMAIN typed |-> AdditionalLetters(typed[i])]]

\* getProximityType: how the letter c of a word relates to touch i (from 0).
TypeOfForms(first, letter, near, more) ==
    CASE first.self \in {letter.both, letter.self} -> "match"
      [] first.both = letter.both -> "proximity"
      [] {letter.both, letter.self} \cap near # {} -> "proximity"
      [] {letter.both, letter.self} \cap more # {} -> "additional"
      [] OTHER -> "substitution"
ProximityType(q, i, c) ==
    TypeOfForms(q.forms[i + 1], Forms(c), q.near[i + 1], q.more[i + 1])

Touched(q, i, c) == ProximityType(q, i, c) # "substitution"

\* existsAdjacentProximityChars: touch i may be a slip of a neighbour's.
AdjacentTouch(q, i) ==
    \E j \in {i - 1, i + 1} :
        /\ j \in 0 .. q.size - 1
        /\ q.c[i + 1] \in {q.c[j + 1]} \cup q.near[j + 1] \cup q.more[j + 1]

\* Squared distances, in ten thousandths of a key's squared width.  A touch
\* is in the middle of a key: of the right one, or at least a key away.
OneKey == 10000
NoKeyLength == 1000 * OneKey
PointToKeyLength(q, i, c) ==
    CASE Lower(c) \in DOMAIN Key ->
             IF q.at[i + 1] = Key[Lower(c)] THEN 0 ELSE OneKey
      [] MayBeOmitted(c) -> 0
      [] OTHER -> NoKeyLength

\* getSweetSpotFactor, for the lengths that occur.
SweetSpot(x) == IF x < OneKey THEN (24 * x) \div 25 ELSE 12000

LengthCost(x) == ((x \div 100) * 15240) \div 100

-----------------------------------------------------------------------------
(* Nodes.  "route" is the list of corrections that led to a node: it tells *)
(* apart the nodes which the engine keeps at different addresses.          *)

Root(previous) ==
    [word |-> <<>>, idx |-> 0, dist |-> 0, lang |-> 0, edits |-> 0,
     prox |-> 0, completed |-> 0, errors |-> {}, previous |-> previous,
     route |-> <<>>]

Depth(n) == Len(n.word)
Letter(n) == n.word[Depth(n)]
Compound(n) == n.dist + n.lang

IsTooLong(n) == Depth(n) > MaxWordLength - 3
IsCompletion(n, size) == n.idx >= size
CanLookAhead(n, size) == n.idx < size - 1
IsWord(n, lexicon) == n.word \in DOMAIN lexicon.prob
HasChildren(n, lexicon) == lexicon.children[n.word] # {}

Children(n, lexicon) ==
    IF IsTooLong(n) THEN {}
    ELSE {[n EXCEPT !.word = s] : s \in lexicon.children[n.word]}

\* The engine never takes a word as all guesses.
HasTouchedLetters(n) == n.edits + n.completed < Depth(n)

ExactErrors == {"wrong case", "missing accent"}
IsExact(n) == n.errors \subseteq ExactErrors
IsPerfect(n) == n.errors = {}

\* compare: an exact match first, then the nearer, then the shorter word,
\* then the smaller code points.
Better(m, n) ==
    LET differ == {i \in 1 .. Depth(n) : m.word[i] # n.word[i]} IN
    CASE IsExact(m) # IsExact(n) -> IsExact(m)
      [] Compound(m) # Compound(n) -> Compound(m) < Compound(n)
      [] Depth(m) # Depth(n) -> Depth(m) < Depth(n)
      [] differ # {} -> m.word[Min(differ)] < n.word[Min(differ)]
      [] OTHER -> /\ m # n
                  /\ \/ Len(m.route) < Len(n.route)
                     \/ /\ Len(m.route) = Len(n.route)
                        /\ \E i \in DOMAIN m.route :
                              /\ m.route[i] < n.route[i]
                              /\ \A j \in 1 .. i - 1 : m.route[j] = n.route[j]

\* Mutant: an exact match has no precedence in the queues.
KeepNearest(nodes, size) ==
    IF Cardinality(nodes) <= size THEN nodes
    ELSE {n \in nodes :
             Cardinality({m \in nodes :
                             \/ Compound(m) < Compound(n)
                             \/ /\ Compound(m) = Compound(n)
                                /\ Better(m, n)}) < size}
\* A priority queue of the given size keeps the best of what is pushed.
KeepBest(nodes, size) ==
    IF Cardinality(nodes) <= size THEN nodes
    ELSE {n \in nodes : Cardinality({m \in nodes : Better(m, n)}) < size}
-----------------------------------------------------------------------------
(* Costs (typing_weighting.h) and kinds of errors (typing_weighting.cpp).  *)

Codes == [omission |-> 1, additional |-> 2, substitution |-> 3, match |-> 4,
          completion |-> 5, terminalInsertion |-> 6, insertion |-> 7,
          transposition |-> 8]

AddCost(n, kind, cost, errors, forward) ==
    [n EXCEPT !.dist = @ + cost,
              !.errors = @ \cup errors,
              !.edits = @ + (IF "edit" \in errors THEN 1 ELSE 0),
              !.prox = @ + (IF "proximity" \in errors THEN 1 ELSE 0),
              !.completed = @ + (IF "completion" \in errors THEN 1 ELSE 0),
              !.idx = @ + forward,
              !.route = Append(@, Codes[kind])]

\* A letter matched with a touch of another key.
MatchedCostOf(n, q, both) ==
    LengthCost(SweetSpot(PointToKeyLength(q, n.idx, both)))
    + (IF q.forms[n.idx + 1].both = both THEN 0
       ELSE (IF n.idx = 0 THEN 7200 ELSE 6940)
            + (IF n.prox = 0 THEN 7788 ELSE 0))
MatchedCost(n, q) == MatchedCostOf(n, q, BaseLower(Letter(n)))

WrongAccent(typed) ==
    IF typed.lower \in DOMAIN Key THEN "wrong accent"
    ELSE "missing explicit accent"
ErrorsOfForms(typed, letter) ==
    CASE typed.both # letter.both -> {"proximity"}
      [] typed.self = letter.self -> {}
      [] typed.self # letter.self /\ typed.lower = letter.lower -> {"wrong case"}
      [] typed.lower # letter.lower /\ typed.self = letter.base ->
             {"missing accent"}
      [] typed.base = letter.base /\ typed.self # letter.base ->
             {WrongAccent(typed)}
      [] typed.base # letter.base /\ typed.lower = letter.both ->
             {"missing accent", "wrong case"}
      [] OTHER -> {WrongAccent(typed), "wrong case"}
MatchErrors(n, q) == ErrorsOfForms(q.forms[n.idx + 1], Forms(Letter(n)))

Match(n, q) ==
    IF IsCompletion(n, q.size)
    THEN AddCost(n, "completion", IF n.idx = q.size THEN 48360 ELSE 624,
                 {"completion"}, 1)
    ELSE AddCost(n, "match", MatchedCost(n, q), MatchErrors(n, q), 1)

Additional(n, q) ==
    AddCost(n, "additional", 37972 + MatchedCost(n, q), {"proximity"}, 1)

Substitution(n, q) ==
    AddCost(n, "substitution", 38060 + MatchedCost(n, q),
            {"edit", "proximity"}, 1)

\* The letter of "omitted" was not typed; n is its child.
Omission(n, omitted) ==
    LET c == Letter(omitted)
        cost == CASE c = SingleQuote -> 0
                  [] c = HyphenMinus -> 10000
                  [] ~MayBeOmitted(c) /\ Depth(n) = 2 -> 52560
                  [] ~MayBeOmitted(c) /\ Depth(n) # 2 ->
                         IF Letter(n) = c THEN 34500 ELSE 46700
    IN  AddCost(n, "omission", cost,
                {IF MayBeOmitted(c) THEN "intentional omission" ELSE "edit"}, 0)

\* The touch at n's index is superfluous and the next one is n's letter.
Insertion(n, q) ==
    AddCost(n, "insertion",
            (IF Depth(n) = 1 THEN 63900 ELSE 0)
            + (CASE q.c[n.idx + 1] = Letter(n) -> 55080
                 [] q.c[n.idx + 1] # Letter(n) /\ AdjacentTouch(q, n.idx) -> 67400
                 [] OTHER -> 72480)
            + LengthCost(PointToKeyLength(q, n.idx + 1, BaseLower(Letter(n)))),
            {"edit"}, 2)

\* n's letter was touched before the letter of its parent.
Transposition(n, parent, q) ==
    AddCost(n, "transposition",
            56080
            + LengthCost(PointToKeyLength(q, n.idx + 1, BaseLower(Letter(parent)))
                         + PointToKeyLength(q, n.idx, BaseLower(Letter(n)))),
            {"edit"}, 2)

-----------------------------------------------------------------------------
(* Which corrections a node takes (suggest.cpp, typing_traversal.h).  Each *)
(* operator gives the nodes that go on from it.                            *)

AllowsErrorCorrections(n) == n.dist < 9500 * (n.idx + 1)

OmitsLetter(n, child, q) ==
    /\ AllowsErrorCorrections(n) \/ MayBeOmitted(Letter(child))
    /\ ~IsCompletion(n, q.size)
    /\ \/ n.word # <<>> /\ MayBeOmitted(Letter(n))
       \/ BaseLower(Letter(child)) # q.forms[n.idx + 1].both

AsOmission(child, q, lexicon) ==
    {Match(Omission(g, child), q) :
        g \in {h \in Children(child, lexicon) : Touched(q, child.idx, Letter(h))}}

AsTouched(n, child, q, type) ==
    CASE type \in {"match", "proximity"} -> {Match(child, q)}
      [] type \notin {"match", "proximity"} /\ ~AllowsErrorCorrections(n) -> {}
      [] type = "additional" /\ AllowsErrorCorrections(n) ->
             {Additional(child, q)}
      [] type = "substitution" /\ AllowsErrorCorrections(n) ->
             {Substitution(child, q)}
AsTyped(n, child, q) ==
    AsTouched(n, child, q, IF IsCompletion(n, q.size) THEN "match"
                           ELSE ProximityType(q, n.idx, Letter(child)))

AsInsertion(n, q, lexicon) ==
    {Insertion(c, q) :
        c \in {d \in Children(n, lexicon) : Letter(d) = q.c[n.idx + 2]}}

AsTransposition(n, q, lexicon) ==
    UNION {{Transposition(g, c, q) :
               g \in {h \in Children(c, lexicon) : Touched(q, n.idx, Letter(h))}} :
              c \in {d \in Children(n, lexicon) :
                        Touched(q, n.idx + 1, Letter(d))}}

\* What one node becomes at a level of the search: its continuations, and
\* itself once more when a later touch may explain its letter.
IsLookAhead(n, q, level) == CanLookAhead(n, q.size) /\ n.idx = level - 1

Continuations(n, q, lexicon, level) ==
    IF IsLookAhead(n, q, level)
    THEN AsTransposition(n, q, lexicon) \cup AsInsertion(n, q, lexicon)
    ELSE UNION {AsTyped(n, c, q)
                \cup (IF OmitsLetter(n, c, q) THEN AsOmission(c, q, lexicon)
                      ELSE {}) : c \in Children(n, lexicon)}

StaysForLookAhead(n, q, level) ==
    /\ ~IsLookAhead(n, q, level)
    /\ AllowsErrorCorrections(n)
    /\ CanLookAhead(n, q.size)

-----------------------------------------------------------------------------
(* Words.                                                                  *)

Improbability(n, lexicon) ==
    (112140 * (255 - lexicon.prob[n.word][n.previous])) \div 255

\* processTerminalDicNode: the word as a suggestion; letters typed after it
\* count as superfluous.
TerminalOf(n, q, lexicon) ==
    LET rest == IF n.idx < q.size
                THEN AddCost(n, "terminalInsertion", 81280 * (q.size - n.idx),
                             {"edit"}, 1)
                ELSE n
    IN  [rest EXCEPT !.dist = @ + (IF rest.prox > 0 THEN 6830 ELSE 0)
                                + (IF rest.edits > 0 THEN 3620 ELSE 0),
                     !.lang = @ + Improbability(n, lexicon)]

Terminals(nodes, q, lexicon) ==
    {TerminalOf(n, q, lexicon) :
        n \in {m \in nodes : IsWord(m, lexicon) /\ HasTouchedLetters(m)}}

\* calculateFinalScore.
Score(n, size, lexicon) ==
    LET spread == 112140 + 10000 * size
        certain == lexicon.prob[n.word][n.previous] = 0
        plain == 10000 - (Compound(n) * 100) \div (spread \div 100)
    IN  CASE certain /\ IsPerfect(n) -> plain + 11000
          [] ~certain /\ IsExact(n) ->
                 plain + 11000
                 - (IF "wrong case" \in n.errors THEN 100 ELSE 0)
                 - (IF "missing accent" \in n.errors THEN 200 ELSE 0)
          [] OTHER -> plain

\* outputSuggestionsOfDicNode for each word found.
Suggestions(terminals, size, lexicon) ==
    {[word |-> n.word, score |-> Score(n, size, lexicon), exact |-> IsExact(n)] :
        n \in {m \in terminals : m.word \notin lexicon.hidden}}
=============================================================================

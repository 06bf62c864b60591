-------------------------- MODULE Ver2Dictionary --------------------------
(***************************************************************************)
(* The dictionary file the keyboard comes with (format 202), as            *)
(* PatriciaTriePolicy reads it: a header of attributes, then a trie whose  *)
(* nodes lie in arrays of siblings.  A node holds one letter or several,   *)
(* the probability of the word that ends at it, the distance to the array  *)
(* of its children, and lists of shortcuts and of bigrams.  A word's id is *)
(* the position of its last node; nothing in the file leads back from a    *)
(* node to the first letters of its word, which are found by a search from *)
(* the root for the arrays that could hold the position.                   *)
(*                                                                         *)
(* A file is a sequence of bytes; a dictionary "d" is an opened file: its  *)
(* bytes after the header, counted from 0, and the letters that one byte   *)
(* stands for when the header says so.                                     *)
(***************************************************************************)
EXTENDS Characters, Sequences, SequencesExt, FiniteSets, FiniteSetsExt, TLC

CONSTANT MaxWordLength    \* MAX_WORD_LENGTH
ASSUME WordAssumption == MaxWordLength \in Nat /\ MaxWordLength > 3

NotADictPos == -1
NotACodePoint == -1
NotAProbability == -1
BeginningOfSentence == 1114112
Terminator == 31
OneByteLetters == 32

-----------------------------------------------------------------------------
(* Bytes, letters and strings.                                             *)

\* Big-endian numbers of "size" bytes at a position.
readUint(bytes, size, pos) ==
    FoldLeft(LAMBDA n, byte : n * 256 + byte, 0,
             SubSeq(bytes, pos + 1, pos + size))

\* A letter and the position after it.
readCodePoint(bytes, table, pos) ==
    LET first == bytes[pos + 1]
    IN  CASE first = Terminator -> [letter |-> NotACodePoint, next |-> pos + 1]
          [] first < OneByteLetters ->
                 [letter |-> readUint(bytes, 3, pos), next |-> pos + 3]
          [] OTHER ->
                 [letter |-> IF table = <<>> THEN first
                             ELSE table[first - OneByteLetters + 1],
                  next |-> pos + 1]

\* Letters up to the terminator.  One more is read, and dropped, after the
\* longest string.
RECURSIVE readString(_, _, _, _)
StringOn(letter, rest) ==
    [letters |-> <<letter>> \o rest.letters, next |-> rest.next]
StringFrom(one, bytes, table, maxLength) ==
    IF one.letter = NotACodePoint \/ maxLength = 0
    THEN [letters |-> <<>>, next |-> one.next]
    ELSE StringOn(one.letter,
                  readString(bytes, table, one.next, maxLength - 1))
readString(bytes, table, pos, maxLength) ==
    StringFrom(readCodePoint(bytes, table, pos), bytes, table, maxLength)

-----------------------------------------------------------------------------
(* The header: a magic number, the version, flags, the header's size, then *)
(* pairs of strings.                                                       *)

MagicNumber == <<155, 193, 58, 254>>
Ver202 == 202
MinimumSize == 12

UnderstoodVersion(file) ==
    /\ Len(file) >= MinimumSize
    /\ SubSeq(file, 1, 4) = MagicNumber
    /\ readUint(file, 2, 4) = Ver202

HeaderSize(file) == readUint(file, 4, 8)

RECURSIVE AttributesFrom(_, _)
AttributeAnd(file, key, value) ==
    {<<key.letters, value.letters>>} \cup AttributesFrom(file, value.next)
AttributeOf(file, key) ==
    AttributeAnd(file, key, readString(file, <<>>, key.next, 2048))
AttributesFrom(file, pos) ==
    IF pos >= HeaderSize(file) THEN {}
    ELSE AttributeOf(file, readString(file, <<>>, pos, 256))
Attributes(file) == AttributesFrom(file, MinimumSize)

\* "codePointTable"
CodePointTableKey ==
    <<99, 111, 100, 101, 80, 111, 105, 110, 116, 84, 97, 98, 108, 101>>

TableOf(attributes) ==
    IF \E a \in attributes : a[1] = CodePointTableKey
    THEN (CHOOSE a \in attributes : a[1] = CodePointTableKey)[2] ELSE <<>>
CodePointTable(file) == TableOf(Attributes(file))

\* The policy of a file; a file of another format is not opened.
OpenFile(file) ==
    [bytes |-> SubSeq(file, HeaderSize(file) + 1, Len(file)),
     table |-> CodePointTable(file)]

-----------------------------------------------------------------------------
(* The nodes of the trie.                                                  *)

HasFlag(flags, flag) == (flags \div flag) % 2 = 1
HasMultipleChars == 32
IsTerminal == 16
HasShortcutTargets == 8
HasBigrams == 4
IsNotAWord == 2

\* Two bits of the flags say how many bytes the children's distance takes.
ChildrenField(flags) == flags \div 64

getChars(d, flags, pos) ==
    IF HasFlag(flags, HasMultipleChars)
    THEN readString(d.bytes, d.table, pos, MaxWordLength)
    ELSE LET one == readCodePoint(d.bytes, d.table, pos)
         IN  [letters |-> <<one.letter>>, next |-> one.next]

getBigramAddress(d, flags, pos) ==
    LET offset == readUint(d.bytes, (flags \div 16) % 4, pos)
    IN  IF HasFlag(flags, 64) THEN pos - offset ELSE pos + offset

\* The bigrams listed from a position on, and the position after them.
RECURSIVE readBigrams(_, _)
BigramEntry(d, flags, pos) ==
    [target |-> getBigramAddress(d, flags, pos), probability |-> flags % 16]
BigramsOn(entry, rest) ==
    [entries |-> <<entry>> \o rest.entries, next |-> rest.next]
BigramsFrom(d, flags, pos, next) ==
    BigramsOn(BigramEntry(d, flags, pos),
              IF HasFlag(flags, 128) THEN readBigrams(d, next)
              ELSE [entries |-> <<>>, next |-> next])
readBigrams(d, pos) ==
    BigramsFrom(d, d.bytes[pos + 1], pos + 1,
                pos + 1 + ((d.bytes[pos + 1] \div 16) % 4))

\* A list of shortcuts begins with its own size.
skipAllShortcuts(d, pos) == pos + readUint(d.bytes, 2, pos)

\* The fields lie behind one another: flags, letters, probability, the
\* children's distance, shortcuts, bigrams.
AfterProbability(flags, chars) ==
    chars.next + IF HasFlag(flags, IsTerminal) THEN 1 ELSE 0
AfterShortcuts(d, flags, pos) ==
    IF HasFlag(flags, HasShortcutTargets) THEN skipAllShortcuts(d, pos) ELSE pos
ListedBigrams(d, flags, pos) ==
    IF HasFlag(flags, HasBigrams) THEN readBigrams(d, pos)
    ELSE [entries |-> <<>>, next |-> pos]

PtNodeWith(d, pos, flags, chars, field, bigrams) ==
    [pos |-> pos, letters |-> chars.letters,
     terminal |-> HasFlag(flags, IsTerminal),
     notAWord |-> HasFlag(flags, IsNotAWord),
     probability |-> IF HasFlag(flags, IsTerminal)
                     THEN d.bytes[chars.next + 1] ELSE NotAProbability,
     children |-> IF ChildrenField(flags) = 0 THEN NotADictPos
                  ELSE field + readUint(d.bytes, ChildrenField(flags), field),
     bigrams |-> bigrams.entries,
     sibling |-> bigrams.next]
PtNodeFrom(d, pos, flags, chars, field) ==
    PtNodeWith(d, pos, flags, chars, field,
               ListedBigrams(d, flags,
                   AfterShortcuts(d, flags, field + ChildrenField(flags))))
PtNodeOf(d, pos, flags, chars) ==
    PtNodeFrom(d, pos, flags, chars, AfterProbability(flags, chars))
readPtNodeInfo(d, pos) ==
    PtNodeOf(d, pos, d.bytes[pos + 1], getChars(d, d.bytes[pos + 1], pos + 1))

HasChildNodes(node) == node.children # NotADictPos

getPtNodeArraySize(d, pos) ==
    LET first == d.bytes[pos + 1]
    IN  IF first < 128 THEN [count |-> first, next |-> pos + 1]
        ELSE [count |-> ((first % 128) * 256) + d.bytes[pos + 2],
              next |-> pos + 2]

\* The siblings of the array at a position.
RECURSIVE PtNodesFrom(_, _, _)
PtNodesOn(d, node, count) ==
    <<node>> \o PtNodesFrom(d, node.sibling, count - 1)
PtNodesFrom(d, pos, count) ==
    IF count = 0 THEN <<>> ELSE PtNodesOn(d, readPtNodeInfo(d, pos), count)
PtNodesOf(d, size) == PtNodesFrom(d, size.next, size.count)
PtNodeArray(d, pos) == PtNodesOf(d, getPtNodeArraySize(d, pos))

IsValidPos(d, pos) == pos \in 0 .. Len(d.bytes) - 1

-----------------------------------------------------------------------------
(* From a word to its position, and back.                                  *)

\* The array in which the search for a word goes on: every letter of a node
\* must be the word's, and only the node with the right first letter counts.
RECURSIVE WordIdBelow(_, _, _)
WordIdAt(d, node, left) ==
    CASE node.letters = left ->
             IF node.terminal THEN node.pos ELSE NotADictPos
      [] IsStrictPrefix(node.letters, left) /\ HasChildNodes(node) ->
             WordIdBelow(d, node.children,
                         SubSeq(left, Len(node.letters) + 1, Len(left)))
      [] OTHER -> NotADictPos
WordIdAmong(d, fits, left) ==
    IF fits = {} THEN NotADictPos
    ELSE WordIdAt(d, CHOOSE node \in fits : TRUE, left)
WordIdBelow(d, array, left) ==
    IF ~IsValidPos(d, array) \/ left = <<>> THEN NotADictPos
    ELSE WordIdAmong(d, {node \in ToSet(PtNodeArray(d, array)) :
                            /\ Len(node.letters) <= Len(left)
                            /\ Head(node.letters) = Head(left)}, left)

getWordId(d, word, forceLowerCase) ==
    WordIdBelow(d, 0, IF forceLowerCase
                      THEN [i \in DOMAIN word |-> Lower(word[i])] ELSE word)

\* The search for the word that ends at a position.  Of the siblings whose
\* children lie before it, the last is the one to descend: this is known at
\* the first whose children lie beyond it, or at the last sibling.
Candidates(nodes, i, target) ==
    {j \in 1 .. i : /\ HasChildNodes(nodes[j])
                    /\ nodes[j].children <= target
                    /\ j < i \/ i = Len(nodes)}

\* Mutant: the last sibling is not descended.
ForgetsLastSibling(nodes, i, target) ==
    /\ HasChildNodes(nodes[i]) /\ nodes[i].children > target
    /\ Candidates(nodes, i, target) # {}
Descends(nodes, i, target) ==
    /\ \/ HasChildNodes(nodes[i]) /\ nodes[i].children > target
       \/ i = Len(nodes)
    /\ Candidates(nodes, i, target) # {}

\* When no sibling qualifies, the bytes behind them are read as an array.
RECURSIVE CodePointsBelow(_, _, _, _)
CodePointsOn(letters, rest) == IF rest = <<>> THEN <<>> ELSE letters \o rest
CodePointsUnder(d, node, depth, wordId) ==
    CodePointsOn(node.letters,
                 CodePointsBelow(d, node.children, depth - 1, wordId))
CodePointsAt(d, nodes, i, depth, wordId) ==
    IF nodes[i].pos = wordId THEN nodes[i].letters
    ELSE CodePointsUnder(d, nodes[Max(Candidates(nodes, i, wordId))],
                         depth, wordId)
Behind(d, array, nodes) ==
    IF nodes = <<>> THEN getPtNodeArraySize(d, array).next
    ELSE Last(nodes).sibling
CodePointsAmong(d, array, nodes, stops, depth, wordId) ==
    IF stops = {}
    THEN CodePointsBelow(d, Behind(d, array, nodes), depth - 1, wordId)
    ELSE CodePointsAt(d, nodes, Min(stops), depth, wordId)
CodePointsIn(d, array, nodes, depth, wordId) ==
    CodePointsAmong(d, array, nodes,
                    {i \in DOMAIN nodes : nodes[i].pos = wordId
                                          \/ Descends(nodes, i, wordId)},
                    depth, wordId)
CodePointsBelow(d, array, depth, wordId) ==
    IF depth = 0 \/ ~IsValidPos(d, array) THEN <<>>
    ELSE CodePointsIn(d, array, PtNodeArray(d, array), depth, wordId)

getCodePoints(d, wordId) == CodePointsBelow(d, 0, MaxWordLength, wordId)

-----------------------------------------------------------------------------
(* Words after words.                                                      *)

\* computeProbabilityForBigram: the probabilities above a word's own, in
\* sixteen and a half steps.  Single precision loses one where four of the
\* products are whole.
ProbabilityForBigram(unigram, bigram) ==
    unigram + ((bigram + 1) * (255 - unigram) * 2) \div 33
    - IF bigram = 10 /\ unigram \in {66, 99, 177, 216} THEN 1 ELSE 0

\* The word before, in lower case when the dictionary has it only so.
OrElse(wordId, other) == IF wordId # NotADictPos THEN wordId ELSE other
PreviousWordId(d, word) ==
    OrElse(getWordId(d, word, FALSE), getWordId(d, word, TRUE))

Bigrams(d, wordId) ==
    IF wordId = NotADictPos THEN <<>> ELSE readPtNodeInfo(d, wordId).bigrams

\* The probability of a word after another: its own when the pair is not
\* listed.
BigramProbability(unigram, pairs) ==
    IF pairs = <<>> THEN unigram
    ELSE ProbabilityForBigram(unigram, Last(pairs).probability)
ProbabilityAfter(node, listed) ==
    BigramProbability(node.probability,
                      SelectSeq(listed, LAMBDA e : e.target = node.pos))

\* What is predicted after a word: the targets of its bigrams.
Prediction(d, node, listed) ==
    [word |-> getCodePoints(d, node.pos),
     score |-> IF node.notAWord THEN node.probability
               ELSE ProbabilityAfter(node, listed)]
PredictionsOf(d, listed) ==
    {Prediction(d, readPtNodeInfo(d, e.target), listed) : e \in ToSet(listed)}

-----------------------------------------------------------------------------
(* What a search sees of the dictionary.                                   *)

\* The nodes below an array, each with the letters that lead to it.  Nodes
\* whose first letter is not in Unicode hold no words and are skipped.
RECURSIVE PathsBelow(_, _, _)
PathsFrom(d, node, letters) ==
    {[word |-> letters, node |-> node]}
    \cup IF HasChildNodes(node) THEN PathsBelow(d, node.children, letters)
         ELSE {}
PathsBelow(d, array, letters) ==
    UNION {PathsFrom(d, node, letters \o node.letters) :
              node \in {n \in ToSet(PtNodeArray(d, array)) :
                           Head(n.letters) < BeginningOfSentence}}
Paths(d) == PathsBelow(d, 0, <<>>)
WordPaths(d) == {p \in Paths(d) : p.node.terminal}

\* The function itself, its values computed at once instead of at each use.
Tabled(f) == f @@ <<>>

\* The dictionary letter by letter, as the search goes through it.
StemsOf(words) ==
    {<<>>} \cup UNION {{SubSeq(w, 1, i) : i \in 1 .. Len(w)} : w \in words}
OneLonger(stems) ==
    Tabled([u \in stems |->
        {v \in stems : Len(v) = Len(u) + 1 /\ IsPrefix(u, v)}])
NodeOf(words) ==
    Tabled([w \in {p.word : p \in words} |->
        (CHOOSE p \in words : p.word = w).node])
LexiconFrom(d, paths, node, after) ==
    [prob     |-> Tabled([w \in DOMAIN node |-> Tabled(
                     [c \in DOMAIN after |-> ProbabilityAfter(node[w], after[c])])]),
     children |-> OneLonger(StemsOf({p.word : p \in paths})),
     hidden   |-> {w \in DOMAIN node : node[w].notAWord},
     next     |-> Tabled([c \in DOMAIN after |-> PredictionsOf(d, after[c])])]
LexiconIn(d, paths, contexts) ==
    LexiconFrom(d, paths, NodeOf({p \in paths : p.node.terminal}),
                Tabled([c \in contexts |-> Bigrams(d, PreviousWordId(d, c))]))
LexiconOf(d, contexts) == LexiconIn(d, Paths(d), contexts)

\* Every word's position leads to its letters, and its letters lead to its
\* position: suggestions carry the first, what is typed the second.
ReadsBack(d) ==
    \A p \in WordPaths(d) :
        /\ getCodePoints(d, p.node.pos) = p.word
        /\ getWordId(d, p.word, FALSE) = p.node.pos
=============================================================================

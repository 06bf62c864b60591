-------------------------- MODULE MCSuggestSearch --------------------------
(***************************************************************************)
(* The search for suggestions on a keyboard of six keys and a dictionary   *)
(* of some twenty words, with queues so small that they are full.          *)
(***************************************************************************)
EXTENDS SuggestSearch, TLC

-----------------------------------------------------------------------------
(***************************************************************************)
(* Small dictionary files for Ver2Dictionary to read, laid out as the      *)
(* dictionary maker lays them out: a node for every prefix that is a word  *)
(* or at which words part, the arrays of siblings depth first, siblings by *)
(* their first letters.  A source is a record: "words" gives each word its *)
(* probability, "others" are those that are not words, "after" gives words *)
(* their bigrams as a sequence of records (word, probability), "shortcuts" *)
(* has words with a shortcut, "table" the letters that take one byte (none *)
(* for the Latin ones), "width" the bytes of a short distance.             *)
(***************************************************************************)

BytesOf(n, width) ==
    [i \in 1 .. width |-> (n \div (256 ^ (width - i))) % 256]

LetterBytes(c, table) ==
    CASE table # <<>> /\ c \in ToSet(table) ->
             <<OneByteLetters - 1 + CHOOSE i \in DOMAIN table : table[i] = c>>
      [] table = <<>> /\ c \in 32 .. 255 -> <<c>>
      [] OTHER -> BytesOf(c, 3)

StringBytes(s, table) ==
    FlattenSeq([i \in DOMAIN s |-> LetterBytes(s[i], table)]) \o <<Terminator>>

\* By letters, a prefix before what it begins.
Before(u, v) ==
    \/ IsStrictPrefix(u, v)
    \/ \E i \in 1 .. Min({Len(u), Len(v)}) :
          u[i] < v[i] /\ SubSeq(u, 1, i - 1) = SubSeq(v, 1, i - 1)

InOrder(words) ==
    Tabled([i \in 1 .. Cardinality(words) |->
        CHOOSE w \in words : Cardinality({v \in words : Before(v, w)}) = i - 1])

Flags(choices) == SumSet({c[2] : c \in {d \in choices : d[1]}})

\* A list of pairs, each a distance of two bytes.
ShortcutBytes == <<0, 6, 15, 97, 98, Terminator>>

\* The nodes, and the node at which the array of each begins.
NodesAmong(words, stems) ==
    words \cup {u \in stems :
                   Cardinality({v \in stems : Len(v) = Len(u) + 1
                                              /\ IsPrefix(u, v)}) > 1}
NodesOf(words) ==
    NodesAmong(words, UNION {{SubSeq(w, 1, i) : i \in 1 .. Len(w)} : w \in words})
OwnersOf(nodes) ==
    Tabled([n \in nodes |->
        CHOOSE u \in nodes \cup {<<>>} :
           /\ IsStrictPrefix(u, n)
           /\ \A v \in nodes \cup {<<>>} :
                 IsStrictPrefix(v, n) => Len(v) <= Len(u)])

\* What a node is written from; places are counted from the node's own.
Sized(part) ==
    part @@ [size |-> part.listAt + Len(part.after) * (1 + part.link)]
Listed(src, n, part) ==
    Sized(part @@ [listAt |-> part.fieldAt + part.field
                      + IF n \in src.shortcuts THEN Len(ShortcutBytes) ELSE 0])
Written(src, n, letters, owns) ==
    [letters |-> letters, owner |-> SubSeq(n, 1, Len(n) - Len(letters)),
     chars   |-> IF Len(letters) > 1 THEN StringBytes(letters, src.table)
                 ELSE LetterBytes(letters[1], src.table),
     field   |-> IF owns THEN src.width + (Len(n) % 2) ELSE 0,
     after   |-> IF n \in DOMAIN src.after THEN src.after[n] ELSE <<>>,
     link    |-> src.width + (Len(n) % 2)]
Placed(src, n, part) ==
    Listed(src, n, part @@ [fieldAt |->
        1 + Len(part.chars) + IF n \in DOMAIN src.words THEN 1 ELSE 0])
PartsOf(src, owner) ==
    Tabled([n \in DOMAIN owner |->
        Placed(src, n, Written(src, n, SubSeq(n, Len(owner[n]) + 1, Len(n)),
                               \E m \in DOMAIN owner : owner[m] = n))])

\* Where the arrays and the nodes begin.
ArrayPlaces(part, owners, array) ==
    Tabled([u \in ToSet(owners) |->
        FoldLeft(LAMBDA s, n : s + part[n].size, 0,
            FlattenSeq([i \in DOMAIN SelectSeq(owners, LAMBDA v : Before(v, u)) |->
                           array[owners[i]]]))
        + Len(SelectSeq(owners, LAMBDA v : Before(v, u)))])
NodePlaces(part, array, arrayPos) ==
    Tabled([n \in DOMAIN part |->
        FoldLeft(LAMBDA s, m : s + part[m].size, arrayPos[part[n].owner] + 1,
                 SelectSeq(array[part[n].owner], LAMBDA m : Before(m, n)))])

\* The bytes of a bigram at a place, of a node, of an array.
BigramBytes(bigram, last, link, at, to) ==
    <<Flags({<<~last, 128>>, <<to < at, 64>>}) + 16 * link + bigram.probability>>
    \o BytesOf(IF to < at THEN at - to ELSE to - at, link)
NodeBytes(src, n, part, arrayPos, pos) ==
    <<64 * part.field
      + Flags({<<Len(part.letters) > 1, HasMultipleChars>>,
               <<n \in DOMAIN src.words, IsTerminal>>,
               <<n \in src.shortcuts, HasShortcutTargets>>,
               <<part.after # <<>>, HasBigrams>>,
               <<n \in src.others, IsNotAWord>>})>>
    \o part.chars
    \o (IF n \in DOMAIN src.words THEN <<src.words[n]>> ELSE <<>>)
    \o (IF part.field = 0 THEN <<>>
        ELSE BytesOf(arrayPos[n] - pos[n] - part.fieldAt, part.field))
    \o (IF n \in src.shortcuts THEN ShortcutBytes ELSE <<>>)
    \o FlattenSeq([i \in DOMAIN part.after |->
           BigramBytes(part.after[i], i = Len(part.after), part.link,
                       pos[n] + part.listAt + (i - 1) * (1 + part.link) + 1,
                       pos[part.after[i].word])])
ArrayBytes(src, part, array, arrayPos, pos) ==
    <<Len(array)>>
    \o FlattenSeq([j \in DOMAIN array |->
                      NodeBytes(src, array[j], part[array[j]], arrayPos, pos)])

TriePlaced(src, part, owners, array, arrayPos, pos) ==
    FlattenSeq([i \in DOMAIN owners |->
        ArrayBytes(src, part, array[owners[i]], arrayPos, pos)])
TrieLaid(src, part, owners, array, arrayPos) ==
    TriePlaced(src, part, owners, array, arrayPos,
               NodePlaces(part, array, arrayPos))
TrieArrays(src, part, owners, array) ==
    TrieLaid(src, part, owners, array, ArrayPlaces(part, owners, array))
TrieOwned(src, owner, owners) ==
    TrieArrays(src, PartsOf(src, owner), owners,
               Tabled([u \in ToSet(owners) |->
                   InOrder({n \in DOMAIN owner : owner[n] = u})]))
TrieOf(src, owner) ==
    TrieOwned(src, owner,
              InOrder({<<>>} \cup {owner[n] : n \in DOMAIN owner}))
Trie(src) == TrieOf(src, OwnersOf(NodesOf(DOMAIN src.words)))

\* "locale", "en"
LocaleBytes == <<108, 111, 99, 97, 108, 101, Terminator, 101, 110, Terminator>>

AttributeBytes(src) ==
    LocaleBytes
    \o IF src.table = <<>> THEN <<>>
       ELSE StringBytes(CodePointTableKey, <<>>) \o StringBytes(src.table, <<>>)
FileWith(attributes, trie, version) ==
    MagicNumber \o BytesOf(version, 2) \o <<0, 0>>
    \o BytesOf(MinimumSize + Len(attributes), 4) \o attributes \o trie
FileOf(src, version) == FileWith(AttributeBytes(src), Trie(src), version)

-----------------------------------------------------------------------------
(***************************************************************************)
(* The instance.                                                           *)
(***************************************************************************)

\* The row of keys: a e d t b s.
MCKey == (97 :> 1) @@ (101 :> 2) @@ (100 :> 3) @@ (116 :> 4) @@ (98 :> 5)
         @@ (115 :> 6)

\* Words are written with a letter's name; E2 is e acute, Q the apostrophe.
a == 97
b == 98
d == 100
e == 101
s == 115
t == 116
E2 == 233
Q == 39
D == 68
B == 66

Words ==
    {<<d, e, b, a, t>>, <<d, E2, b, a, t>>, <<d, e, b, t>>,
     <<d, e, b, t, s>>, <<b, e, a, t>>,
     <<b, e, t, a>>, <<b, E2, b, E2>>, <<b, e, a, d, s>>, <<d, a, t, e>>,
     <<d, a, t, e, d>>, <<d, a, t, a>>, <<t, e, a>>, <<t, e, s, t>>,
     <<a, b, E2, e>>, <<a, b, a, t, s>>, <<d, Q, a, b>>, <<e, d>>,
     <<B, e, d, e>>, <<s, t, a, b>>, <<b, a, s, s>>,
     <<t, e, s, t, a, t, e, d, a>>}

\* The likelier words are those that come after "date"; one is not to be
\* shown, one is as likely as can be.  The beginning of a sentence is a word
\* of its own.
Main ==
    [words |-> (<<BeginningOfSentence>> :> 0)
               @@ [w \in Words |->
                     IF w = <<d, e, b, t>> THEN 0
                     ELSE (w[1] * 7 + w[2] * 3 + Len(w) * 31) % 200],
     others |-> {<<d, a, t, a>>, <<BeginningOfSentence>>},
     after |-> (<<BeginningOfSentence>> :>
                  <<[word |-> <<e, d>>, probability |-> 3]>>)
               @@ (<<d, a, t, e>> :>
                     LET next == InOrder({w \in Words : w[1] = b})
                     IN  [i \in DOMAIN next |->
                            [word |-> next[i], probability |-> (4 * i) % 16]]),
     shortcuts |-> {<<t, e, a>>}, table |-> <<>>, width |-> 2]

\* Every dictionary of some five words, each followed by all the others.
Few == <<<<a>>, <<a, b>>, <<a, b, E2, e>>, <<a, d, E2>>, <<b, a, Q>>>>
Small(words, table) ==
    [words |-> [w \in words |-> 10 * Len(w)], others |-> {},
     after |-> [w \in {v \in words : words # {v}} |->
                  LET next == InOrder(words \ {w})
                  IN  [i \in DOMAIN next |->
                         [word |-> next[i], probability |-> 5 * (i % 4)]]],
     shortcuts |-> {w \in words : Len(w) = 2}, table |-> table,
     width |-> 1]

\* The dictionaries are numbered, the main one first; the last is in an
\* older format.
Chosen == [f \in 1 .. 2 ^ Len(Few) - 1 |->
              {Few[i] : i \in {j \in DOMAIN Few : (f \div 2 ^ (j - 1)) % 2 = 1}}]
MainFile == 0
OldFile == Len(Chosen) + 1

SourceOf(f) ==
    IF f \in {MainFile, OldFile} THEN Main
    ELSE Small(Chosen[f], IF f % 2 = 0 THEN <<>> ELSE <<E2, b>>)
MCFiles ==
    Tabled([f \in MainFile .. OldFile |->
        FileOf(SourceOf(f), IF f = OldFile THEN 201 ELSE Ver202)])
MCContexts ==
    Tabled([f \in MainFile .. OldFile |->
        CASE f = MainFile -> {<<BeginningOfSentence>>, <<D, a, t, e>>}
          [] f = OldFile -> {}
          [] OTHER -> {CHOOSE w \in Chosen[f] : TRUE}])

\* A letter typed on its key; a letter taken back from the text.
Typed(c) == [c |-> c, at |-> KeyOf(BaseLower(c))]
Resumed(c) == [c |-> c, at |-> NoTouch]

\* What a typist may be composing: the beginnings of words, some typed with a
\* slip, without an accent, with a shifted letter, or taken back.
Texts == {<<d, e, b, a, t>>, <<D, e, b, a, t>>, <<b, e, t, a, t>>,
          <<b, e, b, e, s>>,
          <<d, a, t, e, b>>, <<s, t, b, a>>, <<a, b, e, e>>, <<b, a, e, d, s>>,
          <<t, e, s, t, s>>, <<d, a, b>>, <<d, e, b, t>>}
MainInputs ==
    UNION {{[i \in 1 .. n |-> Typed(w[i])] : n \in 1 .. Len(w)} : w \in Texts}
    \cup {[i \in 1 .. 4 |-> Resumed(<<d, e, b, a>>[i])],
          [i \in 1 .. 5 |-> IF i < 5 THEN Resumed(<<d, e, b, a, t>>[i])
                            ELSE Typed(t)]}
MCInputs ==
    [f \in MainFile .. OldFile |-> IF f = MainFile THEN MainInputs ELSE {}]
=============================================================================

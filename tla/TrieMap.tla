------------------------------- MODULE TrieMap -------------------------------
(***************************************************************************)
(* The map in which a version 4 dictionary keeps its probabilities         *)
(* (dictionary/utils/trie_map.cpp): a hash array mapped trie inside one    *)
(* growing array of entries.  A bitmap entry names the labels present in a *)
(* table and where the table starts; a terminal entry holds a key with its *)
(* value, or a link to a pair of entries: the value, and the bitmap of the *)
(* next level of the map.  Tables that were outgrown are kept in free      *)
(* lists, one per size, and used again.                                    *)
(*                                                                         *)
(* A buffer is [e, free]: the entry with index i is e[i + 1] and free[n]   *)
(* is the head of the list of free tables of n entries, 0 when empty, for  *)
(* the sizes n that were ever freed.                                       *)
(***************************************************************************)
EXTENDS Integers, SequencesExt

None == -1                 \* INVALID_INDEX
RootMap == 0               \* ROOT_BITMAP_ENTRY_INDEX
ValueMask == 4194303       \* VALUE_MASK: 22 bits
MaxTable == 32             \* MAX_NUM_OF_ENTRIES_IN_ONE_LEVEL

MapEntry(labels, at) == [kind |-> "map", labels |-> labels, at |-> at]
Leaf(key, val) == [kind |-> "leaf", key |-> key, val |-> val]
Link(key, at) == [kind |-> "link", key |-> key, at |-> at]
Dead(key) == [kind |-> "dead", key |-> key]
ValueEntry(val) == [kind |-> "value", val |-> val]
FreeEntry(next) == [kind |-> "free", next |-> next]
EmptyMap == MapEntry({}, 0)

EmptyBuffer == [e |-> <<EmptyMap>>, free |-> <<>>]

(* The entry before the root is the unused end of the table of free lists, *)
(* all zero: it reads as an empty bitmap.                                  *)
Entry(b, i) == IF i = None THEN EmptyMap ELSE b.e[i + 1]

Write(b, i, x) == [b EXCEPT !.e[i + 1] = x]

(* getBitShuffledKey and getLabel: the label of a key (below 2^24) at a    *)
(* level is five bits of a fixed permutation of its bits.                  *)
ShuffledBit(key, p) ==
    LET i == 8 * (p % 4) + 4 * ((p \div 4) % 2) + p \div 8
    IN  IF p > 31 \/ i > 23 THEN 0 ELSE (key \div 2^i) % 2

Label(key, level) ==
    FoldSet(LAMBDA j, sum : sum + 2^j * ShuffledBit(key, 5 * level + j), 0, 0 .. 4)

Rank(labels, l) == Cardinality({m \in labels : m < l})

(* Whether a bitmap entry has the label of a key, and where its entry is.  *)
Has(map, key, level) == Label(key, level) \in map.labels
Slot(map, key, level) == map.at + Rank(map.labels, Label(key, level))

(* Tables: taken from the free list of their size, else from the tail.     *)
FirstFree(b, n) == IF n \in DOMAIN b.free THEN b.free[n] ELSE 0

AllocateTable(b, n) ==
    IF n <= MaxTable /\ FirstFree(b, n) > 0
    THEN [at |-> b.free[n], b |-> [b EXCEPT !.free[n] = Entry(b, b.free[n]).next]]
    ELSE [at |-> Len(b.e), b |-> [b EXCEPT !.e = @ \o [i \in 1 .. n |-> EmptyMap]]]

FreeTable(b, at, n) == [Write(b, at, FreeEntry(FirstFree(b, n))) EXCEPT !.free = (n :> at) @@ @]

(* A value and the empty bitmap of a next level, linked from entry i.      *)
LinkTo(t, key, val, i) ==
    Write(Write(Write(t.b, t.at, ValueEntry(val)), t.at + 1, EmptyMap), i, Link(key, t.at))
WriteLinked(b, key, val, i) == LinkTo(AllocateTable(b, 2), key, val, i)

WriteTerminal(b, key, val, i) ==
    IF val < ValueMask THEN Write(b, i, Leaf(key, val)) ELSE WriteLinked(b, key, val, i)

(* The index of the terminal entry of a key under a bitmap entry, or at i. *)
RECURSIVE IndexAt(_, _, _, _)
TerminalIndex(b, key, map, level) ==
    IF Has(map, key, level) THEN IndexAt(b, key, Slot(map, key, level), level) ELSE None
IndexAt(b, key, i, level) ==
    CASE Entry(b, i).kind = "map"  -> TerminalIndex(b, key, Entry(b, i), level + 1)
      [] Entry(b, i).kind = "dead" -> None
      [] OTHER -> IF Entry(b, i).key = key THEN i ELSE None

Missing == [ok |-> FALSE, val |-> 0, next |-> None]

Result(b, x) ==
    IF x.kind = "link"
    THEN [ok |-> TRUE, val |-> Entry(b, x.at).val, next |-> x.at + 1]
    ELSE [ok |-> TRUE, val |-> x.val, next |-> None]

ResultAt(b, i) == IF i = None THEN Missing ELSE Result(b, Entry(b, i))
Get(b, key, m) == ResultAt(b, TerminalIndex(b, key, Entry(b, m), 0))

(* getNextLevelBitmapEntryIndex: the bitmap of the level below a key,      *)
(* created when the key has none.                                          *)
LevelAt(b, i) == [b |-> b, at |-> Entry(b, i).at + 1]
NextLevelAt(b, key, i) ==
    CASE i = None -> [b |-> b, at |-> None]
      [] i # None /\ Entry(b, i).kind = "link" -> LevelAt(b, i)
      [] OTHER -> LevelAt(WriteLinked(b, key, Entry(b, i).val, i), i)
NextLevel(b, key, m) == NextLevelAt(b, key, TerminalIndex(b, key, Entry(b, m), 0))

(* A new label makes the table one entry longer, in the table t.           *)
ExpandInto(t, key, val, m, map, l) ==
    LET n == Cardinality(map.labels)
        r == Rank(map.labels, l)
        Copied[i \in 0 .. n] ==
            IF i = 0 THEN t.b
            ELSE Write(Copied[i - 1], t.at + (i - 1) + (IF i - 1 >= r THEN 1 ELSE 0),
                       Entry(t.b, map.at + i - 1))
    IN  Write(WriteTerminal(Copied[n], key, val, t.at + r), m, MapEntry(map.labels \union {l}, t.at))
FreeOld(b, map) == IF map.labels = {} THEN b ELSE FreeTable(b, map.at, Cardinality(map.labels))
ExpandTable(b, key, val, m, map, l) ==
    FreeOld(ExpandInto(AllocateTable(b, Cardinality(map.labels) + 1), key, val, m, map, l), map)

(* A label taken by another key: the two go one level down, together while *)
(* their labels l and o agree, then side by side.                          *)
RECURSIVE ResolveConflict(_, _, _, _, _)
Together(t, key, val, i, level, l, old) ==
    ResolveConflict(Write(Write(t.b, t.at, old), i, MapEntry({l}, t.at)), key, val, t.at, level)
SideBySide(t, key, val, i, l, o, old) ==
    Write(WriteTerminal(Write(t.b, t.at + (IF l < o THEN 1 ELSE 0), old),
                        key, val, t.at + (IF l < o THEN 0 ELSE 1)),
          i, MapEntry({l, o}, t.at))
Resolved(b, key, val, i, level, l, o, old) ==
    IF l = o THEN Together(AllocateTable(b, 1), key, val, i, level, l, old)
             ELSE SideBySide(AllocateTable(b, 2), key, val, i, l, o, old)
ResolveConflict(b, key, val, i, level) ==
    Resolved(b, key, val, i, level + 1, Label(key, level + 1), Label(Entry(b, i).key, level + 1), Entry(b, i))

RECURSIVE PutAt(_, _, _, _, _)
PutOver(b, key, val, i, x, level) ==
    CASE x.kind = "map" -> PutAt(b, key, val, i, level + 1)
      [] x.kind = "link" /\ x.key = key -> Write(b, x.at, ValueEntry(val))
      [] x.kind = "dead" \/ (x.kind = "leaf" /\ x.key = key) -> WriteTerminal(b, key, val, i)
      [] OTHER -> ResolveConflict(b, key, val, i, level)
PutUnder(b, key, val, m, map, level) ==
    IF Has(map, key, level)
    THEN PutOver(b, key, val, Slot(map, key, level), Entry(b, Slot(map, key, level)), level)
    ELSE ExpandTable(b, key, val, m, map, Label(key, level))
PutAt(b, key, val, m, level) == PutUnder(b, key, val, m, Entry(b, m), level)

Put(b, key, val, m) == PutAt(b, key, val, m, 0)

(* removeInner: everything below a bitmap entry is invalidated; of its     *)
(* tables only the pairs of value and bitmap go back to the free list.     *)
RECURSIVE RemoveBelow(_, _)
ClearAt(b, i, x) ==
    CASE x.kind = "map"  -> RemoveBelow(b, x)
      [] x.kind = "link" -> RemoveBelow(FreeTable(Write(b, i, Dead(x.key)), x.at, 2), Entry(b, x.at + 1))
      [] OTHER -> Write(b, i, Dead(x.key))
RemoveBelow(b, map) ==
    FoldLeft(LAMBDA c, i : ClearAt(c, i, Entry(c, i)), b, [j \in 1 .. Cardinality(map.labels) |-> map.at + j - 1])

RemoveEntryAt(b, key, i, x) ==
    IF x.kind = "link" THEN RemoveBelow(FreeTable(Write(b, i, Dead(key)), x.at, 2), Entry(b, x.at + 1))
                       ELSE Write(b, i, Dead(key))
RemoveFound(b, key, i) == IF i = None THEN b ELSE RemoveEntryAt(b, key, i, Entry(b, i))
RemoveKey(b, key, m) == RemoveFound(b, key, TerminalIndex(b, key, Entry(b, m), 0))

(* The entries of one level in the order of iterateNext.                   *)
RECURSIVE EntriesUnder(_, _)
EntriesUnder(b, map) ==
    FlattenSeq([j \in 1 .. Cardinality(map.labels) |->
        LET x == Entry(b, map.at + j - 1)
        IN  CASE x.kind = "map" -> EntriesUnder(b, x)
              [] x.kind = "dead" -> <<>>
              [] OTHER -> <<[key |-> x.key, val |-> Result(b, x).val, next |-> Result(b, x).next]>>])

Entries(b, m) == IF m = None THEN <<>> ELSE EntriesUnder(b, Entry(b, m))

(***************************************************************************)
(* The tables in use and the free ones, as <<first index, size>>.          *)
(***************************************************************************)
RECURSIVE LiveTables(_, _)
LiveTables(b, map) ==
    LET n == Cardinality(map.labels)
    IN  IF n = 0 THEN {}
        ELSE {<<map.at, n>>} \union UNION {
            LET x == Entry(b, map.at + j)
            IN  CASE x.kind = "map" -> LiveTables(b, x)
                  [] x.kind = "link" ->
                         {<<x.at, 2>>} \union LiveTables(b, Entry(b, x.at + 1))
                  [] OTHER -> {} : j \in 0 .. n - 1}

(* The list may not be longer than the buffer: "fuel" ends a looping one.  *)
RECURSIVE FreeList(_, _, _)
FreeList(b, at, fuel) ==
    IF at = 0 \/ fuel = 0 THEN <<>>
    ELSE <<at>> \o FreeList(b, IF Entry(b, at).kind = "free" THEN Entry(b, at).next ELSE 0, fuel - 1)

(* No entry is in two tables in use, in two free tables, or in both.       *)
TablesDisjoint(b) ==
    LET Cells(at, n) == at .. at + n - 1
        sizes == DOMAIN b.free
        live == LiveTables(b, Entry(b, RootMap))
        free == [n \in sizes |-> FreeList(b, b.free[n], Len(b.e))]
        used == UNION {Cells(t[1], t[2]) : t \in live}
                  \union UNION {UNION {Cells(at, n) : at \in Range(free[n])} : n \in sizes}
    IN  Cardinality(used) = FoldSet(LAMBDA t, sum : sum + t[2], 0, live)
                              + FoldSet(LAMBDA n, sum : sum + n * Len(free[n]), 0, sizes)
=============================================================================

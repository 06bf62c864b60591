----------------------------- MODULE PatriciaTrie -----------------------------
(***************************************************************************)
(* The words of a version 4 dictionary: a Patricia trie that is updated in *)
(* place by appending (pt_common/dynamic_pt_updating_helper.cpp and        *)
(* v4/ver4_patricia_trie_node_writer.cpp), the table from terminal ids to  *)
(* nodes, and the garbage collection that writes a new trie                *)
(* (v4/ver4_patricia_trie_writing_helper.cpp).                             *)
(*                                                                         *)
(* A dictionary is [nodes, arrays, table, lm].  A position in the buffer   *)
(* is an index into nodes or arrays, 0 standing for NOT_A_DICT_POS; array  *)
(* 1 is the root.  nodes[p] is [cp, par, id, term, state, kids]; a moved   *)
(* node keeps in "par" the position it moved to.  arrays[a] is [slots,     *)
(* next], next being the forward link.  table[id + 1] is the node of a     *)
(* terminal id.                                                            *)
(***************************************************************************)
EXTENDS LanguageModel

NoId == -1                 \* NOT_A_TERMINAL_ID

Node(cp, par, id, term, kids) ==
    [cp |-> cp, par |-> par, id |-> id, term |-> term, state |-> "live", kids |-> kids]

EmptyDictionary ==
    [nodes |-> <<>>, arrays |-> <<[slots |-> <<>>, next |-> 0]>>, table |-> <<>>, lm |-> EmptyBuffer]

-----------------------------------------------------------------------------
(* Reading *)

(* fetchPtNodeInfoFromBufferAndProcessMovedPtNode: where a node is now.    *)
RECURSIVE Fetch(_, _)
Fetch(t, p) == IF t.nodes[p].state = "moved" THEN Fetch(t, t.nodes[p].par) ELSE p

IsWord(n) == n.term /\ n.state # "deleted"

(* The nodes of an array and of the arrays its forward links lead to.      *)
RECURSIVE Chain(_, _)
Chain(t, a) ==
    IF a = 0 THEN <<>>
    ELSE [i \in DOMAIN t.arrays[a].slots |-> Fetch(t, t.arrays[a].slots[i])]
            \o Chain(t, t.arrays[a].next)

RECURSIVE LastArray(_, _)
LastArray(t, a) == IF t.arrays[a].next = 0 THEN a ELSE LastArray(t, t.arrays[a].next)

(* getTerminalPtNodePositionOfWord: the first node that is not too long    *)
(* and begins with the next code point decides.                            *)
RECURSIVE Find(_, _, _)
Find(t, a, rest) ==
    LET Fits(p) == Len(t.nodes[p].cp) <= Len(rest) /\ t.nodes[p].cp[1] = rest[1]
        fitting == SelectSeq(Chain(t, a), Fits)
        p == fitting[1]
        n == t.nodes[p]
    IN  CASE fitting = <<>> \/ ~ IsPrefix(n.cp, rest) -> 0
          [] n.cp = rest -> IF n.term THEN p ELSE 0
          [] n.kids = 0 -> 0
          [] OTHER -> Find(t, n.kids, SubSeq(rest, Len(n.cp) + 1, Len(rest)))

WordId(t, word) ==
    LET p == Find(t, 1, word)
    IN  IF p = 0 \/ t.nodes[p].state = "deleted" THEN NoId ELSE t.nodes[p].id

NodeOfId(t, id) == IF id \in 0 .. Len(t.table) - 1 THEN t.table[id + 1] ELSE 0

(* The code points of a node, read from the parent links to the root.      *)
RECURSIVE ReadUp(_, _)
ReadUp(t, p) ==
    LET n == t.nodes[Fetch(t, p)]
    IN  IF n.par = 0 THEN n.cp ELSE ReadUp(t, n.par) \o n.cp

(* getCodePointsAndReturnCodePointCount                                    *)
CodePoints(t, id) ==
    LET p == NodeOfId(t, id)
    IN  IF p = 0 \/ ~ IsWord(t.nodes[Fetch(t, p)]) THEN <<>> ELSE ReadUp(t, p)

(* The words found by the traversal of getNextWordAndNextToken, post-order.*)
RECURSIVE WordNodes(_, _)
WordNodesAt(t, p) == WordNodes(t, t.nodes[p].kids) \o (IF IsWord(t.nodes[p]) THEN <<p>> ELSE <<>>)
WordNodes(t, a) == FoldLeft(LAMBDA found, p : found \o WordNodesAt(t, p), <<>>, Chain(t, a))

WordsAt(t, ps) == [i \in DOMAIN ps |-> CodePoints(t, t.nodes[ps[i]].id)]
AllWords(t) == WordsAt(t, WordNodes(t, 1))

-----------------------------------------------------------------------------
(* Writing *)

(* setTerminalPtNodePosition: the table grows as far as the id.            *)
SetTable(table, id, p) ==
    [i \in 1 .. Max({Len(table), id + 1}) |->
        IF i = id + 1 THEN p ELSE IF i <= Len(table) THEN table[i] ELSE 0]

(* writePtNodeAndGetTerminalIdAndAdvancePosition: a node appended with the *)
(* terminal id it has, or a new one.                                       *)
AppendNode(t, n) ==
    LET id == CASE n.state = "nonterm" -> NoId
                [] n.state # "nonterm" /\ n.id # NoId -> n.id
                [] OTHER -> IF n.term THEN Len(t.table) ELSE NoId
    IN  [t EXCEPT !.nodes = Append(@, Node(n.cp, n.par, id, id # NoId, n.kids)),
                  !.table = IF id = NoId THEN @ ELSE SetTable(@, id, Len(t.nodes) + 1)]

(* writeNewTerminalPtNodeAndAdvancePosition                                *)
AppendWord(t, n, val) ==
    LET u == AppendNode(t, n) IN [u EXCEPT !.lm = SetEntry(@, <<Last(u.nodes).id>>, val)]

AppendArray(t, slots) == [t EXCEPT !.arrays = Append(@, [slots |-> slots, next |-> 0])]

(* createNewPtNodeArrayWithAChildPtNode                                    *)
AppendChild(t, par, cp, val) ==
    AppendArray(AppendWord(t, Node(cp, par, NoId, TRUE, 0), val), <<Len(t.nodes) + 1>>)

\* Mutant: the children get the node's new place as parent in every case.
MarkMovedWithKids(t, p, to, kidsTo) ==
    LET kids == Range(Chain(t, t.nodes[p].kids))
    IN  [t EXCEPT !.nodes = [q \in DOMAIN t.nodes |->
            CASE q = p -> [t.nodes[q] EXCEPT !.state = "moved", !.par = to]
              [] q # p /\ q \in kids -> [t.nodes[q] EXCEPT !.par = to]
              [] OTHER -> t.nodes[q]]]

(* markPtNodeAsMoved: the children get a new parent.                       *)
MarkMoved(t, p, to, kidsTo) ==
    LET kids == Range(Chain(t, t.nodes[p].kids))
    IN  [t EXCEPT !.nodes = [q \in DOMAIN t.nodes |->
            CASE q = p -> [t.nodes[q] EXCEPT !.state = "moved", !.par = to]
              [] q # p /\ q \in kids -> [t.nodes[q] EXCEPT !.par = kidsTo]
              [] OTHER -> t.nodes[q]]]

(* markPtNodeAsDeleted *)
MarkDeleted(t, p) ==
    LET n == t.nodes[p]
    IN  [t EXCEPT !.nodes[p].state = "deleted",
                  !.table = IF n.term THEN SetTable(@, n.id, 0) ELSE @]

(* markPtNodeAsWillBecomeNonTerminal: the terminal flag itself stays.      *)
MarkNonTerminal(t, p) ==
    [t EXCEPT !.nodes[p].state = "nonterm", !.table = SetTable(@, t.nodes[p].id, 0)]

(* setPtNodeProbability: a node that is no word yet, or was deleted, moves *)
(* to a new place as a terminal.                                           *)
SetProbability(t, p, val) ==
    LET n == t.nodes[p]
        to == Len(t.nodes) + 1
    IN  IF IsWord(n) THEN [t EXCEPT !.lm = SetEntry(@, <<n.id>>, val)]
        ELSE MarkMoved(AppendWord(t, Node(n.cp, n.par, n.id, TRUE, n.kids), val), p, to, to)

(* reallocatePtNodeAndAddNewPtNodes: the node splits after j code points.  *)
(* The second part takes over its id, its children and its terminal flag;  *)
(* the first is the new word, or the parent of both.                       *)
SplitHead(t, n, j, rest, val) ==
    LET extra == Len(rest) > j
        head == Node(SubSeq(n.cp, 1, j), n.par, NoId, ~ extra, 0)
    IN  IF extra THEN AppendNode(t, head) ELSE AppendWord(t, head, val)
SplitTail(t, n, j, first) ==
    AppendNode(t, Node(SubSeq(n.cp, j + 1, Len(n.cp)), first, n.id, n.term, n.kids))
SplitChild(t, j, rest, val, first) ==
    IF Len(rest) > j
    THEN AppendArray(AppendWord(t, Node(SubSeq(rest, j + 1, Len(rest)), first, NoId, TRUE, 0), val),
                     <<first + 1, first + 2>>)
    ELSE AppendArray(t, <<first + 1>>)
Split(t, p, j, rest, val) ==
    LET first == Len(t.nodes) + 1
        tail(u) == SplitTail(u, t.nodes[p], j, first)
        grown(u) == [u EXCEPT !.nodes[first].kids = Len(u.arrays)]
    IN  grown(MarkMoved(SplitChild(tail(SplitHead(t, t.nodes[p], j, rest, val)), j, rest, val, first),
                        p, first, first + 1))

(* addUnigramWord, from array a whose parent node is par: at the node p    *)
(* that begins like the rest of the word, or else at the end of the chain. *)
CommonLength(cp, rest) == Max({j \in 1 .. Min({Len(cp), Len(rest)}) : SubSeq(cp, 1, j) = SubSeq(rest, 1, j)})
RECURSIVE AddBelow(_, _, _, _, _)
AddAt(t, p, n, rest, after, val) ==
    CASE CommonLength(n.cp, rest) < Len(n.cp) -> Split(t, p, CommonLength(n.cp, rest), rest, val)
      [] n.cp = rest -> SetProbability(t, p, val)
      [] n.cp # rest /\ IsPrefix(n.cp, rest) /\ n.kids = 0 ->
             AppendChild([t EXCEPT !.nodes[p].kids = Len(t.arrays) + 1], p, after, val)
      [] OTHER -> AddBelow(t, n.kids, p, after, val)
AddTo(t, a, matching, par, rest, val) ==
    IF matching = <<>>
    THEN AppendChild([t EXCEPT !.arrays[LastArray(t, a)].next = Len(t.arrays) + 1], par, rest, val)
    ELSE LET n == t.nodes[matching[1]]
         IN  AddAt(t, matching[1], n, rest, SubSeq(rest, Len(n.cp) + 1, Len(rest)), val)
AddBelow(t, a, par, rest, val) ==
    AddTo(t, a, SelectSeq(Chain(t, a), LAMBDA p : t.nodes[p].cp[1] = rest[1]), par, rest, val)

AddUnigram(t, word, val) == AddBelow(t, 1, 0, word, val)

\* Mutant: the probabilities of a removed word stay.
RemoveUnigramNode(t, word) ==
    LET id == WordId(t, word)
    IN  IF id = NoId THEN t ELSE MarkDeleted(t, Fetch(t, NodeOfId(t, id)))

(* removeUnigramEntry: the node is marked, the entry of the word and all   *)
(* n-grams that follow it are removed.                                     *)
RemoveUnigram(t, word) ==
    LET id == WordId(t, word)
    IN  IF id = NoId THEN t
        ELSE [MarkDeleted(t, Fetch(t, NodeOfId(t, id))) EXCEPT !.lm = RemoveEntry(@, <<id>>)]

(* addNgramEntry and removeNgramEntry; a gram is the previous words, most  *)
(* recent first, and then the word.                                        *)
Ids(t, gram) == [i \in DOMAIN gram |-> WordId(t, gram[i])]

AddNgram(t, gram, val) ==
    IF NoId \in Range(Ids(t, gram)) THEN t
    ELSE [t EXCEPT !.lm = SetEntry(@, Ids(t, gram), val)]

RemoveNgram(t, gram) ==
    IF NoId \in Range(Ids(t, gram)) THEN t ELSE [t EXCEPT !.lm = RemoveEntry(@, Ids(t, gram))]

-----------------------------------------------------------------------------
(* Garbage collection *)

(* The first traversal, post-order: words without a valid entry stop being *)
(* terminals, nodes without use are marked as deleted.  "kept" counts the  *)
(* useful nodes of the array being read; "below" is mChildrenValue, which  *)
(* only the return from an array of children sets anew.                    *)
RECURSIVE MarkUseless(_, _, _)
Lapsed(t, n) == n.term /\ LET val == Probability(t.lm, <<n.id>>) IN val = None \/ ~ IsValid(val)
Judged(t, p, lapsed, kept, below) ==
    IF (~ t.nodes[p].term \/ lapsed) /\ below = 0
    THEN [t |-> MarkDeleted(t, p), kept |-> kept, below |-> below]
    ELSE [t |-> t, kept |-> kept + 1, below |-> below]
Childless(t, p, below) ==
    IF t.nodes[p].term /\ below = 0 THEN [t EXCEPT !.nodes[p].kids = 0] ELSE t
Visited(t, p, lapsed, kept, below) ==
    Judged(Childless(IF lapsed THEN MarkNonTerminal(t, p) ELSE t, p, below), p, lapsed, kept, below)
AfterKids(s, p, kept) == Visited(s.t, p, Lapsed(s.t, s.t.nodes[p]), kept, s.kept)
MarkUseless(t, a, below) ==
    LET Visit(s, p) ==
            IF s.t.nodes[p].kids = 0
            THEN Visited(s.t, p, Lapsed(s.t, s.t.nodes[p]), s.kept, s.below)
            ELSE AfterKids(MarkUseless(s.t, s.t.nodes[p].kids, 0), p, s.kept)
    IN  FoldLeft(Visit, [t |-> t, kept |-> 0, below |-> below], IF a = 0 THEN <<>> ELSE Chain(t, a))

(* The second: array by array, the nodes not deleted are written to the    *)
(* new trie with their old links, and the new positions are noted.         *)
RECURSIVE Place(_, _, _)
CopyNode(t, s, p) ==
    IF t.nodes[p].state = "deleted" THEN [s EXCEPT !.moved = @ @@ (p :> 0)]
    ELSE [s EXCEPT !.new = AppendNode(@, t.nodes[p]), !.moved = @ @@ (p :> Len(s.new.nodes) + 1)]
CloseArray(s, a, before) ==
    [s EXCEPT !.new = AppendArray(@, [i \in 1 .. Len(@.nodes) - before |-> before + i]),
              !.arrays = @ @@ (a :> Len(s.new.arrays) + 1)]
Place(t, a, out) ==
    LET Copy(s, p) == CopyNode(t, s, p)
        Descend(s, p) == IF t.nodes[p].kids = 0 THEN s ELSE Place(t, t.nodes[p].kids, s)
        chain == Chain(t, a)
    IN  FoldLeft(Descend, CloseArray(FoldLeft(Copy, out, chain), a, Len(out.new.nodes)), chain)

(* runGCTerminalIds: the ids in use, numbered anew in the same order.      *)
NewIds(table) ==
    LET used == {id \in 0 .. Len(table) - 1 : table[id + 1] # 0}
    IN  [id \in used |-> Cardinality({k \in used : k < id})]

Relinked(out, lm, newId) ==
    LET Relink(n) == [n EXCEPT !.par = out.moved[@], !.kids = out.arrays[@],
                               !.id = IF n.term THEN newId[@] ELSE @]
    IN  [nodes |-> [p \in DOMAIN out.new.nodes |-> Relink(out.new.nodes[p])],
         arrays |-> out.new.arrays,
         table |-> SelectSeq(out.new.table, LAMBDA p : p # 0),
         lm |-> CopyForGC(lm, RootMap, newId, EmptyBuffer, RootMap)]
Renumbered(out, lm) == Relinked(out, lm, NewIds(out.new.table))
Rewritten(t) ==
    Renumbered(Place(t, 1, [new |-> [EmptyDictionary EXCEPT !.arrays = <<>>],
                            moved |-> (0 :> 0), arrays |-> (0 :> 0)]), t.lm)
RunGC(old) == Rewritten(MarkUseless([old EXCEPT !.lm = PruneForGC(@, RootMap, 0)], 1, 0).t)
=============================================================================

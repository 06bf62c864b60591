--------------------------- MODULE MCVer4Dictionary ---------------------------
(***************************************************************************)
(* Words over two letters that share prefixes in every way an update tells *)
(* apart: a prefix of another, a split in the middle, a sibling.           *)
(***************************************************************************)
EXTENDS Ver4Dictionary

a == 1
b == 2

MCWords == {<<a>>, <<a, b, a>>, <<a, b, b>>}
MCGrams == {<<<<a>>, <<a, b, a>>>>, <<<<a>>, <<a, b, a>>, <<a>>>>}

(* An earlier session learned two words with a bigram and a trigram.       *)
TwoWords == FoldLeft(LAMBDA t, w : AddUnigram(t, w, 200), EmptyDictionary, <<<<a>>, <<a, b, a>>>>)
WithGrams == FoldLeft(LAMBDA t, g : AddNgram(t, g[1], g[2]), TwoWords,
                      <<<<<<<<a>>, <<a, b, a>>>>, 1>>, <<<<<<a>>, <<a, b, a>>, <<a>>>>, 200>>>>)
MCEarlier == {WithGrams}
=============================================================================

-------------------------------- MODULE MCGgmlAlloc --------------------------------
(* Graphs for GgmlAlloc: every way to put a few operations together. *)
EXTENDS GgmlAlloc

Sizes == {2, 3}

T(o, s, v, of, bytes, l) == [op |-> o, src |-> s, view |-> v, offs |-> of, size |-> bytes,
                             layout |-> <<bytes, l>>]
Input(bytes)  == T("INPUT", << >>, None, 0, bytes, "dense")
Weight(bytes) == T("WEIGHT", << >>, None, 0, bytes, "dense")
Leaf(bytes)   == T("LEAF", << >>, None, 0, bytes, "dense")

Root(g, t) == IF g[t].view = None THEN t ELSE g[t].view
ViewOf(g, t, o, s, of, bytes, l) == T(o, s, Root(g, t), g[t].offs + of, bytes, l)

\* Graph g with one more operation, on tensors that are not weights.
Values(g) == {t \in DOMAIN g : g[t].op # "WEIGHT"}
Scale(g)   == {Append(g, T("SCALE", <<a>>, None, 0, g[a].size, "dense")) : a \in Values(g)}
Add(g)     == {Append(g, T("ADD", p, None, 0, g[p[1]].size, "dense")) :
                  p \in {q \in Values(g) \X Values(g) : g[q[2]].size <= g[q[1]].size}}
MulMat(g)  == {Append(g, T("MUL_MAT", <<2, a>>, None, 0, bytes, "dense")) :
                  a \in Values(g), bytes \in Sizes}
Permute(g) == {Append(g, ViewOf(g, a, "PERMUTE", <<a>>, 0, g[a].size, "permuted")) : a \in Values(g)}
View(g)    == {Append(g, ViewOf(g, p[1], "VIEW", <<p[1]>>, p[2], 2, "dense")) :
                  p \in {q \in (DOMAIN g) \X (0 .. 1) : q[2] + 2 <= g[q[1]].size}}
Cpy(g)     == {Append(g, ViewOf(g, p[2], "CPY", p, 0, g[p[2]].size, g[p[2]].layout[2])) :
                  p \in {q \in Values(g) \X {t \in DOMAIN g : g[t].op \in {"VIEW", "WEIGHT"}} :
                            q[1] # q[2] /\ g[q[2]].size = g[q[1]].size}}
CpyNew(g)  == {LET h == Append(g, Leaf(g[a].size))
               IN  Append(h, ViewOf(h, Len(h), "CPY", <<a, Len(h)>>, 0, g[a].size, "dense")) : a \in Values(g)}

Grow(S) == UNION {Scale(g) \cup Add(g) \cup MulMat(g) \cup Permute(g) \cup View(g)
                    \cup Cpy(g) \cup CpyNew(g) : g \in S}

Readers(g, t) == {n \in DOMAIN g : \E i \in DOMAIN g[n].src : g[n].src[i] = t}

\* A graph is expanded from its results: whatever else nobody reads is not in it.
Whole(g) == \A t \in 1 .. Len(g) - 1 :
                Readers(g, t) # {} \/ g[t].op \in {"CPY", "INPUT", "WEIGHT"}

\* Longer graphs, whose operations read what was computed last.
Late(g) == {t \in DOMAIN g : t >= Len(g) - 1 /\ g[t].op # "WEIGHT"}
Extend(S) == UNION {
    {Append(g, T("SCALE", <<a>>, None, 0, g[a].size, "dense")) : a \in Late(g)}
    \cup {Append(g, T("ADD", <<a, Len(g)>>, None, 0, g[a].size, "dense")) : a \in {b \in Late(g) : g[Len(g)].size <= g[b].size}}
    \cup {Append(g, T("MUL_MAT", <<2, a>>, None, 0, 5 - g[a].size, "dense")) : a \in Late(g)}
    \cup {Append(g, ViewOf(g, a, "RESHAPE", <<a>>, 0, g[a].size, "dense")) : a \in Late(g)}
    : g \in S}

Start0 == {<<Input(3), Weight(3)>>}
G1 == Grow(Start0)
G2 == Grow(G1)
G3 == {g \in Grow(G2) : Whole(g)}

\* The same graph for fewer tokens.
Shorter(g) == [t \in DOMAIN g |->
    IF g[t].op = "WEIGHT" THEN g[t]
    ELSE [g[t] EXCEPT !.size = @ - 1, !.layout = <<@[1] - 1, @[2]>>]]

C2 == Extend(Extend(Start0))
C4 == Extend(Extend(C2))
C5 == {g \in Extend(C4) : Whole(g)}
MCPlans == {<<g, g>> : g \in G3 \cup C5} \cup {<<g, Shorter(g)>> : g \in G3}
====

--------------------------------- MODULE GgmlAlloc ---------------------------------
(***************************************************************************)
(* The graph allocator (ggml-alloc.c) as whisper uses it.  A graph is built *)
(* and allocated once in a buffer without end, to measure it; a buffer of   *)
(* exactly that size is allocated; from then on every inference resets the  *)
(* allocator, builds its graph anew, allocates it in that buffer and        *)
(* computes it.  Tensors share memory in three ways: a view lies in its     *)
(* view_src, an operation that can work in place takes over the memory of a *)
(* source nobody else needs, and memory is handed on as soon as the last    *)
(* node that reads it has been allocated.                                   *)
(*                                                                          *)
(* A graph is a sequence of tensors in the order of their creation, which   *)
(* is the order of evaluation.  A tensor is a record                        *)
(*   op      "INPUT": allocated and filled while the graph is built;        *)
(*           "WEIGHT": lives in another buffer;  "LEAF": filled by nobody,  *)
(*           allocated by the node that reads it;  else an operation;       *)
(*   src     its sources, earlier tensors;                                  *)
(*   view    the tensor it is a view of as built (never a view itself), or  *)
(*           None, and offs, the offset there;                              *)
(*   size    bytes, and layout: its shape and strides.                      *)
(***************************************************************************)
EXTENDS Integers, FiniteSets, SequencesExt

CONSTANTS Alignment,      \* of the buffers
          MaxFreeBlocks,  \* MAX_FREE_BLOCKS
          Unlimited,      \* size of a measure allocator's only block
          Plans           \* pairs: the graph measured, the graph evaluated

ASSUME AlignmentAssumption == Alignment \in Nat \ {0}
ASSUME LimitsAssumption == MaxFreeBlocks \in Nat \ {0} /\ Unlimited \in Nat
None == 0       \* no tensor
Null == -1      \* no address

\* Where tensor t of another buffer lies, far from the addresses from 0 on.
Far == 1000
Foreign(t) == -Far * t

\* What the constructors of ggml.c make sure of: sources are older tensors, and
\* one of a view's is what it is a view of, or another view of that; a view
\* lies within it; tensors of the same shape and strides have the same size.
WellFormed(g) ==
    /\ Len(g) \in Nat /\ DOMAIN g = 1 .. Len(g)
    /\ \A t \in DOMAIN g :
        /\ g[t].size \in Nat \ {0} /\ g[t].offs \in Nat
        /\ Len(g[t].src) \in Nat /\ DOMAIN g[t].src = 1 .. Len(g[t].src)
        /\ \A i \in DOMAIN g[t].src : g[t].src[i] \in 1 .. t - 1
        /\ g[t].op \in {"INPUT", "WEIGHT", "LEAF"} => g[t].src = << >> /\ g[t].view = None
        /\ g[t].op = "WEIGHT" => g[t].size < Far
        /\ g[t].op = "CPY" => 1 \in DOMAIN g[t].src
        /\ \/ g[t].view = None /\ g[t].offs = 0
           \/ /\ g[t].view \in 1 .. t - 1 /\ g[g[t].view].view = None
              /\ g[t].offs + g[t].size <= g[g[t].view].size
              /\ \E i \in DOMAIN g[t].src : g[t].view \in {g[t].src[i], g[g[t].src[i]].view}
    /\ \A t, u \in DOMAIN g : g[t].layout = g[u].layout => g[t].size = g[u].size

ASSUME PlansAssumption ==
    \A p \in Plans : DOMAIN p = 1 .. 2 /\ WellFormed(p[1]) /\ WellFormed(p[2])

VARIABLES
    plan,         \* the graphs of this run
    measuring,    \* the allocator is a measure allocator
    failed,       \* an assertion of the allocator has ended the process
    stage,        \* what is being done with the graph
    ind,          \* the tensor it is being done with
    k,            \* which of its sources (stages "parents" and "update")
    data,         \* per tensor: its address
    buffer,       \* per tensor: the buffer it is in
    view_src,     \* per tensor: the tensor whose memory it lies in
    n_children,   \* per tensor: nodes still to be allocated that read it
    n_views,      \* per tensor: views of it still in use
    free_blocks,  \* the free list
    max_size,     \* high-water mark
    size,         \* of the real buffer
    held,         \* history: <<address, size>> handed out and not taken back
    mem,          \* contents: address -> value
    ref           \* contents if no two tensors but declared views shared memory

graphs == <<plan, measuring, size>>
place  == <<stage, ind, k>>
memory == <<data, buffer, view_src>>
counts == <<n_children, n_views>>
space  == <<free_blocks, max_size, held>>
cells  == <<mem, ref>>
vars   == <<graphs, place, failed, memory, counts, space, cells>>

graph   == IF measuring THEN plan[1] ELSE plan[2]
Tensors == DOMAIN graph
op(t)   == graph[t].op
src(t)  == graph[t].src
IsNode(t) == op(t) \notin {"INPUT", "WEIGHT", "LEAF"}
Nodes   == {t \in Tensors : IsNode(t)}
Parents(t) == {src(t)[i] : i \in DOMAIN src(t)}

\* Where tensor t is read: the nodes, and the places among their sources.
Readings(t) ==
    UNION {{<<n, i>> : i \in {j \in DOMAIN src(n) : src(n)[j] = t}} : n \in Nodes}

\* The contents are values <<t, i>>: what tensor t has at its byte i.
Cells(t) == 0 .. graph[t].size - 1
RootCell(t, i) == IF graph[t].view = None THEN <<t, i>>
                  ELSE <<graph[t].view, graph[t].offs + i>>
Write(m, at, t) ==
    [a \in DOMAIN m \cup {at[i] : i \in Cells(t)} |->
        IF \E i \in Cells(t) : at[i] = a
          THEN <<t, CHOOSE i \in Cells(t) : at[i] = a>> ELSE m[a]]
WriteMem(m, t, addr) == Write(m, [i \in Cells(t) |-> addr + i], t)
WriteRef(m, t) == Write(m, [i \in Cells(t) |-> RootCell(t, i)], t)

-------------------------------------------------------------------------------
(* The tensor allocator: a list of free blocks. *)

Block(addr, bytes) == [addr |-> addr, size |-> bytes]
End(b) == b.addr + b.size

aligned(bytes) == ((bytes + Alignment - 1) \div Alignment) * Alignment

\* The best fitting block besides the last one (of equals the last), and the
\* last block as a last resort; None when there is not enough space.
BestFit(fb, bytes) ==
    LET fits == {i \in 1 .. Len(fb) - 1 : fb[i].size >= bytes}
        best == {i \in fits : \A j \in fits : fb[i].size <= fb[j].size}
    IN  IF best # {} THEN CHOOSE i \in best : \A j \in best : j <= i
        ELSE IF Len(fb) > 0 /\ fb[Len(fb)].size >= bytes THEN Len(fb)
        ELSE None

\* Memory is taken from the front of a block.
Take(fb, i, bytes) ==
    IF fb[i].size = bytes THEN RemoveAt(fb, i)
    ELSE ReplaceAt(fb, i, Block(fb[i].addr + bytes, fb[i].size - bytes))

\* Blocks that end at addr, or begin where the given block ends.
Touching(fb, addr, bytes) ==
    {i \in DOMAIN fb : End(fb[i]) = addr \/ addr + bytes = fb[i].addr}

\* Blocks i and i + 1 of fb become one if nothing lies between them.
Merge(fb, i) ==
    IF i \in 1 .. Len(fb) - 1 /\ End(fb[i]) = fb[i + 1].addr
      THEN RemoveAt(ReplaceAt(fb, i, Block(fb[i].addr, fb[i].size + fb[i + 1].size)), i + 1)
      ELSE fb

\* The first block that touches the memory given back grows, and is merged
\* with its neighbour; without one a block is inserted, in order.
GiveBack(fb, addr, bytes) ==
    LET near == Touching(fb, addr, bytes)
        i    == CHOOSE n \in near : \A m \in near : n <= m
        pos  == Cardinality({n \in DOMAIN fb : fb[n].addr < addr})
    IN  IF near = {} THEN InsertAt(fb, pos + 1, Block(addr, bytes))
        ELSE IF End(fb[i]) = addr
          THEN Merge(ReplaceAt(fb, i, Block(fb[i].addr, fb[i].size + bytes)), i)
          ELSE Merge(ReplaceAt(fb, i, Block(addr, fb[i].size + bytes)), i - 1)

-------------------------------------------------------------------------------
(* Allocating and freeing one tensor. *)

is_own(t) == buffer[t] = "own" /\ (view_src[t] = None \/ buffer[view_src[t]] = "own")

\* The allocator's assertions end the process.
Fail == failed' = TRUE /\ UNCHANGED <<data, buffer, space>>

\* Mutant: the high-water mark forgets the padding of the last tensor.
tallocr_alloc_unpadded(t) ==
    LET bytes == aligned(graph[t].size)
        i     == BestFit(free_blocks, bytes)
        addr  == free_blocks[i].addr
        top   == addr + graph[t].size
    IN  IF i = None THEN Fail
        ELSE /\ free_blocks' = Take(free_blocks, i, bytes)
             /\ data' = [data EXCEPT ![t] = addr]
             /\ buffer' = [buffer EXCEPT ![t] = "own"]
             /\ max_size' = IF top > max_size THEN top ELSE max_size
             /\ held' = held \cup {<<addr, bytes>>}
             /\ UNCHANGED failed

\* ggml_tallocr_alloc
tallocr_alloc(t) ==
    LET bytes == aligned(graph[t].size)
        i     == BestFit(free_blocks, bytes)
        addr  == free_blocks[i].addr
    IN  IF i = None THEN Fail
        ELSE /\ free_blocks' = Take(free_blocks, i, bytes)
             /\ data' = [data EXCEPT ![t] = addr]
             /\ buffer' = [buffer EXCEPT ![t] = "own"]
             /\ max_size' = IF addr + bytes > max_size THEN addr + bytes ELSE max_size
             /\ held' = held \cup {<<addr, bytes>>}
             /\ UNCHANGED failed

\* ggml_tallocr_free_tensor: tensors of other buffers are ignored.
tallocr_free(t) ==
    LET bytes == aligned(graph[t].size)
    IN  IF ~is_own(t) THEN UNCHANGED <<failed, data, buffer, space>>
        ELSE IF Touching(free_blocks, data[t], bytes) = {}
                /\ Len(free_blocks) >= MaxFreeBlocks THEN Fail
        ELSE /\ free_blocks' = GiveBack(free_blocks, data[t], bytes)
             /\ held' = {h \in held : h[1] # data[t]}
             /\ UNCHANGED <<failed, data, buffer, max_size>>

\* init_view: in the allocator's buffer, whatever buffer its memory is in.
init_view(t, vs) ==
    /\ data' = [data EXCEPT ![t] = data[vs] + graph[t].offs]
    /\ buffer' = [buffer EXCEPT ![t] = "own"]
    /\ UNCHANGED <<failed, space>>

can_inplace == {"SCALE", "DIAG_MASK_ZERO", "DIAG_MASK_INF", "ADD", "ADD1", "SUB", "MUL",
                "DIV", "SQR", "SQRT", "LOG", "UNARY", "ROPE", "RMS_NORM", "SOFT_MAX"}

\* Mutant: another reader still to come is overlooked.
ReusableUntilLast(t, p) ==
    /\ is_own(p)
    /\ data[p] # Null
    /\ n_views[p] = 0
    /\ graph[t].layout = graph[p].layout
    /\ view_src[p] # None => /\ n_views[view_src[p]] = 1 /\ n_children[view_src[p]] = 0
                             /\ data[view_src[p]] = data[p]

\* Node t may take over the memory of its source p: t is the last to read it,
\* and if p is a view, it is the only one, and begins where its memory begins.
Reusable(t, p) ==
    /\ is_own(p)
    /\ data[p] # Null
    /\ n_children[p] = 1 /\ n_views[p] = 0
    /\ graph[t].layout = graph[p].layout
    /\ view_src[p] # None => /\ n_views[view_src[p]] = 1 /\ n_children[view_src[p]] = 0
                             /\ data[view_src[p]] = data[p]

\* The source whose memory an in-place operation takes, the first that will do.
Reused(t) ==
    LET c == {i \in DOMAIN src(t) : Reusable(t, src(t)[i])}
    IN  IF op(t) \notin can_inplace \/ c = {} THEN None
        ELSE src(t)[CHOOSE i \in c : \A j \in c : i <= j]

\* allocate_node
allocate_node(t) ==
    IF data[t] # Null
      THEN UNCHANGED <<failed, data, buffer, view_src, n_views, space>>
    ELSE IF view_src[t] # None
      THEN init_view(t, view_src[t]) /\ UNCHANGED <<view_src, n_views>>
    ELSE IF Reused(t) # None
      THEN LET p  == Reused(t)
               vs == IF view_src[p] = None THEN p ELSE view_src[p]
           IN  /\ view_src' = [view_src EXCEPT ![t] = vs]
               /\ n_views' = [n_views EXCEPT ![vs] = @ + 1]
               /\ init_view(t, vs)
      ELSE tallocr_alloc(t) /\ UNCHANGED <<view_src, n_views>>

-------------------------------------------------------------------------------
(* One graph: built, counted, allocated node by node, computed. *)

\* A graph just built: only weights, and views of them, have an address.
BuiltData(g) ==
    [t \in DOMAIN g |->
        IF g[t].op = "WEIGHT" THEN Foreign(t)
        ELSE IF g[t].view # None /\ g[g[t].view].op = "WEIGHT"
          THEN Foreign(g[t].view) + g[t].offs ELSE Null]
BuiltBuffer(g) == [t \in DOMAIN g |-> IF g[t].op = "WEIGHT" THEN "other" ELSE "none"]
NoCount(g) == [t \in DOMAIN g |-> 0]

\* What the weights hold when a graph is evaluated.
WeightCells(g) ==
    UNION {{<<t, i>> : i \in 0 .. g[t].size - 1} : t \in {u \in DOMAIN g : g[u].op = "WEIGHT"}}
WeightMem(g) == [a \in {Foreign(c[1]) + c[2] : c \in WeightCells(g)} |->
                    CHOOSE c \in WeightCells(g) : Foreign(c[1]) + c[2] = a]
WeightRef(g) == [c \in WeightCells(g) |-> c]

\* The first node from tensor i on, or one past the end.
NodeFrom(i) == IF \E n \in Nodes : n >= i
                 THEN CHOOSE n \in Nodes : n >= i /\ \A m \in Nodes : m >= i => n <= m
                 ELSE Len(graph) + 1

\* whisper_allocr_graph_init: a measure allocator, and the worst-case graph.
Init ==
    /\ plan \in Plans
    /\ measuring = TRUE
    /\ stage = "inputs" /\ ind = 1 /\ k = 1
    /\ failed = FALSE
    /\ data = BuiltData(plan[1])
    /\ buffer = BuiltBuffer(plan[1])
    /\ view_src = [t \in DOMAIN plan[1] |-> plan[1][t].view]
    /\ n_children = NoCount(plan[1])
    /\ n_views = NoCount(plan[1])
    /\ free_blocks = <<Block(0, Unlimited)>>
    /\ max_size = 0
    /\ size = 0
    /\ held = {}
    /\ mem = << >>
    /\ ref = << >>

\* ggml_allocr_alloc for the inputs, in order; a real one is filled at once.
AllocInput ==
    /\ stage = "inputs" /\ ind \in Tensors
    /\ IF op(ind) = "INPUT"
         THEN /\ tallocr_alloc(ind)
              /\ IF measuring \/ failed' THEN UNCHANGED cells
                 ELSE /\ mem' = WriteMem(mem, ind, data'[ind])
                      /\ ref' = WriteRef(ref, ind)
         ELSE UNCHANGED <<failed, data, buffer, space, cells>>
    /\ ind' = ind + 1
    /\ UNCHANGED <<graphs, stage, k, view_src, counts>>

\* The first loop of ggml_tallocr_alloc_graph_impl.  A view of an input got its
\* address when it was built, and is initialised here like a view of a weight.
Count ==
    /\ stage = "inputs" /\ ind \notin Tensors
    /\ n_children' = [t \in Tensors |-> Cardinality(Readings(t))]
    /\ n_views' = [t \in Tensors |-> Cardinality({n \in Nodes : view_src[n] = t})]
    /\ LET preset == {t \in Nodes : view_src[t] # None /\ data[view_src[t]] # Null}
       IN  /\ data' = [t \in Tensors |->
                IF t \in preset THEN data[view_src[t]] + graph[t].offs ELSE data[t]]
           /\ buffer' = [t \in Tensors |-> IF t \in preset THEN "own" ELSE buffer[t]]
    /\ stage' = "allocate" /\ ind' = NodeFrom(1) /\ k' = 1
    /\ UNCHANGED <<graphs, failed, view_src, space, cells>>

\* Node ind: first the sources that have no memory yet (leafs), then itself.
Allocate ==
    /\ stage = "allocate" /\ ind \in Nodes
    /\ IF k \in DOMAIN src(ind)
         THEN allocate_node(src(ind)[k]) /\ k' = k + 1 /\ UNCHANGED stage
         ELSE allocate_node(ind) /\ k' = 1 /\ stage' = "update"
    /\ UNCHANGED <<graphs, ind, n_children, cells>>

\* Then node ind has no more need of its sources: whatever nobody reads any
\* more, and no view in use lies in, is freed.
Update ==
    /\ stage = "update" /\ k \in DOMAIN src(ind)
    /\ LET p     == src(ind)[k]
           last  == n_children[p] = 1 /\ n_views[p] = 0
           vs    == view_src[p]
       IN  /\ n_children' = [n_children EXCEPT ![p] = @ - 1]
           /\ n_views' = IF last /\ vs # None THEN [n_views EXCEPT ![vs] = @ - 1] ELSE n_views
           /\ IF ~last THEN UNCHANGED <<failed, data, buffer, space>>
              ELSE IF vs = None THEN tallocr_free(p)
              ELSE IF n_views'[vs] = 0 /\ n_children'[vs] = 0 THEN tallocr_free(vs)
              ELSE UNCHANGED <<failed, data, buffer, space>>
    /\ k' = k + 1
    /\ UNCHANGED <<graphs, stage, ind, view_src, cells>>

NextNode ==
    /\ stage = "update" /\ k \notin DOMAIN src(ind)
    /\ stage' = "allocate" /\ ind' = NodeFrom(ind + 1) /\ k' = 1
    /\ UNCHANGED <<graphs, failed, memory, counts, space, cells>>

\* whisper_allocr_graph_realloc: the buffer gets the measured size.
Realloc ==
    /\ measuring /\ stage = "allocate" /\ ind \notin Tensors
    /\ size' = max_size /\ max_size' = 0
    /\ measuring' = FALSE
    /\ stage' = "ready" /\ ind' = 1
    /\ UNCHANGED <<plan, k, failed, memory, counts, free_blocks, held, cells>>

\* The next inference: ggml_allocr_reset, and the graph is built anew.  What the
\* last one left in the buffer may be anything.
Build ==
    /\ stage \in {"ready", "done"}
    /\ free_blocks' = <<Block(0, size)>>
    /\ held' = {}
    /\ data' = BuiltData(plan[2])
    /\ buffer' = BuiltBuffer(plan[2])
    /\ view_src' = [t \in DOMAIN plan[2] |-> plan[2][t].view]
    /\ n_children' = NoCount(plan[2])
    /\ n_views' = NoCount(plan[2])
    /\ mem' = WeightMem(plan[2])
    /\ ref' = WeightRef(plan[2])
    /\ stage' = "inputs" /\ ind' = 1
    /\ UNCHANGED <<graphs, k, failed, max_size>>

Start ==
    /\ ~measuring /\ stage = "allocate" /\ ind \notin Tensors
    /\ stage' = "compute" /\ ind' = NodeFrom(1)
    /\ UNCHANGED <<graphs, k, failed, memory, counts, space, cells>>

\* ggml_graph_compute, one node: it reads its sources and writes itself, but a
\* view (VIEW, RESHAPE, PERMUTE, TRANSPOSE) writes nothing.
ViewOps == {"VIEW", "RESHAPE", "PERMUTE", "TRANSPOSE"}
Compute ==
    /\ stage = "compute" /\ ind \in Nodes
    /\ IF op(ind) \in ViewOps THEN UNCHANGED cells
       ELSE /\ mem' = WriteMem(mem, ind, data[ind])
            /\ ref' = WriteRef(ref, ind)
    /\ ind' = NodeFrom(ind + 1)
    /\ UNCHANGED <<graphs, stage, k, failed, memory, counts, space>>

Finish ==
    /\ stage = "compute" /\ ind \notin Tensors
    /\ stage' = "done"
    /\ UNCHANGED <<graphs, ind, k, failed, memory, counts, space, cells>>

Next == ~failed /\ (\/ AllocInput \/ Count \/ Allocate \/ Update \/ NextNode
                    \/ Realloc \/ Build \/ Start \/ Compute \/ Finish)

Spec == Init /\ [][Next]_vars

-------------------------------------------------------------------------------
(* Properties. *)

Stages == {"inputs", "allocate", "update", "ready", "compute", "done"}
Buffers == {"none", "own", "other"}

\* Types of the variables.
TypeOK ==
    /\ measuring \in BOOLEAN /\ failed \in BOOLEAN
    /\ stage \in Stages /\ ind \in Nat /\ k \in Nat
    /\ stage # "ready" => /\ data \in [Tensors -> Int]
                          /\ buffer \in [Tensors -> Buffers]
                          /\ view_src \in [Tensors -> Tensors \cup {None}]
                          /\ n_children \in [Tensors -> Nat]
                          /\ n_views \in [Tensors -> Nat]
    /\ free_blocks \in Seq([addr : Nat, size : Nat])
    /\ max_size \in Nat /\ size \in Nat
    /\ held \subseteq Nat \X Nat

\* Tensor t still holds what it would hold had every tensor memory of its own.
Intact(t) ==
    \A i \in Cells(t) : RootCell(t, i) \in DOMAIN ref =>
        /\ data[t] + i \in DOMAIN mem
        /\ mem[data[t] + i] = ref[RootCell(t, i)]

\* What is read of the sources by a kernel: the target of a copy is not.
Reads(t) == IF op(t) \in ViewOps THEN {} ELSE IF op(t) = "CPY" THEN {src(t)[1]} ELSE Parents(t)

\* Sharing memory changes no result: a node finds in its sources what they
\* were computed to be, however their memory was taken over, handed on and
\* reused since; and when the graph has been evaluated, the results (what no
\* node reads) and the weights are as they should be.
SharingIsInvisible ==
    /\ stage = "compute" /\ ind \in Nodes => \A s \in Reads(ind) : Intact(s)
    /\ stage = "done" => \A t \in Tensors :
           (op(t) = "WEIGHT" \/ \A n \in Nodes : t \notin Parents(n)) => Intact(t)

\* Extents <<address, size>> of the free list.
Free == {<<free_blocks[i].addr, free_blocks[i].size>> : i \in DOMAIN free_blocks}

\* No memory is both free and handed out, or handed out or freed twice; the
\* free list is in order, and no two of its blocks could have been merged.
FreeListSound ==
    /\ \A i \in 1 .. Len(free_blocks) - 1 : End(free_blocks[i]) < free_blocks[i + 1].addr
    /\ \A h \in held : \A e \in (held \ {h}) \cup Free :
           h[1] + h[2] <= e[1] \/ e[1] + e[2] <= h[1]

\* Memory is shared soundly: by the free list's account, and by what is read.
SharedSoundly == TypeOK /\ SharingIsInvisible /\ FreeListSound

\* A graph that was measured fits: the assertions "not enough space in the
\* buffer" and "out of free blocks" never end the process.
MeasuredFits == ~failed
================================================================================

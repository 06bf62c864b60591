------------------------------- MODULE GgmlCompute -------------------------------
(***************************************************************************)
(* ggml_graph_compute: n_threads threads evaluate the nodes of a graph in  *)
(* order, with no lock and no barrier but two counters, n_active and       *)
(* node_n.  A thread that finished its share of a node decrements          *)
(* n_active; the one that brings it to zero finalises the node, runs the   *)
(* nodes that need a single thread by itself, prepares the next node that  *)
(* several threads share, restores n_active and publishes that node's      *)
(* number in node_n, for which the others have been spinning.              *)
(*                                                                         *)
(* A kernel call takes two steps: entering it (the pc names it) and its    *)
(* effect, so that the calls of different threads overlap.                 *)
(***************************************************************************)
EXTENDS GgmlKernels, Sequences

CONSTANTS MaxThreads,   \* bound on the number of threads
          MaxNodes,     \* bound on the length of a graph
          Graphs        \* the graphs a call may be given: sequences of tensors

ASSUME ThreadsAssumption == MaxThreads \in Nat \ {0} /\ MaxNodes \in Nat
ASSUME GraphsAssumption == \A g \in Graphs : g \in Seq(Tensors) /\ Len(g) \in 1 .. MaxNodes

VARIABLES
    cgraph,         \* the graph
    n_threads,      \* threads of this call, the caller's included
    n_active,       \* shared: threads still busy with the current node
    node_n,         \* shared: the node published last
    pc,             \* per thread: where it is
    my_node,        \* per thread: the local variable node_n
    status,         \* per thread: its exit status
    compute_status, \* what the call returned, "none" before that
    aborting,       \* abort_callback answers true (and keeps doing so)
    inited,         \* nodes whose INIT pass ran
    finalized,      \* nodes whose FINALIZE pass ran
    written,        \* per node: how often each unit was written (2 = more)
    wdata           \* the node the work buffer was prepared for, or Scratch

shared == <<n_active, node_n>>
passes == <<inited, finalized, written, wdata>>
fixed  == <<cgraph, n_threads>>
vars   == <<fixed, shared, pc, my_node, status, compute_status, aborting, passes>>

Threads == 0 .. n_threads - 1
n_nodes == Len(cgraph)
Nodes   == 0 .. n_nodes - 1
Node(k) == cgraph[k + 1]
Tasks(k) == get_n_tasks(Node(k), n_threads)
Scratch == -1   \* nobody's preparation is left in the work buffer

Init ==
    /\ cgraph \in Graphs
    /\ n_threads \in 1 .. MaxThreads
    /\ n_active = n_threads
    /\ node_n = -1
    /\ pc = [t \in Threads |-> "check"]
    /\ my_node = [t \in Threads |-> -1]
    /\ status = [t \in Threads |-> "running"]
    /\ compute_status = "none"
    /\ aborting = FALSE
    /\ inited = {}
    /\ finalized = {}
    /\ written = [k \in Nodes |-> [u \in Units(Node(k)) |-> 0]]
    /\ wdata = Scratch

Goto(t, label) == pc' = [pc EXCEPT ![t] = label]

-------------------------------------------------------------------------------
(* The passes of a kernel. *)

Exit(t, s) ==
    /\ status' = [status EXCEPT ![t] = s]
    /\ Goto(t, "done")

\* The INIT pass of node k, by one thread.
RunInit(k) ==
    /\ inited' = inited \cup {k}
    /\ written' = IF InitFillsDst(Node(k))
                    THEN [written EXCEPT ![k] = [u \in Units(Node(k)) |-> 0]]
                    ELSE written
    /\ wdata' = IF PreparesWork(Node(k)) THEN k ELSE wdata
    /\ UNCHANGED finalized

\* The COMPUTE pass of node k, as thread ith of nth.
RunCompute(k, ith, nth) ==
    /\ written' = [written EXCEPT ![k] =
            [u \in Units(Node(k)) |->
                IF u \in compute_forward(ith, nth, Node(k))
                  THEN MIN(@[u] + 1, 2) ELSE @[u]]]
    /\ wdata' = IF Slice(ith, nth, Node(k)) # <<0, 0>> /\ wdata # k
                  THEN Scratch ELSE wdata
    /\ UNCHANGED <<inited, finalized>>

RunFinalize(k) ==
    /\ finalized' = finalized \cup {k}
    /\ UNCHANGED <<inited, written, wdata>>

-------------------------------------------------------------------------------
(* One thread: ggml_graph_compute_thread. *)

\* The top of the loop: an aborted thread publishes the next node, so that the
\* ones that spin wake up, and leaves without having decremented n_active.
Check(t) ==
    /\ pc[t] = "check"
    /\ IF aborting
         THEN /\ node_n' = node_n + 1
              /\ Exit(t, "aborted")
         ELSE /\ Goto(t, "arrive")
              /\ UNCHANGED <<node_n, status>>
    /\ UNCHANGED <<fixed, n_active, my_node, compute_status, aborting, passes>>

\* atomic_fetch_sub(n_active, 1): the last one to arrive carries on alone.
Arrive(t) ==
    /\ pc[t] = "arrive"
    /\ n_active' = n_active - 1
    /\ IF n_active # 1 THEN Goto(t, "spin")
       ELSE IF my_node[t] # -1 /\ Node(my_node[t]).op \in HAS_FINALIZE
              THEN Goto(t, "finalize")
              ELSE Goto(t, "distribute")
    /\ UNCHANGED <<fixed, node_n, my_node, status, compute_status, aborting, passes>>

Finalize(t) ==
    /\ pc[t] = "finalize"
    /\ RunFinalize(my_node[t])
    /\ Goto(t, "distribute")
    /\ UNCHANGED <<fixed, shared, my_node, status, compute_status, aborting>>

\* Where the last thread goes once node k is initialised: a node for one task
\* it computes at once, any other it publishes.
AfterInit(k) == IF Tasks(k) = 1 THEN "solo" ELSE "restore"

\* while (++node_n < n_nodes) ...
Distribute(t) ==
    /\ pc[t] = "distribute"
    /\ LET k == my_node[t] + 1
       IN  /\ my_node' = [my_node EXCEPT ![t] = k]
           /\ Goto(t, IF k >= n_nodes THEN "restore"
                      ELSE IF Node(k).op \in HAS_INIT THEN "init"
                      ELSE AfterInit(k))
    /\ UNCHANGED <<fixed, shared, status, compute_status, aborting, passes>>

InitPass(t) ==
    /\ pc[t] = "init"
    /\ RunInit(my_node[t])
    /\ Goto(t, AfterInit(my_node[t]))
    /\ UNCHANGED <<fixed, shared, my_node, status, compute_status, aborting>>

Solo(t) ==
    /\ pc[t] = "solo"
    /\ RunCompute(my_node[t], 0, 1)
    /\ Goto(t, IF Node(my_node[t]).op \in HAS_FINALIZE
                 THEN "soloFinalize" ELSE "soloCheck")
    /\ UNCHANGED <<fixed, shared, my_node, status, compute_status, aborting>>

SoloFinalize(t) ==
    /\ pc[t] = "soloFinalize"
    /\ RunFinalize(my_node[t])
    /\ Goto(t, "soloCheck")
    /\ UNCHANGED <<fixed, shared, my_node, status, compute_status, aborting>>

\* Between two nodes computed alone the callback is asked again; a yes leaves
\* the loop with node_n at the node just computed.
SoloCheck(t) ==
    /\ pc[t] = "soloCheck"
    /\ Goto(t, IF aborting THEN "restore" ELSE "distribute")
    /\ UNCHANGED <<fixed, shared, my_node, status, compute_status, aborting, passes>>

\* Mutant: the last thread does not count itself among the threads.
RestoreTheOthers(t) ==
    /\ pc[t] = "restore"
    /\ n_active' = n_threads - 1
    /\ Goto(t, "publish")
    /\ UNCHANGED <<fixed, node_n, my_node, status, compute_status, aborting, passes>>

\* atomic_store(n_active, n_threads), and only then atomic_store(node_n, ...).
RestoreActive(t) ==
    /\ pc[t] = "restore"
    /\ n_active' = n_threads
    /\ Goto(t, "publish")
    /\ UNCHANGED <<fixed, node_n, my_node, status, compute_status, aborting, passes>>

Publish(t) ==
    /\ pc[t] = "publish"
    /\ node_n' = my_node[t]
    /\ Goto(t, "go")
    /\ UNCHANGED <<fixed, n_active, my_node, status, compute_status, aborting, passes>>

\* The others spin until node_n moves.
Spin(t) ==
    /\ pc[t] = "spin"
    /\ node_n # my_node[t]
    /\ my_node' = [my_node EXCEPT ![t] = node_n]
    /\ Goto(t, "go")
    /\ UNCHANGED <<fixed, shared, status, compute_status, aborting, passes>>

Go(t) ==
    /\ pc[t] = "go"
    /\ IF my_node[t] >= n_nodes
         THEN Exit(t, "success")
         ELSE /\ Goto(t, IF t < Tasks(my_node[t]) THEN "compute" ELSE "check")
              /\ UNCHANGED status
    /\ UNCHANGED <<fixed, shared, my_node, compute_status, aborting, passes>>

Compute(t) ==
    /\ pc[t] = "compute"
    /\ RunCompute(my_node[t], t, Tasks(my_node[t]))
    /\ Goto(t, "check")
    /\ UNCHANGED <<fixed, shared, my_node, status, compute_status, aborting>>

Thread(t) ==
    \/ Check(t) \/ Arrive(t) \/ Finalize(t) \/ Distribute(t) \/ InitPass(t)
    \/ Solo(t) \/ SoloFinalize(t) \/ SoloCheck(t) \/ RestoreActive(t)
    \/ Publish(t) \/ Spin(t) \/ Go(t) \/ Compute(t)

-------------------------------------------------------------------------------
(* The caller. *)

\* The caller's own thread is worker 0; it then joins the others and returns
\* the status of worker 0.
Join ==
    /\ compute_status = "none"
    /\ \A t \in Threads : pc[t] = "done"
    /\ compute_status' = status[0]
    /\ UNCHANGED <<fixed, shared, pc, my_node, status, aborting, passes>>

\* The abort callback starts to answer true, at any time.
Abort ==
    /\ ~aborting
    /\ compute_status = "none"
    /\ aborting' = TRUE
    /\ UNCHANGED <<fixed, shared, pc, my_node, status, compute_status, passes>>

\* Nothing is left to do once the call has returned.
Returned == compute_status # "none" /\ UNCHANGED vars

Next == (\E t \in Threads : Thread(t)) \/ Join \/ Abort \/ Returned

\* Every thread that can move is scheduled, and so is the caller.
Fairness ==
    /\ \A t \in 0 .. MaxThreads - 1 : WF_vars(t \in Threads /\ Thread(t))
    /\ WF_vars(Join)

Spec == Init /\ [][Next]_vars /\ Fairness

-------------------------------------------------------------------------------
(* Properties. *)

Labels == {"check", "arrive", "spin", "finalize", "distribute", "init", "solo",
           "soloFinalize", "soloCheck", "restore", "publish", "go", "compute",
           "done"}
Statuses == {"running", "success", "aborted"}

\* Types of the variables.
TypeOK ==
    /\ cgraph \in Graphs
    /\ n_threads \in 1 .. MaxThreads
    /\ n_active \in 0 .. n_threads
    /\ node_n \in -1 .. n_nodes + n_threads
    /\ pc \in [Threads -> Labels]
    /\ my_node \in [Threads -> -1 .. n_nodes + n_threads]
    /\ status \in [Threads -> Statuses]
    /\ compute_status \in {"none", "success", "aborted"}
    /\ aborting \in BOOLEAN
    /\ inited \subseteq Nodes
    /\ finalized \subseteq Nodes
    /\ \A k \in Nodes : written[k] \in [Units(Node(k)) -> 0 .. 2]
    /\ wdata \in Nodes \cup {Scratch}

\* The value of node k is in place.
Computed(k) ==
    /\ \A u \in Units(Node(k)) : written[k][u] > 0
    /\ Node(k).op \in HAS_INIT => k \in inited
    /\ Node(k).op \in HAS_FINALIZE => k \in finalized

InKernel == {t \in Threads :
                pc[t] \in {"finalize", "init", "solo", "soloFinalize", "compute"}}

\* A thread inside a kernel of node k finds every earlier node computed and k
\* itself initialised.
SourcesReady ==
    \A t \in InKernel :
        /\ \A j \in 0 .. my_node[t] - 1 : Computed(j)
        /\ Node(my_node[t]).op \in HAS_INIT /\ pc[t] # "init" =>
               my_node[t] \in inited

\* Two threads are inside kernels at once only in the COMPUTE pass of one node
\* that both take part in.
PassesExclusive ==
    \A s, t \in InKernel : s # t =>
        pc[s] = "compute" /\ pc[t] = "compute" /\ my_node[s] = my_node[t]

\* No unit of any tensor is written twice: a row handed to two threads, or a
\* node computed twice, would apply an in-place operation twice.
WrittenOnce == \A k \in Nodes : \A u \in Units(Node(k)) : written[k][u] <= 1

\* While nobody aborts, a kernel always reads finished inputs and no two
\* threads are ever in each other's way: the hand-over through n_active and
\* node_n alone keeps the passes of all nodes apart.
NodesInOrder == ~aborting => SourcesReady /\ PassesExclusive /\ WrittenOnce

\* The work buffer as ggml_graph_plan sizes it: the largest need of any node,
\* and a cache line for each thread after the first.
wsize == LET cur == {work_size(Node(k), n_threads) : k \in Nodes}
             max == CHOOSE m \in cur : \A c \in cur : c <= m
         IN  IF max > 0 THEN max + CACHE_LINE_SIZE_F32 * (n_threads - 1) ELSE 0

\* The task a thread in a kernel works as.
MySlice(t) == IF pc[t] = "compute" THEN Slice(t, Tasks(my_node[t]), Node(my_node[t]))
              ELSE Slice(0, 1, Node(my_node[t]))

\* One buffer serves all nodes and threads.  What the INIT pass put there is
\* still there when a thread computes from it, and the scratch areas of threads
\* that compute together neither overlap nor leave the buffer.
WorkBufferKept ==
    ~aborting =>
        \A t \in InKernel : pc[t] \in {"solo", "compute"} =>
            /\ PreparesWork(Node(my_node[t])) => wdata = my_node[t]
            /\ MySlice(t)[2] <= wsize
            /\ \A s \in InKernel \ {t} :
                   MySlice(s)[2] <= MySlice(t)[1] \/ MySlice(t)[2] <= MySlice(s)[1]
                   \/ MySlice(s) = <<0, 0>>

\* What every thread in a kernel relies on: its inputs, its rows and its scratch area.
KernelsUndisturbed == TypeOK /\ NodesInOrder /\ WorkBufferKept

\* The call is an evaluation of the graph in order: it computes every node
\* after the nodes before it, it returns, and it returns with all of them
\* computed unless it was aborted.
Order == INSTANCE GraphOrder WITH
            computed <- {k \in Nodes : Computed(k)},
            aborted  <- aborting,
            returned <- compute_status # "none"
Implements == Order!Spec
================================================================================

------------------------------ MODULE WhisperLoad ------------------------------
(***************************************************************************)
(* A speech model is loaded from a file, given a state, and freed          *)
(* (whisper_init_from_file_with_params, whisper_free of whisper.cpp).      *)
(* Everything happens on one thread; what can go wrong is the file, which  *)
(* may be cut off anywhere, and the process's pool of tensor contexts.     *)
(***************************************************************************)
EXTENDS Integers, Sequences, FiniteSets

CONSTANTS
    Names,          \* names of a model's weights
    Files,          \* model files, see below
    MaxContexts,    \* GGML_MAX_CONTEXTS (64)
    MaxLoads        \* bound of the exploration

VARIABLES
    ctx,            \* whisper_context: life ("null", "live", or "dead", the whole
                    \* process), weights (which are there) and the file
    state,          \* ctx->state: "null" or "live"
    held,           \* what the two own
    contexts,       \* contexts of the pool in use
    lost,           \* of these, the ones no pointer reaches any more
    loads           \* files tried so far

files == <<ctx, state, held, contexts, lost, loads>>

ModelParts == {"model.ctx", "model.buffer", "backend"}
StateParts == {"kv_self", "kv_cross", "batch", "alloc_conv", "alloc_encode", "alloc_cross", "alloc_decode",
               "state backend"}
Pools(parts) == Cardinality(parts \cap {"model.ctx", "kv_self", "kv_cross"})

----------------------------------------------------------------------------
\* A file: magic and ftype are right; recs, its weights [name, fits] in order,
\* fits when the shape and the bytes are those the model has; and where it was
\* cut off: not at all ("none"), in the vocabulary ("vocab"), or in the header,
\* the name or the data of weight number at.
\* The header is read first: the magic number, the sizes, the weights' type.
Understood(f) == f.magic /\ f.ftype

\* The weights that are found, the last maybe not whole: nobody asks how much
\* of it could be read.
Seen(f) ==
    CASE f.cut = "none"               -> f.recs
      [] f.cut = "vocab"              -> <<>>
      [] f.cut = "header"             -> SubSeq(f.recs, 1, f.at - 1)
      [] f.cut \in {"name", "data"}   -> SubSeq(f.recs, 1, f.at)
Refused(f) ==
    \/ \E i \in DOMAIN Seen(f) : Seen(f)[i].name \notin Names \/ ~Seen(f)[i].fits
    \/ f.cut = "name"
\* All of them, or none at all: a model for testing.
Counted(f) == Len(Seen(f)) \in {0, Cardinality(Names)}
Weights(f) ==
    [w \in Names |->
        LET at == {i \in DOMAIN Seen(f) : Seen(f)[i].name = w}
        IN  IF at = {} THEN "no" ELSE IF f.cut = "data" /\ f.at \in at THEN "torn" ELSE "whole"]

\* A model has finitely many weights, and the pool some contexts.  What writes
\* model files gives no name twice, and a file that is cut off in a weight has
\* that weight.
ASSUME ModelAssumption == IsFiniteSet(Names) /\ MaxContexts \in Nat
ASSUME FilesAssumption ==
    \A f \in Files :
        /\ f.recs \in Seq({f.recs[k] : k \in DOMAIN f.recs})
        /\ \A j, k \in DOMAIN f.recs : f.recs[j].name = f.recs[k].name => j = k
        /\ f.cut \in {"none", "vocab", "header", "name", "data"}
        /\ f.cut \in {"header", "name", "data"} => f.at \in DOMAIN f.recs

NoFile == [magic |-> FALSE, ftype |-> FALSE, recs |-> <<>>, cut |-> "none", at |-> 0]
LoadInit ==
    /\ ctx = [life |-> "null", weights |-> [w \in Names |-> "no"], file |-> NoFile]
    /\ state = "null" /\ held = {} /\ contexts = 0 /\ lost = 0 /\ loads = 0

\* whisper_model_load in whisper_init_with_params_no_state: when it fails the
\* context is deleted, and with it the pointers to what was made until then.
Deleted(made) ==
    /\ contexts' = contexts + made /\ lost' = lost + made
    /\ UNCHANGED <<ctx, held>>
Load(f) ==
    /\ ctx.life = "null" /\ loads < MaxLoads
    /\ loads' = loads + 1
    /\ IF ~Understood(f) \/ contexts = MaxContexts THEN Deleted(0)
       ELSE IF Refused(f) \/ ~Counted(f) THEN Deleted(1)
       ELSE /\ ctx' = [life |-> "live", weights |-> Weights(f), file |-> f]
            /\ held' = ModelParts
            /\ contexts' = contexts + 1
            /\ UNCHANGED lost
    /\ UNCHANGED state

\* whisper_free, and whisper_free_state if there is a state
\* Mutant: the cross-attention cache is forgotten.
FreedButCross == held \ (ModelParts \cup (IF state = "live" THEN StateParts \ {"kv_cross"} ELSE {}))
Freed == held \ (ModelParts \cup (IF state = "live" THEN StateParts ELSE {}))

\* whisper_init_state once the model is loaded: two caches, then a graph of
\* each kind, built in a context of its own to measure its buffer.  A cache
\* that finds no context in the pool is an error, and whisper_free follows; a
\* graph that finds none is not expected.
InitState ==
    /\ ctx.life = "live" /\ state = "null"
    /\ CASE contexts + 2 > MaxContexts ->
            LET made == MaxContexts - contexts              \* kv_self, if only kv_cross failed
            IN  /\ ctx' = [ctx EXCEPT !.life = "null"]
                /\ held' = Freed
                /\ contexts' = contexts + made - Pools(held)
                /\ lost' = lost + made
                /\ UNCHANGED state
         [] contexts + 2 = MaxContexts ->
            /\ ctx' = [ctx EXCEPT !.life = "dead"]
            /\ UNCHANGED <<state, held, contexts, lost>>
         [] OTHER ->
            /\ state' = "live"
            /\ held' = held \cup StateParts
            /\ contexts' = contexts + 2
            /\ UNCHANGED <<ctx, lost>>
    /\ UNCHANGED loads

FreeModel ==
    /\ ctx.life = "live" /\ state = "live"
    /\ ctx' = [ctx EXCEPT !.life = "null"]
    /\ state' = "null"
    /\ held' = Freed
    /\ contexts' = contexts - Pools(held \ Freed)
    /\ UNCHANGED <<lost, loads>>

LoadNext == (\E f \in Files : Load(f)) \/ InitState \/ FreeModel
LoadSpec == LoadInit /\ [][LoadNext]_files

----------------------------------------------------------------------------
\* A model that is handed out has every weight there is, or none at all; only
\* the last of them in the file may be incomplete, when the file was cut off
\* inside it.
LoadedWhole ==
    ctx.life = "live" =>
        \/ \A w \in Names : ctx.weights[w] = "no"
        \/ /\ \A w \in Names : ctx.weights[w] # "no"
           /\ \A w \in Names : ctx.weights[w] = "torn" => ctx.file.recs[Cardinality(Names)].name = w

\* What is freed is freed wholly: without a model nothing is held, and the
\* pool has lost only what failed loads and failed states left behind, which
\* is never a model that worked.
NothingLeft ==
    /\ ctx.life = "null" => held = {} /\ contexts = lost
    /\ state = "live" => ctx.life = "live" /\ held = ModelParts \cup StateParts
    /\ contexts = lost + Pools(held)
    /\ contexts <= MaxContexts

\* Loads and frees, whatever the files: a model is whole, and without one nothing is kept.
ModelKept == LoadedWhole /\ NothingLeft
=============================================================================

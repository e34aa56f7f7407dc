---------------------------- MODULE ModelReplicas ---------------------------
(***************************************************************************)
(* The replicas of TranslationModel under AsyncService: each worker loads  *)
(* its own replica from one shared image of the model file, the worker     *)
(* that loads last frees the image, and whoever drops the last reference   *)
(* to a model frees the weights of all its replicas.                       *)
(*                                                                         *)
(* Each worker also keeps a cache of packed weights that is keyed by the   *)
(* address of the weights.  Freed addresses are used again, so a cached    *)
(* entry may be another model's; a counter of destroyed models, read with  *)
(* relaxed ordering before each multiplication, is what tells the worker.  *)
(*                                                                         *)
(* A relaxed load may return an old value.  view[t] is the oldest value    *)
(* thread t may still read: it grows when t reads or increments the        *)
(* counter, and when t is handed an address that another thread freed.     *)
(* No other synchronisation is assumed, so what holds here needs no more.  *)
(***************************************************************************)
EXTENDS Integers, FiniteSets

CONSTANTS
    Workers,           \* one replica of each model per worker
    Clients,           \* threads that release models
    Models,            \* TranslationModel objects
    Addresses,         \* where the weights of a replica can be
    None

ASSUME ReplicasAssumption ==
    /\ IsFiniteSet(Workers) /\ Workers # {}
    /\ Workers \cap Clients = {}
    /\ "handle" \notin Workers /\ "pool" \notin Workers
    /\ None \notin Models
    /\ None \notin Addresses

Threads == Workers \cup Clients

(* Who owns a model besides the workers: the client's handle, and the      *)
(* pending requests, with the pool's queue of models.                      *)
Handle == "handle"
Pool == "pool"

VARIABLES
    owners,            \* owners of each model; a model without any is dead
    born,              \* the models created so far
    memory,            \* modelMemory_ is set
    loaded,            \* backendsLoaded_
    initialized,       \* the workers whose replica is initialized
    home,              \* address of each replica's weights
    at,                \* where each thread is
    on,                \* the model it is at
    pin,               \* the worker's loadBackend() found the image
    generation,        \* prepackGeneration
    view,              \* the oldest value of it a thread may read
    freed,             \* view of the thread that freed an address last
    seen,              \* seenGeneration of each worker
    cache              \* whose packed weights a worker has for an address

refvars == <<owners, born>>
imagevars == <<memory, loaded, initialized, pin>>
guardvars == <<generation, view, freed, seen, cache>>
vars == <<refvars, imagevars, home, at, on, guardvars>>

Places == {"idle", "translate", "load", "build", "count", "release",
           "return", "guard", "multiply", "drop", "bump", "free"}

Larger(a, b) == IF a < b THEN b ELSE a

Goto(t, place) == at' = [at EXCEPT ![t] = place]
Enter(t, place, m) == Goto(t, place) /\ on' = [on EXCEPT ![t] = m]

-----------------------------------------------------------------------------
(* References.                                                             *)

Create(m) ==
    /\ m \notin born
    /\ born' = born \cup {m}
    /\ owners' = [owners EXCEPT ![m] = {Handle}]
    /\ UNCHANGED <<imagevars, home, at, on, guardvars>>

(* The client translates with a model it holds.                            *)
Enqueue(m) ==
    /\ Handle \in owners[m] /\ Pool \notin owners[m]
    /\ owners' = [owners EXCEPT ![m] = @ \cup {Pool}]
    /\ UNCHANGED <<born, imagevars, home, at, on, guardvars>>

(* Mutant: the worker uses the model it found without a reference.         *)
DrawBorrowed(w, m) ==
    /\ at[w] = "idle" /\ Pool \in owners[m]
    /\ Enter(w, "translate", m)
    /\ UNCHANGED <<refvars, imagevars, home, guardvars>>

(* A worker takes a batch; the queue keeps the model.                      *)
Draw(w, m) ==
    /\ at[w] = "idle" /\ Pool \in owners[m]
    /\ owners' = [owners EXCEPT ![m] = @ \cup {w}]
    /\ Enter(w, "translate", m)
    /\ UNCHANGED <<born, imagevars, home, guardvars>>

(* Thread t gives up owner o of model m, and destroys m if it is the last. *)
GiveUp(t, o, m) ==
    /\ owners' = [owners EXCEPT ![m] = @ \ {o}]
    /\ IF owners[m] = {o} THEN Enter(t, "bump", m) ELSE Enter(t, "idle", None)
    /\ UNCHANGED <<born, imagevars, home, guardvars>>

(* The queue drops a model: emptied by clear(), or by a worker that finds  *)
(* no sentences of the model.  The client's handle goes in release().      *)
Erase(t, m) == at[t] = "idle" /\ Pool \in owners[m] /\ GiveUp(t, Pool, m)

Release(c, m) == at[c] = "idle" /\ Handle \in owners[m] /\ GiveUp(c, Handle, m)

(* translationModel.reset() after the batch.                               *)
Drop(w) == at[w] = "drop" /\ GiveUp(w, w, on[w])

-----------------------------------------------------------------------------
(* translateBatch() and loadBackend().                                     *)

TranslateBatch(w) ==
    /\ at[w] = "translate"
    /\ Goto(w, IF w \in initialized[on[w]] THEN "guard" ELSE "load")
    /\ UNCHANGED <<refvars, imagevars, home, on, guardvars>>

Pin(w) ==
    /\ at[w] = "load"
    /\ pin' = [pin EXCEPT ![w] = memory[on[w]]]
    /\ Goto(w, "build")
    /\ UNCHANGED <<refvars, memory, loaded, initialized, home, on, guardvars>>

InUse == {home[m][w] : m \in Models, w \in Workers}

(* createScorers() ... graph->forward(): the weights get an address.       *)
Build(w) ==
    /\ at[w] = "build"
    /\ \E a \in Addresses \ InUse :
        /\ home' = [home EXCEPT ![on[w]][w] = a]
        /\ view' = [view EXCEPT ![w] = Larger(@, freed[a])]
    /\ Goto(w, "count")
    /\ UNCHANGED <<refvars, imagevars, on, generation, freed, seen, cache>>

(* Mutant: every load frees the image.                                     *)
CountAndRelease(w) ==
    /\ at[w] = "count"
    /\ loaded' = [loaded EXCEPT ![on[w]] = @ + 1]
    /\ Goto(w, "release")
    /\ UNCHANGED <<refvars, memory, initialized, pin, home, on, guardvars>>

(* Mutant: the count is compared before this load is added.                *)
CountBefore(w) ==
    /\ at[w] = "count"
    /\ loaded' = [loaded EXCEPT ![on[w]] = @ + 1]
    /\ Goto(w, IF loaded[on[w]] = Cardinality(Workers) THEN "release" ELSE "return")
    /\ UNCHANGED <<refvars, memory, initialized, pin, home, on, guardvars>>

Count(w) ==
    /\ at[w] = "count"
    /\ loaded' = [loaded EXCEPT ![on[w]] = @ + 1]
    /\ Goto(w, IF loaded[on[w]] + 1 = Cardinality(Workers) THEN "release" ELSE "return")
    /\ UNCHANGED <<refvars, memory, initialized, pin, home, on, guardvars>>

(* std::atomic_store(&modelMemory_, nullptr).                              *)
ReleaseMemory(w) ==
    /\ at[w] = "release"
    /\ memory' = [memory EXCEPT ![on[w]] = FALSE]
    /\ Goto(w, "return")
    /\ UNCHANGED <<refvars, loaded, initialized, pin, home, on, guardvars>>

Return(w) ==
    /\ at[w] = "return"
    /\ pin' = [pin EXCEPT ![w] = FALSE]
    /\ initialized' = [initialized EXCEPT ![on[w]] = @ \cup {w}]
    /\ Goto(w, "guard")
    /\ UNCHANGED <<refvars, memory, loaded, home, on, guardvars>>

-----------------------------------------------------------------------------
(* The packing cache.                                                      *)

NoEntries == [a \in Addresses |-> None]

(* What a relaxed load of the counter may return to thread t.              *)
Readable(t) == view[t] .. generation

(* Mutant: the counter is adopted and the entries are kept.                *)
GuardKeeping(w) ==
    /\ at[w] = "guard"
    /\ \E g \in Readable(w) :
        /\ view' = [view EXCEPT ![w] = g]
        /\ seen' = [seen EXCEPT ![w] = g]
    /\ Goto(w, "multiply")
    /\ UNCHANGED <<refvars, imagevars, home, on, generation, freed, cache>>

(* The guard of Multiply8Rui() and gemm8().                                *)
Guard(w) ==
    /\ at[w] = "guard"
    /\ \E g \in Readable(w) :
        /\ view' = [view EXCEPT ![w] = g]
        /\ seen' = [seen EXCEPT ![w] = g]
        /\ cache' = IF g = seen[w] THEN cache ELSE [cache EXCEPT ![w] = NoEntries]
    /\ Goto(w, "multiply")
    /\ UNCHANGED <<refvars, imagevars, home, on, generation, freed>>

Weights(w) == home[on[w]][w]

(* Whose packed weights the multiplication uses.                           *)
Operand(w) == IF cache[w][Weights(w)] = None THEN on[w] ELSE cache[w][Weights(w)]

Multiply(w) ==
    /\ at[w] = "multiply"
    /\ cache' = [cache EXCEPT ![w][Weights(w)] = Operand(w)]
    /\ \E place \in {"guard", "drop"} : Goto(w, place)
    /\ UNCHANGED <<refvars, imagevars, home, on, generation, view, freed, seen>>

(* releaseThreadPackingCaches(), at the worker's maintenance.  The cache   *)
(* of ruy adopts the counter, the one of SMMLA keeps its own.              *)
ReleaseCaches(w) ==
    /\ at[w] = "idle"
    /\ cache' = [cache EXCEPT ![w] = NoEntries]
    /\ \/ UNCHANGED <<view, seen>>
       \/ \E g \in Readable(w) : /\ view' = [view EXCEPT ![w] = g]
                                 /\ seen' = [seen EXCEPT ![w] = g]
    /\ UNCHANGED <<refvars, imagevars, home, at, on, generation, freed>>

-----------------------------------------------------------------------------
(* ~TranslationModel(): the counter first, then the weights.               *)

BumpGeneration(t) ==
    /\ at[t] = "bump"
    /\ generation' = generation + 1
    /\ view' = [view EXCEPT ![t] = generation + 1]
    /\ Goto(t, "free")
    /\ UNCHANGED <<refvars, imagevars, home, on, freed, seen, cache>>

FreeBackends(t) ==
    /\ at[t] = "free"
    /\ freed' = [a \in Addresses |->
                   IF \E w \in Workers : home[on[t]][w] = a THEN view[t] ELSE freed[a]]
    /\ home' = [home EXCEPT ![on[t]] = [w \in Workers |-> None]]
    /\ Enter(t, "idle", None)
    /\ UNCHANGED <<refvars, imagevars, generation, view, seen, cache>>

-----------------------------------------------------------------------------
Init ==
    /\ owners = [m \in Models |-> {}]
    /\ born = {}
    /\ memory = [m \in Models |-> TRUE]
    /\ loaded = [m \in Models |-> 0]
    /\ initialized = [m \in Models |-> {}]
    /\ home = [m \in Models |-> [w \in Workers |-> None]]
    /\ at = [t \in Threads |-> "idle"]
    /\ on = [t \in Threads |-> None]
    /\ pin = [w \in Workers |-> FALSE]
    /\ generation = 0
    /\ view = [t \in Threads |-> 0]
    /\ freed = [a \in Addresses |-> 0]
    /\ seen = [w \in Workers |-> 0]
    /\ cache = [w \in Workers |-> NoEntries]

Load(w) == Pin(w) \/ Build(w) \/ Count(w) \/ ReleaseMemory(w) \/ Return(w)

Next ==
    \/ \E m \in Models : Create(m) \/ Enqueue(m)
    \/ \E c \in Clients, m \in Models : Release(c, m)
    \/ \E t \in Threads, m \in Models : Erase(t, m)
    \/ \E w \in Workers, m \in Models : Draw(w, m)
    \/ \E w \in Workers : TranslateBatch(w) \/ Load(w) \/ Drop(w)
    \/ \E w \in Workers : Guard(w) \/ Multiply(w) \/ ReleaseCaches(w)
    \/ \E t \in Threads : BumpGeneration(t) \/ FreeBackends(t)

Spec == Init /\ [][Next]_vars

-----------------------------------------------------------------------------
(* State and results stay in their sets.                                   *)
TypeOK ==
    /\ owners \in [Models -> SUBSET (Workers \cup {Handle, Pool})]
    /\ born \in SUBSET Models
    /\ memory \in [Models -> BOOLEAN]
    /\ loaded \in [Models -> Nat]
    /\ initialized \in [Models -> SUBSET Workers]
    /\ home \in [Models -> [Workers -> Addresses \cup {None}]]
    /\ at \in [Threads -> Places]
    /\ on \in [Threads -> Models \cup {None}]
    /\ pin \in [Workers -> BOOLEAN]
    /\ generation \in Nat
    /\ view \in [Threads -> Nat]
    /\ freed \in [Addresses -> Nat]
    /\ seen \in [Workers -> Nat]
    /\ cache \in [Workers -> [Addresses -> Models \cup {None}]]

(* A multiplication never uses the packed weights of another model, though *)
(* addresses are used again and the counter is read with relaxed ordering, *)
(* which integer_common.h calls sufficient.                                *)
PackedCurrent ==
    \A w \in Workers : at[w] = "multiply" => Operand(w) = on[w]

(* loadBackend() always finds the image of the model file in memory: no    *)
(* later replica is forced back to disk, whatever order the workers load   *)
(* in (the comment on the release in loadBackend()).                       *)
LoadsFromMemory ==
    \A w \in Workers : at[w] = "build" => pin[w]

(* Once every replica is initialized the image is gone, so a model costs   *)
(* its weights and no second copy of its file.                             *)
ImageReleased ==
    \A m \in Models : initialized[m] = Workers => ~memory[m]

(* A model is destroyed under no worker: while a worker translates with a  *)
(* model its weights keep their address, whoever releases the model.       *)
WeightsStay ==
    \A w \in Workers : at[w] \in {"guard", "multiply"} => Weights(w) # None
=============================================================================

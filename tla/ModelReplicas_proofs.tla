------------------------ MODULE ModelReplicas_proofs ------------------------
(***************************************************************************)
(* Theorems about ModelReplicas, for any workers, clients, models and      *)
(* addresses.                                                              *)
(*                                                                         *)
(* The argument for the packing caches: a thread that is handed a freed    *)
(* address can no longer read a counter older than the one its last owner  *)
(* was destroyed under (Known), and an entry whose model is gone was       *)
(* packed under a counter older than that (Fresh).  So the guard clears    *)
(* every entry that could be taken for the weights of the model at hand.   *)
(* For the image: backendsLoaded_ counts the workers that need it no more  *)
(* (Counted), so the one that brings it to their number comes last.        *)
(***************************************************************************)
EXTENDS ModelReplicas, FiniteSetTheorems, TLAPS

Busy == {"translate", "load", "build", "count", "release", "return",
         "guard", "multiply", "drop"}

(* A worker owns the model it translates with; a dying model has no owner. *)
Held ==
    /\ \A m \in Models : owners[m] # {} => m \in born
    /\ \A w \in Workers : at[w] \in Busy => on[w] \in Models /\ w \in owners[on[w]]
    /\ \A t \in Threads : at[t] \in {"bump", "free"} =>
            on[t] \in Models /\ on[t] \in born /\ owners[on[t]] = {}

(* Replicas have addresses of their own from their load to their model's end. *)
Placed ==
    /\ \A m1, m2 \in Models, w1, w2 \in Workers :
            home[m1][w1] = home[m2][w2] /\ home[m1][w1] # None => m1 = m2 /\ w1 = w2
    /\ \A m \in Models, w \in Workers :
            w \in initialized[m] => home[m][w] # None \/ (m \in born /\ owners[m] = {})
    /\ \A w \in Workers : at[w] \in {"count", "release", "return", "guard", "multiply"} =>
            home[on[w]][w] # None
    /\ \A m \in Models, w \in Workers : home[m][w] # None =>
            w \in initialized[m] \/ (on[w] = m /\ at[w] \in {"count", "release", "return"})
    /\ \A w \in Workers : at[w] \in {"load", "build"} => home[on[w]][w] = None

(* What a thread may still read of the counter.                            *)
Known ==
    /\ \A t \in Threads : view[t] <= generation
    /\ \A a \in Addresses : freed[a] <= generation
    /\ \A w \in Workers : seen[w] <= view[w]
    /\ \A w \in Workers : at[w] = "multiply" => seen[w] = view[w]
    /\ \A m \in Models, w \in Workers : \A a \in Addresses :
            home[m][w] = a => freed[a] <= view[w]

(* An entry belongs to the model at its address, or is older than its end. *)
Fresh ==
    /\ \A w \in Workers, m \in Models : \A a \in Addresses :
            cache[w][a] = m => home[m][w] = a \/ seen[w] < freed[a]
    /\ \A t \in Threads, w \in Workers : \A a \in Addresses :
            at[t] = "free" => /\ cache[w][a] = on[t] => seen[w] < view[t]
                              /\ home[on[t]][w] = a => freed[a] <= view[t]

(* The workers that have counted their replica of m.                       *)
Counted(m) ==
    initialized[m] \cup {w \in Workers : at[w] \in {"release", "return"} /\ on[w] = m}

Image ==
    /\ \A m \in Models : loaded[m] = Cardinality(Counted(m))
    /\ \A m \in Models : ~memory[m] => loaded[m] = Cardinality(Workers)
    /\ \A m \in Models : loaded[m] = Cardinality(Workers) /\ memory[m] =>
            \E w \in Workers : at[w] = "release" /\ on[w] = m
    /\ \A w \in Workers :
            at[w] \in {"load", "build", "count", "release", "return"} => w \notin initialized[on[w]]
    /\ \A w \in Workers : at[w] = "release" => loaded[on[w]] = Cardinality(Workers)
    /\ LoadsFromMemory

IInv == TypeOK /\ Held /\ Placed /\ Known /\ Fresh /\ Image

(* The ways to give up a reference.                                        *)
GaveUp(t, o, m) ==
    /\ GiveUp(t, o, m)
    /\ \/ at[t] = "idle" /\ o \in {Handle, Pool} /\ o \in owners[m]
       \/ at[t] = "drop" /\ t \in Workers /\ o = t /\ m = on[t]

(* The steps, with references given up in one place.                       *)
LEMMA Steps ==
  ASSUME IInv, Next
  PROVE  \/ \E m \in Models : Create(m) \/ Enqueue(m)
         \/ \E w \in Workers, m \in Models : Draw(w, m)
         \/ \E t \in Threads, m \in Models, o \in Workers \cup {Handle, Pool} : GaveUp(t, o, m)
         \/ \E w \in Workers : TranslateBatch(w) \/ Load(w)
         \/ \E w \in Workers : Guard(w) \/ Multiply(w) \/ ReleaseCaches(w)
         \/ \E t \in Threads : BumpGeneration(t) \/ FreeBackends(t)
<1>1. ASSUME NEW c \in Clients, NEW m \in Models, Release(c, m)
      PROVE  \E t \in Threads, o \in Workers \cup {Handle, Pool} : GaveUp(t, o, m)
  BY <1>1 DEF Release, GaveUp, Threads
<1>2. ASSUME NEW t \in Threads, NEW m \in Models, Erase(t, m)
      PROVE  \E o \in Workers \cup {Handle, Pool} : GaveUp(t, o, m)
  BY <1>2 DEF Erase, GaveUp
<1>3. ASSUME NEW w \in Workers, Drop(w)
      PROVE  \E t \in Threads, m \in Models, o \in Workers \cup {Handle, Pool} : GaveUp(t, o, m)
  <2>1. on[w] \in Models
    BY <1>3 DEF IInv, Held, Busy, Drop
  <2>2. GaveUp(w, w, on[w])
    BY <1>3 DEF Drop, GaveUp
  <2>3. QED
    BY <2>1, <2>2 DEF Threads
<1>4. QED
  BY <1>1, <1>2, <1>3 DEF Next

(* Every step keeps the types.                                             *)
LEMMA TypeOKStep ==
  ASSUME IInv, Next
  PROVE  TypeOK'
<1> USE ReplicasAssumption DEF IInv
<1>1. ASSUME NEW m \in Models, Create(m) PROVE TypeOK'
  BY <1>1 DEF TypeOK, Held, Busy, Places, Larger, Handle, Pool, Threads, Create, refvars, imagevars, guardvars
<1>2. ASSUME NEW m \in Models, Enqueue(m) PROVE TypeOK'
  BY <1>2 DEF TypeOK, Held, Busy, Places, Larger, Handle, Pool, Threads, Enqueue, refvars, imagevars, guardvars
<1>3. ASSUME NEW w \in Workers, NEW m \in Models, Draw(w, m) PROVE TypeOK'
  BY <1>3 DEF TypeOK, Held, Busy, Places, Larger, Handle, Pool, Threads, Draw, Enter, Goto, refvars, imagevars, guardvars
<1>4. ASSUME NEW t \in Threads, NEW o, NEW m \in Models, GaveUp(t, o, m) PROVE TypeOK'
  <2>1. /\ o \in owners[m] /\ at[t] \in {"idle", "drop"}
        /\ \A w \in Workers : o = w => t = w
        /\ m \in born /\ owners' = [owners EXCEPT ![m] = @ \ {o}]
        /\ UNCHANGED <<born, imagevars, home, guardvars>>
    BY <1>4 DEF GaveUp, GiveUp, TypeOK, Held, Busy, Handle, Pool
  <2>2. CASE owners[m] = {o}
    <3>1. at' = [at EXCEPT ![t] = "bump"] /\ on' = [on EXCEPT ![t] = m]
      BY <1>4, <2>2 DEF GaveUp, GiveUp, Enter, Goto
    <3>2. QED
      BY <2>1, <2>2, <3>1 DEF TypeOK, Held, Busy, Places, Larger, Handle, Pool, Threads, refvars, imagevars, guardvars
  <2>3. CASE owners[m] # {o}
    <3>1. at' = [at EXCEPT ![t] = "idle"] /\ on' = [on EXCEPT ![t] = None]
      BY <1>4, <2>3 DEF GaveUp, GiveUp, Enter, Goto
    <3>2. QED
      BY <2>1, <2>3, <3>1 DEF TypeOK, Held, Busy, Places, Larger, Handle, Pool, Threads, refvars, imagevars, guardvars
  <2>4. QED
    BY <2>2, <2>3
<1>5. ASSUME NEW w \in Workers, TranslateBatch(w) PROVE TypeOK'
  BY <1>5 DEF TypeOK, Held, Busy, Places, Larger, Handle, Pool, Threads, TranslateBatch, Goto, refvars, imagevars, guardvars
<1>6. ASSUME NEW w \in Workers, Pin(w) PROVE TypeOK'
  BY <1>6 DEF TypeOK, Held, Busy, Places, Larger, Handle, Pool, Threads, Pin, Goto, refvars, imagevars, guardvars
<1>7. ASSUME NEW w \in Workers, Build(w) PROVE TypeOK'
  BY <1>7 DEF TypeOK, Held, Busy, Places, Larger, Handle, Pool, Threads, Build, Goto, refvars, imagevars, guardvars
<1>8. ASSUME NEW w \in Workers, Count(w) PROVE TypeOK'
  BY <1>8 DEF TypeOK, Held, Busy, Places, Larger, Handle, Pool, Threads, Count, Goto, refvars, imagevars, guardvars
<1>9. ASSUME NEW w \in Workers, ReleaseMemory(w) PROVE TypeOK'
  BY <1>9 DEF TypeOK, Held, Busy, Places, Larger, Handle, Pool, Threads, ReleaseMemory, Goto, refvars, imagevars, guardvars
<1>10. ASSUME NEW w \in Workers, Return(w) PROVE TypeOK'
  BY <1>10 DEF TypeOK, Held, Busy, Places, Larger, Handle, Pool, Threads, Return, Goto, refvars, imagevars, guardvars
<1>11. ASSUME NEW w \in Workers, Guard(w) PROVE TypeOK'
  BY <1>11 DEF TypeOK, Held, Busy, Places, Larger, Handle, Pool, Threads, Guard, Readable, NoEntries, Goto, refvars, imagevars, guardvars
<1>12. ASSUME NEW w \in Workers, Multiply(w) PROVE TypeOK'
  <2>1. on[w] \in Models
    BY <1>12 DEF Multiply, Held, Busy
  <2>2. Operand(w) \in Models \cup {None} \/ Weights(w) \notin Addresses
    BY <2>1 DEF Operand, Weights, TypeOK
  <2>3. Weights(w) \in Addresses
    BY <1>12, <2>1 DEF Multiply, Weights, TypeOK, Placed
  <2>4. cache' \in [Workers -> [Addresses -> Models \cup {None}]]
    BY <1>12, <2>2, <2>3 DEF Multiply, TypeOK
  <2>5. QED
    BY <1>12, <2>4 DEF Multiply, Goto, TypeOK, Places, Threads, refvars, imagevars, guardvars
<1>13. ASSUME NEW w \in Workers, ReleaseCaches(w) PROVE TypeOK'
  <2>1. /\ cache' = [cache EXCEPT ![w] = [a \in Addresses |-> None]]
        /\ at[w] = "idle"
        /\ UNCHANGED <<refvars, imagevars, home, at, on, generation, freed>>
    BY <1>13 DEF ReleaseCaches, NoEntries
  <2>2. CASE UNCHANGED <<view, seen>>
    BY <2>1, <2>2 DEF TypeOK, Held, Busy, Places, Larger, Handle, Pool, Threads, refvars, imagevars, guardvars
  <2>3. ASSUME NEW n \in Readable(w),
               view' = [view EXCEPT ![w] = n], seen' = [seen EXCEPT ![w] = n]
        PROVE  TypeOK'
    <3>1. n \in Nat /\ view[w] <= n /\ n <= generation
      BY DEF Readable, TypeOK, Threads
    <3>2. QED
      BY <2>1, <2>3, <3>1 DEF TypeOK, Held, Busy, Places, Larger, Handle, Pool, Threads, refvars, imagevars, guardvars
  <2>4. QED
    BY <1>13, <2>2, <2>3 DEF ReleaseCaches
<1>14. ASSUME NEW t \in Threads, BumpGeneration(t) PROVE TypeOK'
  BY <1>14 DEF TypeOK, Held, Busy, Places, Larger, Handle, Pool, Threads, BumpGeneration, Goto, refvars, imagevars, guardvars
<1>15. ASSUME NEW t \in Threads, FreeBackends(t) PROVE TypeOK'
  BY <1>15 DEF TypeOK, Held, Busy, Places, Larger, Handle, Pool, Threads, FreeBackends, Enter, Goto, refvars, imagevars, guardvars
<1>16. QED
  BY <1>1, <1>2, <1>3, <1>4, <1>5, <1>6, <1>7, <1>8,
     <1>9, <1>10, <1>11, <1>12, <1>13, <1>14, <1>15, Steps DEF Load

(* Every step keeps references in order.                                   *)
LEMMA HeldStep ==
  ASSUME IInv, Next
  PROVE  Held'
<1> USE ReplicasAssumption DEF IInv
<1>1. ASSUME NEW m \in Models, Create(m) PROVE Held'
  BY <1>1 DEF TypeOK, Held, Placed, Busy, Places, Handle, Pool, Threads, Create, refvars, imagevars, guardvars
<1>2. ASSUME NEW m \in Models, Enqueue(m) PROVE Held'
  BY <1>2 DEF TypeOK, Held, Placed, Busy, Places, Handle, Pool, Threads, Enqueue, refvars, imagevars, guardvars
<1>3. ASSUME NEW w \in Workers, NEW m \in Models, Draw(w, m) PROVE Held'
  BY <1>3 DEF TypeOK, Held, Placed, Busy, Places, Handle, Pool, Threads, Draw, Enter, Goto, refvars, imagevars, guardvars
<1>4. ASSUME NEW t \in Threads, NEW o, NEW m \in Models, GaveUp(t, o, m) PROVE Held'
  <2>1. /\ o \in owners[m] /\ at[t] \in {"idle", "drop"}
        /\ \A w \in Workers : o = w => t = w
        /\ m \in born /\ owners' = [owners EXCEPT ![m] = @ \ {o}]
        /\ UNCHANGED <<born, imagevars, home, guardvars>>
    BY <1>4 DEF GaveUp, GiveUp, TypeOK, Held, Busy, Handle, Pool
  <2>2. CASE owners[m] = {o}
    <3>1. at' = [at EXCEPT ![t] = "bump"] /\ on' = [on EXCEPT ![t] = m]
      BY <1>4, <2>2 DEF GaveUp, GiveUp, Enter, Goto
    <3>2. QED
      BY <2>1, <2>2, <3>1 DEF TypeOK, Held, Placed, Busy, Places, Handle, Pool, Threads, refvars, imagevars, guardvars
  <2>3. CASE owners[m] # {o}
    <3>1. at' = [at EXCEPT ![t] = "idle"] /\ on' = [on EXCEPT ![t] = None]
      BY <1>4, <2>3 DEF GaveUp, GiveUp, Enter, Goto
    <3>2. QED
      BY <2>1, <2>3, <3>1 DEF TypeOK, Held, Placed, Busy, Places, Handle, Pool, Threads, refvars, imagevars, guardvars
  <2>4. QED
    BY <2>2, <2>3
<1>5. ASSUME NEW w \in Workers, TranslateBatch(w) PROVE Held'
  BY <1>5 DEF TypeOK, Held, Placed, Busy, Places, Handle, Pool, Threads, TranslateBatch, Goto, refvars, imagevars, guardvars
<1>6. ASSUME NEW w \in Workers, Pin(w) PROVE Held'
  BY <1>6 DEF TypeOK, Held, Placed, Busy, Places, Handle, Pool, Threads, Pin, Goto, refvars, imagevars, guardvars
<1>7. ASSUME NEW w \in Workers, Build(w) PROVE Held'
  BY <1>7 DEF TypeOK, Held, Placed, Busy, Places, Handle, Pool, Threads, Build, Goto, refvars, imagevars, guardvars
<1>8. ASSUME NEW w \in Workers, Count(w) PROVE Held'
  BY <1>8 DEF TypeOK, Held, Placed, Busy, Places, Handle, Pool, Threads, Count, Goto, refvars, imagevars, guardvars
<1>9. ASSUME NEW w \in Workers, ReleaseMemory(w) PROVE Held'
  BY <1>9 DEF TypeOK, Held, Placed, Busy, Places, Handle, Pool, Threads, ReleaseMemory, Goto, refvars, imagevars, guardvars
<1>10. ASSUME NEW w \in Workers, Return(w) PROVE Held'
  BY <1>10 DEF TypeOK, Held, Placed, Busy, Places, Handle, Pool, Threads, Return, Goto, refvars, imagevars, guardvars
<1>11. ASSUME NEW w \in Workers, Guard(w) PROVE Held'
  BY <1>11 DEF TypeOK, Held, Placed, Busy, Places, Handle, Pool, Threads, Guard, Readable, NoEntries, Goto, refvars, imagevars, guardvars
<1>12. ASSUME NEW w \in Workers, Multiply(w) PROVE Held'
  BY <1>12 DEF TypeOK, Held, Placed, Busy, Places, Handle, Pool, Threads, Multiply, Operand, Weights, Goto, refvars, imagevars, guardvars
<1>13. ASSUME NEW w \in Workers, ReleaseCaches(w) PROVE Held'
  BY <1>13 DEF TypeOK, Held, Placed, Busy, Places, Handle, Pool, Threads, ReleaseCaches, Readable, NoEntries, refvars, imagevars, guardvars
<1>14. ASSUME NEW t \in Threads, BumpGeneration(t) PROVE Held'
  BY <1>14 DEF TypeOK, Held, Placed, Busy, Places, Handle, Pool, Threads, BumpGeneration, Goto, refvars, imagevars, guardvars
<1>15. ASSUME NEW t \in Threads, FreeBackends(t) PROVE Held'
  BY <1>15 DEF TypeOK, Held, Placed, Busy, Places, Handle, Pool, Threads, FreeBackends, Enter, Goto, refvars, imagevars, guardvars
<1>16. QED
  BY <1>1, <1>2, <1>3, <1>4, <1>5, <1>6, <1>7, <1>8,
     <1>9, <1>10, <1>11, <1>12, <1>13, <1>14, <1>15, Steps DEF Load

(* Every step keeps addresses apart.                                       *)
LEMMA PlacedStep ==
  ASSUME IInv, Next
  PROVE  Placed'
<1> USE ReplicasAssumption DEF IInv
<1>1. ASSUME NEW m \in Models, Create(m) PROVE Placed'
  <2>1. /\ m \notin born /\ born' = born \cup {m}
        /\ UNCHANGED <<home, at, on, initialized>>
        /\ \A n \in Models : n # m => owners'[n] = owners[n]
    BY <1>1 DEF Create, TypeOK, imagevars
  <2>2. ASSUME NEW n \in Models, NEW w \in Workers, w \in initialized[n]
        PROVE  home[n][w] # None \/ (n \in born' /\ owners'[n] = {})
    BY <2>1, <2>2 DEF Placed
  <2>3. QED
    BY <2>1, <2>2 DEF Placed
<1>2. ASSUME NEW m \in Models, Enqueue(m) PROVE Placed'
  BY <1>2 DEF TypeOK, Held, Placed, Busy, InUse, Weights, Threads, Enqueue, refvars, imagevars, guardvars
<1>3. ASSUME NEW w \in Workers, NEW m \in Models, Draw(w, m) PROVE Placed'
  BY <1>3 DEF TypeOK, Held, Placed, Busy, InUse, Weights, Threads, Draw, Enter, Goto, refvars, imagevars, guardvars
<1>4. ASSUME NEW t \in Threads, NEW o, NEW m \in Models, GaveUp(t, o, m) PROVE Placed'
  <2>1. /\ o \in owners[m] /\ at[t] \in {"idle", "drop"}
        /\ \A w \in Workers : o = w => t = w
        /\ m \in born /\ owners' = [owners EXCEPT ![m] = @ \ {o}]
        /\ UNCHANGED <<born, imagevars, home, guardvars>>
    BY <1>4 DEF GaveUp, GiveUp, TypeOK, Held, Busy, Handle, Pool
  <2>2. CASE owners[m] = {o}
    <3>1. at' = [at EXCEPT ![t] = "bump"] /\ on' = [on EXCEPT ![t] = m]
      BY <1>4, <2>2 DEF GaveUp, GiveUp, Enter, Goto
    <3>2. QED
      BY <2>1, <2>2, <3>1 DEF TypeOK, Held, Placed, Busy, InUse, Weights, Threads, refvars, imagevars, guardvars
  <2>3. CASE owners[m] # {o}
    <3>1. at' = [at EXCEPT ![t] = "idle"] /\ on' = [on EXCEPT ![t] = None]
      BY <1>4, <2>3 DEF GaveUp, GiveUp, Enter, Goto
    <3>2. QED
      BY <2>1, <2>3, <3>1 DEF TypeOK, Held, Placed, Busy, InUse, Weights, Threads, refvars, imagevars, guardvars
  <2>4. QED
    BY <2>2, <2>3
<1>5. ASSUME NEW w \in Workers, TranslateBatch(w) PROVE Placed'
  BY <1>5 DEF TypeOK, Held, Placed, Busy, InUse, Weights, Threads, TranslateBatch, Goto, refvars, imagevars, guardvars
<1>6. ASSUME NEW w \in Workers, Pin(w) PROVE Placed'
  BY <1>6 DEF TypeOK, Held, Placed, Busy, InUse, Weights, Threads, Pin, Goto, refvars, imagevars, guardvars
<1>7. ASSUME NEW w \in Workers, Build(w) PROVE Placed'
  BY <1>7 DEF TypeOK, Held, Placed, Busy, InUse, Weights, Threads, Build, Goto, refvars, imagevars, guardvars
<1>8. ASSUME NEW w \in Workers, Count(w) PROVE Placed'
  BY <1>8 DEF TypeOK, Held, Placed, Busy, InUse, Weights, Threads, Count, Goto, refvars, imagevars, guardvars
<1>9. ASSUME NEW w \in Workers, ReleaseMemory(w) PROVE Placed'
  BY <1>9 DEF TypeOK, Held, Placed, Busy, InUse, Weights, Threads, ReleaseMemory, Goto, refvars, imagevars, guardvars
<1>10. ASSUME NEW w \in Workers, Return(w) PROVE Placed'
  <2>1. on[w] \in Models /\ home[on[w]][w] # None
    BY <1>10 DEF Return, Held, Busy, Placed
  <2>2. /\ UNCHANGED <<owners, born, home, on>> /\ at[w] = "return"
        /\ at' = [at EXCEPT ![w] = "guard"]
        /\ initialized' = [initialized EXCEPT ![on[w]] = @ \cup {w}]
    BY <1>10 DEF Return, Goto, refvars
  <2>3. ASSUME NEW m \in Models, NEW v \in Workers, v \in initialized'[m]
        PROVE  home[m][v] # None \/ (m \in born /\ owners[m] = {})
    BY <2>1, <2>2, <2>3 DEF TypeOK, Placed
  <2>4. QED
    BY <2>1, <2>2, <2>3 DEF TypeOK, Placed, Threads
<1>11. ASSUME NEW w \in Workers, Guard(w) PROVE Placed'
  BY <1>11 DEF TypeOK, Held, Placed, Busy, InUse, Weights, Threads, Guard, Readable, NoEntries, Goto, refvars, imagevars, guardvars
<1>12. ASSUME NEW w \in Workers, Multiply(w) PROVE Placed'
  BY <1>12 DEF TypeOK, Held, Placed, Busy, InUse, Weights, Threads, Multiply, Operand, Weights, Goto, refvars, imagevars, guardvars
<1>13. ASSUME NEW w \in Workers, ReleaseCaches(w) PROVE Placed'
  BY <1>13 DEF TypeOK, Held, Placed, Busy, InUse, Weights, Threads, ReleaseCaches, Readable, NoEntries, refvars, imagevars, guardvars
<1>14. ASSUME NEW t \in Threads, BumpGeneration(t) PROVE Placed'
  BY <1>14 DEF TypeOK, Held, Placed, Busy, InUse, Weights, Threads, BumpGeneration, Goto, refvars, imagevars, guardvars
<1>15. ASSUME NEW t \in Threads, FreeBackends(t) PROVE Placed'
  BY <1>15 DEF TypeOK, Held, Placed, Busy, InUse, Weights, Threads, FreeBackends, Enter, Goto, refvars, imagevars, guardvars
<1>16. QED
  BY <1>1, <1>2, <1>3, <1>4, <1>5, <1>6, <1>7, <1>8,
     <1>9, <1>10, <1>11, <1>12, <1>13, <1>14, <1>15, Steps DEF Load

(* No step lets a thread read less of the counter than it must.            *)
LEMMA KnownStep ==
  ASSUME IInv, Next
  PROVE  Known'
<1> USE ReplicasAssumption DEF IInv
<1>1. ASSUME NEW m \in Models, Create(m) PROVE Known'
  BY <1>1 DEF TypeOK, Held, Known, Placed, Busy, Larger, Threads, Create, refvars, imagevars, guardvars
<1>2. ASSUME NEW m \in Models, Enqueue(m) PROVE Known'
  BY <1>2 DEF TypeOK, Held, Known, Placed, Busy, Larger, Threads, Enqueue, refvars, imagevars, guardvars
<1>3. ASSUME NEW w \in Workers, NEW m \in Models, Draw(w, m) PROVE Known'
  BY <1>3 DEF TypeOK, Held, Known, Placed, Busy, Larger, Threads, Draw, Enter, Goto, refvars, imagevars, guardvars
<1>4. ASSUME NEW t \in Threads, NEW o, NEW m \in Models, GaveUp(t, o, m) PROVE Known'
  BY <1>4 DEF TypeOK, Held, Known, Placed, Busy, Larger, Threads, GaveUp, GiveUp, Enter, Goto, refvars, imagevars, guardvars
<1>5. ASSUME NEW w \in Workers, TranslateBatch(w) PROVE Known'
  BY <1>5 DEF TypeOK, Held, Known, Placed, Busy, Larger, Threads, TranslateBatch, Goto, refvars, imagevars, guardvars
<1>6. ASSUME NEW w \in Workers, Pin(w) PROVE Known'
  BY <1>6 DEF TypeOK, Held, Known, Placed, Busy, Larger, Threads, Pin, Goto, refvars, imagevars, guardvars
<1>7. ASSUME NEW w \in Workers, Build(w) PROVE Known'
  BY <1>7 DEF TypeOK, Held, Known, Placed, Busy, Larger, Threads, Build, Goto, refvars, imagevars, guardvars
<1>8. ASSUME NEW w \in Workers, Count(w) PROVE Known'
  BY <1>8 DEF TypeOK, Held, Known, Placed, Busy, Larger, Threads, Count, Goto, refvars, imagevars, guardvars
<1>9. ASSUME NEW w \in Workers, ReleaseMemory(w) PROVE Known'
  BY <1>9 DEF TypeOK, Held, Known, Placed, Busy, Larger, Threads, ReleaseMemory, Goto, refvars, imagevars, guardvars
<1>10. ASSUME NEW w \in Workers, Return(w) PROVE Known'
  BY <1>10 DEF TypeOK, Held, Known, Placed, Busy, Larger, Threads, Return, Goto, refvars, imagevars, guardvars
<1>11. ASSUME NEW w \in Workers, Guard(w) PROVE Known'
  BY <1>11 DEF TypeOK, Held, Known, Placed, Busy, Larger, Threads, Guard, Readable, NoEntries, Goto, refvars, imagevars, guardvars
<1>12. ASSUME NEW w \in Workers, Multiply(w) PROVE Known'
  BY <1>12 DEF TypeOK, Held, Known, Placed, Busy, Larger, Threads, Multiply, Operand, Weights, Goto, refvars, imagevars, guardvars
<1>13. ASSUME NEW w \in Workers, ReleaseCaches(w) PROVE Known'
  <2>1. /\ cache' = [cache EXCEPT ![w] = [a \in Addresses |-> None]]
        /\ at[w] = "idle"
        /\ UNCHANGED <<refvars, imagevars, home, at, on, generation, freed>>
    BY <1>13 DEF ReleaseCaches, NoEntries
  <2>2. CASE UNCHANGED <<view, seen>>
    BY <2>1, <2>2 DEF TypeOK, Held, Known, Placed, Busy, Larger, Threads, refvars, imagevars, guardvars
  <2>3. ASSUME NEW n \in Readable(w),
               view' = [view EXCEPT ![w] = n], seen' = [seen EXCEPT ![w] = n]
        PROVE  Known'
    <3>1. n \in Nat /\ view[w] <= n /\ n <= generation
      BY DEF Readable, TypeOK, Threads
    <3>2. QED
      BY <2>1, <2>3, <3>1 DEF TypeOK, Held, Known, Placed, Busy, Larger, Threads, refvars, imagevars, guardvars
  <2>4. QED
    BY <1>13, <2>2, <2>3 DEF ReleaseCaches
<1>14. ASSUME NEW t \in Threads, BumpGeneration(t) PROVE Known'
  BY <1>14 DEF TypeOK, Held, Known, Placed, Busy, Larger, Threads, BumpGeneration, Goto, refvars, imagevars, guardvars
<1>15. ASSUME NEW t \in Threads, FreeBackends(t) PROVE Known'
  BY <1>15 DEF TypeOK, Held, Known, Placed, Busy, Larger, Threads, FreeBackends, Enter, Goto, refvars, imagevars, guardvars
<1>16. QED
  BY <1>1, <1>2, <1>3, <1>4, <1>5, <1>6, <1>7, <1>8,
     <1>9, <1>10, <1>11, <1>12, <1>13, <1>14, <1>15, Steps DEF Load

(* Every step keeps stale entries older than the end of their model.       *)
LEMMA FreshStep ==
  ASSUME IInv, Next
  PROVE  Fresh'
<1> USE ReplicasAssumption DEF IInv
<1>1. ASSUME NEW m \in Models, Create(m) PROVE Fresh'
  BY <1>1 DEF TypeOK, Held, Placed, Known, Fresh, Busy, Larger, Threads, Create, refvars, imagevars, guardvars
<1>2. ASSUME NEW m \in Models, Enqueue(m) PROVE Fresh'
  BY <1>2 DEF TypeOK, Held, Placed, Known, Fresh, Busy, Larger, Threads, Enqueue, refvars, imagevars, guardvars
<1>3. ASSUME NEW w \in Workers, NEW m \in Models, Draw(w, m) PROVE Fresh'
  BY <1>3 DEF TypeOK, Held, Placed, Known, Fresh, Busy, Larger, Threads, Draw, Enter, Goto, refvars, imagevars, guardvars
<1>4. ASSUME NEW t \in Threads, NEW o, NEW m \in Models, GaveUp(t, o, m) PROVE Fresh'
  <2>1. /\ o \in owners[m] /\ at[t] \in {"idle", "drop"}
        /\ \A w \in Workers : o = w => t = w
        /\ m \in born /\ owners' = [owners EXCEPT ![m] = @ \ {o}]
        /\ UNCHANGED <<born, imagevars, home, guardvars>>
    BY <1>4 DEF GaveUp, GiveUp, TypeOK, Held, Busy, Handle, Pool
  <2>2. CASE owners[m] = {o}
    <3>1. at' = [at EXCEPT ![t] = "bump"] /\ on' = [on EXCEPT ![t] = m]
      BY <1>4, <2>2 DEF GaveUp, GiveUp, Enter, Goto
    <3>2. QED
      BY <2>1, <2>2, <3>1 DEF TypeOK, Held, Placed, Known, Fresh, Busy, Larger, Threads, refvars, imagevars, guardvars
  <2>3. CASE owners[m] # {o}
    <3>1. at' = [at EXCEPT ![t] = "idle"] /\ on' = [on EXCEPT ![t] = None]
      BY <1>4, <2>3 DEF GaveUp, GiveUp, Enter, Goto
    <3>2. QED
      BY <2>1, <2>3, <3>1 DEF TypeOK, Held, Placed, Known, Fresh, Busy, Larger, Threads, refvars, imagevars, guardvars
  <2>4. QED
    BY <2>2, <2>3
<1>5. ASSUME NEW w \in Workers, TranslateBatch(w) PROVE Fresh'
  BY <1>5 DEF TypeOK, Held, Placed, Known, Fresh, Busy, Larger, Threads, TranslateBatch, Goto, refvars, imagevars, guardvars
<1>6. ASSUME NEW w \in Workers, Pin(w) PROVE Fresh'
  BY <1>6 DEF TypeOK, Held, Placed, Known, Fresh, Busy, Larger, Threads, Pin, Goto, refvars, imagevars, guardvars
<1>7. ASSUME NEW w \in Workers, Build(w) PROVE Fresh'
  <2>1. on[w] \in Models /\ owners[on[w]] # {}
    BY <1>7 DEF Build, Held, Busy
  <2> PICK a \in Addresses \ InUse :
          /\ home' = [home EXCEPT ![on[w]][w] = a]
          /\ view' = [view EXCEPT ![w] = Larger(@, freed[a])]
    BY <1>7 DEF Build
  <2>2. /\ at' = [at EXCEPT ![w] = "count"] /\ at[w] = "build"
        /\ UNCHANGED <<refvars, imagevars, on, generation, freed, seen, cache>>
    BY <1>7 DEF Build, Goto
  <2>3. home[on[w]][w] = None
    BY <1>7 DEF Build, Placed
  <2>4. QED
    BY <2>1, <2>2, <2>3 DEF TypeOK, Held, Fresh, Larger, Threads, refvars
<1>8. ASSUME NEW w \in Workers, Count(w) PROVE Fresh'
  BY <1>8 DEF TypeOK, Held, Placed, Known, Fresh, Busy, Larger, Threads, Count, Goto, refvars, imagevars, guardvars
<1>9. ASSUME NEW w \in Workers, ReleaseMemory(w) PROVE Fresh'
  BY <1>9 DEF TypeOK, Held, Placed, Known, Fresh, Busy, Larger, Threads, ReleaseMemory, Goto, refvars, imagevars, guardvars
<1>10. ASSUME NEW w \in Workers, Return(w) PROVE Fresh'
  BY <1>10 DEF TypeOK, Held, Placed, Known, Fresh, Busy, Larger, Threads, Return, Goto, refvars, imagevars, guardvars
<1>11. ASSUME NEW w \in Workers, Guard(w) PROVE Fresh'
  BY <1>11 DEF TypeOK, Held, Placed, Known, Fresh, Busy, Larger, Threads, Guard, Readable, NoEntries, Goto, refvars, imagevars, guardvars
<1>12. ASSUME NEW w \in Workers, Multiply(w) PROVE Fresh'
  BY <1>12 DEF TypeOK, Held, Placed, Known, Fresh, Busy, Larger, Threads, Multiply, Operand, Weights, Goto, refvars, imagevars, guardvars
<1>13. ASSUME NEW w \in Workers, ReleaseCaches(w) PROVE Fresh'
  <2>1. /\ cache' = [cache EXCEPT ![w] = [a \in Addresses |-> None]]
        /\ at[w] = "idle"
        /\ UNCHANGED <<refvars, imagevars, home, at, on, generation, freed>>
    BY <1>13 DEF ReleaseCaches, NoEntries
  <2>2. CASE UNCHANGED <<view, seen>>
    BY <2>1, <2>2 DEF TypeOK, Held, Placed, Known, Fresh, Busy, Larger, Threads, refvars, imagevars, guardvars
  <2>3. ASSUME NEW n \in Readable(w),
               view' = [view EXCEPT ![w] = n], seen' = [seen EXCEPT ![w] = n]
        PROVE  Fresh'
    <3>1. n \in Nat /\ view[w] <= n /\ n <= generation
      BY DEF Readable, TypeOK, Threads
    <3>2. QED
      BY <2>1, <2>3, <3>1 DEF TypeOK, Held, Placed, Known, Fresh, Busy, Larger, Threads, refvars, imagevars, guardvars
  <2>4. QED
    BY <1>13, <2>2, <2>3 DEF ReleaseCaches
<1>14. ASSUME NEW t \in Threads, BumpGeneration(t) PROVE Fresh'
  BY <1>14 DEF TypeOK, Held, Placed, Known, Fresh, Busy, Larger, Threads, BumpGeneration, Goto, refvars, imagevars, guardvars
<1>15. ASSUME NEW t \in Threads, FreeBackends(t) PROVE Fresh'
  BY <1>15 DEF TypeOK, Held, Placed, Known, Fresh, Busy, Larger, Threads, FreeBackends, Enter, Goto, refvars, imagevars, guardvars
<1>16. QED
  BY <1>1, <1>2, <1>3, <1>4, <1>5, <1>6, <1>7, <1>8,
     <1>9, <1>10, <1>11, <1>12, <1>13, <1>14, <1>15, Steps DEF Load

(* A step that moves no worker over the count keeps what is counted.       *)
LEMMA Uncounted ==
  ASSUME IInv, UNCHANGED <<memory, loaded, initialized>>,
         \A w \in Workers : at[w] \in {"release", "return"} \/ at'[w] \in {"release", "return"}
             => at'[w] = at[w] /\ on'[w] = on[w],
         \A w \in Workers : at'[w] \in {"load", "build", "count"} => w \notin initialized[on'[w]],
         \A w \in Workers : at'[w] = "build" => pin'[w]
  PROVE  Image'
<1>1. \A m \in Models : Counted(m)' = Counted(m)
  BY DEF Counted
<1>2. QED
  BY <1>1 DEF IInv, Image, LoadsFromMemory

(* Every step keeps the count of replicas, and the image while it is read. *)
LEMMA ImageStep ==
  ASSUME IInv, Next
  PROVE  Image'
<1> USE ReplicasAssumption DEF IInv
<1>0. ASSUME NEW m \in Models
      PROVE  /\ Counted(m) \subseteq Workers /\ IsFiniteSet(Counted(m))
             /\ Cardinality(Counted(m)) \in Nat /\ Cardinality(Workers) \in Nat
             /\ Cardinality(Counted(m)) = Cardinality(Workers) => Counted(m) = Workers
  <2>1. Counted(m) \in SUBSET Workers
    BY DEF Counted, TypeOK
  <2>2. QED
    BY <2>1, FS_Subset, FS_CardinalityType
<1>1. ASSUME NEW m \in Models, Create(m) PROVE Image'
  BY <1>1, Uncounted DEF Image, LoadsFromMemory, Create, imagevars
<1>2. ASSUME NEW m \in Models, Enqueue(m) PROVE Image'
  BY <1>2, Uncounted DEF Image, LoadsFromMemory, Enqueue, imagevars
<1>3. ASSUME NEW w \in Workers, NEW m \in Models, Draw(w, m) PROVE Image'
  BY <1>3, Uncounted DEF Image, LoadsFromMemory, Draw, Enter, Goto, TypeOK, Threads, imagevars
<1>4. ASSUME NEW t \in Threads, NEW o, NEW m \in Models, GaveUp(t, o, m) PROVE Image'
  <2>1. /\ at[t] \in {"idle", "drop"} /\ UNCHANGED imagevars
        /\ \E p \in {"bump", "idle"}, n \in Models \cup {None} :
                at' = [at EXCEPT ![t] = p] /\ on' = [on EXCEPT ![t] = n]
    BY <1>4 DEF GaveUp, GiveUp, Enter, Goto
  <2>2. QED
    BY <2>1, Uncounted DEF Image, LoadsFromMemory, TypeOK, Threads, imagevars
<1>5. ASSUME NEW w \in Workers, Build(w) PROVE Image'
  BY <1>5, Uncounted DEF Image, LoadsFromMemory, Build, Goto, TypeOK, Threads, imagevars
<1>6. ASSUME NEW w \in Workers, Guard(w) PROVE Image'
  BY <1>6, Uncounted DEF Image, LoadsFromMemory, Guard, Goto, TypeOK, Threads, imagevars
<1>7. ASSUME NEW w \in Workers, Multiply(w) PROVE Image'
  BY <1>7, Uncounted DEF Image, LoadsFromMemory, Multiply, Goto, TypeOK, Threads, imagevars
<1>8. ASSUME NEW w \in Workers, ReleaseCaches(w) PROVE Image'
  BY <1>8, Uncounted DEF Image, LoadsFromMemory, ReleaseCaches, imagevars
<1>9. ASSUME NEW t \in Threads, BumpGeneration(t) PROVE Image'
  BY <1>9, Uncounted DEF Image, LoadsFromMemory, BumpGeneration, Goto, TypeOK, Threads, imagevars
<1>10. ASSUME NEW t \in Threads, FreeBackends(t) PROVE Image'
  BY <1>10, Uncounted DEF Image, LoadsFromMemory, FreeBackends, Enter, Goto, TypeOK, Threads, imagevars
<1>11. ASSUME NEW w \in Workers, TranslateBatch(w) PROVE Image'
  BY <1>11, Uncounted DEF Image, LoadsFromMemory, TranslateBatch, Goto, TypeOK, Threads, imagevars
<1>12. ASSUME NEW w \in Workers, Pin(w) PROVE Image'
  <2>1. on[w] \in Models /\ at[w] = "load"
    BY <1>12 DEF Pin, Held, Busy
  <2>2. w \notin Counted(on[w])
    BY <2>1 DEF Image, Counted
  <2>3. memory[on[w]]
    BY <2>1, <2>2, <1>0 DEF Image
  <2>4. QED
    BY <1>12, <2>1, <2>3, Uncounted DEF Image, LoadsFromMemory, Pin, Goto, TypeOK, Threads
<1>13. ASSUME NEW w \in Workers, Count(w) PROVE Image'
  <2>0. on[w] \in Models
    BY <1>13 DEF Count, Held, Busy
  <2> PICK m \in Models : m = on[w]
    BY <2>0
  <2>1. on[w] = m /\ at[w] = "count" /\ w \notin initialized[m] /\ w \notin Counted(m)
    BY <1>13 DEF Count, Held, Busy, Image, Counted
  <2>2. /\ loaded' = [loaded EXCEPT ![m] = @ + 1]
        /\ at' = [at EXCEPT ![w] = IF loaded[m] + 1 = Cardinality(Workers) THEN "release" ELSE "return"]
        /\ UNCHANGED <<memory, initialized, pin, on>>
    BY <1>13 DEF Count, Goto
  <2>3. Counted(m)' = Counted(m) \cup {w}
    BY <2>1, <2>2 DEF Counted, TypeOK, Threads
  <2>4. loaded'[m] = Cardinality(Counted(m)')
    <3>1. Cardinality(Counted(m) \cup {w}) = Cardinality(Counted(m)) + 1
      BY <2>1, <1>0, FS_AddElement
    <3>2. QED
      BY <3>1, <2>2, <2>3 DEF Image, TypeOK
  <2>5. ASSUME NEW n \in Models, n # m
        PROVE  Counted(n)' = Counted(n) /\ loaded'[n] = loaded[n]
    BY <2>1, <2>2, <2>5 DEF Counted, TypeOK, Threads
  <2>6. memory[m] /\ loaded[m] # Cardinality(Workers)
    BY <2>1, <1>0 DEF Image
  <2>7. \A n \in Models : ~memory'[n] => loaded'[n] = Cardinality(Workers)
    BY <2>2, <2>5, <2>6 DEF Image
  <2>8. ASSUME NEW n \in Models, loaded'[n] = Cardinality(Workers), memory'[n]
        PROVE  \E v \in Workers : at'[v] = "release" /\ on'[v] = n
    <3>1. CASE n = m
      BY <3>1, <2>1, <2>2, <2>8 DEF TypeOK, Threads
    <3>2. CASE n # m
      <4>1. PICK v \in Workers : at[v] = "release" /\ on[v] = n
        BY <3>2, <2>2, <2>5, <2>8 DEF Image
      <4>2. QED
        BY <4>1, <3>2, <2>2 DEF TypeOK, Threads
    <3>3. QED
      BY <3>1, <3>2
  <2>9. \A v \in Workers : at'[v] = "release" => loaded'[on'[v]] = Cardinality(Workers)
    <3> SUFFICES ASSUME NEW v \in Workers, at'[v] = "release"
                 PROVE  loaded'[on[v]] = Cardinality(Workers)
      BY <2>2
    <3>1. CASE v = w
      BY <3>1, <2>1, <2>2 DEF TypeOK, Threads
    <3>2. CASE v # w
      <4>1. at[v] = "release" /\ on[v] \in Models
        BY <3>2, <2>2 DEF TypeOK, Threads, Held, Busy
      <4>2. loaded[on[v]] = Cardinality(Workers)
        BY <4>1 DEF Image
      <4>3. QED
        BY <4>1, <4>2, <2>5, <2>6
    <3>3. QED
      BY <3>1, <3>2
  <2>10. \A v \in Workers : at'[v] \in {"load", "build", "count", "release", "return"} => v \notin initialized'[on'[v]]
    BY <2>1, <2>2 DEF Image, TypeOK, Threads
  <2>11. LoadsFromMemory'
    BY <2>1, <2>2 DEF Image, LoadsFromMemory, TypeOK, Threads
  <2>12. \A n \in Models : loaded'[n] = Cardinality(Counted(n)')
    BY <2>4, <2>5 DEF Image
  <2>13. QED
    BY <2>7, <2>8, <2>9, <2>10, <2>11, <2>12 DEF Image
<1>14. ASSUME NEW w \in Workers, ReleaseMemory(w) PROVE Image'
  <2>1. on[w] \in Models /\ at[w] = "release" /\ loaded[on[w]] = Cardinality(Workers)
    BY <1>14 DEF ReleaseMemory, Held, Busy, Image
  <2>2. /\ memory' = [memory EXCEPT ![on[w]] = FALSE]
        /\ at' = [at EXCEPT ![w] = "return"]
        /\ UNCHANGED <<loaded, initialized, pin, on>>
    BY <1>14 DEF ReleaseMemory, Goto
  <2>3. \A m \in Models : Counted(m)' = Counted(m)
    BY <2>1, <2>2 DEF Counted, TypeOK, Threads
  <2>4. \A m \in Models : loaded'[m] = Cardinality(Workers) /\ memory'[m] =>
            \E v \in Workers : at'[v] = "release" /\ on'[v] = m
    BY <2>1, <2>2 DEF Image, TypeOK, Threads
  <2>5. QED
    BY <2>1, <2>2, <2>3, <2>4 DEF Image, LoadsFromMemory, TypeOK, Threads
<1>15. ASSUME NEW w \in Workers, Return(w) PROVE Image'
  <2>1. on[w] \in Models /\ at[w] = "return"
    BY <1>15 DEF Return, Held, Busy
  <2>2. /\ initialized' = [initialized EXCEPT ![on[w]] = @ \cup {w}]
        /\ at' = [at EXCEPT ![w] = "guard"]
        /\ pin' = [pin EXCEPT ![w] = FALSE]
        /\ UNCHANGED <<loaded, memory, on>>
    BY <1>15 DEF Return, Goto
  <2>3. \A m \in Models : Counted(m)' = Counted(m)
    BY <2>1, <2>2 DEF Counted, TypeOK, Threads
  <2>4. \A m \in Models : loaded'[m] = Cardinality(Workers) /\ memory'[m] =>
            \E v \in Workers : at'[v] = "release" /\ on'[v] = m
    BY <2>1, <2>2 DEF Image, TypeOK, Threads
  <2>5. \A v \in Workers : at'[v] \in {"load", "build", "count", "release", "return"} =>
            v \notin initialized'[on'[v]]
    <3> SUFFICES ASSUME NEW v \in Workers,
                        at'[v] \in {"load", "build", "count", "release", "return"}
                 PROVE  v \notin initialized'[on[v]]
      BY <2>2
    <3>1. v # w /\ v \notin initialized[on[v]] /\ on[v] \in Models
      BY <2>2 DEF Image, TypeOK, Threads, Held, Busy
    <3>2. QED
      BY <3>1, <2>1, <2>2 DEF TypeOK
  <2>6. QED
    BY <2>1, <2>2, <2>3, <2>4, <2>5 DEF Image, LoadsFromMemory, TypeOK, Threads
<1>16. QED
  BY <1>1, <1>2, <1>3, <1>4, <1>5, <1>6, <1>7, <1>8, <1>9, <1>10, <1>11, <1>12, <1>13,
     <1>14, <1>15, Steps DEF Load

-----------------------------------------------------------------------------
LEMMA Initially == Init => IInv
<1> SUFFICES ASSUME Init PROVE IInv
  OBVIOUS
<1> USE ReplicasAssumption DEF Init
<1>1. \A m \in Models : Counted(m) = {}
  BY DEF Counted, Threads
<1>2. Image
  BY <1>1, FS_EmptySet DEF Image, LoadsFromMemory, Threads
<1>3. TypeOK
  BY DEF TypeOK, Places, NoEntries, Threads
<1>4. Held /\ Placed
  BY DEF Held, Placed, Busy, Threads
<1>5. Known /\ Fresh
  BY DEF Known, Fresh, NoEntries, Threads
<1>6. QED
  BY <1>2, <1>3, <1>4, <1>5 DEF IInv

LEMMA Invariance == Spec => []IInv
<1>1. IInv /\ UNCHANGED vars => IInv'
  BY DEF IInv, TypeOK, Held, Placed, Known, Fresh, Image, LoadsFromMemory, Counted, vars,
         refvars, imagevars, guardvars
<1>2. IInv /\ [Next]_vars => IInv'
  BY <1>1, TypeOKStep, HeldStep, PlacedStep, KnownStep, FreshStep, ImageStep DEF IInv
<1>3. QED
  BY <1>2, Initially, PTL DEF Spec

(* The state stays in its sets.                                            *)
THEOREM TypeCorrect == Spec => []TypeOK
BY Invariance, PTL DEF IInv

(* The weights of a model a worker translates with stay where they are.    *)
THEOREM WeightsAlwaysStay == Spec => []WeightsStay
<1>1. IInv => WeightsStay
  BY DEF IInv, Placed, WeightsStay, Weights
<1>2. QED
  BY <1>1, Invariance, PTL

(* No multiplication uses the packed weights of another model: relaxed     *)
(* ordering is sufficient.                                                 *)
THEOREM PackedAlwaysCurrent == Spec => []PackedCurrent
<1>1. IInv => PackedCurrent
  <2> SUFFICES ASSUME IInv, NEW w \in Workers, at[w] = "multiply" PROVE Operand(w) = on[w]
    BY DEF PackedCurrent
  <2> DEFINE a == home[on[w]][w]
             m == cache[w][a]
  <2>1. on[w] \in Models /\ a \in Addresses /\ seen[w] = view[w]
    BY DEF IInv, TypeOK, Held, Busy, Placed, Known
  <2>2. freed[a] <= view[w] /\ freed[a] \in Nat /\ view[w] \in Nat
    BY <2>1 DEF IInv, Known, TypeOK, Threads
  <2>3. CASE m \in Models
    <3>1. home[m][w] = a
      BY <2>1, <2>2, <2>3 DEF IInv, Fresh
    <3>2. m = on[w]
      BY <3>1, <2>1, <2>3, ReplicasAssumption DEF IInv, Placed
    <3>3. QED
      BY <3>2, <2>3, ReplicasAssumption DEF Operand, Weights
  <2>4. CASE m = None
    BY <2>4 DEF Operand, Weights
  <2>5. QED
    BY <2>1, <2>3, <2>4 DEF IInv, TypeOK
<1>2. QED
  BY <1>1, Invariance, PTL

(* Every replica is built from the image in memory.                        *)
THEOREM AlwaysLoadsFromMemory == Spec => []LoadsFromMemory
<1>1. IInv => LoadsFromMemory
  BY DEF IInv, Image
<1>2. QED
  BY <1>1, Invariance, PTL

(* The image is gone once every replica is initialized.                    *)
THEOREM ImageAlwaysReleased == Spec => []ImageReleased
<1>1. IInv => ImageReleased
  <2> SUFFICES ASSUME IInv, NEW m \in Models, initialized[m] = Workers, memory[m] PROVE FALSE
    BY DEF ImageReleased
  <2>1. Counted(m) = Workers
    BY DEF Counted
  <2>2. loaded[m] = Cardinality(Workers)
    BY <2>1 DEF IInv, Image
  <2>3. PICK w \in Workers : at[w] = "release" /\ on[w] = m
    BY <2>2 DEF IInv, Image
  <2>4. QED
    BY <2>3 DEF IInv, Image
<1>2. QED
  BY <1>1, Invariance, PTL
=============================================================================

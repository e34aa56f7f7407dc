------------------------ MODULE BlockingService_proofs ----------------------
(***************************************************************************)
(* Theorems about BlockingService, for any models, texts, sentences, calls *)
(* and failures.                                                           *)
(*                                                                         *)
(* All rest on Accounted: a request counts at least as many sentences as   *)
(* wait for it, and exactly as many while its call is running.  What an    *)
(* exception loses makes the difference, so that with a first failure of a *)
(* call of one text no completion is possible any more (Lost).             *)
(***************************************************************************)
EXTENDS BlockingService, FiniteSetTheorems, SequenceTheorems, TLAPS

RequestSet == [call : Nat, texts : 1 .. MaxTexts, slot : Nat \ {0}, left : Nat]

Waiting == batch \cup UNION {pool[m] : m \in Models}
Of(r) == OfRequest(r, Waiting)

(* The call of the request is running.                                     *)
Current(r) == at # "idle" /\ r \in Mine

(* A sentence is in one place.                                             *)
Apart ==
    /\ at # "translate" => batch = {}
    /\ \A m \in Models : pool[m] \cap batch = {}
    /\ \A m, n \in Models : m # n => pool[m] \cap pool[n] = {}

(* The sentences of the running call are in the pool of its model, and the *)
(* queue will come to it.                                                  *)
Reachable ==
    at # "idle" =>
        /\ \A r \in Mine : \A m \in Models \ {InUse} : OfRequest(r, pool[m]) = {}
        /\ Mine = {} \/ InUse \in queue \/ pool[InUse] = {}

(* The requests of the running call take the slots in turn, and the        *)
(* responses of those that count to zero are set.                          *)
Numbered ==
    /\ \A r \in Ids : requests[r].call <= call
    /\ at # "idle" =>
        /\ texts >= 1
        /\ at = "make" => Cardinality(Mine) < texts
        /\ at # "make" => Cardinality(Mine) = texts
        /\ \A k \in 1 .. Cardinality(Mine) : \E r \in Mine : requests[r].slot = k
        /\ \A r \in Mine : requests[r].slot \in 1 .. Cardinality(Mine)
                           /\ requests[r].texts = texts
        /\ filled \subseteq 1 .. Cardinality(Mine)
        /\ \A r \in Mine : requests[r].left = 0 => requests[r].slot \in filled

Accounted ==
    \A r \in Ids :
        /\ Cardinality(Of(r)) <= requests[r].left
        /\ Current(r) => requests[r].left = Cardinality(Of(r))

(* What is left of calls that are over.                                    *)
Lost ==
    /\ failed = 0 => \A r \in Ids : Current(r) \/ Of(r) = {}
    /\ failed <= 1 => \A r \in Ids :
            \/ requests[r].texts > 1
            \/ Current(r)
            \/ Of(r) = {}
            \/ Cardinality(Of(r)) < requests[r].left

IInv ==
    TypeOK /\ ReleasedIsGone /\ Apart /\ Reachable /\ Numbered /\ Accounted /\ Lost

-----------------------------------------------------------------------------
(* Cardinalities.                                                          *)

(* Finitely many sentences wait for a request.                             *)
LEMMA OfFinite ==
  ASSUME TypeOK, NEW r, NEW S \in SUBSET Waiting
  PROVE  /\ IsFiniteSet(OfRequest(r, S))
         /\ Cardinality(OfRequest(r, S)) \in Nat
<1>1. IsFiniteSet({r} \X (1 .. MaxSegments))
  <2>1. IsFiniteSet({r}) /\ IsFiniteSet(1 .. MaxSegments)
    <3>1. MaxSegments \in Int
      BY BlockingAssumption
    <3>2. IsFiniteSet({r})
      BY FS_Singleton
    <3>3. IsFiniteSet(1 .. MaxSegments)
      BY <3>1, FS_Interval
    <3>4. QED
      BY <3>2, <3>3
  <2>2. QED
    BY <2>1, FS_Product
<1>2. Waiting \subseteq Ids \X (1 .. MaxSegments)
  BY DEF TypeOK, Waiting
<1>3. OfRequest(r, S) \in SUBSET ({r} \X (1 .. MaxSegments))
  BY <1>2 DEF OfRequest
<1>4. QED
  BY <1>1, <1>3, FS_Subset, FS_CardinalityType

(* What remains when a part is taken.                                      *)
LEMMA Rest ==
  ASSUME NEW S, IsFiniteSet(S), NEW T \in SUBSET S
  PROVE  /\ IsFiniteSet(T) /\ Cardinality(S) \in Nat /\ Cardinality(T) \in Nat
         /\ Cardinality(S \ T) = Cardinality(S) - Cardinality(T)
         /\ Cardinality(T) <= Cardinality(S)
<1>1. S \cap T = T
  OBVIOUS
<1>2. IsFiniteSet(T) /\ Cardinality(T) <= Cardinality(S)
  BY FS_Subset
<1>3. Cardinality(S) \in Nat /\ Cardinality(T) \in Nat
  BY <1>2, FS_CardinalityType
<1>4. Cardinality(S \ T) = Cardinality(S) - Cardinality(S \cap T)
  BY FS_Difference
<1>5. QED
  BY <1>1, <1>2, <1>3, <1>4

(* The first n numbers and the next.                                       *)
LEMMA Enlarged ==
  ASSUME NEW n \in Nat, NEW F, F \subseteq 1 .. n
  PROVE  F \subseteq 1 .. n + 1 /\ F \cup {n + 1} \subseteq 1 .. n + 1
  OBVIOUS

(* Finitely many requests are made.                                        *)
LEMMA MineFinite ==
  ASSUME TypeOK
  PROVE  IsFiniteSet(Mine) /\ Cardinality(Mine) \in Nat
<1>1. Len(requests) \in Nat /\ Ids = 1 .. Len(requests)
  BY DEF TypeOK, Ids
<1>2. IsFiniteSet(Ids)
  BY <1>1, FS_Interval
<1>3. Mine \in SUBSET Ids
  BY DEF Mine
<1>4. QED
  BY <1>2, <1>3, FS_Subset, FS_CardinalityType

(* A completion counts down the sentences of each request.                 *)
LEMMA CountedDown ==
  ASSUME TypeOK, Accounted, NEW S \in SUBSET Waiting, CountDown(S)
  PROVE  /\ requests' \in Seq(RequestSet) /\ Ids' = Ids
         /\ \A r \in Ids :
              /\ requests'[r].call = requests[r].call
              /\ requests'[r].texts = requests[r].texts
              /\ requests'[r].slot = requests[r].slot
              /\ requests'[r].left = requests[r].left - Cardinality(OfRequest(r, S))
<1>1. requests \in Seq(RequestSet) /\ Ids = 1 .. Len(requests) /\ Len(requests) \in Nat
  BY DEF TypeOK, RequestSet, Ids
<1>2. ASSUME NEW r \in Ids
      PROVE  /\ requests[r] \in RequestSet
             /\ requests[r].left - Cardinality(OfRequest(r, S)) \in Nat
  <2>1. requests[r] \in RequestSet
    BY <1>1
  <2>2. OfRequest(r, S) \in SUBSET Of(r)
    BY DEF Of, OfRequest
  <2>3. IsFiniteSet(Of(r))
    BY OfFinite DEF Of
  <2>4. Cardinality(OfRequest(r, S)) <= Cardinality(Of(r)) /\ Cardinality(OfRequest(r, S)) \in Nat
        /\ Cardinality(Of(r)) \in Nat
    BY <2>2, <2>3, Rest
  <2>5. Cardinality(Of(r)) <= requests[r].left /\ requests[r].left \in Nat
    BY <2>1 DEF Accounted, RequestSet
  <2>6. QED
    BY <2>1, <2>4, <2>5
<1>3. requests' = [r \in Ids |-> [requests[r] EXCEPT !.left = @ - Cardinality(OfRequest(r, S))]]
  BY DEF CountDown
<1>4. \A r \in Ids : requests'[r] = [requests[r] EXCEPT !.left = @ - Cardinality(OfRequest(r, S))]
  BY <1>3
<1>5. \A r \in Ids : requests'[r] \in RequestSet
  BY <1>2, <1>4 DEF RequestSet
<1>6. requests' \in [1 .. Len(requests) -> RequestSet]
  BY <1>1, <1>3, <1>5
<1>7. requests' \in Seq(RequestSet)
  BY <1>1, <1>6, IsASeq
<1>8. DOMAIN requests' = Ids
  BY <1>3
<1>9. QED
  BY <1>2, <1>4, <1>7, <1>8 DEF Ids, RequestSet

-----------------------------------------------------------------------------
(* Steps of the client.                                                    *)

(* The requests keep their types.                                          *)
LEMMA Typed ==
  ASSUME TypeOK
  PROVE  /\ requests \in Seq(RequestSet) /\ Len(requests) \in Nat
         /\ Ids = 1 .. Len(requests)
         /\ \A r \in Ids : requests[r] \in RequestSet
         /\ Mine \subseteq Ids
         /\ Waiting \subseteq Ids \X (1 .. MaxSegments)
<1>1. requests \in Seq(RequestSet)
  BY DEF TypeOK, RequestSet
<1>2. Waiting \subseteq Ids \X (1 .. MaxSegments)
  BY DEF TypeOK, Waiting
<1>3. QED
  BY <1>1, <1>2 DEF Ids, Mine

(* Between calls, sentences that go change no count.                       *)
LEMMA Shrunk ==
  ASSUME IInv, at = "idle", at' = "idle", UNCHANGED <<requests, failed>>, Waiting' \subseteq Waiting
  PROVE  Accounted' /\ Lost'
<1>1. Ids' = Ids /\ \A r \in Ids : requests'[r] = requests[r] /\ requests[r] \in RequestSet
  BY Typed DEF IInv, Ids
<1>2. ASSUME NEW r \in Ids
      PROVE  /\ Of(r)' \subseteq Of(r)
             /\ Cardinality(Of(r)') <= Cardinality(Of(r))
             /\ Cardinality(Of(r)') \in Nat /\ Cardinality(Of(r)) \in Nat
             /\ requests[r].left \in Nat
  <2>1. Of(r)' = OfRequest(r, Waiting') /\ Of(r)' \in SUBSET Of(r)
    BY DEF Of, OfRequest
  <2>2. IsFiniteSet(Of(r))
    BY OfFinite DEF Of, IInv
  <2>3. QED
    BY <1>1, <2>1, <2>2, Rest DEF RequestSet
<1>3. \A r \in Ids : ~Current(r) /\ ~Current(r)'
  BY DEF Current
<1>4. Accounted'
  BY <1>1, <1>2, <1>3 DEF IInv, Accounted
<1>5. Lost'
  BY <1>1, <1>2, <1>3 DEF IInv, Lost
<1>6. QED
  BY <1>4, <1>5

LEMMA LoadStep ==
  ASSUME IInv, NEW m \in Models, Load(m)
  PROVE  IInv'
<1> USE DEF Load, callvars
<1>1. UNCHANGED <<Waiting, Ids>>
  BY DEF Waiting, Ids
<1>2. TypeOK' /\ ReleasedIsGone'
  <2>1. models' \in Seq(handles')
    BY SeqMonotonic DEF IInv, TypeOK
  <2>2. QED
    BY <1>1, <2>1 DEF IInv, TypeOK, ReleasedIsGone
<1>3. Apart' /\ Reachable' /\ Numbered'
  BY <1>1 DEF IInv, Apart, Reachable, Numbered
<1>4. Accounted' /\ Lost'
  BY <1>1, Shrunk
<1>5. QED
  BY <1>2, <1>3, <1>4 DEF IInv

LEMMA ReleaseStep ==
  ASSUME IInv, NEW m \in Models, Release(m)
  PROVE  IInv'
<1> USE DEF Release, callvars, QueueCleared
<1>1. /\ pool' = [pool EXCEPT ![m] = {}]
      /\ \A n \in Models : pool'[n] \subseteq pool[n]
      /\ UNCHANGED Ids
  BY DEF IInv, TypeOK, Ids
<1>2. Waiting' \subseteq Waiting
  BY <1>1 DEF Waiting
<1>3. TypeOK' /\ ReleasedIsGone'
  <2>1. pool' \in [Models -> SUBSET (Ids' \X (1 .. MaxSegments))]
    BY <1>1 DEF IInv, TypeOK
  <2>2. models = <<>>
    BY DEF IInv, TypeOK
  <2>3. QED
    BY <1>1, <2>1 DEF IInv, TypeOK, ReleasedIsGone
<1>4. Apart' /\ Reachable' /\ Numbered'
  BY <1>1 DEF IInv, Apart, Reachable, Numbered
<1>5. Accounted' /\ Lost'
  BY <1>2, Shrunk
<1>6. QED
  BY <1>3, <1>4, <1>5 DEF IInv

(* A call, or a leg of one, that has made no request yet.                  *)
LEMMA NewCall ==
  ASSUME IInv, UNCHANGED <<requests, pool, batch, failed>>, call' = call + 1,
         at' = "make", filled' = {}, texts' \in 1 .. MaxTexts,
         \A r \in Ids : Current(r) => Of(r) = {}
  PROVE  Reachable' /\ Numbered' /\ Accounted' /\ Lost'
<1>1. UNCHANGED <<Waiting, Ids>> /\ call \in Nat
  BY DEF IInv, TypeOK, Waiting, Ids
<1>2. \A r \in Ids : requests[r].call <= call /\ requests[r] \in RequestSet
  BY Typed DEF IInv, Numbered
<1>3. Mine' = {}
  BY <1>1, <1>2 DEF Mine, RequestSet
<1>4. Cardinality(Mine') = 0
  BY <1>3, FS_EmptySet
<1>5. Reachable'
  BY <1>3 DEF Reachable
<1>6. Numbered'
  <2>1. \A r \in Ids' : requests'[r].call <= call'
    BY <1>1, <1>2 DEF RequestSet
  <2>2. texts' \in Nat /\ texts' >= 1
    BY BlockingAssumption
  <2>3. QED
    BY <1>3, <1>4, <2>1, <2>2 DEF Numbered
<1>7. \A r \in Ids : Of(r)' = Of(r) /\ ~Current(r)'
  BY <1>1, <1>3 DEF Of, Current
<1>8. Accounted'
  BY <1>1, <1>7 DEF IInv, Accounted
<1>9. Lost'
  BY <1>1, <1>7 DEF IInv, Lost
<1>10. QED
  BY <1>5, <1>6, <1>8, <1>9

LEMMA CallStep ==
  ASSUME IInv, Call
  PROVE  IInv'
<1> USE DEF Call
<1>1. UNCHANGED <<Waiting, Ids>>
  BY DEF Waiting, Ids
<1>2. models' \in Seq(handles') /\ models' # <<>>
  <2>1. PICK n \in {1, 2} : models' \in Injection(1 .. n, handles)
    OBVIOUS
  <2>2. models' \in [1 .. n -> handles]
    BY <2>1 DEF Injection
  <2>3. models' \in Seq(handles) /\ Len(models') = n
    BY <2>2, IsASeq, LenProperties
  <2>4. QED
    BY <2>3
<1>3. texts' \in 1 .. MaxTexts /\ call' \in Nat
  BY DEF IInv, TypeOK
<1>4. TypeOK'
  <2>1. texts' \in 0 .. MaxTexts
    BY <1>3, BlockingAssumption
  <2>2. UNCHANGED requests /\ Ids' = Ids
    BY DEF Ids
  <2>3. QED
    BY <1>2, <1>3, <2>1, <2>2 DEF IInv, TypeOK
<1>5. ReleasedIsGone' /\ Apart'
  BY DEF IInv, ReleasedIsGone, Apart
<1>6. Reachable' /\ Numbered' /\ Accounted' /\ Lost'
  BY <1>3, NewCall DEF Current
<1>7. QED
  BY <1>4, <1>5, <1>6 DEF IInv

-----------------------------------------------------------------------------
(* Steps of a call.                                                        *)

(* The model in use is one the client holds.                               *)
LEMMA InUseHeld ==
  ASSUME IInv, at # "idle"
  PROVE  InUse \in handles /\ InUse \in Models
<1>1. models \in Seq(handles) /\ models # <<>>
  BY DEF IInv, TypeOK
<1>2. Len(models) \in Nat \ {0}
  BY <1>1
<1>3. models[1] \in handles
  BY <1>1, <1>2
<1>4. QED
  BY <1>3 DEF InUse, IInv, TypeOK

LEMMA GenerateBatchStep ==
  ASSUME IInv, GenerateBatch
  PROVE  IInv'
<1>1. PICK m \in queue, taken \in SUBSET UNION {pool[n] : n \in queue} :
          /\ taken \subseteq pool[m]
          /\ taken = {} => pool[m] = {}
          /\ pool' = [pool EXCEPT ![m] = @ \ taken]
          /\ batch' = taken
          /\ queue' = IF taken = {} THEN queue \ {m} ELSE queue
          /\ at' = IF taken = {} THEN "draw" ELSE "translate"
          /\ at = "draw"
          /\ UNCHANGED <<handles, requests, call, models, texts, filled, failed, late>>
  BY DEF GenerateBatch, Exhausted
<1>2. /\ m \in Models /\ batch = {}
      /\ pool \in [Models -> SUBSET (Ids \X (1 .. MaxSegments))]
      /\ pool'[m] = pool[m] \ taken
      /\ \A n \in Models \ {m} : pool'[n] = pool[n]
      /\ Ids' = Ids /\ Mine' = Mine /\ InUse' = InUse
      /\ at' # "idle" /\ at # "idle"
  BY <1>1 DEF IInv, TypeOK, Apart, Ids, Mine, InUse
<1>3. Waiting' = Waiting
  <2>1. ASSUME NEW n \in Models PROVE pool[n] \subseteq Waiting' /\ pool'[n] \subseteq Waiting
    BY <1>1, <1>2 DEF Waiting
  <2>2. batch' \subseteq Waiting
    BY <1>1, <1>2 DEF Waiting
  <2>3. QED
    BY <1>2, <2>1, <2>2 DEF Waiting
<1>4. TypeOK'
  <2>1. pool' \in [Models -> SUBSET (Ids' \X (1 .. MaxSegments))]
    BY <1>1, <1>2
  <2>2. batch' \in SUBSET (Ids' \X (1 .. MaxSegments))
    BY <1>1, <1>2
  <2>3. models' \in Seq(handles')
    BY <1>1 DEF IInv, TypeOK
  <2>4. QED
    BY <1>1, <1>2, <2>1, <2>2, <2>3 DEF IInv, TypeOK
<1>5. ReleasedIsGone'
  BY <1>1 DEF IInv, ReleasedIsGone
<1>6. Apart'
  BY <1>1, <1>2 DEF IInv, Apart
<1>7. Reachable'
  <2>1. \A r \in Mine' : \A n \in Models \ {InUse'} : OfRequest(r, pool'[n]) = {}
    BY <1>1, <1>2 DEF IInv, Reachable, OfRequest
  <2>2. Mine' = {} \/ InUse' \in queue' \/ pool'[InUse'] = {}
    BY <1>1, <1>2, InUseHeld DEF IInv, Reachable
  <2>3. QED
    BY <2>1, <2>2 DEF Reachable
<1>8. Numbered'
  BY <1>1, <1>2 DEF IInv, Numbered
<1>9. \A r \in Ids : Of(r)' = Of(r) /\ (Current(r)' <=> Current(r))
  BY <1>2, <1>3 DEF Of, Current
<1>10. Accounted' /\ Lost'
  BY <1>1, <1>2, <1>9 DEF IInv, Accounted, Lost
<1>11. QED
  BY <1>4, <1>5, <1>6, <1>7, <1>8, <1>10 DEF IInv

(* The sentences of a new request.                                         *)
LEMMA NewSentences ==
  ASSUME NEW r, NEW n \in Nat
  PROVE  Cardinality({<<r, i>> : i \in 1 .. n}) = n
<1>1. {<<r, i>> : i \in 1 .. n} = {r} \X (1 .. n)
  OBVIOUS
<1>2. IsFiniteSet({r}) /\ Cardinality({r}) = 1
  BY FS_Singleton
<1>3. IsFiniteSet(1 .. n) /\ Cardinality(1 .. n) = n
  BY FS_Interval
<1>4. Cardinality({r} \X (1 .. n)) = 1 * n
  BY <1>2, <1>3, FS_Product
<1>5. QED
  BY <1>1, <1>4

LEMMA MakeRequestStep ==
  ASSUME IInv, MakeRequest
  PROVE  IInv'
<1>0. PICK r0, slot : r0 = Len(requests) + 1 /\ slot = Cardinality(Mine) + 1
  OBVIOUS
<1>1. PICK segments \in 0 .. MaxSegments :
            /\ requests' = Append(requests,
                    [call |-> call, texts |-> texts, slot |-> slot, left |-> segments])
            /\ pool' = [pool EXCEPT ![InUse] = @ \cup {<<r0, i>> : i \in 1 .. segments}]
            /\ filled' = IF segments = 0 THEN filled \cup {slot} ELSE filled
            /\ at' = IF slot = texts THEN "draw" ELSE "make"
  BY <1>0 DEF MakeRequest
<1>2. /\ queue' = queue \cup {InUse}
      /\ at = "make"
      /\ UNCHANGED <<handles, call, models, texts, batch, failed, late>>
  BY DEF MakeRequest
<1> DEFINE N == {<<r0, i>> : i \in 1 .. segments}
<1>3. InUse \in handles /\ InUse \in Models
  BY <1>2, InUseHeld
<1>4. /\ requests \in Seq(RequestSet) /\ Len(requests) \in Nat /\ Ids = 1 .. Len(requests)
      /\ Mine \subseteq Ids /\ Waiting \subseteq Ids \X (1 .. MaxSegments)
      /\ Cardinality(Mine) \in Nat
  BY Typed, MineFinite DEF IInv
<1>5. /\ requests' \in Seq(RequestSet)
      /\ Ids' = Ids \cup {r0} /\ r0 \notin Ids
      /\ \A r \in Ids : requests'[r] = requests[r]
      /\ requests'[r0] = [call |-> call, texts |-> texts, slot |-> slot, left |-> segments]
  <2>1. [call |-> call, texts |-> texts, slot |-> slot, left |-> segments] \in RequestSet
    <3>1. call \in Nat /\ texts \in 1 .. MaxTexts /\ slot \in Nat \ {0} /\ segments \in Nat
      BY <1>0, <1>2, <1>4, BlockingAssumption DEF IInv, TypeOK, Numbered
    <3>2. QED
      BY <3>1 DEF RequestSet
  <2>2. requests' \in Seq(RequestSet) /\ Len(requests') = r0
    BY <1>0, <1>1, <1>4, <2>1
  <2>3. Ids' = 1 .. r0
    BY <2>2 DEF Ids
  <2>4. QED
    BY <1>0, <1>1, <1>4, <2>1, <2>2, <2>3
<1>6. Mine' = Mine \cup {r0} /\ Cardinality(Mine') = slot
  <2>1. Mine' = Mine \cup {r0}
    BY <1>2, <1>5 DEF Mine
  <2>2. IsFiniteSet(Mine) /\ r0 \notin Mine
    BY <1>4, <1>5, MineFinite DEF IInv
  <2>3. QED
    BY <1>0, <2>1, <2>2, FS_AddElement
<1>7. /\ pool \in [Models -> SUBSET (Ids \X (1 .. MaxSegments))]
      /\ pool'[InUse] = pool[InUse] \cup N
      /\ \A n \in Models \ {InUse} : pool'[n] = pool[n]
      /\ InUse' = InUse
  BY <1>1, <1>2, <1>3 DEF IInv, TypeOK, InUse
<1>8. Waiting' = Waiting \cup N
  BY <1>2, <1>3, <1>7 DEF Waiting
<1>9. N \subseteq Ids' \X (1 .. MaxSegments)
  BY <1>5, BlockingAssumption
<1>10. segments \in Nat
  BY BlockingAssumption
<1>11. Of(r0)' = N /\ Cardinality(Of(r0)') = segments
  <2>1. Cardinality(N) = segments
    BY <1>10, NewSentences
  <2>2. Of(r0)' = OfRequest(r0, Waiting \cup N)
    BY <1>8 DEF Of, OfRequest
  <2>3. OfRequest(r0, Waiting) = {}
    BY <1>4, <1>5 DEF OfRequest
  <2>4. OfRequest(r0, N) = N
    BY DEF OfRequest
  <2> HIDE DEF N
  <2>5. OfRequest(r0, Waiting \cup N) = N
    BY <2>3, <2>4 DEF OfRequest
  <2>6. QED
    BY <2>1, <2>2, <2>5
<1>12. \A r \in Ids : Of(r)' = Of(r)
  <2> SUFFICES ASSUME NEW r \in Ids PROVE Of(r)' = Of(r)
    OBVIOUS
  <2>1. OfRequest(r, N) = {}
    BY <1>5 DEF OfRequest
  <2>2. Of(r)' = OfRequest(r, Waiting \cup N)
    BY <1>8 DEF Of, OfRequest
  <2> HIDE DEF N
  <2>3. QED
    BY <2>1, <2>2 DEF Of, OfRequest
<1>13. at' # "idle"
  BY <1>1
<1>14. TypeOK'
  <2>1. pool' \in [Models -> SUBSET (Ids' \X (1 .. MaxSegments))]
    BY <1>1, <1>3, <1>5, <1>7, <1>9
  <2>2. filled' \in SUBSET (Nat \ {0})
    <3>1. slot \in Nat \ {0} /\ filled \in SUBSET (Nat \ {0})
      BY <1>0, <1>4 DEF IInv, TypeOK
    <3>2. filled' = filled \/ filled' = filled \cup {slot}
      BY <1>1
    <3>3. QED
      BY <3>1, <3>2
  <2>3. batch' \in SUBSET (Ids' \X (1 .. MaxSegments)) /\ late' \in SUBSET Ids'
    BY <1>2, <1>5 DEF IInv, TypeOK
  <2>4. requests' \in Seq([call : Nat, texts : 1 .. MaxTexts, slot : Nat \ {0}, left : Nat])
    BY <1>5 DEF RequestSet
  <2>5. queue' \in SUBSET Models /\ at' \in {"make", "draw"} /\ models' \in Seq(handles') /\ models' # <<>>
    BY <1>1, <1>2, <1>3 DEF IInv, TypeOK
  <2>6. QED
    BY <1>2, <2>1, <2>2, <2>3, <2>4, <2>5 DEF IInv, TypeOK
<1>15. ReleasedIsGone'
  BY <1>2, <1>3 DEF IInv, ReleasedIsGone
<1>16. Apart'
  <2>1. \A n \in Models : pool[n] \cap N = {} /\ batch = {}
    BY <1>2, <1>5, <1>7 DEF IInv, Apart
  <2> HIDE DEF N
  <2>2. QED
    BY <1>2, <1>3, <1>7, <2>1 DEF IInv, Apart
<1>17. Reachable'
  <2>1. \A r \in Mine' : \A n \in Models \ {InUse'} : OfRequest(r, pool'[n]) = {}
    <3>1. \A n \in Models \ {InUse} : OfRequest(r0, pool[n]) = {}
      BY <1>5, <1>7 DEF OfRequest
    <3>2. \A r \in Mine : \A n \in Models \ {InUse} : OfRequest(r, pool[n]) = {}
      BY <1>2 DEF IInv, Reachable
    <3>3. QED
      BY <1>6, <1>7, <3>1, <3>2
  <2>2. InUse' \in queue'
    BY <1>2, <1>7
  <2>3. QED
    BY <2>1, <2>2 DEF Reachable
<1>18. Numbered'
  <2>1. \A r \in Ids' : requests'[r].call <= call'
    <3>1. call \in Nat /\ \A r \in Ids : requests[r].call <= call
      BY DEF IInv, Numbered, TypeOK
    <3>2. \A r \in Ids : requests'[r].call <= call
      BY <1>5, <3>1
    <3>3. requests'[r0].call <= call
      BY <1>5, <3>1
    <3>4. QED
      BY <1>2, <1>5, <3>2, <3>3
  <2>2. /\ texts >= 1 /\ Cardinality(Mine) < texts /\ texts \in Nat
        /\ \A k \in 1 .. Cardinality(Mine) : \E r \in Mine : requests[r].slot = k
        /\ \A r \in Mine : requests[r].slot \in 1 .. Cardinality(Mine)
                           /\ requests[r].texts = texts
        /\ filled \subseteq 1 .. Cardinality(Mine)
        /\ \A r \in Mine : requests[r].left = 0 => requests[r].slot \in filled
    BY <1>2 DEF IInv, Numbered, TypeOK
  <2>3. \A k \in 1 .. Cardinality(Mine') : \E r \in Mine' : requests'[r].slot = k
    <3> SUFFICES ASSUME NEW k \in 1 .. slot PROVE \E r \in Mine' : requests'[r].slot = k
      BY <1>6
    <3>1. CASE k = slot
      BY <1>5, <1>6, <3>1
    <3>2. CASE k # slot
      <4>1. k \in 1 .. Cardinality(Mine)
        BY <1>0, <1>4, <3>2
      <4>2. QED
        BY <1>4, <1>5, <1>6, <2>2, <4>1
    <3>3. QED
      BY <3>1, <3>2
  <2>4. \A r \in Mine' : requests'[r].slot \in 1 .. Cardinality(Mine') /\ requests'[r].texts = texts
    BY <1>0, <1>4, <1>5, <1>6, <2>2
  <2>5. filled' \subseteq 1 .. Cardinality(Mine')
    <3>1. filled' = filled \/ filled' = filled \cup {slot}
      BY <1>1
    <3>2. Cardinality(Mine') = slot
      BY <1>6
    <3>3. filled \subseteq 1 .. slot /\ filled \cup {slot} \subseteq 1 .. slot
      BY <1>0, <1>4, <2>2, Enlarged
    <3> QED
      BY <3>1, <3>2, <3>3
  <2>6. \A r \in Mine' : requests'[r].left = 0 => requests'[r].slot \in filled'
    BY <1>0, <1>1, <1>4, <1>5, <1>6, <2>2
  <2>7. /\ at' = "make" => Cardinality(Mine') < texts'
        /\ at' # "make" => Cardinality(Mine') = texts'
    BY <1>0, <1>1, <1>2, <1>4, <1>6, <2>2
  <2>8. QED
    BY <1>2, <2>1, <2>2, <2>3, <2>4, <2>5, <2>6, <2>7 DEF Numbered
<1>19. \A r \in Ids : Current(r)' <=> Current(r)
  BY <1>2, <1>5, <1>6, <1>13 DEF Current
<1>20. Current(r0)'
  BY <1>6, <1>13 DEF Current
<1>21. Accounted'
  <2>1. \A r \in Ids : /\ Cardinality(Of(r)') <= requests'[r].left
                       /\ Current(r)' => requests'[r].left = Cardinality(Of(r)')
    BY <1>5, <1>12, <1>19 DEF IInv, Accounted
  <2>2. requests'[r0].left = Cardinality(Of(r0)') /\ Cardinality(Of(r0)') <= requests'[r0].left
    BY <1>5, <1>10, <1>11
  <2>3. QED
    BY <1>5, <2>1, <2>2 DEF Accounted
<1>22. Lost'
  <2>1. QED
    BY <1>2, <1>5, <1>12, <1>19, <1>20 DEF IInv, Lost
<1>23. QED
  BY <1>14, <1>15, <1>16, <1>17, <1>18, <1>21, <1>22 DEF IInv

(* A call that is over leaves what it has not translated.                  *)
LEMMA CallOver ==
  ASSUME IInv, Over, UNCHANGED <<handles, requests>>, queue' \subseteq queue
  PROVE  /\ Reachable' /\ Numbered' /\ ReleasedIsGone'
         /\ models' \in Seq(handles')
<1>1. at' = "idle" /\ models' = <<>> /\ call' = call /\ Ids' = Ids
  BY DEF Over, Ids
<1>2. QED
  BY <1>1 DEF IInv, Reachable, Numbered, ReleasedIsGone

LEMMA MakeRequestThrowsStep ==
  ASSUME IInv, MakeRequestThrows
  PROVE  IInv'
<1>1. /\ at = "make" /\ failed' = failed + 1 /\ Over
      /\ UNCHANGED <<handles, queue, pool, requests, batch, late>>
      /\ at' = "idle" /\ models' = <<>> /\ texts' = 0 /\ filled' = {} /\ call' = call
  BY DEF MakeRequestThrows, Over
<1>2. UNCHANGED <<Waiting, Ids>>
  BY <1>1 DEF Waiting, Ids
<1>3. Reachable' /\ Numbered' /\ ReleasedIsGone' /\ models' \in Seq(handles')
  BY <1>1, CallOver
<1>4. TypeOK'
  <2>1. failed' \in Nat /\ texts' \in 0 .. MaxTexts /\ filled' \in SUBSET (Nat \ {0})
    BY <1>1, BlockingAssumption DEF IInv, TypeOK
  <2>2. QED
    BY <1>1, <1>2, <1>3, <2>1 DEF IInv, TypeOK
<1>5. Apart'
  BY <1>1 DEF IInv, Apart
<1>6. \A r \in Ids : Of(r)' = Of(r) /\ ~Current(r)'
  BY <1>1, <1>2 DEF Of, Current
<1>7. Accounted'
  BY <1>1, <1>2, <1>6 DEF IInv, Accounted
<1>8. Lost'
  <2>1. failed \in Nat
    BY DEF IInv, TypeOK
  <2>2. ASSUME NEW r \in Ids, Current(r) PROVE requests[r].texts > 1
    <3>1. IsFiniteSet(Mine) /\ Cardinality(Mine) \in Nat
      BY MineFinite DEF IInv
    <3>2. Cardinality(Mine) # 0
      BY <2>2, <3>1, FS_EmptySet DEF Current
    <3>3. Cardinality(Mine) < texts /\ requests[r].texts = texts /\ texts \in Nat
      BY <1>1, <2>2 DEF IInv, Numbered, Current, TypeOK
    <3>4. QED
      BY <3>1, <3>2, <3>3
  <2>3. QED
    BY <1>1, <1>2, <1>6, <2>1, <2>2 DEF IInv, Lost
<1>9. QED
  BY <1>3, <1>4, <1>5, <1>7, <1>8 DEF IInv

(* When the queue is empty nothing of the call waits any more.             *)
LEMMA Drained ==
  ASSUME IInv, at = "draw", queue = {}
  PROVE  \A r \in Ids : Current(r) => Of(r) = {}
<1> SUFFICES ASSUME NEW r \in Ids, Current(r) PROVE Of(r) = {}
  OBVIOUS
<1>1. batch = {}
  BY DEF IInv, Apart
<1>2. pool[InUse] = {}
  BY DEF IInv, Reachable, Current
<1>3. ASSUME NEW m \in Models PROVE OfRequest(r, pool[m]) = {}
  BY <1>2 DEF IInv, Reachable, Current, OfRequest
<1>4. QED
  BY <1>1, <1>3 DEF Of, OfRequest, Waiting

LEMMA ReturnStep ==
  ASSUME IInv, Return
  PROVE  IInv'
<1>1. at = "draw" /\ queue = {} /\ UNCHANGED <<handles, queue, pool, requests, batch, failed, late>>
  BY DEF Return
<1>2. UNCHANGED <<Waiting, Ids>> /\ batch = {}
  BY <1>1 DEF Waiting, Ids, IInv, Apart
<1>3. \A r \in Ids : Current(r) => Of(r) = {}
  BY <1>1, Drained
<1>4. Apart'
  BY <1>1, <1>2 DEF IInv, Apart
<1>5. CASE Len(models) > 1
  <2>1. /\ models' = Tail(models) /\ call' = call + 1 /\ filled' = {} /\ at' = "make"
        /\ texts' = texts
    BY <1>5 DEF Return
  <2>2. models' \in Seq(handles') /\ models' # <<>>
    <3>1. models \in Seq(handles) /\ models # <<>>
      BY <1>1 DEF IInv, TypeOK
    <3>2. Tail(models) \in Seq(handles) /\ Len(Tail(models)) = Len(models) - 1 /\ Len(models) \in Nat
      BY <3>1, HeadTailProperties, LenProperties
    <3>3. Tail(models) # <<>>
      <4>1. Len(Tail(models)) # 0
        BY <1>5, <3>2
      <4>2. QED
        BY <3>2, <4>1, EmptySeq
    <3>4. QED
      BY <1>1, <2>1, <3>2, <3>3
  <2>3. texts' \in 1 .. MaxTexts /\ call' \in Nat
    <3>1. texts \in 0 .. MaxTexts /\ texts >= 1 /\ call \in Nat
      BY <1>1 DEF IInv, TypeOK, Numbered
    <3>2. QED
      BY <2>1, <3>1, BlockingAssumption
  <2>4. TypeOK'
    BY <1>1, <1>2, <2>1, <2>2, <2>3 DEF IInv, TypeOK
  <2>5. ReleasedIsGone'
    BY <1>1 DEF ReleasedIsGone
  <2>6. Reachable' /\ Numbered' /\ Accounted' /\ Lost'
    BY <1>1, <1>3, <2>1, <2>3, NewCall
  <2>7. QED
    BY <1>4, <2>4, <2>5, <2>6 DEF IInv
<1>6. CASE ~(Len(models) > 1)
  <2>1. Over /\ at' = "idle" /\ models' = <<>> /\ texts' = 0 /\ filled' = {} /\ call' = call
    BY <1>6 DEF Return, Over
  <2>2. Reachable' /\ Numbered' /\ ReleasedIsGone' /\ models' \in Seq(handles')
    BY <1>1, <2>1, CallOver
  <2>3. TypeOK'
    BY <1>1, <1>2, <2>1, <2>2, BlockingAssumption DEF IInv, TypeOK
  <2>4. \A r \in Ids : Of(r)' = Of(r) /\ ~Current(r)'
    BY <1>2, <2>1 DEF Of, Current
  <2>5. Accounted'
    BY <1>1, <1>2, <2>4 DEF IInv, Accounted
  <2>6. Lost'
    BY <1>1, <1>2, <1>3, <2>4 DEF IInv, Lost
  <2>7. QED
    BY <1>4, <2>2, <2>3, <2>5, <2>6 DEF IInv
<1>7. QED
  BY <1>5, <1>6

-----------------------------------------------------------------------------
(* Translation.                                                            *)

(* A part of the batch is completed and the rest of it is gone.            *)
LEMMA Completed ==
  ASSUME IInv, at = "translate", NEW done \in SUBSET batch, CountDown(done),
         batch' = {}, UNCHANGED <<pool, call>>
  PROVE  /\ Waiting' = Waiting \ batch
         /\ Mine' = Mine
         /\ \A r \in Ids :
              /\ Of(r)' = Of(r) \ OfRequest(r, batch)
              /\ Cardinality(Of(r)') = Cardinality(Of(r)) - Cardinality(OfRequest(r, batch))
              /\ Cardinality(OfRequest(r, done)) <= Cardinality(OfRequest(r, batch))
              /\ Cardinality(Of(r)) \in Nat /\ Cardinality(Of(r)') \in Nat
              /\ Cardinality(OfRequest(r, batch)) \in Nat
              /\ Cardinality(OfRequest(r, done)) \in Nat
<1>1. Waiting' = Waiting \ batch
  <2>1. \A m \in Models : pool[m] \cap batch = {} /\ pool'[m] = pool[m]
    BY DEF IInv, Apart
  <2>2. Waiting' = UNION {pool[m] : m \in Models}
    BY DEF Waiting
  <2>3. QED
    BY <2>1, <2>2 DEF Waiting
<1>2. done \in SUBSET Waiting /\ batch \in SUBSET Waiting
  BY DEF Waiting
<1>3. Mine' = Mine
  BY <1>2, CountedDown DEF IInv, Mine
<1>4. ASSUME NEW r \in Ids
      PROVE  /\ Of(r)' = Of(r) \ OfRequest(r, batch)
             /\ Cardinality(Of(r)') = Cardinality(Of(r)) - Cardinality(OfRequest(r, batch))
             /\ Cardinality(OfRequest(r, done)) <= Cardinality(OfRequest(r, batch))
             /\ Cardinality(Of(r)) \in Nat /\ Cardinality(Of(r)') \in Nat
             /\ Cardinality(OfRequest(r, batch)) \in Nat
             /\ Cardinality(OfRequest(r, done)) \in Nat
  <2>1. Of(r)' = OfRequest(r, Waiting')
    BY DEF Of, OfRequest
  <2>2. Of(r)' = Of(r) \ OfRequest(r, batch)
    BY <1>1, <2>1 DEF Of, OfRequest
  <2>3. OfRequest(r, batch) \in SUBSET Of(r) /\ OfRequest(r, done) \in SUBSET OfRequest(r, batch)
    BY <1>2 DEF Of, OfRequest
  <2>4. IsFiniteSet(Of(r)) /\ IsFiniteSet(OfRequest(r, batch))
    BY <1>2, OfFinite DEF Of, IInv
  <2>5. /\ Cardinality(Of(r) \ OfRequest(r, batch)) = Cardinality(Of(r)) - Cardinality(OfRequest(r, batch))
        /\ Cardinality(Of(r)) \in Nat /\ Cardinality(OfRequest(r, batch)) \in Nat
        /\ Cardinality(OfRequest(r, batch)) <= Cardinality(Of(r))
    BY <2>3, <2>4, Rest
  <2>6. /\ Cardinality(OfRequest(r, done)) <= Cardinality(OfRequest(r, batch))
        /\ Cardinality(OfRequest(r, done)) \in Nat
    BY <2>3, <2>4, Rest
  <2>7. QED
    BY <2>2, <2>5, <2>6
<1>5. QED
  BY <1>1, <1>3, <1>4

(* The parts of the invariant that do not count.                           *)
LEMMA CompletedPlaces ==
  ASSUME IInv, at = "translate", NEW done \in SUBSET batch, CountDown(done),
         batch' = {}, UNCHANGED <<pool, call, handles>>, late' \in SUBSET Ids
  PROVE  /\ Apart' /\ Ids' = Ids
         /\ requests' \in Seq(RequestSet)
         /\ pool' \in [Models -> SUBSET (Ids' \X (1 .. MaxSegments))]
         /\ batch' \in SUBSET (Ids' \X (1 .. MaxSegments))
         /\ late' \in SUBSET Ids'
<1>1. Ids' = Ids /\ requests' \in Seq(RequestSet)
  <2>1. done \in SUBSET Waiting
    BY DEF Waiting
  <2>2. QED
    BY <2>1, CountedDown DEF IInv
<1>2. Apart'
  BY DEF IInv, Apart
<1>3. QED
  BY <1>1, <1>2 DEF IInv, TypeOK

LEMMA TranslateBatchStep ==
  ASSUME IInv, TranslateBatch
  PROVE  IInv'
<1>1. /\ at = "translate" /\ at' = "draw" /\ CountDown(batch)
      /\ filled' = filled \cup {requests[r].slot : r \in CompletedBy(batch) \cap Mine}
      /\ late' = CompletedBy(batch) \ Mine
      /\ batch' = {}
      /\ UNCHANGED <<handles, queue, pool, call, models, texts, failed>>
  BY DEF TranslateBatch
<1>2. /\ batch \in SUBSET batch /\ batch \in SUBSET Waiting /\ CompletedBy(batch) \in SUBSET Ids
      /\ failed \in Nat
  BY DEF Waiting, CompletedBy, IInv, TypeOK
<1>3. /\ requests' \in Seq(RequestSet) /\ Ids' = Ids
      /\ \A r \in Ids :
           /\ requests'[r].call = requests[r].call
           /\ requests'[r].texts = requests[r].texts
           /\ requests'[r].slot = requests[r].slot
           /\ requests'[r].left = requests[r].left - Cardinality(OfRequest(r, batch))
           /\ requests[r] \in RequestSet
  BY <1>1, <1>2, CountedDown, Typed DEF IInv
<1>4. \A r \in Ids : requests[r].left \in Nat
  BY <1>3 DEF RequestSet
<1>5. /\ Mine' = Mine
      /\ \A r \in Ids :
              /\ Of(r)' = Of(r) \ OfRequest(r, batch)
              /\ Cardinality(Of(r)') = Cardinality(Of(r)) - Cardinality(OfRequest(r, batch))
              /\ Cardinality(Of(r)) \in Nat /\ Cardinality(Of(r)') \in Nat
              /\ Cardinality(OfRequest(r, batch)) \in Nat
  BY <1>1, <1>2, Completed
<1>6. /\ Apart'
      /\ pool' \in [Models -> SUBSET (Ids' \X (1 .. MaxSegments))]
      /\ batch' \in SUBSET (Ids' \X (1 .. MaxSegments))
      /\ late' \in SUBSET Ids'
  <2>1. late' \in SUBSET Ids
    BY <1>1, <1>2
  <2>2. QED
    BY <1>1, <1>2, <2>1, CompletedPlaces
<1>7. \A r \in CompletedBy(batch) \cap Mine : requests[r].slot \in 1 .. Cardinality(Mine)
  BY <1>1 DEF IInv, Numbered
<1>8. TypeOK'
  <2>1. filled' \in SUBSET (Nat \ {0})
    <3>1. \A r \in CompletedBy(batch) \cap Mine : requests[r].slot \in Nat \ {0}
      BY <1>2, <1>3 DEF RequestSet
    <3>2. filled \in SUBSET (Nat \ {0})
      BY DEF IInv, TypeOK
    <3>3. QED
      BY <1>1, <3>1, <3>2
  <2>2. requests' \in Seq([call : Nat, texts : 1 .. MaxTexts, slot : Nat \ {0}, left : Nat])
    BY <1>3 DEF RequestSet
  <2>3. models' \in Seq(handles') /\ models' # <<>>
    BY <1>1 DEF IInv, TypeOK
  <2>4. QED
    BY <1>1, <1>6, <2>1, <2>2, <2>3 DEF IInv, TypeOK
<1>9. ReleasedIsGone'
  BY <1>1 DEF IInv, ReleasedIsGone
<1>10. InUse' = InUse
  BY <1>1 DEF InUse
<1>11. Reachable'
  BY <1>1, <1>5, <1>10 DEF IInv, Reachable, OfRequest
<1>12. Numbered'
  <2>1. /\ texts >= 1 /\ Cardinality(Mine) = texts
        /\ \A k \in 1 .. Cardinality(Mine) : \E r \in Mine : requests[r].slot = k
        /\ \A r \in Mine : requests[r].slot \in 1 .. Cardinality(Mine)
                           /\ requests[r].texts = texts
        /\ filled \subseteq 1 .. Cardinality(Mine)
        /\ \A r \in Mine : requests[r].left = 0 => requests[r].slot \in filled
        /\ \A r \in Ids : requests[r].call <= call
        /\ Mine \subseteq Ids
    BY <1>1 DEF IInv, Numbered, Mine
  <2>2. filled' \subseteq 1 .. Cardinality(Mine)
    BY <1>1, <1>7, <2>1
  <2>3. ASSUME NEW r \in Mine, requests'[r].left = 0 PROVE requests[r].slot \in filled'
    <3>1. requests[r].left = Cardinality(OfRequest(r, batch))
      <4>1. r \in Ids
        BY <2>1
      <4>2. requests'[r].left = requests[r].left - Cardinality(OfRequest(r, batch))
        BY <1>3, <4>1
      <4>3. requests[r].left \in Nat /\ Cardinality(OfRequest(r, batch)) \in Nat
        BY <1>4, <1>5, <4>1
      <4>4. QED
        BY <2>3, <4>2, <4>3
    <3>2. CASE OfRequest(r, batch) = {}
      BY <1>1, <2>1, <3>1, <3>2, FS_EmptySet
    <3>3. CASE OfRequest(r, batch) # {}
      <4>1. r \in CompletedBy(batch)
        BY <2>1, <3>1, <3>3 DEF CompletedBy
      <4>2. QED
        BY <1>1, <4>1
    <3>4. QED
      BY <3>2, <3>3
  <2>4. QED
    BY <1>1, <1>3, <1>5, <2>1, <2>2, <2>3 DEF Numbered
<1>13. \A r \in Ids : Current(r)' <=> Current(r)
  BY <1>1, <1>5 DEF Current
<1>14. Accounted'
  BY <1>3, <1>5, <1>13, <1>4 DEF IInv, Accounted
<1>15. Lost'
  <2>1. \A r \in Ids : Of(r) = {} => Of(r)' = {}
    BY <1>5
  <2>2. \A r \in Ids : Cardinality(Of(r)) < requests[r].left => Cardinality(Of(r)') < requests'[r].left
    BY <1>3, <1>5, <1>4
  <2>3. QED
    BY <1>1, <1>3, <1>13, <2>1, <2>2 DEF IInv, Lost
<1>16. QED
  BY <1>6, <1>8, <1>9, <1>11, <1>12, <1>14, <1>15 DEF IInv

(* What an exception leaves of a batch: before it or after it, a sentence  *)
(* of the batch was counted.                                               *)
LEMMA TranslateBatchThrowsStep ==
  ASSUME IInv, TranslateBatchThrows
  PROVE  IInv'
<1>1. PICK s \in batch, before \in SUBSET batch, done \in SUBSET batch :
          /\ s \notin before
          /\ \/ done = before
             \/ done = before \cup {s} /\ s[1] \in CompletedBy(done)
          /\ CountDown(done)
          /\ pool' = pool
          /\ late' = CompletedBy(before) \ Mine
  BY DEF TranslateBatchThrows, Unwound
<1>2. /\ at = "translate" /\ batch' = {} /\ failed' = failed + 1 /\ Over
      /\ at' = "idle" /\ models' = <<>> /\ texts' = 0 /\ filled' = {} /\ call' = call
      /\ UNCHANGED <<handles, queue>>
      /\ failed \in Nat
  BY DEF TranslateBatchThrows, Over, IInv, TypeOK
<1>3. done \in SUBSET Waiting /\ CompletedBy(before) \in SUBSET Ids
  BY DEF Waiting, CompletedBy
<1>4. /\ requests' \in Seq(RequestSet) /\ Ids' = Ids
      /\ \A r \in Ids :
           /\ requests'[r].call = requests[r].call
           /\ requests'[r].texts = requests[r].texts
           /\ requests'[r].slot = requests[r].slot
           /\ requests'[r].left = requests[r].left - Cardinality(OfRequest(r, done))
           /\ requests[r] \in RequestSet
  BY <1>1, <1>3, CountedDown, Typed DEF IInv
<1>5. \A r \in Ids : requests[r].left \in Nat
  BY <1>4 DEF RequestSet
<1>6. /\ Mine' = Mine
      /\ \A r \in Ids :
              /\ Of(r)' = Of(r) \ OfRequest(r, batch)
              /\ Cardinality(Of(r)') = Cardinality(Of(r)) - Cardinality(OfRequest(r, batch))
              /\ Cardinality(OfRequest(r, done)) <= Cardinality(OfRequest(r, batch))
              /\ Cardinality(Of(r)) \in Nat /\ Cardinality(Of(r)') \in Nat
              /\ Cardinality(OfRequest(r, batch)) \in Nat
              /\ Cardinality(OfRequest(r, done)) \in Nat
  BY <1>1, <1>2, Completed
<1>7. /\ Apart'
      /\ pool' \in [Models -> SUBSET (Ids' \X (1 .. MaxSegments))]
      /\ batch' \in SUBSET (Ids' \X (1 .. MaxSegments))
      /\ late' \in SUBSET Ids'
  <2>1. late' \in SUBSET Ids
    BY <1>1, <1>3
  <2>2. QED
    BY <1>1, <1>2, <2>1, CompletedPlaces
<1>8. TypeOK'
  <2>1. requests' \in Seq([call : Nat, texts : 1 .. MaxTexts, slot : Nat \ {0}, left : Nat])
    BY <1>4 DEF RequestSet
  <2>2. models' \in Seq(handles') /\ failed' \in Nat /\ texts' \in 0 .. MaxTexts
    BY <1>2, BlockingAssumption
  <2>3. QED
    BY <1>2, <1>7, <2>1, <2>2 DEF IInv, TypeOK
<1>9. ReleasedIsGone'
  BY <1>2 DEF IInv, ReleasedIsGone
<1>10. Reachable'
  BY <1>2 DEF Reachable
<1>11. Numbered'
  BY <1>2, <1>4 DEF IInv, Numbered
<1>12. \A r \in Ids : ~Current(r)'
  BY <1>2 DEF Current
<1>13. Accounted'
  BY <1>4, <1>6, <1>12, <1>5 DEF IInv, Accounted
<1>14. Lost'
  <2>1. ASSUME failed = 0, NEW r \in Ids, Current(r), requests[r].texts = 1
        PROVE  Of(r)' = {} \/ Cardinality(Of(r)') < requests'[r].left
    <3>1. requests[r].left = Cardinality(Of(r))
      BY <2>1 DEF IInv, Accounted
    <3>2. s[1] = r
      <4>1. s \in Waiting /\ s[1] \in Ids
        BY DEF Waiting, IInv, TypeOK
      <4>2. Of(s[1]) # {}
        BY <4>1 DEF Of, OfRequest
      <4>3. s[1] \in Mine /\ r \in Mine
        BY <2>1, <4>1, <4>2 DEF IInv, Lost, Current
      <4>4. Cardinality(Mine) = 1
        BY <1>2, <2>1, <4>3 DEF IInv, Numbered
      <4>5. \E x : Mine = {x}
        BY <4>4, MineFinite, FS_Singleton DEF IInv
      <4>6. QED
        BY <4>3, <4>5
    <3>3. CASE done = before
      <4>1. s \in OfRequest(r, batch) /\ s \notin OfRequest(r, done)
        BY <1>1, <3>2, <3>3 DEF OfRequest
      <4>2. OfRequest(r, done) \in SUBSET OfRequest(r, batch)
        BY DEF OfRequest
      <4>3. IsFiniteSet(OfRequest(r, batch))
        BY OfFinite DEF IInv, Waiting
      <4>4. Cardinality(OfRequest(r, done)) # Cardinality(OfRequest(r, batch))
        BY <4>1, <4>2, <4>3, FS_Subset
      <4>5. Cardinality(OfRequest(r, done)) < Cardinality(OfRequest(r, batch))
        BY <1>6, <4>4
      <4>6. QED
        BY <1>4, <1>6, <1>5, <3>1, <4>5
    <3>4. CASE s[1] \in CompletedBy(done)
      <4>1. requests[r].left = Cardinality(OfRequest(r, done))
        BY <3>2, <3>4 DEF CompletedBy
      <4>2. Cardinality(Of(r)) <= Cardinality(OfRequest(r, batch))
        BY <1>6, <3>1, <4>1
      <4>3. Cardinality(Of(r)') = 0
        BY <1>6, <4>2
      <4>4. IsFiniteSet(Of(r)')
        <5>1. IsFiniteSet(Of(r))
          BY OfFinite DEF IInv, Of
        <5>2. QED
          BY <1>6, <5>1, FS_Difference
      <4>5. QED
        BY <4>3, <4>4, FS_EmptySet
    <3>5. QED
      BY <1>1, <3>3, <3>4
  <2>2. \A r \in Ids : Of(r) = {} => Of(r)' = {}
    BY <1>6
  <2>3. \A r \in Ids : requests[r].texts > 1 \/ requests[r].texts = 1
    BY <1>4 DEF RequestSet
  <2>4. failed' # 0 /\ (failed' <= 1 => failed = 0)
    BY <1>2
  <2>5. failed = 0 => \A r \in Ids : Current(r) \/ Of(r) = {}
    BY DEF IInv, Lost
  <2>6. QED
    BY <1>4, <1>12, <2>1, <2>2, <2>3, <2>4, <2>5 DEF Lost
<1>15. QED
  BY <1>7, <1>8, <1>9, <1>10, <1>11, <1>13, <1>14 DEF IInv

(* What completes with these sentences had been counted without a loss.    *)
LEMMA LateNotLost ==
  ASSUME IInv, at = "translate", NEW S \in SUBSET batch, NEW r \in CompletedBy(S) \ Mine
  PROVE  r \in Ids /\ (requests[r].texts > 1 \/ failed > 1)
<1>1. r \in Ids /\ OfRequest(r, S) # {} /\ requests[r].left = Cardinality(OfRequest(r, S))
  BY DEF CompletedBy
<1>2. OfRequest(r, S) \in SUBSET Of(r)
  BY DEF Of, OfRequest, Waiting
<1>3. IsFiniteSet(Of(r))
  BY OfFinite DEF IInv, Of
<1>4. /\ Cardinality(OfRequest(r, S)) <= Cardinality(Of(r))
      /\ Cardinality(OfRequest(r, S)) \in Nat /\ Cardinality(Of(r)) \in Nat
  BY <1>2, <1>3, Rest
<1>5. Of(r) # {} /\ ~(Cardinality(Of(r)) < requests[r].left)
  BY <1>1, <1>2, <1>4
<1>6. ~Current(r)
  BY DEF Current
<1>7. failed \in Nat
  BY DEF IInv, TypeOK
<1>8. QED
  BY <1>1, <1>5, <1>6, <1>7 DEF IInv, Lost

LEMMA LateStep ==
  ASSUME IInv, Next
  PROVE  LateTakesTwo'
<1>1. CASE TranslateBatch
  <2>1. /\ at = "translate" /\ CountDown(batch) /\ failed' = failed
        /\ late' = CompletedBy(batch) \ Mine /\ batch \in SUBSET Waiting
    BY <1>1 DEF TranslateBatch, Waiting
  <2>2. \A r \in late' : r \in Ids /\ (requests[r].texts > 1 \/ failed > 1)
    BY <2>1, LateNotLost
  <2>3. \A r \in Ids : requests'[r].texts = requests[r].texts
    BY <2>1, CountedDown DEF IInv
  <2>4. QED
    BY <2>1, <2>2, <2>3 DEF LateTakesTwo
<1>2. CASE TranslateBatchThrows
  <2>1. PICK before \in SUBSET batch, done \in SUBSET batch :
            CountDown(done) /\ late' = CompletedBy(before) \ Mine
    BY <1>2 DEF TranslateBatchThrows
  <2>2. at = "translate" /\ failed' = failed + 1 /\ done \in SUBSET Waiting /\ failed \in Nat
    BY <1>2 DEF TranslateBatchThrows, Waiting, IInv, TypeOK
  <2>3. \A r \in late' : r \in Ids /\ (requests[r].texts > 1 \/ failed > 1)
    BY <2>1, <2>2, LateNotLost
  <2>4. \A r \in Ids : requests'[r].texts = requests[r].texts
    BY <2>1, <2>2, CountedDown DEF IInv
  <2>5. QED
    BY <2>2, <2>3, <2>4 DEF LateTakesTwo
<1>3. late = {}
  BY DEF Next
<1>4. CASE late' = late
  BY <1>3, <1>4 DEF LateTakesTwo
<1>5. late' = late \/ TranslateBatch \/ TranslateBatchThrows
  BY DEF Next, Load, Release, Call, Step, MakeRequest, MakeRequestThrows, GenerateBatch, Return
<1>6. QED
  BY <1>1, <1>2, <1>4, <1>5

-----------------------------------------------------------------------------
(* The inductive invariant holds in every state.                           *)
LEMMA Invariance == Spec => [](IInv /\ LateTakesTwo)
<1>1. Init => IInv /\ LateTakesTwo
  <2> SUFFICES ASSUME Init PROVE IInv /\ LateTakesTwo
    OBVIOUS
  <2>1. Ids = {} /\ Mine = {}
    BY DEF Init, Ids, Mine
  <2>2. TypeOK
    <3>1. requests \in Seq([call : Nat, texts : 1 .. MaxTexts, slot : Nat \ {0}, left : Nat])
      BY EmptySeq DEF Init
    <3>2. models \in Seq(handles)
      BY EmptySeq DEF Init
    <3>3. QED
      BY <3>1, <3>2, BlockingAssumption DEF Init, TypeOK
  <2>3. Apart /\ ReleasedIsGone /\ Reachable /\ LateTakesTwo
    BY DEF Init, Apart, ReleasedIsGone, Reachable, LateTakesTwo
  <2>4. Numbered /\ Accounted /\ Lost
    BY <2>1 DEF Init, Numbered, Accounted, Lost
  <2>5. QED
    BY <2>2, <2>3, <2>4 DEF IInv
<1>2. IInv /\ LateTakesTwo /\ [Next]_vars => (IInv /\ LateTakesTwo)'
  <2> SUFFICES ASSUME IInv, LateTakesTwo, [Next]_vars PROVE IInv' /\ LateTakesTwo'
    OBVIOUS
  <2>1. CASE Next
    BY <2>1, LateStep, LoadStep, ReleaseStep, CallStep, MakeRequestStep, MakeRequestThrowsStep,
       GenerateBatchStep, TranslateBatchStep, TranslateBatchThrowsStep, ReturnStep
       DEF Next, Step
  <2>2. CASE UNCHANGED vars
    <3>1. UNCHANGED <<Ids, Mine, InUse, Waiting>>
      BY <2>2 DEF vars, callvars, Ids, Mine, InUse, Waiting
    <3>2. \A r : Of(r)' = Of(r) /\ (Current(r)' <=> Current(r))
      BY <2>2, <3>1 DEF vars, callvars, Of, OfRequest, Current
    <3>3. TypeOK' /\ ReleasedIsGone' /\ Apart' /\ Reachable' /\ Numbered' /\ LateTakesTwo'
      BY <2>2, <3>1 DEF vars, callvars, IInv, TypeOK, ReleasedIsGone, Apart, Reachable,
                        Numbered, LateTakesTwo
    <3>4. Accounted' /\ Lost'
      BY <2>2, <3>1, <3>2 DEF vars, callvars, IInv, Accounted, Lost
    <3>5. QED
      BY <3>3, <3>4 DEF IInv
  <2>3. QED
    BY <2>1, <2>2
<1>3. QED
  BY <1>1, <1>2, PTL DEF Spec

(* Every variable keeps its type: no request counts below zero             *)
(* (Request::processHistory(), counter_).                                  *)
THEOREM TypeCorrect == Spec => []TypeOK
<1>1. IInv => TypeOK
  BY DEF IInv
<1>2. QED
  BY <1>1, Invariance, PTL

(* Nothing but the client's handles keeps a model between two calls        *)
(* (BlockingService::release()).                                           *)
THEOREM ReleasedAlwaysGone == Spec => []ReleasedIsGone
<1>1. IInv => ReleasedIsGone
  BY DEF IInv
<1>2. QED
  BY <1>1, Invariance, PTL

(* Every text has its response when the loop of a call ends                *)
(* (BlockingService::translateMultipleRaw()).                              *)
THEOREM ReturnsAlwaysComplete == Spec => []ReturnsComplete
<1>1. IInv => ReturnsComplete
  <2> SUFFICES ASSUME IInv, at = "draw", queue = {} PROVE filled = 1 .. texts
    BY DEF ReturnsComplete
  <2>1. Cardinality(Mine) = texts
    BY DEF IInv, Numbered
  <2>2. ASSUME NEW r \in Mine PROVE requests[r].left = 0
    <3>1. r \in Ids /\ Current(r)
      BY <2>2 DEF Mine, Current
    <3>2. Of(r) = {}
      BY <3>1, Drained
    <3>3. QED
      BY <3>1, <3>2, FS_EmptySet DEF IInv, Accounted
  <2>3. QED
    BY <2>1, <2>2 DEF IInv, Numbered
<1>2. QED
  BY <1>1, Invariance, PTL

(* A response comes late only after two failures, or one of a call of      *)
(* several texts.                                                          *)
THEOREM LateAlwaysTakesTwo == Spec => []LateTakesTwo
BY Invariance, PTL
=============================================================================

------------------------- MODULE BatchingPool_proofs ------------------------
(***************************************************************************)
(* Theorems about BatchingPool, for any sentences, lengths and workers.    *)
(*                                                                         *)
(* What the walk meets is everything that is in a bucket (Reached), and a  *)
(* sentence is in one bucket.  The walk meets a least entry first, and     *)
(* that one fits if a batch can hold the longest sentence.                 *)
(*                                                                         *)
(* The forecast is a recursion over the walk: a batch takes the start of   *)
(* the walk, and the dry run over what is left is the dry run over all,    *)
(* one batch behind when the padding ended the batch and never ahead when  *)
(* the cap ended it (OneBatchLess, NoMore).                                *)
(***************************************************************************)
EXTENDS BatchingPool, FiniteSetTheorems, TLAPS

(* The buckets, and what is in them.                                       *)
Buckets ==
    /\ \E n \in Nat : DOMAIN bucket = 0 .. n - 1
    /\ bucket \in [DOMAIN bucket -> SUBSET Sentences]
    /\ fresh \in SUBSET Sentences
    /\ \A l \in DOMAIN bucket : bucket[l] \cap fresh = {}
    /\ \A l \in DOMAIN bucket : bucket[l] # {} => l \in Lengths
    /\ \A k, l \in DOMAIN bucket : k # l => bucket[k] \cap bucket[l] = {}

(* No sentence lies beyond the longest active bucket.                      *)
Reached ==
    /\ maxActiveBucketLength \in DOMAIN bucket
    /\ \A l \in DOMAIN bucket : bucket[l] # {} => l <= maxActiveBucketLength

Counted == pending = Cardinality(Entries(bucket))

IInv == Buckets /\ Reached /\ Counted /\ DrainedPoolUncapped

-----------------------------------------------------------------------------
(* Numbers.                                                                *)

(* A nonempty set of natural numbers has a least one.                      *)
LEMMA Least ==
  ASSUME NEW T \in SUBSET Nat, T # {}
  PROVE  \E x \in T : \A y \in T : x <= y
<1> DEFINE R == {p \in Nat \X Nat : p[1] < p[2]}
<1>1. R = OpToRel(<, Nat)
  BY DEF OpToRel
<1>2. IsWellFoundedOn(R, Nat)
  BY <1>1, NatLessThanWellFounded
<1>3. \E x \in T : \A y \in T : <<y, x>> \notin R
  <2> HIDE DEF R
  <2> QED
    BY <1>2, WFMin
<1>4. PICK x \in T : \A y \in T : <<y, x>> \notin R
  BY <1>3
<1>5. ASSUME NEW y \in T PROVE x <= y
  <2>1. x \in Nat /\ y \in Nat
    OBVIOUS
  <2>2. <<y, x>> \in Nat \X Nat
    BY <2>1
  <2>3. ~ (y < x)
    BY <1>4, <2>2
  <2>4. QED
    BY <2>1, <2>3
<1>6. QED
  BY <1>5

(* A nonempty finite set of natural numbers has a greatest one: the one    *)
(* with the fewest above it.                                               *)
LEMMA Greatest ==
  ASSUME NEW T \in SUBSET Nat, T # {}, IsFiniteSet(T)
  PROVE  Max(T) \in T /\ \A y \in T : y <= Max(T)
<1> DEFINE Above(x) == {y \in T : y > x}
           C == {Cardinality(Above(x)) : x \in T}
<1>1. \A x \in T : IsFiniteSet(Above(x)) /\ Cardinality(Above(x)) \in Nat
  <2> SUFFICES ASSUME NEW x \in T
               PROVE  IsFiniteSet(Above(x)) /\ Cardinality(Above(x)) \in Nat
    OBVIOUS
  <2>1. Above(x) \in SUBSET T
    OBVIOUS
  <2>2. QED
    BY <2>1, FS_Subset, FS_CardinalityType
<1>2. C \in SUBSET Nat /\ C # {}
  BY <1>1
<1>3. PICK c \in C : \A d \in C : c <= d
  BY <1>2, Least
<1>4. PICK x \in T : c = Cardinality(Above(x))
  OBVIOUS
<1>5. \A y \in T : y <= x
  <2> SUFFICES ASSUME NEW y \in T, y > x PROVE FALSE
    OBVIOUS
  <2>1. Above(y) \in SUBSET Above(x) /\ y \in Above(x) /\ y \notin Above(y)
    <3>1. x \in Int /\ y \in Int /\ \A z \in T : z \in Int
      OBVIOUS
    <3>2. \A z \in T : z > y => z > x
      BY <3>1
    <3>3. ~(y > y)
      BY <3>1
    <3>4. QED
      BY <3>2, <3>3
  <2>2. Cardinality(Above(y)) <= Cardinality(Above(x))
        /\ Cardinality(Above(y)) # Cardinality(Above(x))
    BY <1>1, <2>1, FS_Subset
  <2>3. Cardinality(Above(x)) <= Cardinality(Above(y))
    BY <1>3, <1>4
  <2>4. Cardinality(Above(x)) \in Nat /\ Cardinality(Above(y)) \in Nat
    BY <1>1
  <2> HIDE DEF Above
  <2>5. QED
    BY <2>2, <2>3, <2>4
<1>6. \E z \in T : \A y \in T : z >= y
  BY <1>5
<1>7. QED
  BY <1>6 DEF Max

-----------------------------------------------------------------------------
(* Enqueueing.                                                             *)

(* The pool holds finitely many sentences.                                 *)
LEMMA EntriesFinite ==
  ASSUME IInv
  PROVE  /\ IsFiniteSet(Entries(bucket)) /\ Cardinality(Entries(bucket)) \in Nat
         /\ Entries(bucket) = Walked
         /\ Entries(bucket) \subseteq Lengths \X Sentences
         /\ DOMAIN bucket \subseteq Nat
<1>1. PICK n \in Nat : DOMAIN bucket = 0 .. n - 1
  BY DEF IInv, Buckets
<1>2. IsFiniteSet((0 .. n - 1) \X Sentences)
  <2>1. n - 1 \in Int
    BY <1>1
  <2>2. IsFiniteSet(0 .. n - 1)
    BY <2>1, FS_Interval
  <2>3. QED
    BY <2>2, FS_Product, PoolAssumption
<1>3. Entries(bucket) \in SUBSET ((0 .. n - 1) \X Sentences)
  BY <1>1 DEF IInv, Buckets, Entries
<1>4. Entries(bucket) = Walked
  BY <1>1 DEF IInv, Reached, Entries, Walked
<1>5. Entries(bucket) \subseteq Lengths \X Sentences
  BY <1>1 DEF IInv, Buckets, Entries
<1>6. QED
  BY <1>1, <1>2, <1>3, <1>4, <1>5, FS_Subset, FS_CardinalityType

(* The longest sentence of a request.                                      *)
LEMMA Longest ==
  ASSUME IInv, NEW len \in Requests
  PROVE  /\ DOMAIN len \in SUBSET fresh /\ IsFiniteSet(DOMAIN len)
         /\ len \in [DOMAIN len -> Lengths]
         /\ LongestOf(len) \in Nat
         /\ \A s \in DOMAIN len : len[s] <= LongestOf(len)
<1>1. DOMAIN len \in SUBSET fresh /\ len \in [DOMAIN len -> Lengths]
  BY DEF Requests
<1>2. IsFiniteSet(DOMAIN len)
  <2>1. DOMAIN len \in SUBSET Sentences
    BY <1>1 DEF IInv, Buckets
  <2>2. QED
    BY <2>1, FS_Subset, PoolAssumption
<1> DEFINE T == {len[s] : s \in DOMAIN len}
<1>3. IsFiniteSet(T)
  <2>1. len \in Surjection(DOMAIN len, T)
    BY <1>1 DEF Surjection
  <2> HIDE DEF T
  <2>2. QED
    BY <1>2, <2>1, FS_Surjection
<1>4. T \cup {0} \in SUBSET Nat /\ T \cup {0} # {}
  BY <1>1, PoolAssumption
<1>5. IsFiniteSet(T \cup {0})
  BY <1>3, FS_AddElement
<1>6. Max(T \cup {0}) \in T \cup {0} /\ \A y \in T \cup {0} : y <= Max(T \cup {0})
  <2> HIDE DEF T
  <2>1. QED
    BY <1>4, <1>5, Greatest
<1>7. LongestOf(len) = Max(T \cup {0})
  BY DEF LongestOf
<1>8. QED
  BY <1>1, <1>2, <1>4, <1>6, <1>7

(* The entries of a request.                                               *)
Placed(len) == {<<len[s], s>> : s \in DOMAIN len}

(* The buckets after a request.                                            *)
LEMMA InsertedBuckets ==
  ASSUME IInv, NEW len \in Requests
  PROVE  /\ \E n \in Nat : DOMAIN Inserted(len) = 0 .. n - 1
         /\ DOMAIN bucket \subseteq DOMAIN Inserted(len)
         /\ \A s \in DOMAIN len : len[s] \in DOMAIN Inserted(len)
         /\ DOMAIN len # {} => LongestOf(len) \in DOMAIN Inserted(len)
         /\ Inserted(len) = [l \in DOMAIN Inserted(len) |->
                (IF l \in DOMAIN bucket THEN bucket[l] ELSE {}) \cup {s \in DOMAIN len : len[s] = l}]
<1>1. PICK n \in Nat : DOMAIN bucket = 0 .. n - 1
  BY DEF IInv, Buckets
<1>2. Cardinality(DOMAIN bucket) = n
  <2>1. 0 \in Int /\ n - 1 \in Int
    BY <1>1
  <2>2. Cardinality(0 .. n - 1) = IF 0 > n - 1 THEN 0 ELSE n - 1 - 0 + 1
    BY <2>1, FS_Interval
  <2>3. QED
    BY <1>1, <2>2
<1>3. LongestOf(len) \in Nat /\ \A s \in DOMAIN len : len[s] <= LongestOf(len) /\ len[s] \in Nat
  <2>1. len \in [DOMAIN len -> Lengths]
    BY Longest
  <2>2. \A s \in DOMAIN len : len[s] \in Nat
    BY <2>1, PoolAssumption
  <2>3. QED
    BY <2>2, Longest
<1>4. CASE DOMAIN len = {}
  <2>1. Inserted(len) = [l \in DOMAIN bucket |-> bucket[l] \cup {s \in DOMAIN len : len[s] = l}]
    BY <1>4 DEF Inserted
  <2>2. QED
    BY <1>1, <1>4, <2>1
<1>5. CASE DOMAIN len # {}
  <2>1. PICK k \in Nat : k = Max({n, LongestOf(len) + 1}) /\ k >= n /\ k >= LongestOf(len) + 1
    <3>1. \E x \in {n, LongestOf(len) + 1} : \A y \in {n, LongestOf(len) + 1} : x >= y
      BY <1>3
    <3>2. /\ Max({n, LongestOf(len) + 1}) \in {n, LongestOf(len) + 1}
          /\ \A y \in {n, LongestOf(len) + 1} : Max({n, LongestOf(len) + 1}) >= y
      BY <3>1 DEF Max
    <3>3. QED
      BY <1>3, <3>2
  <2>2. Resized(bucket, LongestOf(len) + 1) =
            [l \in 0 .. k - 1 |-> IF l \in DOMAIN bucket THEN bucket[l] ELSE {}]
    BY <1>2, <2>1 DEF Resized
  <2>3. Inserted(len) = [l \in 0 .. k - 1 |->
            (IF l \in DOMAIN bucket THEN bucket[l] ELSE {}) \cup {s \in DOMAIN len : len[s] = l}]
    BY <1>5, <2>2 DEF Inserted
  <2>4. DOMAIN Inserted(len) = 0 .. k - 1
    BY <2>3
  <2>5. DOMAIN bucket \subseteq 0 .. k - 1
    BY <1>1, <2>1
  <2>6. LongestOf(len) \in 0 .. k - 1 /\ \A s \in DOMAIN len : len[s] \in 0 .. k - 1
    BY <1>3, <2>1
  <2>7. Inserted(len) = [l \in DOMAIN Inserted(len) |->
            (IF l \in DOMAIN bucket THEN bucket[l] ELSE {}) \cup {s \in DOMAIN len : len[s] = l}]
    BY <2>3, <2>4
  <2>8. QED
    BY <2>1, <2>4, <2>5, <2>6, <2>7
<1>6. QED
  BY <1>4, <1>5

(* A request adds its entries, and nothing else changes.                   *)
LEMMA InsertedEntries ==
  ASSUME IInv, NEW len \in Requests
  PROVE  /\ Entries(Inserted(len)) = Entries(bucket) \cup Placed(len)
         /\ Entries(bucket) \cap Placed(len) = {}
         /\ IsFiniteSet(Placed(len)) /\ Cardinality(Placed(len)) = Cardinality(DOMAIN len)
<1> DEFINE b == Inserted(len)
<1>1. /\ DOMAIN bucket \subseteq DOMAIN b
      /\ \A s \in DOMAIN len : len[s] \in DOMAIN b
      /\ \A l \in DOMAIN b : b[l] =
            (IF l \in DOMAIN bucket THEN bucket[l] ELSE {}) \cup {s \in DOMAIN len : len[s] = l}
  BY InsertedBuckets
<1>2. Entries(b) = Entries(bucket) \cup Placed(len)
  <2> HIDE DEF b
  <2>1. ASSUME NEW e \in Entries(b) PROVE e \in Entries(bucket) \cup Placed(len)
    <3>1. PICK l \in DOMAIN b : \E s \in b[l] : e = <<l, s>>
      BY DEF Entries
    <3>2. PICK s \in b[l] : e = <<l, s>>
      BY <3>1
    <3>3. (l \in DOMAIN bucket /\ s \in bucket[l]) \/ (s \in DOMAIN len /\ len[s] = l)
      BY <1>1
    <3>4. QED
      BY <3>2, <3>3 DEF Entries, Placed
  <2>2. ASSUME NEW e \in Entries(bucket) PROVE e \in Entries(b)
    <3>1. PICK l \in DOMAIN bucket : \E s \in bucket[l] : e = <<l, s>>
      BY DEF Entries
    <3>2. l \in DOMAIN b /\ bucket[l] \subseteq b[l]
      BY <1>1
    <3>3. QED
      BY <3>1, <3>2 DEF Entries
  <2>3. ASSUME NEW e \in Placed(len) PROVE e \in Entries(b)
    <3>1. PICK s \in DOMAIN len : e = <<len[s], s>>
      BY DEF Placed
    <3>2. len[s] \in DOMAIN b /\ s \in b[len[s]]
      BY <1>1
    <3>3. QED
      BY <3>1, <3>2 DEF Entries
  <2>4. QED
    BY <2>1, <2>2, <2>3
<1>3. Entries(bucket) \cap Placed(len) = {}
  <2>1. DOMAIN len \subseteq fresh
    BY Longest
  <2>2. QED
    BY <2>1 DEF IInv, Buckets, Entries, Placed
<1>4. IsFiniteSet(Placed(len)) /\ Cardinality(Placed(len)) = Cardinality(DOMAIN len)
  <2> DEFINE f == [s \in DOMAIN len |-> <<len[s], s>>]
  <2>1. f \in Bijection(DOMAIN len, Placed(len))
    BY DEF Bijection, Injection, Surjection, IsInjective, Placed
  <2>2. ExistsBijection(DOMAIN len, Placed(len))
    BY <2>1 DEF ExistsBijection
  <2>3. IsFiniteSet(DOMAIN len)
    BY Longest
  <2>4. QED
    BY <2>2, <2>3, FS_Bijection
<1>5. QED
  BY <1>2, <1>3, <1>4

(* What enqueueing keeps.                                                  *)
LEMMA InsertStep ==
  ASSUME IInv, NEW len \in Requests, Insert(len)
  PROVE  Buckets' /\ Reached' /\ Counted'
<1>1. /\ bucket' = Inserted(len)
      /\ maxActiveBucketLength' = Max({LongestOf(len), maxActiveBucketLength})
      /\ pending' = pending + Cardinality(DOMAIN len)
      /\ fresh' = fresh \ DOMAIN len
  BY DEF Insert
<1>2. /\ \E n \in Nat : DOMAIN bucket' = 0 .. n - 1
      /\ DOMAIN bucket \subseteq DOMAIN bucket'
      /\ \A s \in DOMAIN len : len[s] \in DOMAIN bucket'
      /\ DOMAIN len # {} => LongestOf(len) \in DOMAIN bucket'
      /\ \A l \in DOMAIN bucket' : bucket'[l] =
            (IF l \in DOMAIN bucket THEN bucket[l] ELSE {}) \cup {s \in DOMAIN len : len[s] = l}
      /\ bucket' = [l \in DOMAIN bucket' |-> bucket'[l]]
  BY <1>1, InsertedBuckets
<1>3. /\ DOMAIN len \in SUBSET fresh
      /\ len \in [DOMAIN len -> Lengths]
      /\ LongestOf(len) \in Nat
      /\ \A s \in DOMAIN len : len[s] <= LongestOf(len)
  BY Longest
<1>4. maxActiveBucketLength \in Nat /\ DOMAIN bucket \subseteq Nat
  BY EntriesFinite DEF IInv, Reached
<1>5. /\ maxActiveBucketLength' \in {LongestOf(len), maxActiveBucketLength}
      /\ maxActiveBucketLength' >= LongestOf(len)
      /\ maxActiveBucketLength' >= maxActiveBucketLength
  <2>1. \E x \in {LongestOf(len), maxActiveBucketLength} :
            \A y \in {LongestOf(len), maxActiveBucketLength} : x >= y
    BY <1>3, <1>4
  <2>2. QED
    BY <1>1, <2>1 DEF Max
<1>6. Buckets'
  <2>1. /\ \A l \in DOMAIN bucket' : bucket'[l] \in SUBSET Sentences /\ bucket'[l] \cap fresh' = {}
        /\ \A l \in DOMAIN bucket' : bucket'[l] # {} => l \in Lengths
    BY <1>1, <1>2, <1>3 DEF IInv, Buckets
  <2>2. \A k, l \in DOMAIN bucket' : k # l => bucket'[k] \cap bucket'[l] = {}
    BY <1>2, <1>3 DEF IInv, Buckets
  <2>3. fresh' \in SUBSET Sentences
    BY <1>1 DEF IInv, Buckets
  <2>4. bucket' \in [DOMAIN bucket' -> SUBSET Sentences]
    BY <1>2, <2>1
  <2>5. QED
    BY <1>2, <2>1, <2>2, <2>3, <2>4 DEF Buckets
<1>7. Reached'
  <2>1. maxActiveBucketLength' \in DOMAIN bucket'
    <3>1. CASE DOMAIN len # {}
      BY <1>2, <1>5, <3>1 DEF IInv, Reached
    <3>2. CASE DOMAIN len = {}
      <4>1. LongestOf(len) = 0
        <5>1. LongestOf(len) = Max({0})
          BY <3>2 DEF LongestOf
        <5>2. \E x \in {0} : \A y \in {0} : x >= y
          OBVIOUS
        <5>3. QED
          BY <5>1, <5>2 DEF Max
      <4>2. maxActiveBucketLength' = maxActiveBucketLength
        BY <1>4, <1>5, <4>1
      <4>3. QED
        BY <1>2, <4>2 DEF IInv, Reached
    <3>3. QED
      BY <3>1, <3>2
  <2>2. ASSUME NEW l \in DOMAIN bucket', bucket'[l] # {} PROVE l <= maxActiveBucketLength'
    <3>1. CASE l \in DOMAIN bucket /\ bucket[l] # {}
      <4>1. l <= maxActiveBucketLength /\ l \in Nat
        BY <1>4, <3>1 DEF IInv, Reached
      <4>2. maxActiveBucketLength' \in Nat
        BY <1>3, <1>4, <1>5
      <4>3. QED
        BY <1>4, <1>5, <4>1, <4>2
    <3>2. CASE \E s \in DOMAIN len : len[s] = l
      <4>1. l <= LongestOf(len) /\ l \in Nat
        BY <1>3, <3>2, PoolAssumption
      <4>2. maxActiveBucketLength' \in Nat
        BY <1>3, <1>4, <1>5
      <4>3. QED
        BY <1>3, <1>5, <4>1, <4>2
    <3>3. QED
      BY <1>2, <2>2, <3>1, <3>2
  <2>3. QED
    BY <2>1, <2>2 DEF Reached
<1>8. Counted'
  <2>1. /\ Entries(bucket') = Entries(bucket) \cup Placed(len)
        /\ Entries(bucket) \cap Placed(len) = {}
        /\ IsFiniteSet(Placed(len)) /\ Cardinality(Placed(len)) = Cardinality(DOMAIN len)
    BY <1>1, InsertedEntries
  <2>2. IsFiniteSet(Entries(bucket)) /\ Cardinality(Entries(bucket)) \in Nat
    BY EntriesFinite
  <2>3. Cardinality(Entries(bucket')) =
          Cardinality(Entries(bucket)) + Cardinality(Placed(len)) - Cardinality({})
    BY <2>1, <2>2, FS_Union
  <2>4. Cardinality({}) = 0 /\ Cardinality(Placed(len)) \in Nat
    BY <2>1, FS_EmptySet, FS_CardinalityType
  <2>5. QED
    BY <1>1, <2>1, <2>2, <2>3, <2>4 DEF IInv, Counted
<1>9. QED
  BY <1>6, <1>7, <1>8

-----------------------------------------------------------------------------
(* Batching.                                                               *)

(* Of the entries of a walk one comes first.                               *)
LEMMA FirstExists ==
  ASSUME IInv, Walked # {}
  PROVE  \E e \in Walked : \A f \in Walked : ~Before(f, e)
<1>1. Walked \subseteq Lengths \X Sentences
  BY EntriesFinite
<1> DEFINE L == {e[1] : e \in Walked}
<1>2. L \in SUBSET Nat /\ L # {}
  BY <1>1, PoolAssumption
<1>3. PICK k \in L : \A l \in L : k <= l
  <2> HIDE DEF L
  <2>1. QED
    BY <1>2, Least
<1> DEFINE S == {e[2] : e \in {f \in Walked : f[1] = k}}
<1>4. S \in SUBSET Nat /\ S # {}
  BY <1>1, PoolAssumption
<1>5. PICK s \in S : \A t \in S : s <= t
  <2> HIDE DEF S
  <2>1. QED
    BY <1>4, Least
<1>6. PICK e \in Walked : e[1] = k /\ e[2] = s
  OBVIOUS
<1>7. ASSUME NEW f \in Walked PROVE ~Before(f, e)
  <2>1. e[1] <= f[1] /\ f[1] \in Nat /\ e[1] \in Nat /\ f[2] \in Nat /\ e[2] \in Nat
    BY <1>1, <1>3, <1>6, PoolAssumption
  <2>2. f[1] = e[1] => e[2] <= f[2]
    BY <1>5, <1>6
  <2>3. QED
    BY <2>1, <2>2 DEF Before
<1>8. QED
  BY <1>6, <1>7

(* A batch takes the first entry when every sentence fits in a batch.      *)
LEMMA FirstTaken ==
  ASSUME IInv, \A l \in Lengths : l <= MiniBatchWords, Walked # {}
  PROVE  FillBatch # {}
<1>1. PICK e \in Walked : \A f \in Walked : ~Before(f, e)
  BY FirstExists
<1>2. Position(e) = 0
  <2>1. {f \in Walked : Before(f, e)} = {}
    BY <1>1
  <2>2. QED
    BY <2>1, FS_EmptySet DEF Position, Rank
<1>3. e[1] \in Nat /\ e[1] <= MiniBatchWords
  <2>1. e[1] \in Lengths
    BY EntriesFinite
  <2>2. QED
    BY <2>1, PoolAssumption
<1>4. FitsPadding(e) /\ UnderCap(e)
  BY <1>2, <1>3 DEF FitsPadding, UnderCap
<1>5. e \in FillBatch
  BY <1>1, <1>4 DEF FillBatch
<1>6. QED
  BY <1>5

(* What a batch takes leaves the pool.                                     *)
LEMMA Taken ==
  ASSUME IInv, GenerateBatch
  PROVE  /\ Entries(bucket') = Entries(bucket) \ FillBatch
         /\ FillBatch \in SUBSET Entries(bucket)
         /\ DOMAIN bucket' = DOMAIN bucket
         /\ \A l \in DOMAIN bucket : bucket'[l] = {s \in bucket[l] : <<l, s>> \notin FillBatch}
<1>1. FillBatch \in SUBSET Entries(bucket)
  BY EntriesFinite DEF FillBatch
<1>2. bucket' = [l \in DOMAIN bucket |-> {s \in bucket[l] : <<l, s>> \notin FillBatch}]
  BY DEF GenerateBatch
<1>3. /\ DOMAIN bucket' = DOMAIN bucket
      /\ \A l \in DOMAIN bucket : bucket'[l] = {s \in bucket[l] : <<l, s>> \notin FillBatch}
  BY <1>2
<1>4. Entries(bucket') = Entries(bucket) \ FillBatch
  <2>1. ASSUME NEW e \in Entries(bucket') PROVE e \in Entries(bucket) \ FillBatch
    <3>1. PICK l \in DOMAIN bucket' : \E s \in bucket'[l] : e = <<l, s>>
      BY DEF Entries
    <3>2. QED
      BY <1>3, <3>1 DEF Entries
  <2>2. ASSUME NEW e \in Entries(bucket) \ FillBatch PROVE e \in Entries(bucket')
    <3>1. PICK l \in DOMAIN bucket : \E s \in bucket[l] : e = <<l, s>>
      BY DEF Entries
    <3>2. QED
      BY <1>3, <2>2, <3>1 DEF Entries
  <2>3. QED
    BY <2>1, <2>2
<1>5. QED
  BY <1>1, <1>3, <1>4

LEMMA GenerateBatchStep ==
  ASSUME IInv, GenerateBatch
  PROVE  IInv'
<1>1. /\ Entries(bucket') = Entries(bucket) \ FillBatch
      /\ FillBatch \in SUBSET Entries(bucket)
      /\ DOMAIN bucket' = DOMAIN bucket
      /\ \A l \in DOMAIN bucket : bucket'[l] = {s \in bucket[l] : <<l, s>> \notin FillBatch}
  BY Taken
<1>2. /\ bucket' = [l \in DOMAIN bucket |-> {s \in bucket[l] : <<l, s>> \notin FillBatch}]
      /\ pending' = pending - Cardinality(FillBatch)
      /\ maxSentencesPerBatch' =
            IF pending' = 0 THEN Unbounded ELSE maxSentencesPerBatch
      /\ UNCHANGED <<maxActiveBucketLength, fresh>>
  BY DEF GenerateBatch
<1>3. \A l \in DOMAIN bucket : bucket'[l] \subseteq bucket[l]
  BY <1>1
<1>4. Buckets'
  <2>1. bucket' \in [DOMAIN bucket' -> SUBSET Sentences]
    BY <1>1, <1>2, <1>3 DEF IInv, Buckets
  <2>2. Buckets /\ UNCHANGED <<fresh, DOMAIN bucket>>
    BY <1>1, <1>2 DEF IInv
  <2>3. \A k, l \in DOMAIN bucket : k # l => bucket'[k] \cap bucket'[l] = {}
    BY <1>3, <2>2 DEF Buckets
  <2>4. \A l \in DOMAIN bucket : bucket'[l] \cap fresh = {}
    BY <1>3, <2>2 DEF Buckets
  <2>5. \A l \in DOMAIN bucket : bucket'[l] # {} => l \in Lengths
    BY <1>3, <2>2 DEF Buckets
  <2>6. (\E n \in Nat : DOMAIN bucket' = 0 .. n - 1) /\ fresh' \in SUBSET Sentences
    BY <2>2 DEF Buckets
  <2>7. QED
    BY <2>1, <2>2, <2>3, <2>4, <2>5, <2>6 DEF Buckets
<1>5. Reached'
  <2>1. Reached /\ UNCHANGED <<maxActiveBucketLength, DOMAIN bucket>>
    BY <1>1, <1>2 DEF IInv
  <2>2. QED
    BY <1>3, <2>1 DEF Reached
<1>6. Counted'
  <2>1. Cardinality(Entries(bucket) \ FillBatch) =
          Cardinality(Entries(bucket)) - Cardinality(Entries(bucket) \cap FillBatch)
    BY EntriesFinite, FS_Difference
  <2>2. Entries(bucket) \cap FillBatch = FillBatch
    BY <1>1
  <2>3. QED
    BY <1>1, <1>2, <2>1, <2>2 DEF IInv, Counted
<1>7. DrainedPoolUncapped'
  BY <1>2 DEF DrainedPoolUncapped
<1>8. QED
  BY <1>4, <1>5, <1>6, <1>7 DEF IInv

LEMMA ClearStep ==
  ASSUME IInv, Clear
  PROVE  IInv'
<1>1. /\ bucket' = [l \in DOMAIN bucket |-> {}]
      /\ pending' = 0 /\ maxSentencesPerBatch' = Unbounded
      /\ UNCHANGED <<maxActiveBucketLength, fresh>>
  BY DEF Clear
<1>2. DOMAIN bucket' = DOMAIN bucket /\ \A l \in DOMAIN bucket : bucket'[l] = {}
  BY <1>1
<1>3. Entries(bucket') = {}
  BY <1>2 DEF Entries
<1>4. QED
  BY <1>1, <1>2, <1>3, FS_EmptySet DEF IInv, Buckets, Reached, Counted, DrainedPoolUncapped

(* A cap comes only with sentences to cap.                                 *)
LEMMA EnqueueStep ==
  ASSUME IInv, NEW len \in Requests,
         EnqueueRequest(len) \/ \E n \in WorkerCounts : EnqueueRequests(len, n)
  PROVE  IInv'
<1>1. Insert(len)
  BY DEF EnqueueRequest, EnqueueRequests
<1>2. Buckets' /\ Reached' /\ Counted'
  BY <1>1, InsertStep
<1>3. maxSentencesPerBatch' = maxSentencesPerBatch \/ Cardinality(DOMAIN len) > 0
  BY DEF EnqueueRequest, EnqueueRequests
<1>4. pending \in Nat /\ Cardinality(DOMAIN len) \in Nat
  <2>1. IsFiniteSet(DOMAIN len)
    BY Longest
  <2>2. QED
    BY <2>1, EntriesFinite, FS_CardinalityType DEF IInv, Counted
<1>5. pending' = pending + Cardinality(DOMAIN len)
  BY <1>1 DEF Insert
<1>6. DrainedPoolUncapped'
  BY <1>3, <1>4, <1>5 DEF IInv, DrainedPoolUncapped
<1>7. QED
  BY <1>2, <1>6 DEF IInv

-----------------------------------------------------------------------------
(* The inductive invariant holds in every state.                           *)
LEMMA Invariance == Spec => []IInv
<1>1. Init => IInv
  <2> SUFFICES ASSUME Init PROVE IInv
    OBVIOUS
  <2>1. /\ bucket = [l \in 0 .. InitialBuckets - 1 |-> {}]
        /\ DOMAIN bucket = 0 .. InitialBuckets - 1
        /\ \A l \in DOMAIN bucket : bucket[l] = {}
        /\ fresh = Sentences /\ maxActiveBucketLength = 0
    BY DEF Init
  <2>2. Buckets
    <3>1. \E n \in Nat : DOMAIN bucket = 0 .. n - 1
      BY <2>1, PoolAssumption
    <3>2. bucket \in [DOMAIN bucket -> SUBSET Sentences]
      BY <2>1
    <3>3. QED
      BY <2>1, <3>1, <3>2 DEF Buckets
  <2>3. Reached
    BY <2>1, PoolAssumption DEF Reached
  <2>4. Counted
    <3>1. Entries(bucket) = {}
      BY <2>1 DEF Entries
    <3>2. QED
      BY <3>1, FS_EmptySet DEF Init, Counted
  <2>5. DrainedPoolUncapped
    BY DEF Init, DrainedPoolUncapped
  <2>6. QED
    BY <2>2, <2>3, <2>4, <2>5 DEF IInv
<1>2. IInv /\ [Next]_vars => IInv'
  <2> SUFFICES ASSUME IInv, [Next]_vars PROVE IInv'
    OBVIOUS
  <2>1. CASE Next
    BY <2>1, EnqueueStep, GenerateBatchStep, ClearStep DEF Next
  <2>2. CASE UNCHANGED vars
    BY <2>2 DEF vars, pvars, IInv, Buckets, Reached, Counted, Entries, DrainedPoolUncapped
  <2>3. QED
    BY <2>1, <2>2
<1>3. QED
  BY <1>1, <1>2, PTL DEF Spec

(* Every sentence that is pending is one the walk meets                    *)
(* (BatchingPool::fillBatch()).                                            *)
THEOREM NothingIsStranded == Spec => []NothingStranded
<1>1. IInv => NothingStranded
  BY EntriesFinite DEF IInv, Reached, Counted, NothingStranded
<1>2. QED
  BY <1>1, Invariance, PTL

(* A drained pool has no cap (BatchingPool::generateBatch(), clear()).     *)
THEOREM DrainedAlwaysUncapped == Spec => []DrainedPoolUncapped
<1>1. IInv => DrainedPoolUncapped
  BY DEF IInv
<1>2. QED
  BY <1>1, Invariance, PTL

(* No cap stalls the pool, if no sentence is longer than a batch           *)
(* (BatchingPool::fillBatch()).                                            *)
THEOREM NoBoundEverStalls ==
  ASSUME \A l \in Lengths : l <= MiniBatchWords
  PROVE  Spec => []NoBoundStalls
<1>1. IInv => NoBoundStalls
  <2> SUFFICES ASSUME IInv, pending > 0 PROVE FillBatch # {}
    BY DEF NoBoundStalls
  <2>1. Entries(bucket) = Walked /\ Walked # {}
    BY EntriesFinite, FS_EmptySet DEF IInv, Counted
  <2>2. QED
    BY <2>1, FirstTaken
<1>2. QED
  BY <1>1, Invariance, PTL

-----------------------------------------------------------------------------
(* The contract of the pool.                                               *)

(* The sentences of the pool.                                              *)
Held == {e[2] : e \in Entries(bucket)}

LEMMA HeldInBuckets ==
  ASSUME IInv
  PROVE  /\ Held \subseteq Sentences
         /\ Held \cap fresh = {}
         /\ \A d, e \in Entries(bucket) : d[2] = e[2] => d = e
<1>1. \A e \in Entries(bucket) : /\ e[1] \in DOMAIN bucket /\ e[2] \in bucket[e[1]]
                                 /\ e = <<e[1], e[2]>>
  BY DEF Entries
<1>2. Held \subseteq Sentences /\ Held \cap fresh = {}
  BY <1>1 DEF Held, IInv, Buckets
<1>3. ASSUME NEW d \in Entries(bucket), NEW e \in Entries(bucket), d[2] = e[2] PROVE d = e
  <2>1. d[1] = e[1]
    BY <1>1, <1>3 DEF IInv, Buckets
  <2>2. QED
    BY <1>1, <1>3, <2>1
<1>4. QED
  BY <1>2, <1>3

(* A batch is drawn as the contract says.                                  *)
LEMMA TakeStep ==
  ASSUME IInv, GenerateBatch, \A l \in Lengths : l <= MiniBatchWords
  PROVE  Queue!Take
<1> DEFINE given == {e[2] : e \in FillBatch}
<1>1. /\ Entries(bucket') = Entries(bucket) \ FillBatch
      /\ FillBatch \in SUBSET Entries(bucket)
      /\ batch' = FillBatch
  BY Taken DEF GenerateBatch
<1>2. given \in SUBSET Held
  BY <1>1 DEF Held
<1>3. given = {} <=> Held = {}
  <2>1. Entries(bucket) # {} => FillBatch # {}
    BY EntriesFinite, FirstTaken
  <2>2. QED
    BY <1>1, <2>1 DEF Held
<1>4. {e[2] : e \in Entries(bucket')} = Held \ given
  <2>1. \A d, e \in Entries(bucket) : d[2] = e[2] => d = e
    BY HeldInBuckets
  <2>2. QED
    BY <1>1, <2>1 DEF Held
<1>5. QED
  BY <1>1, <1>2, <1>3, <1>4 DEF Queue!Take, Held

(* BatchingPool implements the contract of BatchQueue, if no sentence is   *)
(* longer than a batch: the code around the pool may rely on BatchQueue.   *)
THEOREM ImplementsContract ==
  ASSUME \A l \in Lengths : l <= MiniBatchWords
  PROVE  Spec => ImplementsBatchQueue
<1>1. Init => Queue!Init
  <2> SUFFICES ASSUME Init PROVE Queue!Init
    OBVIOUS
  <2>1. \A l \in DOMAIN bucket : bucket[l] = {}
    BY DEF Init
  <2>2. Entries(bucket) = {}
    BY <2>1 DEF Entries
  <2>3. QED
    BY <2>2 DEF Init, Queue!Init
<1>2. IInv /\ [Next]_vars => [Queue!Next]_Queue!qvars
  <2> SUFFICES ASSUME IInv, [Next]_vars PROVE [Queue!Next]_Queue!qvars
    OBVIOUS
  <2>1. ASSUME NEW len \in Requests,
               EnqueueRequest(len) \/ \E n \in WorkerCounts : EnqueueRequests(len, n)
        PROVE  Queue!Enqueue
    <3>1. Insert(len) /\ batch' = batch
      BY <2>1 DEF EnqueueRequest, EnqueueRequests
    <3>2. Entries(bucket') = Entries(bucket) \cup Placed(len)
      BY <3>1, InsertedEntries DEF Insert
    <3>3. {e[2] : e \in Entries(bucket')} = Held \cup DOMAIN len
      <4>1. {e[2] : e \in Placed(len)} = DOMAIN len
        <5>1. \A e \in Placed(len) : e[2] \in DOMAIN len
          BY DEF Placed
        <5>2. ASSUME NEW s \in DOMAIN len PROVE \E e \in Placed(len) : e[2] = s
          <6>1. <<len[s], s>> \in Placed(len)
            BY DEF Placed
          <6>2. QED
            BY <6>1
        <5>3. QED
          BY <5>1, <5>2
      <4>2. {e[2] : e \in Entries(bucket) \cup Placed(len)} = Held \cup {e[2] : e \in Placed(len)}
        BY DEF Held
      <4>3. QED
        BY <3>2, <4>1, <4>2
    <3>4. DOMAIN len \in SUBSET (Sentences \ Held)
      <4>1. DOMAIN len \in SUBSET fresh /\ fresh \subseteq Sentences
        BY Longest DEF IInv, Buckets
      <4>2. QED
        BY <4>1, HeldInBuckets
    <3>5. QED
      BY <3>1, <3>3, <3>4 DEF Queue!Enqueue, Held
  <2>2. CASE GenerateBatch
    BY <2>2, TakeStep DEF Queue!Next
  <2>3. CASE Clear
    <3>1. bucket' = [l \in DOMAIN bucket |-> {}] /\ batch' = batch
      BY <2>3 DEF Clear
    <3>2. Entries(bucket') = {}
      BY <3>1 DEF Entries
    <3>3. QED
      BY <3>1, <3>2 DEF Queue!Next, Queue!Clear
  <2>4. CASE UNCHANGED vars
    BY <2>4 DEF vars, pvars, Queue!qvars, Entries
  <2>5. QED
    BY <2>1, <2>2, <2>3, <2>4 DEF Next, Queue!Next
<1>3. QED
  BY <1>1, <1>2, Invariance, PTL DEF Spec, ImplementsBatchQueue, Queue!Spec
-----------------------------------------------------------------------------
(* Induction, for a set of numbers.                                        *)
LEMMA Induction ==
  ASSUME NEW S \in SUBSET Nat, 0 \in S, \A n \in S : n + 1 \in S
  PROVE  S = Nat
<1> SUFFICES ASSUME Nat \ S # {} PROVE FALSE
  OBVIOUS
<1>1. PICK n \in Nat \ S : \A m \in Nat \ S : n <= m
  BY Least
<1>2. n # 0 /\ n \in Nat
  OBVIOUS
<1>3. n - 1 \in Nat /\ n - 1 \in S
  BY <1>1, <1>2
<1>4. n - 1 + 1 = n
  BY <1>2
<1>5. QED
  BY <1>3, <1>4

-----------------------------------------------------------------------------
(* The order of a walk.                                                    *)

Pairs == SUBSET (Nat \X Nat)

(* The entries of M in the order of the walk.                              *)
Ordered(M) == [i \in 1 .. Cardinality(M) |-> CHOOSE e \in M : Rank(e, M) = i - 1]

Earlier(e, M) == {f \in M : Before(f, e)}

LEMMA BeforeOrder ==
  ASSUME NEW M \in Pairs
  PROVE  /\ \A e \in M : ~Before(e, e)
         /\ \A d, e, f \in M : Before(d, e) /\ Before(e, f) => Before(d, f)
         /\ \A e, f \in M : e = f \/ Before(e, f) \/ Before(f, e)
BY DEF Pairs, Before

LEMMA EarlierFinite ==
  ASSUME NEW M \in Pairs, IsFiniteSet(M), NEW e
  PROVE  /\ IsFiniteSet(Earlier(e, M)) /\ Cardinality(Earlier(e, M)) \in Nat
         /\ Rank(e, M) = Cardinality(Earlier(e, M)) /\ Rank(e, M) \in Nat
<1>1. Earlier(e, M) \in SUBSET M
  BY DEF Earlier
<1>2. QED
  BY <1>1, FS_Subset, FS_CardinalityType DEF Earlier, Rank

(* Ranks follow the order and leave no gap.                                *)
LEMMA Ranks ==
  ASSUME NEW M \in Pairs, IsFiniteSet(M)
  PROVE  /\ Cardinality(M) \in Nat
         /\ \A e \in M : Rank(e, M) \in 0 .. Cardinality(M) - 1
         /\ \A e, f \in M : Before(e, f) <=> Rank(e, M) < Rank(f, M)
         /\ \A e, f \in M : Rank(e, M) = Rank(f, M) => e = f
         /\ \A n \in 0 .. Cardinality(M) - 1 : \E e \in M : Rank(e, M) = n
<1>1. Cardinality(M) \in Nat
  BY FS_CardinalityType
<1>2. ASSUME NEW e \in M PROVE Rank(e, M) \in 0 .. Cardinality(M) - 1
  <2>1. Earlier(e, M) \in SUBSET M /\ Earlier(e, M) # M
    BY BeforeOrder DEF Earlier
  <2>2. Cardinality(Earlier(e, M)) <= Cardinality(M)
        /\ Cardinality(Earlier(e, M)) # Cardinality(M)
    BY <2>1, FS_Subset
  <2>3. QED
    BY <1>1, <2>2, EarlierFinite
<1>3. ASSUME NEW e \in M, NEW f \in M, Before(e, f) PROVE Rank(e, M) < Rank(f, M)
  <2>1. Earlier(e, M) \in SUBSET Earlier(f, M)
    BY <1>3, BeforeOrder DEF Earlier
  <2>2. e \in Earlier(f, M) /\ e \notin Earlier(e, M)
    BY <1>3, BeforeOrder DEF Earlier
  <2>3. IsFiniteSet(Earlier(f, M))
    BY EarlierFinite
  <2>4. Cardinality(Earlier(e, M)) <= Cardinality(Earlier(f, M))
        /\ Cardinality(Earlier(e, M)) # Cardinality(Earlier(f, M))
    BY <2>1, <2>2, <2>3, FS_Subset
  <2>5. QED
    BY <2>4, EarlierFinite
<1>4. ASSUME NEW e \in M, NEW f \in M
      PROVE  /\ Before(e, f) <=> Rank(e, M) < Rank(f, M)
             /\ Rank(e, M) = Rank(f, M) => e = f
  <2>1. Rank(e, M) \in Nat /\ Rank(f, M) \in Nat
    BY EarlierFinite
  <2>2. e = f \/ Before(e, f) \/ Before(f, e)
    BY BeforeOrder
  <2>3. Before(f, e) => Rank(f, M) < Rank(e, M)
    BY <1>3
  <2>4. Before(e, f) => Rank(e, M) < Rank(f, M)
    BY <1>3
  <2>5. QED
    BY <2>1, <2>2, <2>3, <2>4
<1>5. ASSUME NEW n \in 0 .. Cardinality(M) - 1 PROVE \E e \in M : Rank(e, M) = n
  <2> DEFINE T == 0 .. Cardinality(M) - 1
             r == [e \in M |-> Rank(e, M)]
  <2>1. r \in [M -> T]
    BY <1>2
  <2>2. \A e, f \in M : r[e] = r[f] => e = f
    BY <1>4
  <2>3. r \in Injection(M, T)
    BY <2>1, <2>2 DEF Injection, IsInjective
  <2>4. IsFiniteSet(T) /\ Cardinality(T) = Cardinality(M)
    <3>1. 0 \in Int /\ Cardinality(M) - 1 \in Int
      BY <1>1
    <3>2. QED
      BY <1>1, <3>1, FS_Interval
  <2>5. r \in Surjection(M, T)
    <3> HIDE DEF T, r
    <3>1. QED
      BY <2>3, <2>4, FS_Injection
  <2>6. \E e \in M : r[e] = n
    <3>1. n \in T
      OBVIOUS
    <3> HIDE DEF T, r
    <3>2. QED
      BY <2>5, <3>1 DEF Surjection
  <2>7. QED
    BY <2>6
<1>6. QED
  BY <1>1, <1>2, <1>4, <1>5

LEMMA OrderedIs ==
  ASSUME NEW M \in Pairs, IsFiniteSet(M)
  PROVE  /\ Ordered(M) \in Seq(Nat \X Nat)
         /\ Len(Ordered(M)) = Cardinality(M)
         /\ \A e \in M : Rank(e, M) + 1 \in 1 .. Cardinality(M) /\ Ordered(M)[Rank(e, M) + 1] = e
         /\ \A i \in 1 .. Cardinality(M) :
                Ordered(M)[i] \in M /\ Rank(Ordered(M)[i], M) = i - 1
<1>1. Cardinality(M) \in Nat
  BY Ranks
<1>2. \A i \in 1 .. Cardinality(M) : Ordered(M)[i] \in M /\ Rank(Ordered(M)[i], M) = i - 1
  <2> SUFFICES ASSUME NEW i \in 1 .. Cardinality(M)
               PROVE  Ordered(M)[i] \in M /\ Rank(Ordered(M)[i], M) = i - 1
    OBVIOUS
  <2>1. i - 1 \in 0 .. Cardinality(M) - 1
    BY <1>1
  <2>2. \E e \in M : Rank(e, M) = i - 1
    BY <2>1, Ranks
  <2>3. QED
    BY <2>2 DEF Ordered
<1>3. ASSUME NEW e \in M
      PROVE  Rank(e, M) + 1 \in 1 .. Cardinality(M) /\ Ordered(M)[Rank(e, M) + 1] = e
  <2>1. Rank(e, M) \in 0 .. Cardinality(M) - 1
    BY Ranks
  <2>2. PICK i \in 1 .. Cardinality(M) : i = Rank(e, M) + 1 /\ i - 1 = Rank(e, M)
    BY <1>1, <2>1
  <2>3. Ordered(M)[i] \in M /\ Rank(Ordered(M)[i], M) = i - 1
    BY <1>2
  <2>4. Ordered(M)[i] = e
    BY <2>2, <2>3, Ranks
  <2>5. QED
    BY <2>2, <2>4
<1>4. Ordered(M) \in [1 .. Cardinality(M) -> Nat \X Nat]
  <2>1. \A i \in 1 .. Cardinality(M) : Ordered(M)[i] \in Nat \X Nat
    BY <1>2 DEF Pairs
  <2>2. QED
    BY <2>1 DEF Ordered
<1>5. Ordered(M) \in Seq(Nat \X Nat) /\ Len(Ordered(M)) = Cardinality(M)
  BY <1>1, <1>4
<1>6. QED
  BY <1>2, <1>3, <1>5

(* P is what a walk through M meets first.                                 *)
Start(P, M) == P \in SUBSET M /\ \A e \in P, f \in M : Before(f, e) => f \in P

(* What comes after a start keeps its order.                               *)
LEMMA AfterStart ==
  ASSUME NEW M \in Pairs, IsFiniteSet(M), NEW P, Start(P, M)
  PROVE  /\ M \ P \in Pairs /\ IsFiniteSet(M \ P) /\ IsFiniteSet(P)
         /\ Cardinality(P) \in Nat /\ Cardinality(P) <= Cardinality(M)
         /\ Cardinality(M \ P) = Cardinality(M) - Cardinality(P)
         /\ \A e \in M : e \in P <=> Rank(e, M) < Cardinality(P)
         /\ \A e \in M \ P : Rank(e, M) = Rank(e, M \ P) + Cardinality(P)
         /\ \A i \in 1 .. Cardinality(M) - Cardinality(P) :
                Ordered(M \ P)[i] = Ordered(M)[Cardinality(P) + i]
<1>1. /\ M \ P \in Pairs /\ IsFiniteSet(M \ P) /\ IsFiniteSet(P)
      /\ Cardinality(P) \in Nat /\ Cardinality(P) <= Cardinality(M)
  <2>1. P \in SUBSET M /\ M \ P \in SUBSET M
    BY DEF Start
  <2>2. QED
    BY <2>1, FS_Subset, FS_CardinalityType DEF Pairs
<1>2. Cardinality(M \ P) = Cardinality(M) - Cardinality(P)
  <2>1. Cardinality(M \ P) = Cardinality(M) - Cardinality(M \cap P)
    BY FS_Difference
  <2>2. M \cap P = P
    BY DEF Start
  <2>3. QED
    BY <2>1, <2>2
<1>3. ASSUME NEW e \in M \ P
      PROVE  Rank(e, M) = Rank(e, M \ P) + Cardinality(P)
  <2>1. P \in SUBSET Earlier(e, M)
    BY BeforeOrder DEF Start, Earlier
  <2>2. Earlier(e, M) = Earlier(e, M \ P) \cup P /\ Earlier(e, M \ P) \cap P = {}
    BY <2>1 DEF Earlier
  <2>3. IsFiniteSet(Earlier(e, M \ P))
    BY <1>1, EarlierFinite
  <2>4. Cardinality(Earlier(e, M)) =
            Cardinality(Earlier(e, M \ P)) + Cardinality(P) - Cardinality({})
    BY <1>1, <2>2, <2>3, FS_Union
  <2>5. Cardinality({}) = 0
    BY FS_EmptySet
  <2>6. Rank(e, M) = Cardinality(Earlier(e, M)) /\ Rank(e, M \ P) = Cardinality(Earlier(e, M \ P))
    BY <1>1, EarlierFinite
  <2>7. Cardinality(Earlier(e, M \ P)) \in Nat
    BY <1>1, EarlierFinite
  <2>8. QED
    BY <1>1, <2>4, <2>5, <2>6, <2>7
<1>4. ASSUME NEW e \in P PROVE Rank(e, M) < Cardinality(P)
  <2>1. Earlier(e, M) \in SUBSET P /\ e \in P /\ e \notin Earlier(e, M)
    BY BeforeOrder DEF Start, Earlier
  <2>2. Cardinality(Earlier(e, M)) <= Cardinality(P)
        /\ Cardinality(Earlier(e, M)) # Cardinality(P)
    BY <1>1, <2>1, FS_Subset
  <2>3. QED
    BY <1>1, <2>2, EarlierFinite
<1>5. \A e \in M : e \in P <=> Rank(e, M) < Cardinality(P)
  <2> SUFFICES ASSUME NEW e \in M, e \notin P PROVE ~(Rank(e, M) < Cardinality(P))
    BY <1>4
  <2>1. Rank(e, M) = Rank(e, M \ P) + Cardinality(P) /\ Rank(e, M \ P) \in Nat
    BY <1>1, <1>3, EarlierFinite
  <2>2. QED
    BY <1>1, <2>1
<1>6. ASSUME NEW i \in 1 .. Cardinality(M) - Cardinality(P)
      PROVE  Ordered(M \ P)[i] = Ordered(M)[Cardinality(P) + i]
  <2>1. Cardinality(M) \in Nat
    BY Ranks
  <2>2. i \in 1 .. Cardinality(M \ P)
    BY <1>2
  <2> DEFINE e == Ordered(M \ P)[i]
  <2>3. e \in M \ P /\ Rank(e, M \ P) = i - 1
    BY <1>1, <2>2, OrderedIs
  <2>4. Rank(e, M) = i - 1 + Cardinality(P)
    BY <1>3, <2>3
  <2>5. Ordered(M)[Rank(e, M) + 1] = e
    BY <2>3, OrderedIs
  <2>6. Rank(e, M) + 1 = Cardinality(P) + i
    BY <1>1, <2>1, <2>4
  <2>7. QED
    BY <2>5, <2>6
<1>7. QED
  BY <1>1, <1>2, <1>3, <1>5, <1>6

-----------------------------------------------------------------------------
(* The dry run.                                                            *)

Run == [batches : Nat, inBatch : Nat]
AtStart == [batches |-> 0, inBatch |-> 0]

LEMMA VisitType ==
  ASSUME NEW run \in Run, NEW e \in Nat \X Nat
  PROVE  /\ Visit(run, e) \in Run
         /\ Visit(run, e).inBatch > 0
         /\ Visit(run, e).batches =
                run.batches + (IF (run.inBatch + 1) * e[1] > MiniBatchWords THEN 1 ELSE 0)
         /\ Visit(run, e).inBatch =
                (IF (run.inBatch + 1) * e[1] > MiniBatchWords THEN 1 ELSE run.inBatch + 1)
<1>1. CASE (run.inBatch + 1) * e[1] > MiniBatchWords
  BY <1>1 DEF Run, Visit
<1>2. CASE ~((run.inBatch + 1) * e[1] > MiniBatchWords)
  BY <1>2 DEF Run, Visit
<1>3. QED
  BY <1>1, <1>2

(* A run of n entries exists, so the recursion is well defined.            *)
Follows(g, n, walk) ==
    g = [i \in 0 .. n |-> IF i = 0 THEN AtStart ELSE Visit(g[i - 1], walk[i])]

LEMMA RunExists ==
  ASSUME NEW walk \in Seq(Nat \X Nat)
  PROVE  \E g : Follows(g, Len(walk), walk)
<1> DEFINE S == {n \in Nat : \E g : Follows(g, n, walk)}
<1>1. 0 \in S
  <2>1. Follows([i \in 0 .. 0 |-> AtStart], 0, walk)
    BY DEF Follows
  <2>2. QED
    BY <2>1
<1>2. ASSUME NEW n \in S PROVE n + 1 \in S
  <2>1. PICK g : Follows(g, n, walk)
    OBVIOUS
  <2> DEFINE h == [i \in 0 .. n + 1 |-> IF i = 0 THEN AtStart ELSE Visit(g[i - 1], walk[i])]
  <2>2. \A i \in 0 .. n : h[i] = g[i]
    <3>1. \A i \in 0 .. n : g[i] = IF i = 0 THEN AtStart ELSE Visit(g[i - 1], walk[i])
      BY <2>1 DEF Follows
    <3>2. 0 .. n \subseteq 0 .. n + 1
      OBVIOUS
    <3>3. QED
      BY <3>1, <3>2
  <2>3. \A i \in 0 .. n + 1 : i # 0 => h[i - 1] = g[i - 1]
    <3>1. \A i \in 0 .. n + 1 : i # 0 => i - 1 \in 0 .. n
      OBVIOUS
    <3> HIDE DEF h
    <3>2. QED
      BY <2>2, <3>1
  <2>4. Follows(h, n + 1, walk)
    <3> DEFINE k == [i \in 0 .. n + 1 |-> IF i = 0 THEN AtStart ELSE Visit(h[i - 1], walk[i])]
    <3>1. \A i \in 0 .. n + 1 : k[i] = h[i]
      <4>1. ASSUME NEW i \in 0 .. n + 1 PROVE k[i] = h[i]
        <5>1. k[i] = IF i = 0 THEN AtStart ELSE Visit(h[i - 1], walk[i])
          OBVIOUS
        <5>2. h[i] = IF i = 0 THEN AtStart ELSE Visit(g[i - 1], walk[i])
          OBVIOUS
        <5>3. i # 0 => h[i - 1] = g[i - 1]
          BY <2>3
        <5> HIDE DEF h, k
        <5>4. QED
          BY <5>1, <5>2, <5>3
      <4>2. QED
        BY <4>1
    <3>2. k = h
      <4>1. h = [i \in 0 .. n + 1 |-> h[i]] /\ k = [i \in 0 .. n + 1 |-> k[i]]
        OBVIOUS
      <4> HIDE DEF h, k
      <4>2. QED
        BY <3>1, <4>1
    <3> HIDE DEF h
    <3>3. QED
      BY <3>2 DEF Follows
  <2> HIDE DEF h
  <2>5. QED
    BY <2>4
<1>3. S = Nat
  <2> HIDE DEF S
  <2>1. S \in SUBSET Nat
    BY DEF S
  <2>2. QED
    BY <1>1, <1>2, <2>1, Induction
<1>4. Len(walk) \in S
  BY <1>3
<1>5. QED
  BY <1>4

(* The recursion as equations.                                             *)
LEMMA DryRunIs ==
  ASSUME NEW walk \in Seq(Nat \X Nat)
  PROVE  /\ DryRun(walk)[0] = AtStart
         /\ \A n \in 1 .. Len(walk) : DryRun(walk)[n] = Visit(DryRun(walk)[n - 1], walk[n])
         /\ \A n \in 0 .. Len(walk) : DryRun(walk)[n] \in Run
         /\ \A n \in 1 .. Len(walk) : DryRun(walk)[n].inBatch > 0
<1> DEFINE d == DryRun(walk)
<1>1. Follows(d, Len(walk), walk)
  <2>1. d = CHOOSE g : Follows(g, Len(walk), walk)
    BY DEF DryRun, Follows, AtStart
  <2> HIDE DEF d
  <2>2. QED
    BY <2>1, RunExists
<1> HIDE DEF d
<1>2. Len(walk) \in Nat
  OBVIOUS
<1>3. \A n \in 0 .. Len(walk) : d[n] = IF n = 0 THEN AtStart ELSE Visit(d[n - 1], walk[n])
  <2> DEFINE k == [i \in 0 .. Len(walk) |-> IF i = 0 THEN AtStart ELSE Visit(d[i - 1], walk[i])]
  <2>1. d = k
    BY <1>1 DEF Follows
  <2>2. \A n \in 0 .. Len(walk) : k[n] = IF n = 0 THEN AtStart ELSE Visit(d[n - 1], walk[n])
    OBVIOUS
  <2> HIDE DEF k
  <2>3. QED
    BY <2>1, <2>2
<1>4. d[0] = AtStart /\ \A n \in 1 .. Len(walk) : d[n] = Visit(d[n - 1], walk[n])
  BY <1>2, <1>3
<1>5. \A n \in 1 .. Len(walk) : walk[n] \in Nat \X Nat
  OBVIOUS
<1>6. \A n \in 0 .. Len(walk) : d[n] \in Run
  <2> DEFINE S == {n \in Nat : n <= Len(walk) => d[n] \in Run}
  <2>1. 0 \in S
    BY <1>4 DEF AtStart, Run
  <2>2. ASSUME NEW n \in S PROVE n + 1 \in S
    <3>1. CASE n + 1 <= Len(walk)
      <4>1. n + 1 \in 1 .. Len(walk) /\ n + 1 - 1 = n /\ d[n] \in Run
        BY <1>2, <3>1
      <4>2. d[n + 1] = Visit(d[n], walk[n + 1])
        BY <1>4, <4>1
      <4>3. walk[n + 1] \in Nat \X Nat
        BY <1>5, <4>1
      <4>4. d[n + 1] \in Run
        BY <4>1, <4>2, <4>3, VisitType
      <4>5. QED
        BY <4>4
    <3>2. QED
      BY <3>1
  <2>3. S = Nat
    <3> HIDE DEF S
    <3>1. S \in SUBSET Nat
      BY DEF S
    <3>2. QED
      BY <2>1, <2>2, <3>1, Induction
  <2>4. QED
    BY <1>2, <2>3
<1>7. \A n \in 1 .. Len(walk) : d[n].inBatch > 0
  <2> SUFFICES ASSUME NEW n \in 1 .. Len(walk) PROVE d[n].inBatch > 0
    OBVIOUS
  <2>1. n - 1 \in 0 .. Len(walk)
    BY <1>2
  <2>2. QED
    BY <1>4, <1>5, <1>6, <2>1, VisitType
<1>8. QED
  BY <1>4, <1>6, <1>7 DEF d

-----------------------------------------------------------------------------
(* How many batches a walk comes to.                                       *)

End(M) == DryRun(Ordered(M))[Cardinality(M)]
Tally(M) == End(M).batches + (IF End(M).inBatch > 0 THEN 1 ELSE 0)

LEMMA TallyType ==
  ASSUME NEW M \in Pairs, IsFiniteSet(M)
  PROVE  /\ Cardinality(M) \in Nat /\ Ordered(M) \in Seq(Nat \X Nat)
         /\ Len(Ordered(M)) = Cardinality(M)
         /\ \A n \in 0 .. Cardinality(M) : DryRun(Ordered(M))[n] \in Run
         /\ End(M) \in Run /\ Tally(M) \in Nat
         /\ M = {} => Tally(M) = 0
         /\ M # {} => End(M).inBatch > 0 /\ Tally(M) = End(M).batches + 1 /\ Tally(M) > 0
<1>1. /\ Cardinality(M) \in Nat /\ Ordered(M) \in Seq(Nat \X Nat)
      /\ Len(Ordered(M)) = Cardinality(M)
  BY Ranks, OrderedIs
<1>2. /\ DryRun(Ordered(M))[0] = AtStart
      /\ \A n \in 0 .. Cardinality(M) : DryRun(Ordered(M))[n] \in Run
      /\ \A n \in 1 .. Cardinality(M) : DryRun(Ordered(M))[n].inBatch > 0
  BY <1>1, DryRunIs
<1>3. End(M) \in Run
  BY <1>1, <1>2 DEF End
<1>4. Tally(M) \in Nat
  BY <1>3 DEF Run, Tally
<1>5. ASSUME M = {} PROVE Tally(M) = 0
  <2>1. Cardinality(M) = 0
    BY <1>5, FS_EmptySet
  <2>2. End(M) = AtStart
    BY <1>2, <2>1 DEF End
  <2>3. QED
    BY <2>2 DEF AtStart, Tally
<1>6. ASSUME M # {}
      PROVE  End(M).inBatch > 0 /\ Tally(M) = End(M).batches + 1 /\ Tally(M) > 0
  <2>1. Cardinality(M) # 0
    BY <1>6, FS_EmptySet
  <2>2. Cardinality(M) \in 1 .. Cardinality(M)
    BY <1>1, <2>1
  <2>3. End(M).inBatch > 0
    BY <1>2, <2>2 DEF End
  <2>4. QED
    BY <1>3, <2>3 DEF Run, Tally
<1>7. QED
  BY <1>1, <1>2, <1>3, <1>4, <1>5, <1>6

(* While entries fit, the dry run stays in its first batch.                *)
LEMMA FirstBatch ==
  ASSUME NEW M \in Pairs, IsFiniteSet(M), NEW P, Start(P, M),
         \A e \in P : (Rank(e, M) + 1) * e[1] <= MiniBatchWords
  PROVE  \A n \in 0 .. Cardinality(P) :
            DryRun(Ordered(M))[n] = [batches |-> 0, inBatch |-> n]
<1> DEFINE d == DryRun(Ordered(M))
           k == Cardinality(P)
           S == {n \in Nat : n <= k => d[n] = [batches |-> 0, inBatch |-> n]}
<1>1. /\ k \in Nat /\ Cardinality(M) \in Nat /\ k <= Cardinality(M)
      /\ Ordered(M) \in Seq(Nat \X Nat) /\ Len(Ordered(M)) = Cardinality(M)
  BY AfterStart, TallyType
<1>2. /\ d[0] = AtStart
      /\ \A n \in 1 .. Cardinality(M) : d[n] = Visit(d[n - 1], Ordered(M)[n])
  BY <1>1, DryRunIs
<1> HIDE DEF d
<1>3. 0 \in S
  BY <1>2 DEF AtStart
<1>4. ASSUME NEW n \in S PROVE n + 1 \in S
  <2> SUFFICES ASSUME n + 1 <= k PROVE d[n + 1] = [batches |-> 0, inBatch |-> n + 1]
    OBVIOUS
  <2>1. n \in Nat /\ n <= k /\ d[n] = [batches |-> 0, inBatch |-> n]
    BY <1>1
  <2>2. PICK i \in 1 .. Cardinality(M) : i = n + 1 /\ i - 1 = n
    BY <1>1, <2>1
  <2> DEFINE e == Ordered(M)[i]
  <2>3. e \in M /\ Rank(e, M) = n
    BY <2>2, OrderedIs
  <2>4. e \in P
    <3>1. \A f \in M : f \in P <=> Rank(f, M) < k
      BY AfterStart
    <3>2. n < k
      BY <1>1, <2>1
    <3> HIDE DEF e, k
    <3>3. QED
      BY <2>3, <3>1, <3>2
  <2>5. (n + 1) * e[1] <= MiniBatchWords
    BY <2>3, <2>4
  <2>6. d[i] = Visit(d[n], e)
    BY <1>2, <2>2
  <2>7. e \in Nat \X Nat
    BY <2>3 DEF Pairs
  <2>8. (n + 1) * e[1] \in Nat /\ MiniBatchWords \in Nat
    BY <2>1, <2>7, PoolAssumption
  <2>9. ~((n + 1) * e[1] > MiniBatchWords)
    BY <2>5, <2>8
  <2> HIDE DEF e
  <2>10. Visit(d[n], e) = [batches |-> 0, inBatch |-> n + 1]
    BY <2>1, <2>9 DEF Visit
  <2>11. QED
    BY <2>2, <2>6, <2>10
<1>5. S = Nat
  <2> HIDE DEF S
  <2>1. S \in SUBSET Nat
    BY DEF S
  <2>2. QED
    BY <1>3, <1>4, <2>1, Induction
<1>6. \A n \in 0 .. k : n \in Nat /\ n <= k
  BY <1>1
<1>7. \A n \in 0 .. k : d[n] = [batches |-> 0, inBatch |-> n]
  BY <1>5, <1>6
<1>8. QED
  BY <1>7 DEF d

(* A batch that ends where the padding ends it is one batch of the dry     *)
(* run, whatever the cap: what is left comes to one batch less.            *)
LEMMA OneBatchLess ==
  ASSUME NEW M \in Pairs, IsFiniteSet(M), NEW P, Start(P, M), P # {},
         \A e \in P : (Rank(e, M) + 1) * e[1] <= MiniBatchWords,
         \A e \in M \ P : Rank(e, M) = Cardinality(P) =>
            /\ (Cardinality(P) + 1) * e[1] > MiniBatchWords
            /\ e[1] <= MiniBatchWords
  PROVE  Tally(M) = Tally(M \ P) + 1
<1> DEFINE R == M \ P
           d == DryRun(Ordered(M))
           r == DryRun(Ordered(R))
           k == Cardinality(P)
           N == Cardinality(R)
<1>1. /\ k \in Nat /\ Cardinality(M) = k + N /\ R \in Pairs /\ IsFiniteSet(R) /\ N \in Nat
      /\ \A e \in R : Rank(e, M) = Rank(e, R) + k
      /\ \A i \in 1 .. N : Ordered(R)[i] = Ordered(M)[k + i]
  <2>1. Cardinality(M) \in Nat
    BY TallyType
  <2>2. k \in Nat /\ N = Cardinality(M) - k /\ R \in Pairs /\ IsFiniteSet(R)
    BY AfterStart
  <2>3. N \in Nat
    BY <2>2, TallyType
  <2>4. Cardinality(M) = k + N
    BY <2>1, <2>2, <2>3
  <2>5. /\ \A e \in R : Rank(e, M) = Rank(e, R) + k
        /\ \A i \in 1 .. Cardinality(M) - k : Ordered(R)[i] = Ordered(M)[k + i]
    BY AfterStart
  <2>6. 1 .. Cardinality(M) - k = 1 .. N
    BY <2>2
  <2> HIDE DEF k, N, R
  <2>7. QED
    BY <2>2, <2>3, <2>4, <2>5, <2>6
<1>2. k > 0
  <2>1. IsFiniteSet(P)
    BY AfterStart
  <2>2. QED
    BY <1>1, <2>1, FS_EmptySet
<1>3. /\ Ordered(M) \in Seq(Nat \X Nat) /\ Len(Ordered(M)) = k + N
      /\ Ordered(R) \in Seq(Nat \X Nat) /\ Len(Ordered(R)) = N
  BY <1>1, TallyType
<1>4. /\ \A n \in 1 .. k + N : d[n] = Visit(d[n - 1], Ordered(M)[n])
      /\ \A n \in 0 .. k + N : d[n] \in Run
      /\ r[0] = AtStart
      /\ \A n \in 1 .. N : r[n] = Visit(r[n - 1], Ordered(R)[n])
      /\ \A n \in 0 .. N : r[n] \in Run
  BY <1>3, DryRunIs
<1>5. d[k] = [batches |-> 0, inBatch |-> k]
  <2>1. k \in 0 .. k
    BY <1>1
  <2>2. QED
    BY <2>1, FirstBatch
<1>6. CASE R = {}
  <2>1. N = 0 /\ Tally(R) = 0
    BY <1>1, <1>6, FS_EmptySet, TallyType
  <2>2. End(M) = [batches |-> 0, inBatch |-> k]
    BY <1>1, <1>5, <2>1 DEF End
  <2>3. QED
    BY <1>1, <1>2, <2>1, <2>2 DEF Tally
<1>7. CASE R # {}
  <2>1. N >= 1
    BY <1>1, <1>7, FS_EmptySet
  <2> DEFINE Same(n) == d[k + n].batches = r[n].batches + 1 /\ d[k + n].inBatch = r[n].inBatch
             S == {n \in Nat : n + 1 <= N => Same(n + 1)}
  <2>2. \A n \in 1 .. N : Ordered(R)[n] \in Nat \X Nat
    BY <1>3
  <2> HIDE DEF d, r
  <2>3. Same(1)
    <3> DEFINE e == Ordered(R)[1]
    <3>1. 1 \in 1 .. N /\ k + 1 \in 1 .. k + N /\ k + 1 - 1 = k /\ 1 - 1 = 0
      BY <1>1, <2>1
    <3>2. e \in R /\ Rank(e, R) = 0 /\ Ordered(M)[k + 1] = e
      BY <1>1, <3>1, OrderedIs
    <3>3. Rank(e, M) = k /\ e \in Nat \X Nat
      <4>1. Rank(e, M) = 0 + k
        BY <1>1, <3>2
      <4>2. 0 + k = k
        BY <1>1
      <4>3. e \in Nat \X Nat
        BY <2>2, <3>1
      <4>4. QED
        BY <4>1, <4>2, <4>3
    <3>4. (k + 1) * e[1] > MiniBatchWords /\ e[1] <= MiniBatchWords
      BY <3>2, <3>3
    <3>5. d[k + 1] = Visit(d[k], e) /\ r[1] = Visit(r[0], e)
      <4>1. PICK i \in 1 .. k + N : i = k + 1 /\ i - 1 = k
        BY <1>1, <2>1
      <4>2. PICK j \in 1 .. N : j = 1 /\ j - 1 = 0
        BY <3>1
      <4>3. d[i] = Visit(d[k], Ordered(M)[i]) /\ r[j] = Visit(r[0], Ordered(R)[j])
        BY <1>4, <4>1, <4>2
      <4>4. QED
        BY <3>2, <4>1, <4>2, <4>3
    <3>6. d[k] \in Run /\ r[0] \in Run
      <4>1. k \in 0 .. k + N /\ 0 \in 0 .. N
        BY <1>1
      <4>2. QED
        BY <1>4, <4>1
    <3>7. d[k].inBatch = k /\ d[k].batches = 0 /\ r[0].inBatch = 0 /\ r[0].batches = 0
      BY <1>4, <1>5 DEF AtStart
    <3>8. (0 + 1) * e[1] = e[1] /\ e[1] \in Nat /\ MiniBatchWords \in Nat
      BY <3>3, PoolAssumption
    <3>9. ~((0 + 1) * e[1] > MiniBatchWords)
      BY <3>4, <3>8
    <3> HIDE DEF e
    <3>10. d[k + 1].batches = 1 /\ d[k + 1].inBatch = 1
      BY <3>3, <3>4, <3>5, <3>6, <3>7, VisitType
    <3>11. r[1].batches = 0 /\ r[1].inBatch = 1
      BY <3>3, <3>5, <3>6, <3>7, <3>9, VisitType
    <3>12. QED
      BY <3>10, <3>11
  <2>4. 0 \in S
    BY <2>3
  <2>5. ASSUME NEW n \in S PROVE n + 1 \in S
    <3> SUFFICES ASSUME n + 2 <= N PROVE Same(n + 2)
      OBVIOUS
    <3>1. n \in Nat /\ Same(n + 1)
      BY <1>1
    <3>2. PICK i \in 1 .. N : i = n + 2 /\ i - 1 = n + 1
      BY <1>1, <3>1
    <3>3. PICK j \in 1 .. k + N : j = k + i /\ j - 1 = k + (n + 1)
      BY <1>1, <3>2
    <3> DEFINE e == Ordered(R)[i]
    <3>4. e \in Nat \X Nat /\ Ordered(M)[j] = e
      BY <1>1, <2>2, <3>3
    <3>5. d[j] = Visit(d[k + (n + 1)], e) /\ r[i] = Visit(r[n + 1], e)
      BY <1>4, <3>2, <3>3, <3>4
    <3>6. d[k + (n + 1)] \in Run /\ r[n + 1] \in Run
      <4>1. k + (n + 1) \in 0 .. k + N /\ n + 1 \in 0 .. N
        BY <1>1, <3>1
      <4>2. QED
        BY <1>4, <4>1
    <3> HIDE DEF e
    <3>7. /\ Visit(d[k + (n + 1)], e).inBatch = Visit(r[n + 1], e).inBatch
          /\ Visit(d[k + (n + 1)], e).batches = Visit(r[n + 1], e).batches + 1
      <4>1. d[k + (n + 1)].inBatch = r[n + 1].inBatch
            /\ d[k + (n + 1)].batches = r[n + 1].batches + 1
        BY <3>1
      <4>2. r[n + 1].batches \in Nat
        BY <3>6 DEF Run
      <4>3. CASE (r[n + 1].inBatch + 1) * e[1] > MiniBatchWords
        BY <3>4, <3>6, <4>1, <4>2, <4>3, VisitType
      <4>4. CASE ~((r[n + 1].inBatch + 1) * e[1] > MiniBatchWords)
        BY <3>4, <3>6, <4>1, <4>2, <4>4, VisitType
      <4>5. QED
        BY <4>3, <4>4
    <3>8. QED
      BY <3>2, <3>3, <3>5, <3>7
  <2>6. S = Nat
    <3> HIDE DEF S
    <3>1. S \in SUBSET Nat
      BY DEF S
    <3>2. QED
      BY <2>4, <2>5, <3>1, Induction
  <2>7. PICK n \in Nat : n + 1 = N
    <3>1. N - 1 \in Nat /\ N - 1 + 1 = N
      BY <1>1, <2>1
    <3>2. QED
      BY <3>1
  <2>8. Same(N)
    <3>1. n + 1 <= N
      BY <1>1, <2>7
    <3>2. Same(n + 1)
      <4>1. n \in S
        <5> HIDE DEF S
        <5>1. QED
          BY <2>6, <2>7
      <4>2. QED
        BY <3>1, <4>1
    <3>3. QED
      BY <2>7, <3>2
  <2>9. End(M) = d[k + N] /\ End(R) = r[N]
    BY <1>1 DEF End, d, r
  <2>10. M # {} /\ Tally(M) = End(M).batches + 1 /\ Tally(R) = End(R).batches + 1
    BY <1>1, <1>7, TallyType
  <2>11. QED
    BY <2>8, <2>9, <2>10
<1>8. QED
  BY <1>6, <1>7

(* A run that is behind another stays behind it.                           *)
Behind(a, b) == a.batches < b.batches \/ (a.batches = b.batches /\ a.inBatch <= b.inBatch)

LEMMA TimesMonotone ==
  ASSUME NEW p \in Nat, NEW q \in Nat, p <= q, NEW l \in Nat
  PROVE  p * l <= q * l /\ p * l \in Nat /\ q * l \in Nat
<1>1. PICK t \in Nat : q = p + t
  <2>1. q - p \in Nat /\ q = p + (q - p)
    OBVIOUS
  <2>2. QED
    BY <2>1
<1>2. t * l \in Nat /\ p * l \in Nat /\ (p + t) * l = p * l + t * l
  OBVIOUS
<1>3. QED
  BY <1>1, <1>2

LEMMA VisitBehind ==
  ASSUME NEW a \in Run, NEW b \in Run, Behind(a, b), NEW e \in Nat \X Nat
  PROVE  Behind(Visit(a, e), Visit(b, e))
<1>1. /\ a.batches \in Nat /\ a.inBatch \in Nat /\ b.batches \in Nat /\ b.inBatch \in Nat
      /\ MiniBatchWords \in Nat
  BY PoolAssumption DEF Run
<1>2. a.batches = b.batches => (a.inBatch + 1) * e[1] <= (b.inBatch + 1) * e[1]
  <2> SUFFICES ASSUME a.batches = b.batches
               PROVE  (a.inBatch + 1) * e[1] <= (b.inBatch + 1) * e[1]
    OBVIOUS
  <2>1. a.inBatch + 1 \in Nat /\ b.inBatch + 1 \in Nat /\ a.inBatch + 1 <= b.inBatch + 1
    BY <1>1 DEF Behind
  <2>2. e[1] \in Nat
    OBVIOUS
  <2>3. QED
    BY <2>1, <2>2, TimesMonotone
<1> DEFINE x == (a.inBatch + 1) * e[1]
           y == (b.inBatch + 1) * e[1]
<1>3. x \in Nat /\ y \in Nat
  BY <1>1
<1>4. /\ Visit(a, e).batches = a.batches + (IF x > MiniBatchWords THEN 1 ELSE 0)
      /\ Visit(a, e).inBatch = (IF x > MiniBatchWords THEN 1 ELSE a.inBatch + 1)
      /\ Visit(b, e).batches = b.batches + (IF y > MiniBatchWords THEN 1 ELSE 0)
      /\ Visit(b, e).inBatch = (IF y > MiniBatchWords THEN 1 ELSE b.inBatch + 1)
  BY VisitType
<1>5. a.batches = b.batches => x <= y
  BY <1>2
<1> HIDE DEF x, y
<1>6. QED
  BY <1>1, <1>3, <1>4, <1>5 DEF Behind

(* Taking sentences from the front never adds a batch to the dry run.      *)
LEMMA NoMore ==
  ASSUME NEW M \in Pairs, IsFiniteSet(M), NEW P, Start(P, M)
  PROVE  Tally(M \ P) <= Tally(M)
<1> DEFINE R == M \ P
           d == DryRun(Ordered(M))
           r == DryRun(Ordered(R))
           k == Cardinality(P)
           N == Cardinality(R)
<1>1. /\ k \in Nat /\ Cardinality(M) = k + N /\ R \in Pairs /\ IsFiniteSet(R) /\ N \in Nat
      /\ \A i \in 1 .. N : Ordered(R)[i] = Ordered(M)[k + i]
  <2>1. Cardinality(M) \in Nat
    BY TallyType
  <2>2. k \in Nat /\ N = Cardinality(M) - k /\ R \in Pairs /\ IsFiniteSet(R)
    BY AfterStart
  <2>3. N \in Nat
    BY <2>2, TallyType
  <2>4. Cardinality(M) = k + N
    BY <2>1, <2>2, <2>3
  <2>5. \A i \in 1 .. Cardinality(M) - k : Ordered(R)[i] = Ordered(M)[k + i]
    BY AfterStart
  <2> HIDE DEF k, N, R
  <2>6. QED
    BY <2>2, <2>3, <2>4, <2>5
<1>2. /\ Ordered(M) \in Seq(Nat \X Nat) /\ Len(Ordered(M)) = k + N
      /\ Ordered(R) \in Seq(Nat \X Nat) /\ Len(Ordered(R)) = N
  BY <1>1, TallyType
<1>3. /\ \A n \in 1 .. k + N : d[n] = Visit(d[n - 1], Ordered(M)[n])
      /\ \A n \in 0 .. k + N : d[n] \in Run
      /\ r[0] = AtStart
      /\ \A n \in 1 .. N : r[n] = Visit(r[n - 1], Ordered(R)[n])
      /\ \A n \in 0 .. N : r[n] \in Run
  BY <1>2, DryRunIs
<1>4. \A n \in 1 .. N : Ordered(R)[n] \in Nat \X Nat
  BY <1>2
<1> DEFINE S == {n \in Nat : n <= N => Behind(r[n], d[k + n])}
<1> HIDE DEF d, r
<1>5. 0 \in S
  <2>1. d[k + 0] \in Run
    <3>1. k + 0 \in 0 .. k + N
      BY <1>1
    <3>2. QED
      BY <1>3, <3>1
  <2>2. Behind(AtStart, d[k + 0])
    BY <2>1 DEF Run, AtStart, Behind
  <2>3. QED
    BY <1>3, <2>2
<1>6. ASSUME NEW n \in S PROVE n + 1 \in S
  <2> SUFFICES ASSUME n + 1 <= N PROVE Behind(r[n + 1], d[k + (n + 1)])
    OBVIOUS
  <2>1. n \in Nat /\ Behind(r[n], d[k + n])
    BY <1>1
  <2>2. PICK i \in 1 .. N : i = n + 1 /\ i - 1 = n
    BY <1>1, <2>1
  <2>3. PICK j \in 1 .. k + N : j = k + i /\ j - 1 = k + n
    BY <1>1, <2>2
  <2>4. Ordered(M)[j] = Ordered(R)[i] /\ Ordered(R)[i] \in Nat \X Nat
    BY <1>1, <1>4, <2>3
  <2>5. d[j] = Visit(d[k + n], Ordered(R)[i]) /\ r[i] = Visit(r[n], Ordered(R)[i])
    BY <1>3, <2>2, <2>3, <2>4
  <2>6. d[k + n] \in Run /\ r[n] \in Run
    <3>1. k + n \in 0 .. k + N /\ n \in 0 .. N
      BY <1>1, <2>1
    <3>2. QED
      BY <1>3, <3>1
  <2>7. Behind(r[i], d[j])
    BY <2>1, <2>4, <2>5, <2>6, VisitBehind
  <2>8. QED
    BY <2>2, <2>3, <2>7
<1>7. S = Nat
  <2> HIDE DEF S
  <2>1. S \in SUBSET Nat
    BY DEF S
  <2>2. QED
    BY <1>5, <1>6, <2>1, Induction
<1>8. Behind(r[N], d[k + N])
  BY <1>1, <1>7
<1>9. End(M) = d[k + N] /\ End(R) = r[N]
  BY <1>1 DEF End, d, r
<1>10. Tally(M) \in Nat /\ Tally(R) \in Nat /\ End(M) \in Run /\ End(R) \in Run
  BY <1>1, TallyType
<1>11. CASE R = {}
  BY <1>1, <1>10, <1>11, TallyType
<1>12. CASE R # {}
  <2>1. M # {} /\ Tally(M) = End(M).batches + 1 /\ Tally(R) = End(R).batches + 1
    BY <1>1, <1>12, TallyType
  <2>2. End(R).batches <= End(M).batches
    BY <1>8, <1>9, <1>10 DEF Behind, Run
  <2>3. QED
    BY <1>10, <2>1, <2>2 DEF Run
<1>13. QED
  BY <1>11, <1>12

LEMMA CeilDivBounds ==
  ASSUME NEW n \in Nat, NEW d \in Nat \ {0}
  PROVE  /\ CeilDiv(n, d) \in Nat
         /\ n <= CeilDiv(n, d) * d
         /\ CeilDiv(n, d) * d < n + d
         /\ n > 0 => CeilDiv(n, d) > 0
<1> DEFINE m == n + d - 1
           c == m \div d
<1>1. m \in Nat
  OBVIOUS
<1>2. c \in Int /\ c * d <= m /\ m < c * d + d
  <2> HIDE DEF m
  <2>1. QED
    BY <1>1
<1>3. c = CeilDiv(n, d)
  BY DEF CeilDiv
<1> HIDE DEF c
<1>4. QED
  BY <1>2, <1>3

-----------------------------------------------------------------------------
(* The forecast and the cap.                                               *)

Left == Tally(Entries(bucket))

(* Every sentence in the pool fits in a batch.                             *)
AllFit == \A e \in Entries(bucket) : e[1] <= MiniBatchWords

(* What is true of a submission that has the pool for itself: without a    *)
(* cap, the batches served and those left make the forecast; with a cap,   *)
(* some of the batches were ended by the cap and are full, and the others  *)
(* were in the forecast.                                                   *)
Uncapped ==
    /\ maxSentencesPerBatch = Unbounded
    /\ AllFit => submission.served + Left = submission.forecast

Cap == CeilDiv(submission.sentences, submission.workers)

Shared(byPadding, byCap) ==
    /\ submission.served = byPadding + byCap
    /\ byPadding + Left <= submission.forecast
    /\ byCap * Cap + byPadding + pending <= submission.sentences

Capped ==
    /\ submission.sentences > 0
    /\ pending > 0 => maxSentencesPerBatch = Cap
    /\ AllFit => \E byPadding, byCap \in Nat : Shared(byPadding, byCap)
    /\ submission.served > 0 =>
            Cardinality(batch) * submission.workers < submission.sentences + submission.workers

Submissions == [sentences : Nat, workers : Nat, forecast : Nat, alone : BOOLEAN, served : Nat]

Served ==
    /\ maxSentencesPerBatch \in Nat \ {0}
    /\ submission \in Submissions
    /\ submission.alone =>
        /\ submission.workers > 0
        /\ submission.forecast >= submission.workers => Uncapped
        /\ submission.forecast \in 1 .. submission.workers - 1 => Capped

(* The walk goes through the whole pool.                                   *)
LEMMA PoolPairs ==
  ASSUME IInv
  PROVE  /\ Entries(bucket) \in Pairs /\ IsFiniteSet(Entries(bucket))
         /\ Entries(bucket) = Walked
         /\ Left \in Nat
         /\ pending = Cardinality(Entries(bucket)) /\ pending \in Nat
         /\ pending < Unbounded
         /\ pending = 0 <=> Entries(bucket) = {}
         /\ Left = 0 <=> Entries(bucket) = {}
<1>1. /\ IsFiniteSet(Entries(bucket)) /\ Entries(bucket) = Walked
      /\ Entries(bucket) \subseteq Lengths \X Sentences
      /\ pending = Cardinality(Entries(bucket)) /\ pending \in Nat
  BY EntriesFinite DEF IInv, Counted
<1>2. Entries(bucket) \in Pairs
  BY <1>1, PoolAssumption DEF Pairs
<1>3. pending = 0 <=> Entries(bucket) = {}
  BY <1>1, FS_EmptySet
<1>4. Left \in Nat /\ (Left = 0 <=> Entries(bucket) = {})
  <2>1. /\ Tally(Entries(bucket)) \in Nat
        /\ Entries(bucket) = {} => Tally(Entries(bucket)) = 0
        /\ Entries(bucket) # {} => Tally(Entries(bucket)) > 0
    BY <1>1, <1>2, TallyType
  <2>2. QED
    BY <2>1 DEF Left
<1>5. pending < Unbounded
  <2> DEFINE f == [e \in Entries(bucket) |-> e[2]]
  <2>1. \A d, e \in Entries(bucket) : d[2] = e[2] => d = e
    BY HeldInBuckets
  <2>2. f \in Injection(Entries(bucket), Sentences)
    BY <1>1, <2>1 DEF Injection, IsInjective
  <2>3. Cardinality(Entries(bucket)) <= Cardinality(Sentences)
    <3> HIDE DEF f
    <3>1. QED
      BY <2>2, PoolAssumption, FS_Injection
  <2>4. Cardinality(Sentences) \in Nat
    BY PoolAssumption, FS_CardinalityType
  <2>5. QED
    BY <1>1, <2>3, <2>4, PoolAssumption
<1>6. QED
  BY <1>1, <1>2, <1>3, <1>4, <1>5

(* A batch is the start of the walk, and ends where the padding or the cap *)
(* ends it.                                                                *)
LEMMA BatchIsStart ==
  ASSUME IInv, Served
  PROVE  /\ Start(FillBatch, Walked)
         /\ Cardinality(FillBatch) \in Nat /\ Cardinality(FillBatch) <= maxSentencesPerBatch
         /\ Cardinality(FillBatch) <= pending
         /\ FillBatch # {} => Cardinality(FillBatch) > 0
         /\ \A e \in FillBatch : (Rank(e, Walked) + 1) * e[1] <= MiniBatchWords
         /\ \A e \in FillBatch : e[1] <= MiniBatchWords
         /\ Cardinality(FillBatch) = maxSentencesPerBatch
            \/ \A e \in Walked \ FillBatch : Rank(e, Walked) = Cardinality(FillBatch) =>
                   (Cardinality(FillBatch) + 1) * e[1] > MiniBatchWords
<1> DEFINE k == Cardinality(FillBatch)
<1>1. /\ Walked \in Pairs /\ IsFiniteSet(Walked) /\ Cardinality(Walked) = pending
      /\ maxSentencesPerBatch \in Nat /\ maxSentencesPerBatch > 0 /\ MiniBatchWords \in Nat
  BY PoolPairs, PoolAssumption DEF Served
<1>2. Start(FillBatch, Walked)
  <2>1. \A e, f, g \in Walked : Before(g, f) /\ Before(f, e) => Before(g, e)
    BY <1>1, BeforeOrder
  <2>2. QED
    BY <2>1 DEF Start, FillBatch
<1>3. \A e \in FillBatch : (Rank(e, Walked) + 1) * e[1] <= MiniBatchWords
  BY DEF FillBatch, FitsPadding, Position
<1>4. \A e \in FillBatch : e[1] <= MiniBatchWords
  <2> SUFFICES ASSUME NEW e \in FillBatch PROVE e[1] <= MiniBatchWords
    OBVIOUS
  <2>1. e[1] \in Nat /\ Rank(e, Walked) \in Nat
    BY <1>1, EarlierFinite DEF FillBatch, Pairs
  <2>2. 1 * e[1] <= (Rank(e, Walked) + 1) * e[1] /\ 1 * e[1] = e[1]
        /\ (Rank(e, Walked) + 1) * e[1] \in Nat
    BY <2>1, TimesMonotone
  <2>3. QED
    BY <1>3, <2>1, <2>2, PoolAssumption
<1>5. /\ k \in Nat /\ k <= pending /\ IsFiniteSet(FillBatch)
      /\ \A e \in Walked : e \in FillBatch <=> Rank(e, Walked) < k
  BY <1>1, <1>2, AfterStart
<1>6. FillBatch # {} => k > 0
  BY <1>5, FS_EmptySet
<1>7. k <= maxSentencesPerBatch
  <2> SUFFICES ASSUME k > 1 PROVE k <= maxSentencesPerBatch
    BY <1>1, <1>5
  <2>1. k - 1 \in 0 .. Cardinality(Walked) - 1
    <3>1. k - 1 \in Nat /\ k - 1 <= pending - 1 /\ pending \in Nat
      BY <1>5, PoolPairs
    <3> HIDE DEF k
    <3>2. QED
      BY <1>1, <3>1
  <2>2. PICK e \in Walked : Rank(e, Walked) = k - 1
    BY <1>1, <2>1, Ranks
  <2>3. k - 1 < k
    BY <1>5
  <2>4. e \in FillBatch
    BY <1>5, <2>2, <2>3
  <2>5. UnderCap(e)
    BY <2>4 DEF FillBatch
  <2>6. Rank(e, Walked) = 0 \/ Rank(e, Walked) < maxSentencesPerBatch
    BY <2>5 DEF UnderCap, Position
  <2> HIDE DEF k
  <2>7. QED
    BY <1>1, <1>5, <2>2, <2>6
<1>8. ASSUME NEW e \in Walked \ FillBatch, Rank(e, Walked) = k
      PROVE  (k + 1) * e[1] > MiniBatchWords \/ k = maxSentencesPerBatch
  <2>1. \A f \in Walked : Before(f, e) => f \in FillBatch
    <3> SUFFICES ASSUME NEW f \in Walked, Before(f, e) PROVE f \in FillBatch
      OBVIOUS
    <3>1. Rank(f, Walked) < Rank(e, Walked)
      BY <1>1, Ranks
    <3> HIDE DEF k
    <3>2. QED
      BY <1>5, <1>8, <3>1
  <2>2. \A f \in Walked : Before(f, e) => FitsPadding(f) /\ UnderCap(f)
    BY <2>1 DEF FillBatch
  <2>3. ~(FitsPadding(e) /\ UnderCap(e))
    BY <1>8, <2>2 DEF FillBatch
  <2>4. e[1] \in Nat
    BY <1>1 DEF Pairs
  <2>5. (k + 1) * e[1] \in Nat
    BY <1>5, <2>4
  <2>6. ~((k + 1) * e[1] <= MiniBatchWords) \/ ~(k < maxSentencesPerBatch)
    BY <1>8, <2>3 DEF FitsPadding, UnderCap, Position
  <2> HIDE DEF k
  <2>7. QED
    BY <1>1, <1>5, <1>7, <2>5, <2>6
<1>9. QED
  BY <1>2, <1>3, <1>4, <1>5, <1>6, <1>7, <1>8

(* The next batch is one of the forecast, unless the cap ended it.         *)
LEMMA LeftAfterBatch ==
  ASSUME IInv, Served, GenerateBatch, AllFit', FillBatch # {}
  PROVE  /\ AllFit
         /\ Left' <= Left
         /\ Left = 1 + Left' \/ Cardinality(FillBatch) = maxSentencesPerBatch
<1>1. /\ Entries(bucket') = Entries(bucket) \ FillBatch
      /\ Entries(bucket) \in Pairs /\ IsFiniteSet(Entries(bucket))
      /\ Entries(bucket) = Walked
  BY Taken, PoolPairs
<1>2. Start(FillBatch, Walked)
  BY BatchIsStart
<1>3. AllFit
  BY <1>1, BatchIsStart DEF AllFit
<1>4. Left' <= Left
  BY <1>1, <1>2, NoMore DEF Left
<1>5. ASSUME Cardinality(FillBatch) # maxSentencesPerBatch PROVE Left = 1 + Left'
  <2>1. \A e \in FillBatch : (Rank(e, Walked) + 1) * e[1] <= MiniBatchWords
    BY BatchIsStart
  <2>2. \A e \in Walked \ FillBatch : Rank(e, Walked) = Cardinality(FillBatch) =>
            /\ (Cardinality(FillBatch) + 1) * e[1] > MiniBatchWords
            /\ e[1] <= MiniBatchWords
    BY <1>1, <1>3, <1>5, BatchIsStart DEF AllFit
  <2>3. Tally(Walked) = Tally(Walked \ FillBatch) + 1
    BY <1>1, <1>2, <2>1, <2>2, OneBatchLess
  <2>4. Tally(Walked \ FillBatch) \in Nat
    <3>1. Walked \ FillBatch \in Pairs /\ IsFiniteSet(Walked \ FillBatch)
      BY <1>1, <1>2, AfterStart
    <3>2. QED
      BY <3>1, TallyType
  <2>5. Tally(Walked) = 1 + Tally(Walked \ FillBatch)
    BY <2>3, <2>4
  <2>6. QED
    BY <1>1, <2>5 DEF Left
<1>6. QED
  BY <1>3, <1>4, <1>5

LEMMA BatchKeepsServed ==
  ASSUME IInv, Served, GenerateBatch
  PROVE  Served'
<1> DEFINE k == Cardinality(FillBatch)
<1>1. /\ batch' = FillBatch
      /\ pending' = pending - k
      /\ maxSentencesPerBatch' = IF pending' = 0 THEN Unbounded ELSE maxSentencesPerBatch
      /\ submission' = [submission EXCEPT !.served = IF FillBatch = {} THEN @ ELSE @ + 1]
  BY DEF GenerateBatch
<1>3. /\ submission \in Submissions /\ submission' \in Submissions
      /\ submission'.alone <=> submission.alone
      /\ submission'.sentences = submission.sentences
      /\ submission'.workers = submission.workers
      /\ submission'.forecast = submission.forecast
      /\ FillBatch = {} => submission'.served = submission.served
      /\ FillBatch # {} => submission'.served = submission.served + 1
      /\ submission.served \in Nat /\ submission.workers \in Nat
      /\ submission.sentences \in Nat /\ submission.forecast \in Nat
      /\ Cap' = Cap
  BY <1>1 DEF Served, Submissions, Cap
<1>4. /\ Unbounded \in Nat \ {0} /\ pending \in Nat /\ pending' \in Nat /\ pending < Unbounded
      /\ Left \in Nat /\ Left' \in Nat
      /\ k \in Nat /\ k <= maxSentencesPerBatch /\ k <= pending
      /\ FillBatch # {} => k > 0
      /\ maxSentencesPerBatch \in Nat \ {0}
  <2>1. /\ pending \in Nat /\ pending < Unbounded /\ Left \in Nat
        /\ k \in Nat /\ k <= maxSentencesPerBatch /\ k <= pending
        /\ FillBatch # {} => k > 0
        /\ maxSentencesPerBatch \in Nat \ {0}
    BY PoolPairs, BatchIsStart DEF Served
  <2>2. pending' \in Nat /\ Unbounded \in Nat \ {0}
    BY <1>1, <2>1, PoolAssumption
  <2>3. Left' \in Nat
    <3>1. /\ Entries(bucket') = Walked \ FillBatch
          /\ Walked \in Pairs /\ IsFiniteSet(Walked) /\ Start(FillBatch, Walked)
      BY Taken, PoolPairs, BatchIsStart
    <3>2. Walked \ FillBatch \in Pairs /\ IsFiniteSet(Walked \ FillBatch)
      BY <3>1, AfterStart
    <3>3. Tally(Walked \ FillBatch) \in Nat
      BY <3>2, TallyType
    <3>4. QED
      BY <3>1, <3>3 DEF Left
  <2>4. QED
    BY <2>1, <2>2, <2>3
<1>5. FillBatch = {} => k = 0 /\ Entries(bucket') = Entries(bucket)
  BY Taken, FS_EmptySet
<1>6. FillBatch = {} => Left' = Left /\ AllFit' = AllFit
  BY <1>5 DEF Left, AllFit
<1> HIDE DEF k
<1>7. maxSentencesPerBatch' \in Nat \ {0}
  BY <1>1, <1>4
<1>8. ASSUME submission.alone, submission.forecast >= submission.workers PROVE Uncapped'
  <2>1. Uncapped
    BY <1>8 DEF Served
  <2>2. maxSentencesPerBatch' = Unbounded
    BY <1>1, <2>1 DEF Uncapped
  <2>3. ASSUME AllFit' PROVE submission'.served + (Left') = submission'.forecast
    <3>1. CASE FillBatch = {}
      BY <1>3, <1>6, <2>1, <2>3, <3>1 DEF Uncapped
    <3>2. CASE FillBatch # {}
      <4>1. k # maxSentencesPerBatch
        BY <1>4, <2>1 DEF Uncapped
      <4>2. AllFit /\ Left = 1 + Left'
        BY <2>3, <3>2, <4>1, LeftAfterBatch DEF k
      <4>3. submission.served + Left = submission.forecast
        BY <2>1, <4>2 DEF Uncapped
      <4>4. /\ submission'.served = submission.served + 1
            /\ submission'.forecast = submission.forecast /\ submission.served \in Nat
        BY <1>3, <3>2
      <4>5. QED
        BY <1>4, <4>2, <4>3, <4>4
    <3>3. QED
      BY <3>1, <3>2
  <2>4. QED
    BY <2>2, <2>3 DEF Uncapped
<1>9. ASSUME submission.alone, submission.workers > 0,
             submission.forecast \in 1 .. submission.workers - 1
      PROVE  Capped'
  <2>1. Capped
    BY <1>9 DEF Served
  <2>2. pending > 0 => maxSentencesPerBatch = Cap
    BY <2>1 DEF Capped
  <2>3. /\ Cap \in Nat
        /\ Cap * submission.workers < submission.sentences + submission.workers
    <3>1. submission.workers \in Nat \ {0} /\ submission.sentences \in Nat
      BY <1>3, <1>9
    <3>2. QED
      BY <3>1, CeilDivBounds DEF Cap
  <2>4. k > 0 => pending > 0 /\ k <= Cap
    BY <1>4, <2>2
  <2>5. Cardinality(batch') * submission'.workers < submission'.sentences + submission'.workers
    <3>1. CASE k = 0
      <4>1. k * submission.workers = 0
        BY <1>3, <3>1
      <4>2. QED
        BY <1>1, <1>3, <1>9, <4>1 DEF k
    <3>2. CASE k > 0
      <4>1. k * submission.workers <= Cap * submission.workers
            /\ k * submission.workers \in Nat /\ Cap * submission.workers \in Nat
        BY <1>3, <1>4, <2>3, <2>4, <3>2, TimesMonotone
      <4>2. k * submission.workers < submission.sentences + submission.workers
        BY <1>3, <2>3, <4>1
      <4>3. QED
        BY <1>1, <1>3, <4>2 DEF k
    <3>3. QED
      BY <1>4, <3>1, <3>2
  <2>6. pending' > 0 => maxSentencesPerBatch' = Cap'
    BY <1>1, <1>3, <1>4, <2>2
  <2>7. ASSUME AllFit' PROVE \E byPadding, byCap \in Nat : Shared(byPadding, byCap)'
    <3>1. CASE FillBatch = {}
      <4>1. PICK i \in Nat, j \in Nat : Shared(i, j)
        BY <1>6, <2>1, <2>7, <3>1 DEF Capped
      <4>2. Shared(i, j)'
        BY <1>1, <1>3, <1>4, <1>5, <1>6, <3>1, <4>1 DEF Shared, k
      <4>3. QED
        BY <4>2
    <3>2. CASE FillBatch # {}
      <4>1. AllFit /\ Left' <= Left /\ (Left = 1 + Left' \/ k = maxSentencesPerBatch)
        BY <2>7, <3>2, LeftAfterBatch DEF k
      <4>2. PICK i \in Nat, j \in Nat : Shared(i, j)
        BY <2>1, <4>1 DEF Capped
      <4>3. submission'.served = i + j + 1
        BY <1>3, <3>2, <4>2 DEF Shared
      <4>4. CASE Left = 1 + Left'
        <5>1. j * Cap \in Nat
          BY <2>3
        <5>2. i + 1 + (Left') <= submission.forecast
              /\ j * Cap + (i + 1) + pending' <= submission.sentences
          BY <1>1, <1>3, <1>4, <3>2, <4>2, <4>4, <5>1 DEF Shared
        <5>3. submission'.served = i + 1 + j
          BY <4>3
        <5>4. Shared(i + 1, j)'
          BY <1>3, <5>2, <5>3 DEF Shared
        <5>5. QED
          BY <5>4
      <4>5. CASE k = maxSentencesPerBatch
        <5>1. k = Cap
          BY <1>4, <2>2, <3>2, <4>5
        <5>2. j * Cap \in Nat /\ (j + 1) * Cap = j * Cap + Cap
          BY <2>3
        <5>3. i + (Left') <= submission.forecast
              /\ (j + 1) * Cap + i + pending' <= submission.sentences
          BY <1>1, <1>3, <1>4, <2>3, <4>1, <4>2, <5>1, <5>2 DEF Shared
        <5>4. submission'.served = i + (j + 1)
          BY <4>3
        <5>5. Shared(i, j + 1)'
          BY <1>3, <5>3, <5>4 DEF Shared
        <5>6. QED
          BY <5>5
      <4>6. QED
        BY <4>1, <4>4, <4>5
    <3>3. QED
      BY <3>1, <3>2
  <2>8. submission'.sentences > 0
    BY <1>3, <2>1 DEF Capped
  <2>9. QED
    BY <2>5, <2>6, <2>7, <2>8 DEF Capped
<1>10. submission.alone => submission.workers > 0
  BY DEF Served
<1>11. QED
  BY <1>3, <1>7, <1>8, <1>9, <1>10 DEF Served

(* A submission to an empty pool is forecast by the walk over all of it.   *)
LEMMA EnqueueKeepsServed ==
  ASSUME IInv, Served, NEW len \in Requests, NEW n \in WorkerCounts,
         EnqueueRequests(len, n), IInv'
  PROVE  Served'
<1> DEFINE enqueued == Cardinality(DOMAIN len)
           workers  == Max({n, 1})
<1>1. /\ pending' = pending + enqueued
      /\ bucket' = Inserted(len)
  BY DEF EnqueueRequests, Insert
<1>2. /\ maxSentencesPerBatch' =
            IF enqueued > 0 /\ CountBatches(bucket', maxActiveBucketLength') < workers
              THEN CeilDiv(enqueued, workers) ELSE maxSentencesPerBatch
      /\ submission' = [sentences |-> enqueued, workers |-> workers,
                        forecast |-> CountBatches(bucket', maxActiveBucketLength'),
                        alone |-> pending = 0, served |-> 0]
  BY DEF EnqueueRequests
<1>3. enqueued \in Nat /\ IsFiniteSet(DOMAIN len) /\ pending \in Nat
  BY Longest, FS_CardinalityType, PoolPairs
<1>4. workers \in Nat \ {0}
  <2>1. n \in Nat
    BY PoolAssumption
  <2>2. \E x \in {n, 1} : \A y \in {n, 1} : x >= y
    BY <2>1
  <2>3. workers \in {n, 1} /\ workers >= 1
    BY <2>2 DEF Max
  <2>4. QED
    BY <2>1, <2>3
<1>5. /\ Entries(bucket') \in Pairs /\ IsFiniteSet(Entries(bucket'))
      /\ Entries(bucket') = Entries(bucket) \cup Placed(len)
      /\ Cardinality(Placed(len)) = enqueued /\ IsFiniteSet(Placed(len))
      /\ DOMAIN bucket' \subseteq Nat
  <2>1. /\ Entries(bucket') = Entries(bucket) \cup Placed(len)
        /\ Cardinality(Placed(len)) = enqueued /\ IsFiniteSet(Placed(len))
    BY <1>1, InsertedEntries
  <2>2. Entries(bucket) \in Pairs /\ IsFiniteSet(Entries(bucket))
    BY PoolPairs
  <2>3. Placed(len) \in Pairs
    <3>1. len \in [DOMAIN len -> Lengths] /\ DOMAIN len \in SUBSET fresh
      BY Longest
    <3>2. fresh \in SUBSET Nat
      BY PoolAssumption DEF IInv, Buckets
    <3>3. \A s \in DOMAIN len : len[s] \in Nat /\ s \in Nat
      BY <3>1, <3>2, PoolAssumption
    <3>4. QED
      BY <3>3 DEF Placed, Pairs
  <2>4. DOMAIN bucket' \subseteq Nat
    BY DEF IInv, Buckets
  <2>5. QED
    BY <2>1, <2>2, <2>3, <2>4, FS_Union DEF Pairs
<1>6. CountBatches(bucket', maxActiveBucketLength') = Left'
  <2> DEFINE met == {e \in Entries(bucket') : e[1] <= maxActiveBucketLength'}
  <2>1. met = Entries(bucket')
    <3>1. \A e \in Entries(bucket') : e[1] \in DOMAIN bucket' /\ bucket'[e[1]] # {}
      BY DEF Entries
    <3>2. \A l \in DOMAIN bucket' : bucket'[l] # {} => l <= maxActiveBucketLength'
      BY DEF IInv, Reached
    <3>3. QED
      BY <3>1, <3>2
  <2>2. Walk(bucket', maxActiveBucketLength') = Ordered(met)
    BY DEF Walk, Ordered
  <2> HIDE DEF met
  <2>3. Len(Ordered(Entries(bucket'))) = Cardinality(Entries(bucket'))
    BY <1>5, OrderedIs
  <2>4. QED
    BY <2>1, <2>2, <2>3 DEF CountBatches, Left, Tally, End
<1>7. /\ Left' \in Nat
      /\ Entries(bucket') = {} => Left' = 0
  BY <1>5, TallyType DEF Left
<1> HIDE DEF enqueued, workers
<1>8. /\ submission' \in Submissions
      /\ submission'.alone <=> pending = 0
  <2>1. (pending = 0) \in BOOLEAN
    OBVIOUS
  <2>2. QED
    BY <1>2, <1>3, <1>4, <1>6, <1>7, <2>1 DEF Submissions
<1>9. /\ submission'.sentences = enqueued /\ submission'.workers = workers
      /\ submission'.forecast = Left' /\ submission'.served = 0
  BY <1>2, <1>6
<1>10. CeilDiv(enqueued, workers) \in Nat /\ (enqueued > 0 => CeilDiv(enqueued, workers) > 0)
  BY <1>3, <1>4, CeilDivBounds
<1>11. maxSentencesPerBatch' \in Nat \ {0}
  BY <1>2, <1>3, <1>10 DEF Served
<1>12. ASSUME pending = 0 PROVE maxSentencesPerBatch = Unbounded /\ pending' = enqueued
  BY <1>1, <1>3, <1>12 DEF IInv, DrainedPoolUncapped
<1>13. ASSUME pending = 0, submission'.forecast >= submission'.workers PROVE Uncapped'
  <2>1. maxSentencesPerBatch' = Unbounded
    BY <1>2, <1>4, <1>6, <1>7, <1>9, <1>12, <1>13
  <2>2. submission'.served + (Left') = submission'.forecast
    <3>1. PICK l \in Nat : l = Left'
      BY <1>7
    <3>2. PICK served : served = submission'.served
      OBVIOUS
    <3>3. served + l = l
      BY <1>9, <3>2
    <3>4. QED
      BY <1>9, <3>1, <3>2, <3>3
  <2>3. QED
    BY <2>1, <2>2 DEF Uncapped
<1>14. ASSUME pending = 0, submission'.forecast \in 1 .. submission'.workers - 1
       PROVE  Capped'
  <2>1. Left' > 0 /\ Left' < workers
    BY <1>4, <1>7, <1>9, <1>14
  <2>2. enqueued > 0
    <3>1. Entries(bucket') # {}
      BY <1>7, <2>1
    <3>2. Entries(bucket) = {}
      BY <1>14, PoolPairs
    <3>3. QED
      BY <1>3, <1>5, <3>1, <3>2, FS_EmptySet
  <2>3. maxSentencesPerBatch' = Cap'
    BY <1>2, <1>6, <1>9, <2>1, <2>2 DEF Cap
  <2>4. Shared(0, 0)'
    <3>1. PICK c \in Nat : c = Cap'
      BY <1>9, <1>10 DEF Cap
    <3>2. PICK l \in Nat : l = Left'
      BY <1>7
    <3>3. PICK m \in Nat : m = enqueued
      BY <1>3
    <3>4. 0 = 0 + 0 /\ 0 + l <= l /\ 0 * c + 0 + m <= m
      OBVIOUS
    <3>5. QED
      BY <1>9, <1>12, <1>14, <3>1, <3>2, <3>3, <3>4 DEF Shared
  <2>5. QED
    BY <1>3, <1>9, <2>2, <2>3, <2>4 DEF Capped
<1>15. QED
  BY <1>4, <1>8, <1>9, <1>11, <1>13, <1>14 DEF Served

LEMMA ServedInvariance == Spec => []Served
<1> USE DEF Submissions
<1>0. Unbounded \in Nat \ {0}
  BY FS_CardinalityType, PoolAssumption
<1>1. Init => Served
  BY <1>0 DEF Init, Served, NoSubmission
<1>2. IInv /\ Served /\ IInv' /\ [Next]_vars => Served'
  <2> SUFFICES ASSUME IInv, Served, IInv', [Next]_vars PROVE Served'
    OBVIOUS
  <2>1. ASSUME NEW len \in Requests, EnqueueRequest(len) PROVE Served'
    BY <2>1 DEF EnqueueRequest, Served, NoSubmission
  <2>2. ASSUME NEW len \in Requests, NEW n \in WorkerCounts, EnqueueRequests(len, n)
        PROVE  Served'
    BY <2>2, EnqueueKeepsServed
  <2>3. CASE GenerateBatch
    BY <2>3, BatchKeepsServed
  <2>4. CASE Clear
    BY <1>0, <2>4 DEF Clear, Served, NoSubmission
  <2>5. CASE UNCHANGED vars
    BY <2>5 DEF vars, pvars, Served, Uncapped, Capped, Shared, Cap, Left, AllFit
  <2>6. QED
    BY <2>1, <2>2, <2>3, <2>4, <2>5 DEF Next
<1>3. QED
  BY <1>1, <1>2, Invariance, PTL DEF Spec

(* The forecast is exact: a submission that had the pool for itself and    *)
(* fills the workers is served in exactly the number of batches            *)
(* BatchingPool::countBatches() found for it.                              *)
THEOREM ForecastAlwaysExact == Spec => []ForecastExact
<1>1. IInv /\ Served => ForecastExact
  <2> SUFFICES ASSUME IInv, Served, submission.alone, pending = 0,
                      submission.forecast >= submission.workers
               PROVE  submission.served = submission.forecast
    BY DEF ForecastExact
  <2>1. Entries(bucket) = {} /\ Left = 0
    BY PoolPairs
  <2>2. submission.served + Left = submission.forecast
    BY <2>1 DEF Served, Uncapped, AllFit
  <2>3. QED
    BY <2>1, <2>2 DEF Served, Submissions
<1>2. QED
  BY <1>1, Invariance, ServedInvariance, PTL

(* A small submission is cut in batches of at most ceil(S / W) sentences,  *)
(* and in fewer batches than the forecast and the workers together         *)
(* (BatchingPool::enqueueRequests()).                                      *)
THEOREM CapAlwaysShares == Spec => []CapShares
<1>1. IInv /\ Served => CapShares
  <2> SUFFICES ASSUME IInv, Served, submission.alone,
                      submission.forecast \in 1 .. submission.workers - 1
               PROVE  /\ submission.served > 0
                           => Cardinality(batch) * submission.workers
                                  < submission.sentences + submission.workers
                      /\ pending = 0
                           => submission.served < submission.forecast + submission.workers
    BY DEF CapShares
  <2>1. Capped /\ submission.workers > 0 /\ submission \in Submissions
    BY DEF Served
  <2>2. ASSUME pending = 0
        PROVE  submission.served < submission.forecast + submission.workers
    <3>1. Entries(bucket) = {} /\ Left = 0
      BY <2>2, PoolPairs
    <3>2. PICK i \in Nat, j \in Nat : Shared(i, j)
      BY <2>1, <3>1 DEF Capped, AllFit
    <3> DEFINE S == submission.sentences
               W == submission.workers
    <3>3. S \in Nat /\ W \in Nat \ {0} /\ submission.forecast \in Nat /\ submission.forecast > 0
      BY <2>1 DEF Submissions
    <3>4. Cap \in Nat /\ S <= Cap * W /\ Cap > 0
      BY <2>1, <3>3, CeilDivBounds DEF Cap, Capped
    <3>5. /\ submission.served = i + j
          /\ i <= submission.forecast
          /\ j * Cap + i <= S
      <4>1. j * Cap \in Nat
        BY <3>4
      <4>2. QED
        BY <2>2, <3>1, <3>2, <4>1 DEF Shared
    <3> HIDE DEF S, W
    <3>6. CASE j < W
      BY <3>3, <3>5, <3>6 DEF W
    <3>7. CASE j >= W
      <4>1. PICK t \in Nat : j = W + t
        <5>1. j - W \in Nat /\ j = W + (j - W)
          BY <3>3, <3>7
        <5>2. QED
          BY <5>1
      <4>2. j * Cap = Cap * W + t * Cap
        BY <3>3, <3>4, <4>1
      <4>3. t * Cap \in Nat /\ Cap * W \in Nat
        BY <3>3, <3>4
      <4>4. t * Cap = 0 /\ i = 0
        BY <3>3, <3>4, <3>5, <4>2, <4>3
      <4>5. t = 0
        BY <3>4, <4>4
      <4>6. QED
        BY <3>3, <3>5, <4>1, <4>4, <4>5 DEF W
    <3>8. QED
      BY <3>3, <3>6, <3>7
  <2>3. QED
    BY <2>1, <2>2 DEF Capped
<1>2. QED
  BY <1>1, Invariance, ServedInvariance, PTL

(* Type correctness: the buckets are a vector, and counters, cap and the   *)
(* batch that generateBatch() hands out are what they are declared to be.  *)
THEOREM TypeCorrect == Spec => []TypeOK
<1> DEFINE Drawn == batch \in SUBSET (Nat \X Sentences)
<1>1. Init => Drawn
  BY DEF Init
<1>2. IInv /\ Drawn /\ [Next]_vars => Drawn'
  <2> SUFFICES ASSUME IInv, Drawn, [Next]_vars
               PROVE  Drawn'
    OBVIOUS
  <2>1. CASE GenerateBatch
    <3>1. Walked \subseteq Nat \X Sentences
      BY EntriesFinite, PoolAssumption
    <3>2. QED
      BY <2>1, <3>1 DEF GenerateBatch, FillBatch
  <2>2. CASE batch' = batch
    BY <2>2
  <2>3. QED
    BY <2>1, <2>2 DEF Next, vars, EnqueueRequest, EnqueueRequests, Clear
<1>3. IInv /\ Served /\ Drawn => TypeOK
  <2> SUFFICES ASSUME IInv, Served, Drawn
               PROVE  TypeOK
    OBVIOUS
  <2>1. PICK n \in Nat : DOMAIN bucket = 0 .. n - 1
    BY DEF IInv, Buckets
  <2>2. Cardinality(DOMAIN bucket) = n
    <3>1. 0 \in Int /\ n - 1 \in Int
      BY <2>1
    <3>2. Cardinality(0 .. n - 1) = IF 0 > n - 1 THEN 0 ELSE (n - 1) - 0 + 1
      BY <3>1, FS_Interval
    <3>3. QED
      BY <2>1, <3>2
  <2>3. DOMAIN bucket = 0 .. Cardinality(DOMAIN bucket) - 1
    BY <2>1, <2>2
  <2>4. pending \in Nat
    BY PoolPairs
  <2>5. \A l \in DOMAIN bucket : bucket[l] \in SUBSET Sentences
    BY DEF IInv, Buckets
  <2>6. maxActiveBucketLength \in Nat /\ fresh \in SUBSET Sentences
    BY <2>1 DEF IInv, Buckets, Reached
  <2>7. maxSentencesPerBatch \in Nat
    BY DEF Served
  <2>8. submission \in [sentences : Nat, workers : Nat, forecast : Nat,
                        alone : BOOLEAN, served : Nat]
    BY DEF Served, Submissions
  <2>9. QED
    BY <2>3, <2>4, <2>5, <2>6, <2>7, <2>8 DEF TypeOK
<1>4. Spec => []Drawn
  BY <1>1, <1>2, Invariance, PTL DEF Spec
<1>5. QED
  BY <1>3, <1>4, Invariance, ServedInvariance, PTL
=============================================================================

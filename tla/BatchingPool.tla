---------------------------- MODULE BatchingPool ----------------------------
(***************************************************************************)
(* The batching pool of one TranslationModel                               *)
(* (engine/src/translator/batching_pool.{h,cpp}).  Sentences wait in one   *)
(* bucket per token count; generateBatch() walks the buckets from short to *)
(* long and fills a batch greedily until its padded size would exceed      *)
(* miniBatchWords_, or until a cap on the number of sentences is met.  The *)
(* cap is chosen by enqueueRequests() so that a small submission is spread *)
(* over all workers, and dropped when the pool has drained.                *)
(*                                                                         *)
(* A sentence is a number: its place in the order of RequestSentence, that *)
(* is by request id and then by index.  Its length is chosen when it is    *)
(* enqueued.  Sentences prefilled from the translation cache never reach a *)
(* bucket, so a request here is the set of its sentences still to do.      *)
(***************************************************************************)
EXTENDS Integers, Sequences, FiniteSetsExt

CONSTANTS
    Sentences,         \* the sentences that can be enqueued, numbers
    Lengths,           \* the token counts a sentence may have
    WorkerCounts,      \* the values of numWorkers callers pass
    InitialBuckets,    \* max-length-break + pivotSlack + 1
    MiniBatchWords,    \* option mini-batch-words
    Unbounded          \* kUnboundedSentencesPerBatch

ASSUME PoolAssumption ==
    /\ Sentences \subseteq Nat
    /\ IsFiniteSet(Sentences)
    /\ Lengths \subseteq Nat
    /\ WorkerCounts \subseteq Nat
    /\ InitialBuckets \in Nat \ {0}
    /\ MiniBatchWords \in Nat
    \* the ABORT_IF of the constructor
    /\ InitialBuckets - 1 <= MiniBatchWords
    /\ Unbounded \in Nat
    /\ Unbounded > Cardinality(Sentences)

VARIABLES
    bucket,            \* bucket_: a vector of sets, indexed by length
    maxActiveBucketLength,
    pending,           \* pending_
    maxSentencesPerBatch,
    batch,             \* the batch last returned, as <<length, sentence>> pairs
    fresh,             \* sentences no request has used yet
    submission         \* ghost: what is known of the last submission

pvars == <<bucket, maxActiveBucketLength, pending, maxSentencesPerBatch>>
vars == <<pvars, batch, fresh, submission>>

-----------------------------------------------------------------------------
(* Batching.                                                               *)

Entries(b) == UNION {{<<l, s>> : s \in b[l]} : l \in DOMAIN b}

(* The order of the walk: buckets by length, a bucket by RequestSentence.  *)
Before(e, f) ==
    \/ e[1] < f[1]
    \/ e[1] = f[1] /\ e[2] < f[2]

(* Mutant: the loop over the buckets stops one short.                      *)
WalkedShort == {e \in Entries(bucket) : e[1] < maxActiveBucketLength}

(* fillBatch() never looks beyond maxActiveBucketLength_.                  *)
Walked == {e \in Entries(bucket) : e[1] <= maxActiveBucketLength}

(* How many sentences of the set S the walk meets before e.                *)
Rank(e, S) == Cardinality({f \in S : Before(f, e)})

(* batch.size() when the walk arrives at e, if nothing stopped it before.  *)
Position(e) == Rank(e, Walked)

(* Mutant: a batch may not be filled to the last word.                     *)
FitsPaddingStrictly(e) == (Position(e) + 1) * e[1] < MiniBatchWords

FitsPadding(e) == (Position(e) + 1) * e[1] <= MiniBatchWords

(* Mutant: the cap is looked at before a sentence is added.                *)
UnderOrAtCap(e) == Position(e) <= maxSentencesPerBatch

(* The cap is looked at after a sentence was added, so it never keeps the  *)
(* first sentence out.                                                     *)
UnderCap(e) == Position(e) = 0 \/ Position(e) < maxSentencesPerBatch

(* The walk adds e when e fits and nothing before e ended the batch.       *)
FillBatch ==
    {e \in Walked : \A f \in Walked :
        f = e \/ Before(f, e) => FitsPadding(f) /\ UnderCap(f)}

(* The sentences a walk up to the given length meets, in its order.        *)
Walk(b, longest) ==
    LET met == {e \in Entries(b) : e[1] <= longest}
    IN  [i \in 1 .. Cardinality(met) |-> CHOOSE e \in met : Rank(e, met) = i - 1]

(* Mutant: the sentence that opens a new batch is not counted in it.       *)
VisitLosingFirst(run, e) ==
    IF (run.inBatch + 1) * e[1] > MiniBatchWords
      THEN [batches |-> run.batches + 1, inBatch |-> 0]
      ELSE [run EXCEPT !.inBatch = @ + 1]

(* The body of the inner loop of countBatches(): entry e opens a new batch *)
(* when it does not fit in the one that is open.  There is no cap here.    *)
Visit(run, e) ==
    IF (run.inBatch + 1) * e[1] > MiniBatchWords
      THEN [batches |-> run.batches + 1, inBatch |-> 1]
      ELSE [run EXCEPT !.inBatch = @ + 1]

(* The counters of countBatches() after each number of entries of a walk.  *)
DryRun(walk) ==
    LET run[n \in 0 .. Len(walk)] ==
            IF n = 0 THEN [batches |-> 0, inBatch |-> 0]
                     ELSE Visit(run[n - 1], walk[n])
    IN  run

(* countBatches().                                                         *)
CountBatches(b, longest) ==
    LET walk == Walk(b, longest)
        end  == DryRun(walk)[Len(walk)]
    IN  end.batches + (IF end.inBatch > 0 THEN 1 ELSE 0)

(* vector::resize to at least n buckets.                                   *)
Resized(b, n) ==
    [l \in 0 .. Max({Cardinality(DOMAIN b), n}) - 1 |->
        IF l \in DOMAIN b THEN b[l] ELSE {}]

(* What the loop of enqueueRequest() leaves when it has put every sentence *)
(* s in the bucket of its length len[s].                                   *)
LongestOf(len) == Max({len[s] : s \in DOMAIN len} \cup {0})

Inserted(len) ==
    LET grown == IF DOMAIN len = {} THEN bucket
                                    ELSE Resized(bucket, LongestOf(len) + 1)
    IN  [l \in DOMAIN grown |-> grown[l] \cup {s \in DOMAIN len : len[s] = l}]

CeilDiv(n, d) == (n + d - 1) \div d

-----------------------------------------------------------------------------
(* Operations.  The ghost `submission' describes the submission the pool   *)
(* is working on: how many sentences and workers it had, how many batches  *)
(* countBatches() forecast, whether it had the pool for itself, and how    *)
(* many batches were handed out since.                                     *)

NoSubmission ==
    [sentences |-> 0, workers |-> 0, forecast |-> 0, alone |-> FALSE, served |-> 0]

Init ==
    /\ bucket = [l \in 0 .. InitialBuckets - 1 |-> {}]
    /\ maxActiveBucketLength = 0
    /\ pending = 0
    /\ maxSentencesPerBatch = Unbounded
    /\ batch = {}
    /\ fresh = Sentences
    /\ submission = NoSubmission

(* Mutant: the longest bucket of the last request overwrites the maximum.  *)
InsertForgettingLonger(len) ==
    /\ DOMAIN len \subseteq fresh
    /\ bucket' = Inserted(len)
    /\ maxActiveBucketLength' = LongestOf(len)
    /\ pending' = pending + Cardinality(DOMAIN len)
    /\ fresh' = fresh \ DOMAIN len

(* The body of enqueueRequest() for all the sentences of one call.         *)
Insert(len) ==
    /\ DOMAIN len \subseteq fresh
    /\ bucket' = Inserted(len)
    /\ maxActiveBucketLength' = Max({LongestOf(len), maxActiveBucketLength})
    /\ pending' = pending + Cardinality(DOMAIN len)
    /\ fresh' = fresh \ DOMAIN len

EnqueueRequest(len) ==
    /\ Insert(len)
    /\ submission' = NoSubmission
    /\ UNCHANGED <<maxSentencesPerBatch, batch>>

EnqueueRequests(len, numWorkers) ==
    /\ Insert(len)
    /\ LET workers  == Max({numWorkers, 1})
           enqueued == Cardinality(DOMAIN len)
           forecast == CountBatches(bucket', maxActiveBucketLength')
       IN  /\ maxSentencesPerBatch' =
                 IF enqueued > 0 /\ forecast < workers
                   THEN CeilDiv(enqueued, workers)
                   ELSE maxSentencesPerBatch
           /\ submission' = [sentences |-> enqueued, workers |-> workers,
                             forecast |-> forecast, alone |-> pending = 0,
                             served |-> 0]
    /\ UNCHANGED batch

GenerateBatch ==
    /\ batch' = FillBatch
    /\ bucket' = [l \in DOMAIN bucket |-> {s \in bucket[l] : <<l, s>> \notin FillBatch}]
    /\ pending' = pending - Cardinality(FillBatch)
    /\ maxSentencesPerBatch' =
          IF pending' = 0 THEN Unbounded ELSE maxSentencesPerBatch
    /\ submission' = [submission EXCEPT !.served = IF FillBatch = {} THEN @ ELSE @ + 1]
    /\ UNCHANGED <<maxActiveBucketLength, fresh>>

Clear ==
    /\ bucket' = [l \in DOMAIN bucket |-> {}]
    /\ pending' = 0
    /\ maxSentencesPerBatch' = Unbounded
    /\ submission' = NoSubmission
    /\ UNCHANGED <<maxActiveBucketLength, batch, fresh>>

Requests == UNION {[S -> Lengths] : S \in SUBSET fresh}

Next ==
    \/ \E len \in Requests : EnqueueRequest(len)
    \/ \E len \in Requests, n \in WorkerCounts : EnqueueRequests(len, n)
    \/ GenerateBatch
    \/ Clear

Spec == Init /\ [][Next]_vars

-----------------------------------------------------------------------------
(* Properties.                                                             *)

TypeOK ==
    /\ DOMAIN bucket = 0 .. Cardinality(DOMAIN bucket) - 1
    /\ \A l \in DOMAIN bucket : bucket[l] \in SUBSET Sentences
    /\ maxActiveBucketLength \in Nat
    /\ pending \in Nat
    /\ maxSentencesPerBatch \in Nat
    /\ batch \in SUBSET (Nat \X Sentences)
    /\ fresh \in SUBSET Sentences
    /\ submission \in [sentences : Nat, workers : Nat, forecast : Nat,
                       alone : BOOLEAN, served : Nat]

(* pending_ counts exactly the sentences that a later walk can still find: *)
(* no bucket lies beyond maxActiveBucketLength_, the walk stays inside the *)
(* vector, and the counter that decides when the cap is dropped never      *)
(* drifts from the buckets.                                                *)
NothingStranded ==
    /\ maxActiveBucketLength \in DOMAIN bucket
    /\ pending = Cardinality(Walked)

(* "One sentence always fits in a batch, so no bound can stall the pool"   *)
(* (batching_pool.h:39): a pool with pending sentences yields a nonempty   *)
(* batch, whatever cap is in force.                                        *)
NoBoundStalls == pending > 0 => FillBatch # {}

(* The cap describes one submission: a drained pool has none, so it can    *)
(* never cut short the batches of requests that come later.                *)
DrainedPoolUncapped == pending = 0 => maxSentencesPerBatch = Unbounded

(* countBatches() is an exact dry run of fillBatch(): a submission that    *)
(* had the pool for itself and was left untouched is served in exactly the *)
(* number of batches forecast.                                             *)
ForecastExact ==
    (submission.alone /\ pending = 0 /\ submission.forecast >= submission.workers)
        => submission.served = submission.forecast

(* A submission that had the pool for itself and would have left workers   *)
(* idle is cut in batches of at most ceil(S / W) sentences                 *)
(* (batching_pool.h:30).  Where the cap meets the padding a batch may be   *)
(* cut by either, so it can come to more batches than there are workers:   *)
(* not to more than one cut by the cap for each worker, and less than one  *)
(* more for each batch of the forecast.                                    *)
CapShares ==
    (submission.alone /\ submission.forecast \in 1 .. submission.workers - 1)
        => /\ submission.served > 0
                => Cardinality(batch) * submission.workers
                       < submission.sentences + submission.workers
           /\ pending = 0
                => submission.served < submission.forecast + submission.workers

(* The pool implements the contract of BatchQueue.                         *)
Queue == INSTANCE BatchQueue WITH
    waiting <- {e[2] : e \in Entries(bucket)},
    batch <- {e[2] : e \in batch}

ImplementsBatchQueue == Queue!Spec
=============================================================================

-------------------------- MODULE BlockingService --------------------------
(***************************************************************************)
(* BlockingService: the service that translates on the calling thread,     *)
(* which is what one configured thread gives.  A call makes one request    *)
(* per text, enqueues it, and translates batches until the aggregate queue *)
(* is empty; a pivot does so twice.  The pools belong to the models and    *)
(* the queue to the service, so both outlive a call.                       *)
(*                                                                         *)
(* Making a request and translating a batch may throw, and the JNI bridge  *)
(* turns that into a failed call: whatever was enqueued stays, with        *)
(* callbacks that refer to the responses of a call that is over.  A later  *)
(* call meets those sentences.  If one of them completes a request, its    *)
(* callback writes to the stack of a call that is gone: from there on      *)
(* nothing is defined, and the model stops with the request in late.       *)
(*                                                                         *)
(* A batch is any nonempty set of sentences, as BatchQueue allows.         *)
(***************************************************************************)
EXTENDS Integers, FiniteSets, Sequences, Functions

CONSTANTS
    Models,            \* TranslationModel objects the client may load
    MaxTexts,          \* bound: texts of a call
    MaxSegments,       \* bound: sentences of a text not found in the cache
    MaxCalls,          \* bound: calls over a behaviour, each leg of a pivot is one
    MaxRequests        \* bound: requests over a behaviour

ASSUME BlockingAssumption ==
    /\ MaxTexts \in Nat
    /\ MaxSegments \in Nat
    /\ MaxCalls \in Nat
    /\ MaxRequests \in Nat

VARIABLES
    handles,           \* models the client holds
    queue,             \* aggregateQueue_
    pool,              \* the sentences in the pool of each model
    requests,          \* requests by id: their call, its texts, slot, counter_
    call,              \* number of the call of translateMultipleRaw(), or of
                       \* the second leg of a pivot, that is or was last
    at,                \* where the thread is in it
    models,            \* the models still to translate with; the first is in use
    texts,             \* number of texts
    filled,            \* responses that have been set
    batch,             \* sentences being translated
    failed,            \* calls that ended with an exception
    late               \* requests completed after their call was over

callvars == <<call, at, models, texts, filled>>
vars == <<handles, queue, pool, requests, callvars, batch, failed, late>>

Ids == DOMAIN requests
OfRequest(r, sentences) == {s \in sentences : s[1] = r}

Init ==
    /\ handles = {}
    /\ queue = {}
    /\ pool = [m \in Models |-> {}]
    /\ requests = <<>>
    /\ call = 0
    /\ at = "idle"
    /\ models = <<>>
    /\ texts = 0
    /\ filled = {}
    /\ batch = {}
    /\ failed = 0
    /\ late = {}

-----------------------------------------------------------------------------
(* The client.                                                             *)

Load(m) ==
    /\ at = "idle"
    /\ m \notin handles
    /\ handles' = handles \cup {m}
    /\ UNCHANGED <<queue, pool, requests, callvars, batch, failed, late>>

(* translateMultiple() of one model, pivotMultiple() of two.               *)
Call ==
    /\ at = "idle"
    /\ \E n \in {1, 2} : \E ms \in Injection(1 .. n, handles) : models' = ms
    /\ texts' \in 1 .. MaxTexts
    /\ call + Len(models') <= MaxCalls
    /\ Len(requests) + texts' * Len(models') <= MaxRequests
    /\ call' = call + 1
    /\ filled' = {}
    /\ at' = "make"
    /\ UNCHANGED <<handles, queue, pool, requests, batch, failed, late>>

(* Mutant: the queue is not emptied.                                       *)
QueueKept == queue

(* batchingPool_.clear().                                                  *)
QueueCleared == {}

(* release(): the queue is the only other owner between two calls.  The    *)
(* pool goes with the model.                                               *)
Release(m) ==
    /\ at = "idle"
    /\ m \in handles
    /\ handles' = handles \ {m}
    /\ queue' = QueueCleared
    /\ pool' = IF m \in queue' THEN pool ELSE [pool EXCEPT ![m] = {}]
    /\ UNCHANGED <<requests, callvars, batch, failed, late>>

-----------------------------------------------------------------------------
(* A call.                                                                 *)

Mine == {r \in Ids : requests[r].call = call}
InUse == models[1]

(* The call is over, by a return or by an exception.                       *)
Over ==
    /\ at' = "idle"
    /\ models' = <<>>
    /\ texts' = 0
    /\ filled' = {}
    /\ UNCHANGED call

(* makeRequest() or makePivotRequest(), and enqueueRequest().  A request   *)
(* without sentences to translate answers at once.                         *)
MakeRequest ==
    /\ at = "make"
    /\ LET r == Len(requests) + 1
           slot == Cardinality(Mine) + 1
       IN  \E segments \in 0 .. MaxSegments :
            /\ requests' = Append(requests,
                    [call |-> call, texts |-> texts, slot |-> slot, left |-> segments])
            /\ pool' = [pool EXCEPT ![InUse] = @ \cup {<<r, i>> : i \in 1 .. segments}]
            /\ filled' = IF segments = 0 THEN filled \cup {slot} ELSE filled
            /\ at' = IF slot = texts THEN "draw" ELSE "make"
    /\ queue' = queue \cup {InUse}
    /\ UNCHANGED <<handles, call, models, texts, batch, failed, late>>

MakeRequestThrows ==
    /\ at = "make"
    /\ failed' = failed + 1
    /\ Over
    /\ UNCHANGED <<handles, queue, pool, requests, batch, late>>

(* Mutant: the model leaves the queue with its first batch.                *)
ErasedAtOnce(m, taken) == TRUE

(* Mutant: a model without sentences stays in the queue.                   *)
NeverExhausted(m, taken) == FALSE

(* The pool of a model had no batch to give.                               *)
Exhausted(m, taken) == taken = {}

(* One round of AggregateBatchingPool::generateBatch().                    *)
GenerateBatch ==
    /\ at = "draw"
    /\ \E m \in queue : \E taken \in SUBSET pool[m] :
        /\ taken = {} => pool[m] = {}
        /\ pool' = [pool EXCEPT ![m] = @ \ taken]
        /\ batch' = taken
        /\ queue' = IF Exhausted(m, taken) THEN queue \ {m} ELSE queue
        /\ at' = IF taken = {} THEN "draw" ELSE "translate"
    /\ UNCHANGED <<handles, requests, call, models, texts, filled, failed, late>>

(* processHistory() of these sentences.                                    *)
CountDown(sentences) ==
    requests' = [r \in Ids |->
        [requests[r] EXCEPT !.left = @ - Cardinality(OfRequest(r, sentences))]]

(* The requests that get their response with these sentences.              *)
CompletedBy(sentences) ==
    {r \in Ids : OfRequest(r, sentences) # {}
                 /\ requests[r].left = Cardinality(OfRequest(r, sentences))}

(* translateBatch(): the whole batch is completed.                         *)
TranslateBatch ==
    /\ at = "translate"
    /\ CountDown(batch)
    /\ filled' = filled \cup {requests[r].slot : r \in CompletedBy(batch) \cap Mine}
    /\ late' = CompletedBy(batch) \ Mine
    /\ batch' = {}
    /\ at' = "draw"
    /\ UNCHANGED <<handles, queue, pool, call, models, texts, failed>>

(* Mutant: a batch that failed goes back to the pool.                      *)
Requeued(rest) == [pool EXCEPT ![InUse] = @ \cup rest]

(* What a batch that failed leaves: it is lost with the stack.             *)
Unwound(rest) == pool

(* An exception out of translateBatch(), while loading the replica, in the *)
(* search, or while a sentence completes: before it is counted, or after   *)
(* it in the response it would have completed.                             *)
TranslateBatchThrows ==
    /\ at = "translate"
    /\ \E s \in batch : \E before \in SUBSET (batch \ {s}) :
        LET counted == before \cup {s}
        IN  \E done \in {before} \cup {d \in {counted} : s[1] \in CompletedBy(counted)} :
              /\ CountDown(done)
              /\ pool' = Unwound(batch \ done)
              /\ late' = CompletedBy(before) \ Mine
    /\ batch' = {}
    /\ failed' = failed + 1
    /\ Over
    /\ UNCHANGED <<handles, queue>>

(* The loop ends: the next leg of a pivot, or the call returns.            *)
Return ==
    /\ at = "draw"
    /\ queue = {}
    /\ IF Len(models) > 1
         THEN /\ models' = Tail(models)
              /\ call' = call + 1
              /\ filled' = {}
              /\ at' = "make"
              /\ UNCHANGED texts
         ELSE Over
    /\ UNCHANGED <<handles, queue, pool, requests, batch, failed, late>>

(* The thread inside a call.                                               *)
Step ==
    \/ MakeRequest
    \/ MakeRequestThrows
    \/ GenerateBatch
    \/ TranslateBatch
    \/ TranslateBatchThrows
    \/ Return

Next ==
    /\ late = {}
    /\ \/ \E m \in Models : Load(m) \/ Release(m)
       \/ Call
       \/ Step

Spec == Init /\ [][Next]_vars /\ WF_vars(late = {} /\ Step)

-----------------------------------------------------------------------------
(* State stays in its sets.                                                *)
TypeOK ==
    /\ handles \in SUBSET Models
    /\ queue \in SUBSET Models
    /\ pool \in [Models -> SUBSET (Ids \X (1 .. MaxSegments))]
    /\ requests \in Seq([call : Nat, texts : 1 .. MaxTexts, slot : Nat \ {0}, left : Nat])
    /\ call \in Nat
    /\ at \in {"idle", "make", "draw", "translate"}
    /\ models \in Seq(handles)
    /\ at = "idle" <=> models = <<>>
    /\ texts \in 0 .. MaxTexts
    /\ filled \in SUBSET (Nat \ {0})
    /\ batch \in SUBSET (Ids \X (1 .. MaxSegments))
    /\ failed \in Nat
    /\ late \in SUBSET Ids

(* "Each call submits a batch and waits for all results"                   *)
(* (foxlet_jni.cpp:2): when the loop of a call ends, every text has its    *)
(* response, also if earlier calls failed and left sentences behind.       *)
ReturnsComplete ==
    at = "draw" /\ queue = {} => filled = 1 .. texts

(* One failed call of one text does no harm: an exception loses the        *)
(* sentences it is thrown over, so their request never completes, whatever *)
(* later calls make of the others (Request::processHistory()).  A response *)
(* can come late only after a call of several texts failed, or after one   *)
(* failed over what another had left.                                      *)
LateTakesTwo ==
    \A r \in late : requests[r].texts > 1 \/ failed > 1

(* "reclaim what this service holds on its behalf" (service.h:84): after   *)
(* a failed call the queue may own models, and a release must not leave    *)
(* it the last owner of one.                                               *)
ReleasedIsGone ==
    queue \subseteq handles

(* A call always ends: the loop over batches makes progress through what   *)
(* it finds, its own sentences and those of earlier calls.                 *)
CallEnds ==
    at # "idle" ~> at = "idle" \/ late # {}

(* "translateMultipleRaw() drains the aggregate queue before returning"    *)
(* (service.cpp:149) and "waits for all results" (foxlet_jni.cpp:2): no    *)
(* response arrives when its call is over.                                 *)
NoneLate ==
    late = {}
=============================================================================

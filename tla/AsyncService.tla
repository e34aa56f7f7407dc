---------------------------- MODULE AsyncService ----------------------------
(***************************************************************************)
(* AsyncService with the monitor its threads meet in: the worker loop and  *)
(* the public operations of engine/src/translator/service.cpp,             *)
(* ThreadsafeBatchingPool, AggregateBatchingPool, and the completion count *)
(* of Request.                                                             *)
(*                                                                         *)
(* Clients are threads of the embedding program.  A worker draws a batch   *)
(* from the pool, translates it, stores each sentence's history and counts *)
(* its request down; whoever brings the count to zero builds the response. *)
(* release() drops a model: it raises the maintenance epoch and waits      *)
(* until every worker has let go of what it held.                          *)
(*                                                                         *)
(* The batching pools of the models are abstracted as module BatchQueue    *)
(* says: a batch is any nonempty set of sentences waiting for one model.   *)
(* Sentences prefilled from the translation cache are never enqueued, so   *)
(* the segments of a request are those still to be translated.             *)
(***************************************************************************)
EXTENDS Integers, FiniteSets, Sequences

CONSTANTS
    Workers,           \* worker threads (consumers)
    Clients,           \* threads calling the service
    Models,            \* TranslationModel objects, all loaded at the start
    NoModel,           \* a null model reference
    NoClient,          \* maintenanceSerial_ is free
    MaxRequests,       \* bound: requests created over a behaviour
    MaxSegments,       \* bound: sentences per request
    MaxSources,        \* bound: source texts in one translateMultiple()
    MaxEpoch           \* bound: maintenance passes over a behaviour

ASSUME ServiceAssumption ==
    /\ IsFiniteSet(Workers) /\ Workers # {}
    \* no callback that runs on a worker calls the service as a client does
    /\ Workers \cap Clients = {}
    /\ NoModel \notin Models
    /\ NoClient \notin Clients
    /\ MaxRequests \in Nat
    /\ MaxSegments \in Nat
    /\ MaxSources \in Nat \ {0}
    /\ MaxEpoch \in Nat

Requests == 1 .. MaxRequests
Sentences == Requests \X (1 .. MaxSegments)

VARIABLES
    requestId,         \* requestId_: requests created so far
    req,               \* the Request objects
    stored,            \* sentences whose history is in histories_
    waiting,           \* sentences in the models' batching pools
    queue,             \* aggregateQueue_: models holding an owning reference
    enqueued,          \* enqueued_
    shutdown,          \* shutdown_
    epoch,             \* maintenanceEpoch_
    acked,             \* maintenanceAcked_
    serial,            \* the client inside runMaintenance(), or NoClient
    asleep,            \* threads blocked on work_ or maintenanceDone_
    wpc,               \* where each worker is in its loop
    batch,             \* the worker's Batch
    todo,              \* sentences of it completeBatch() has not finished
    held,              \* the worker's translationModel
    seen,              \* the worker's seenMaintenanceEpoch
    stale,             \* ghost: workers busy since before the epoch was raised
    handles,           \* models the embedder still has a handle for
    cpc,               \* where each client is
    args,              \* models a client's call holds on its stack, in leg order
    group,             \* requests of the client's current submission
    target,            \* the model a client is releasing
    destroyed,         \* what the client's last release() returned
    settled            \* ghost: the service has been idle since the release began

reqvars == <<requestId, req, stored>>
poolvars == <<waiting, queue, enqueued>>
maintvars == <<epoch, acked, serial, stale>>
workervars == <<wpc, batch, todo, held, seen>>
clientvars == <<handles, cpc, args, group, target, destroyed, settled>>
vars == <<reqvars, poolvars, shutdown, maintvars, asleep, workervars, clientvars>>

-----------------------------------------------------------------------------
(* Requests.                                                               *)

(* The constructor of Request, for a request translated with model m whose *)
(* callback goes on to model nxt: with no segment left to translate the    *)
(* response is built at once.                                              *)
Request(m, nxt, segments) ==
    [leg |-> m, next |-> nxt, counter |-> segments,
     answers |-> IF segments = 0 THEN 1 ELSE 0]

Unborn == [leg |-> NoModel, next |-> NoModel, counter |-> 0, answers |-> 0]

(* A table of no requests.                                                 *)
NoRequests == [r \in {} |-> Unborn]

(* Mutant: an off-by-one in the test of the counter.                       *)
CompletesEarly(q) == q.counter <= 2

(* --counter_ == 0: the sentence counted down is the request's last.       *)
Completes(q) == q.counter = 1

(* Give out the next ids to the requests new; old is the table without     *)
(* them.                                                                   *)
Create(new, old) ==
    /\ DOMAIN new = requestId + 1 .. requestId + Cardinality(DOMAIN new)
    /\ requestId' = requestId + Cardinality(DOMAIN new)
    /\ requestId' <= MaxRequests
    /\ req' = [r \in Requests |-> IF r \in DOMAIN new THEN new[r] ELSE old[r]]

(* n requests for model m that chain nothing, with any number of segments. *)
NewRequests(n, m) ==
    [requestId + 1 .. requestId + n -> {Request(m, NoModel, k) : k \in 0 .. MaxSegments}]

(* The sentences the requests R bring to a batching pool.                  *)
SentencesOf(R, table) == {s \in Sentences : s[1] \in R /\ s[2] <= table[s[1]].counter}

(* pivot(): the callback of a first leg with table entry q makes the       *)
(* request of the second leg, under the next id after id.  The result is   *)
(* the table of new requests, empty for a request that chains nothing.     *)
SecondLegs(q, id) ==
    IF q.next = NoModel
      THEN {NoRequests}
      ELSE {[r \in {id + 1} |-> Request(q.next, NoModel, k)] : k \in 0 .. MaxSegments}

-----------------------------------------------------------------------------
(* The monitor.                                                            *)

Pool(m) == {s \in waiting : req[s[1]].leg = m}

(* Somebody holds an owning reference to m: the embedder, a call in        *)
(* progress, the aggregate queue, a worker, or the callback of a first leg *)
(* whose sentences are still in a pool or in a batch.                      *)
Owned(m) ==
    \/ m \in handles
    \/ \E c \in Clients : \E i \in DOMAIN args[c] : args[c][i] = m
    \/ m \in queue
    \/ \E w \in Workers : held[w] = m
    \/ \E s \in waiting \cup UNION {batch[w] : w \in Workers} : req[s[1]].next = m

(* Mutant: notify_one() instead of notify_all().                           *)
NotifyOne(threads) ==
    IF threads \cap asleep = {}
      THEN UNCHANGED asleep
      ELSE \E t \in threads \cap asleep : asleep' = asleep \ {t}

(* notify_all().                                                           *)
Notify(threads) == asleep' = asleep \ threads

(* Mutant: the notification is forgotten.                                  *)
PutSilently(S, ms) ==
    /\ waiting' = waiting \cup S
    /\ enqueued' = enqueued + Cardinality(S)
    /\ queue' = queue \cup ms
    /\ UNCHANGED asleep

(* enqueueRequest(s)() of the pool: the sentences S arrive, the models ms  *)
(* are put in the aggregate queue, and the workers are notified.           *)
Put(S, ms) ==
    /\ waiting' = waiting \cup S
    /\ enqueued' = enqueued + Cardinality(S)
    /\ queue' = queue \cup ms
    /\ Notify(Workers)

(* Mutant: the aggregate queue is cleared without looking at enqueued_.    *)
ClearedAlways(q, n) == {}

(* Mutant: drained models stay in the aggregate queue.                     *)
ClearedNever(q, n) == q

(* if (enqueued_ == 0) backend_.clear(): what is left of the queue q with  *)
(* n sentences enqueued.                                                   *)
ClearedWhenDrained(q, n) == IF n = 0 THEN {} ELSE q

(* Mutant: a wait without its predicate, so any wake-up passes for work.   *)
AnyWakeUp == TRUE

(* The part of work_'s predicate that lets a worker try for a batch.       *)
WorkOrShutdown == enqueued # 0 \/ shutdown

(* Mutant: work is looked at before maintenance.                           *)
NoMaintenanceUnlessWork(w) == epoch = seen[w] \/ enqueued # 0

NoMaintenance(w) == epoch = seen[w]

(* Mutant: the shutdown overtakes the sentences still enqueued.            *)
ExhaustedOrShutdown == shutdown \/ \A m \in queue : Pool(m) = {}

(* AggregateBatchingPool::generateBatch() finds no batch.                  *)
Exhausted == \A m \in queue : Pool(m) = {}

(* Mutant: acknowledgements of the last pass count for this one.           *)
RaiseEpochKeepingAcks ==
    /\ epoch' = epoch + 1
    /\ UNCHANGED acked

RaiseEpoch ==
    /\ epoch' = epoch + 1
    /\ acked' = 0

Init ==
    /\ requestId = 0
    /\ req = [r \in Requests |-> Unborn]
    /\ stored = {}
    /\ waiting = {}
    /\ queue = {}
    /\ enqueued = 0
    /\ shutdown = FALSE
    /\ epoch = 0
    /\ acked = 0
    /\ serial = NoClient
    /\ asleep = {}
    /\ wpc = [w \in Workers |-> "wait"]
    /\ batch = [w \in Workers |-> {}]
    /\ todo = [w \in Workers |-> {}]
    /\ held = [w \in Workers |-> NoModel]
    /\ seen = [w \in Workers |-> 0]
    /\ stale = {}
    /\ handles = Models
    /\ cpc = [c \in Clients |-> "idle"]
    /\ args = [c \in Clients |-> <<>>]
    /\ group = [c \in Clients |-> {}]
    /\ target = [c \in Clients |-> NoModel]
    /\ destroyed = [c \in Clients |-> FALSE]
    /\ settled = [c \in Clients |-> FALSE]

-----------------------------------------------------------------------------
(* The worker loop.                                                        *)

(* work_.wait(): the predicate does not hold.                              *)
WorkerSleep(w) ==
    /\ wpc[w] = "wait"
    /\ w \notin asleep
    /\ ~WorkOrShutdown
    /\ NoMaintenance(w)
    /\ asleep' = asleep \cup {w}
    /\ UNCHANGED <<reqvars, poolvars, shutdown, maintvars, workervars, clientvars>>

(* generateBatch() looks for maintenance before it looks for work.         *)
NoticeMaintenance(w) ==
    /\ wpc[w] = "wait"
    /\ w \notin asleep
    /\ epoch # seen[w]
    /\ seen' = [seen EXCEPT ![w] = epoch]
    /\ wpc' = [wpc EXCEPT ![w] = "maintain"]
    /\ UNCHANGED <<reqvars, poolvars, shutdown, maintvars, asleep, batch, todo, held, clientvars>>

(* AggregateBatchingPool::generateBatch() tries the models of its hash set *)
(* in an order that is an accident of addresses: it drops those it meets   *)
(* before m whose pool is empty, and stops at m.                           *)
DrawBatch(w) ==
    /\ wpc[w] = "wait"
    /\ w \notin asleep
    /\ NoMaintenance(w)
    /\ WorkOrShutdown
    /\ \E m \in queue : \E B \in (SUBSET Pool(m)) \ {{}} :
        /\ batch' = [batch EXCEPT ![w] = B]
        /\ todo' = [todo EXCEPT ![w] = B]
        /\ held' = [held EXCEPT ![w] = m]
        /\ waiting' = waiting \ B
        /\ enqueued' = enqueued - Cardinality(B)
    /\ \E gone \in SUBSET {m \in queue : Pool(m) = {}} :
          queue' = ClearedWhenDrained(queue \ gone, enqueued')
    /\ wpc' = [wpc EXCEPT ![w] = "translate"]
    /\ UNCHANGED <<reqvars, shutdown, maintvars, asleep, seen, clientvars>>

(* No model of the queue has anything: the batch is empty, which the       *)
(* worker takes for the shutdown.                                          *)
WorkerExit(w) ==
    /\ wpc[w] = "wait"
    /\ w \notin asleep
    /\ NoMaintenance(w)
    /\ WorkOrShutdown
    /\ Exhausted
    /\ queue' = {}
    /\ wpc' = [wpc EXCEPT ![w] = "exit"]
    /\ UNCHANGED <<reqvars, waiting, enqueued, shutdown, maintvars, asleep,
                   batch, todo, held, seen, clientvars>>

(* processHistory(): the history is put in its slot ...                    *)
StoreHistory(w) ==
    /\ wpc[w] = "translate"
    /\ \E s \in todo[w] : stored' = stored \cup {s}
    /\ wpc' = [wpc EXCEPT ![w] = "count"]
    /\ UNCHANGED <<requestId, req, poolvars, shutdown, maintvars, asleep,
                   batch, todo, held, seen, clientvars>>

(* ... then the request is counted down, and the worker that takes the     *)
(* counter to zero builds the response.  In the callback of pivot() that   *)
(* worker makes the second leg's request and enqueues it.                  *)
CountDown(w) ==
    /\ wpc[w] = "count"
    /\ \E s \in todo[w] \cap stored :
        LET r    == s[1]
            last == Completes(req[r])
            old  == [req EXCEPT ![r].counter = @ - 1,
                                ![r].answers = IF last THEN @ + 1 ELSE @]
        IN  /\ \E new \in (IF last THEN SecondLegs(req[r], requestId) ELSE {NoRequests}) :
                /\ Create(new, old)
                /\ IF DOMAIN new = {}
                     THEN UNCHANGED <<poolvars, asleep>>
                     ELSE Put(SentencesOf(DOMAIN new, req'), {req[r].next})
            /\ todo' = [todo EXCEPT ![w] = @ \ {s}]
    /\ wpc' = [wpc EXCEPT ![w] = IF todo'[w] = {} THEN "drop" ELSE "translate"]
    /\ UNCHANGED <<stored, shutdown, maintvars, batch, held, seen, clientvars>>

(* batch.clear() and translationModel.reset() before the next round.       *)
DropBatch(w) ==
    /\ wpc[w] = "drop"
    /\ batch' = [batch EXCEPT ![w] = {}]
    /\ held' = [held EXCEPT ![w] = NoModel]
    /\ wpc' = [wpc EXCEPT ![w] = "wait"]
    /\ stale' = stale \ {w}
    /\ UNCHANGED <<reqvars, poolvars, shutdown, epoch, acked, serial, asleep,
                   todo, seen, clientvars>>

(* The maintenance pass, and ackMaintenance().                             *)
AckMaintenance(w) ==
    /\ wpc[w] = "maintain"
    /\ batch' = [batch EXCEPT ![w] = {}]
    /\ held' = [held EXCEPT ![w] = NoModel]
    /\ acked' = acked + 1
    /\ Notify(Clients)
    /\ wpc' = [wpc EXCEPT ![w] = "wait"]
    /\ UNCHANGED <<reqvars, poolvars, shutdown, epoch, serial, stale, todo, seen, clientvars>>

Work(w) ==
    \/ WorkerSleep(w)
    \/ NoticeMaintenance(w)
    \/ DrawBatch(w)
    \/ WorkerExit(w)
    \/ StoreHistory(w)
    \/ CountDown(w)
    \/ DropBatch(w)
    \/ AckMaintenance(w)

-----------------------------------------------------------------------------
(* Bound: a call is made only if ids are left for every request it, and    *)
(* the second legs still to come, will create.                             *)
HasRoom(n) ==
    LET chained == {r \in 1 .. requestId : req[r].next # NoModel /\ req[r].answers = 0}
        barred  == UNION {group[c] : c \in {d \in Clients :
                              cpc[d] \in {"submitFirst", "collectFirst"}}}
    IN  requestId + Cardinality(chained \cup barred) + n <= MaxRequests

-----------------------------------------------------------------------------
(* Calls of a client.  A call holds its own references to the models it    *)
(* was given until it returns.                                             *)

(* translateMultiple(), pivotMultiple(): every request of the first leg is *)
(* made on the calling thread.                                             *)
CallMultiple(c) ==
    /\ cpc[c] = "idle"
    /\ ~shutdown
    /\ \E ms \in UNION {[1 .. n -> handles] : n \in 1 .. 2}, n \in 1 .. MaxSources :
        /\ HasRoom(n * Len(ms))
        /\ \E new \in NewRequests(n, ms[1]) :
            /\ Create(new, req)
            /\ group' = [group EXCEPT ![c] = DOMAIN new]
        /\ args' = [args EXCEPT ![c] = ms]
        /\ cpc' = [cpc EXCEPT ![c] = IF Len(ms) = 2 THEN "submitFirst" ELSE "submitLast"]
    /\ settled' = [d \in Clients |-> FALSE]
    /\ UNCHANGED <<stored, poolvars, shutdown, maintvars, asleep, workervars,
                   handles, target, destroyed>>

(* enqueueRequests(): one lock, one notification, and the model enters the *)
(* queue only if it has something to do.                                   *)
EnqueueRequests(c) ==
    /\ cpc[c] \in {"submitFirst", "submitLast"}
    /\ LET m == IF cpc[c] = "submitFirst" THEN args[c][1] ELSE args[c][Len(args[c])]
           S == SentencesOf(group[c], req)
       IN  Put(S, IF S = {} THEN {} ELSE {m})
    /\ cpc' = [cpc EXCEPT ![c] = IF @ = "submitFirst" THEN "collectFirst" ELSE "collectLast"]
    /\ UNCHANGED <<reqvars, shutdown, maintvars, workervars,
                   handles, args, group, target, destroyed, settled>>

(* ResponseCollector::wait().                                              *)
Collected(c) == \A r \in group[c] : req[r].answers > 0

(* pivotMultiple() builds the second leg once the first is complete.       *)
StartSecondLeg(c) ==
    /\ cpc[c] = "collectFirst"
    /\ Collected(c)
    /\ \E new \in NewRequests(Cardinality(group[c]), args[c][2]) :
        /\ Create(new, req)
        /\ group' = [group EXCEPT ![c] = DOMAIN new]
    /\ cpc' = [cpc EXCEPT ![c] = "submitLast"]
    /\ UNCHANGED <<stored, poolvars, shutdown, maintvars, asleep, workervars,
                   handles, args, target, destroyed, settled>>

Return(c) ==
    /\ cpc[c] = "collectLast"
    /\ Collected(c)
    /\ cpc' = [cpc EXCEPT ![c] = "idle"]
    /\ args' = [args EXCEPT ![c] = <<>>]
    /\ group' = [group EXCEPT ![c] = {}]
    /\ UNCHANGED <<reqvars, poolvars, shutdown, maintvars, asleep, workervars,
                   handles, target, destroyed, settled>>

(* translate(), pivot(): makeRequest().  A first leg with nothing left to  *)
(* translate runs its callback here, on the calling thread.                *)
CallOne(c) ==
    /\ cpc[c] = "idle"
    /\ ~shutdown
    /\ \E ms \in UNION {[1 .. n -> handles] : n \in 1 .. 2}, k \in 0 .. MaxSegments :
        /\ HasRoom(Len(ms))
        /\ LET first == Request(ms[1], IF Len(ms) = 2 THEN ms[2] ELSE NoModel, k)
           IN  \E second \in (IF k = 0 THEN SecondLegs(first, requestId + 1) ELSE {NoRequests}) :
               LET one == requestId + 1
                   new == [r \in {one} \cup DOMAIN second |->
                              IF r = one THEN first ELSE second[r]]
               IN  /\ Create(new, req)
                   /\ IF DOMAIN second = {}
                        THEN UNCHANGED <<poolvars, asleep>>
                        ELSE Put(SentencesOf(DOMAIN second, req'), {first.next})
                   /\ group' = [group EXCEPT ![c] = {one}]
                   /\ args' = [args EXCEPT ![c] = ms]
    /\ cpc' = [cpc EXCEPT ![c] = "submitOne"]
    /\ settled' = [d \in Clients |-> FALSE]
    /\ UNCHANGED <<stored, shutdown, maintvars, workervars, handles, target, destroyed>>

(* enqueueRequest(): the model enters the queue in any case.               *)
EnqueueRequest(c) ==
    /\ cpc[c] = "submitOne"
    /\ Put(SentencesOf(group[c], req), {args[c][1]})
    /\ cpc' = [cpc EXCEPT ![c] = "idle"]
    /\ args' = [args EXCEPT ![c] = <<>>]
    /\ group' = [group EXCEPT ![c] = {}]
    /\ UNCHANGED <<reqvars, shutdown, maintvars, workervars, handles, target, destroyed, settled>>

-----------------------------------------------------------------------------
(* Maintenance: release() and drain().                                     *)

(* Bound: maintenance passes that were begun or will be.                   *)
EpochLeft == epoch + Cardinality({c \in Clients : cpc[c] = "maintain"}) < MaxEpoch

(* No call is in progress and every request has its answer; workers may    *)
(* still hold what they worked on last.                                    *)
Idle ==
    /\ \A c \in Clients : args[c] = <<>>
    /\ \A r \in 1 .. requestId : req[r].answers = 1

Release(c, m) ==
    /\ cpc[c] = "idle"
    /\ ~shutdown
    /\ m \in handles
    /\ EpochLeft
    /\ handles' = handles \ {m}
    /\ target' = [target EXCEPT ![c] = m]
    /\ cpc' = [cpc EXCEPT ![c] = "maintain"]
    /\ settled' = [settled EXCEPT ![c] = Idle]
    /\ UNCHANGED <<reqvars, poolvars, shutdown, maintvars, asleep, workervars,
                   args, group, destroyed>>

Drain(c) ==
    /\ cpc[c] = "idle"
    /\ ~shutdown
    /\ EpochLeft
    /\ cpc' = [cpc EXCEPT ![c] = "maintain"]
    /\ UNCHANGED <<reqvars, poolvars, shutdown, maintvars, asleep, workervars,
                   handles, args, group, target, destroyed, settled>>

Busy == {w \in Workers : wpc[w] \in {"translate", "count", "drop"}}

(* runMaintenance() up to its wait.                                        *)
StartMaintenance(c) ==
    /\ cpc[c] = "maintain"
    /\ serial = NoClient
    /\ IF shutdown
         THEN /\ cpc' = [cpc EXCEPT ![c] = "observe"]
              /\ UNCHANGED <<queue, maintvars, asleep>>
         ELSE /\ queue' = ClearedWhenDrained(queue, enqueued)
              /\ RaiseEpoch
              /\ serial' = c
              /\ stale' = Busy
              /\ Notify(Workers)
              /\ cpc' = [cpc EXCEPT ![c] = "await"]
    /\ UNCHANGED <<reqvars, waiting, enqueued, shutdown, workervars,
                   handles, args, group, target, destroyed, settled>>

AllAcked == acked >= Cardinality(Workers)

(* maintenanceDone_.wait().                                                *)
AwaitAcks(c) ==
    /\ cpc[c] = "await"
    /\ c \notin asleep
    /\ IF AllAcked \/ shutdown
         THEN /\ serial' = NoClient
              /\ cpc' = [cpc EXCEPT ![c] = "observe"]
              /\ UNCHANGED asleep
         ELSE /\ asleep' = asleep \cup {c}
              /\ UNCHANGED <<serial, cpc>>
    /\ UNCHANGED <<reqvars, poolvars, shutdown, epoch, acked, stale, workervars,
                   handles, args, group, target, destroyed, settled>>

(* release() looks through its weak reference; drain() just returns.       *)
Observe(c) ==
    /\ cpc[c] = "observe"
    /\ destroyed' = [destroyed EXCEPT ![c] =
                        IF target[c] = NoModel THEN @ ELSE ~Owned(target[c])]
    /\ target' = [target EXCEPT ![c] = NoModel]
    /\ cpc' = [cpc EXCEPT ![c] = "idle"]
    /\ UNCHANGED <<reqvars, poolvars, shutdown, maintvars, asleep, workervars,
                   handles, args, group, settled>>

-----------------------------------------------------------------------------
(* The destructor signals shutdown; no call may begin after it, and of the *)
(* calls in progress only maintenance is prepared for it.                  *)
Shutdown ==
    /\ ~shutdown
    /\ \A c \in Clients : cpc[c] \in {"idle", "maintain", "await", "observe"}
    /\ shutdown' = TRUE
    /\ Notify(Workers \cup Clients)
    /\ UNCHANGED <<reqvars, poolvars, maintvars, workervars, clientvars>>

(* clear(): the pool forgets its queue and its count; the sentences stay   *)
(* in the batching pools of their models.                                  *)
ClearPool(c) ==
    /\ cpc[c] = "idle"
    /\ ~shutdown
    /\ queue' = {}
    /\ enqueued' = 0
    /\ UNCHANGED <<reqvars, waiting, shutdown, maintvars, asleep, workervars, clientvars>>

(* The rest of a call, once it has begun.                                  *)
Proceed(c) ==
    \/ EnqueueRequests(c)
    \/ StartSecondLeg(c)
    \/ Return(c)
    \/ EnqueueRequest(c)
    \/ StartMaintenance(c)
    \/ AwaitAcks(c)
    \/ Observe(c)

Begin(c) ==
    \/ CallMultiple(c)
    \/ CallOne(c)
    \/ \E m \in Models : Release(c, m)
    \/ Drain(c)

(* After the shutdown the system stops once every thread is through.       *)
Next ==
    \/ \E w \in Workers : Work(w)
    \/ \E c \in Clients : Proceed(c)
    \/ \E c \in Clients : Begin(c)
    \/ Shutdown

(* The operating system runs every thread that can run; nobody has to call *)
(* the service.                                                            *)
Fairness ==
    /\ \A w \in Workers : WF_vars(Work(w))
    /\ \A c \in Clients : WF_vars(Proceed(c))

Spec == Init /\ [][Next]_vars
FairSpec == Spec /\ Fairness

(* The same service when clients also call clear().                        *)
SpecWithClear == Init /\ [][Next \/ \E c \in Clients : ClearPool(c)]_vars

-----------------------------------------------------------------------------
(* Properties.                                                             *)

RequestRecord ==
    [leg : Models \cup {NoModel}, next : Models \cup {NoModel},
     counter : 0 .. MaxSegments, answers : Nat]

TypeOK ==
    /\ requestId \in 0 .. MaxRequests
    /\ req \in [Requests -> RequestRecord]
    /\ stored \in SUBSET Sentences
    /\ waiting \in SUBSET Sentences
    /\ queue \in SUBSET Models
    /\ enqueued \in Int
    /\ shutdown \in BOOLEAN
    /\ epoch \in Nat
    /\ acked \in Nat
    /\ serial \in Clients \cup {NoClient}
    /\ asleep \in SUBSET (Workers \cup Clients)
    /\ wpc \in [Workers -> {"wait", "translate", "count", "drop", "maintain", "exit"}]
    /\ batch \in [Workers -> SUBSET Sentences]
    /\ todo \in [Workers -> SUBSET Sentences]
    /\ held \in [Workers -> Models \cup {NoModel}]
    /\ seen \in [Workers -> Nat]
    /\ stale \in SUBSET Workers
    /\ handles \in SUBSET Models
    /\ cpc \in [Clients -> {"idle", "submitFirst", "collectFirst", "submitLast",
                            "collectLast", "submitOne", "maintain", "await", "observe"}]
    /\ args \in [Clients -> Seq(Models)]
    /\ group \in [Clients -> SUBSET Requests]
    /\ target \in [Clients -> Models \cup {NoModel}]
    /\ destroyed \in [Clients -> BOOLEAN]
    /\ settled \in [Clients -> BOOLEAN]

(* enqueued_ is the number of sentences in the batching pools, and every   *)
(* such sentence can be reached: dropping a model from the aggregate queue *)
(* while its pool holds sentences would strand them                        *)
(* (threadsafe_batching_pool.cpp:66).                                      *)
NothingStranded ==
    /\ enqueued = Cardinality(waiting)
    /\ \A s \in waiting : req[s[1]].leg \in queue

(* A response is built once, when the last sentence has its history: never *)
(* while a sentence of the request is in a pool or unstored in a batch.    *)
AnsweredWhole ==
    \A r \in Requests :
        /\ req[r].answers <= 1
        /\ req[r].answers = 1 =>
              /\ req[r].counter = 0
              /\ \A s \in waiting : s[1] # r
              /\ \A w \in Workers : \A s \in todo[w] : s[1] = r => s \in stored

(* "0 means shutdown" (threadsafe_batching_pool.h:63): a worker leaves its *)
(* loop only when the service is shut down.                                *)
WorkersStayOn == \A w \in Workers : wpc[w] = "exit" => shutdown

(* "After this no new requests can be enqueued, but all enqueued requests  *)
(* will be processed" (threadsafe_batching_pool.h:91): when the last       *)
(* worker has left, no request is without an answer, the second legs of    *)
(* pivots that were created during the shutdown included.                  *)
ShutdownDrains ==
    (\A w \in Workers : wpc[w] = "exit") =>
        \A r \in 1 .. requestId : req[r].answers = 1

(* When all workers have acknowledged, none still holds what it held when  *)
(* the maintenance began, and none is in the middle of a pass.             *)
FlushedWhenAcked ==
    (serial # NoClient /\ AllAcked) =>
        /\ stale = {}
        /\ \A w \in Workers : seen[w] = epoch /\ wpc[w] # "maintain"

(* "Blocks until every worker acknowledges, bounded by one in-flight        *)
(* batch" (service.h:245): a worker that has not seen the latest epoch is  *)
(* busy only with what it drew before the epoch was raised, however long   *)
(* the backlog.                                                            *)
OneBatchInFlight == \A w \in Busy : seen[w] # epoch => w \in stale

(* No thread can go on: each worker sleeps, is gone or has no sentence to  *)
(* go on with, and each client is between calls, asleep, waiting for       *)
(* responses that are not all there, or waiting for the maintenance of     *)
(* another client to end.                                                  *)
Resting ==
    /\ \A w \in Workers :
          \/ w \in asleep
          \/ wpc[w] = "exit"
          \/ wpc[w] = "translate" /\ todo[w] = {}
          \/ wpc[w] = "count" /\ todo[w] \cap stored = {}
    /\ \A c \in Clients :
          \/ cpc[c] = "idle"
          \/ c \in asleep
          \/ cpc[c] \in {"collectFirst", "collectLast"} /\ ~Collected(c)
          \/ cpc[c] = "maintain" /\ serial # NoClient

(* The threads never wait for each other: no wake-up of work_ or           *)
(* maintenanceDone_ is lost (threadsafe_batching_pool.cpp:27,50,73,81), so *)
(* when none of them can go on, every request has its answer and every     *)
(* call has returned.                                                      *)
NeverStuck ==
    Resting => /\ \A r \in 1 .. requestId : req[r].answers = 1
               /\ \A c \in Clients : cpc[c] = "idle"

(* What NativeEngine relies on: a model released on an idle service is     *)
(* destroyed, although the last response reached its caller while workers  *)
(* and the aggregate queue still held the model.                           *)
ReleaseDestroys ==
    \A c \in Clients :
        (cpc[c] = "observe" /\ target[c] # NoModel /\ settled[c] /\ ~shutdown)
            => ~Owned(target[c])

(* release() and drain() return when every worker has acknowledged         *)
(* (service.h:245), whatever is enqueued and whoever else is releasing.    *)
MaintenanceReturns ==
    \A c \in Clients : cpc[c] = "maintain" ~> cpc[c] = "idle"

(* The destructor can join its workers.                                    *)
ShutdownJoins == shutdown ~> \A w \in Workers : wpc[w] = "exit"

(* The service keeps the promise of TranslationService.                    *)
Abstract == INSTANCE TranslationService WITH
    created <- requestId,
    answers <- [r \in Requests |-> req[r].answers]

AnswersEveryRequest == Abstract!FairSpec
=============================================================================

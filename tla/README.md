# Foxlet in TLA+

Foxlet is an Android/JVM library that translates text on the device. A Kotlin
client owns one native translation service; the service batches sentences of
many requests over worker threads; models are downloaded from a CDN into an
app-private directory, verified, published, and deleted while clients may be
using them. This directory specifies the parts of it in which order matters,
checks them with TLC on small instances, and proves the main results with TLAPS
for every value of the constants.

Paths: `E/` is `src/engine/src/translator/`, `K/` is
`src/foxlet/src/main/kotlin/io/github/yinvoker/foxlet/`, `N/` is `src/native/`.

## 1. Inventory

| Component | State | Operations | Interacts with | What is hard | What makes it correct |
|---|---|---|---|---|---|
| `BatchingPool` (`E/batching_pool`) | buckets of sentences by length, longest active bucket, pending count, cap per batch | enqueueRequest(s), generateBatch, clear | owned by a `TranslationModel`, called under the monitor | redundant counters; a cap chosen by a dry run of the batching | nothing stranded, a pool with work yields a batch, cap dropped with the last sentence, forecast exact |
| `AggregateBatchingPool`, `ThreadsafeBatchingPool` | set of models with work, count of sentences, shutdown flag, maintenance epoch and acknowledgements | enqueue, generateBatch, runMaintenance, ackMaintenance, shutdown, clear | mutex, two condition variables; workers, clients, callbacks | lost or wrong wake-ups, stale queue entries, maintenance against work against shutdown | count = sentences in the pools, all reachable; workers leave only at shutdown; maintenance flushes every worker |
| `AsyncService`, `Request` (`E/service`, `E/request`) | requests with a countdown, histories, worker loops, model references | translate, pivot, both as bulk calls, release, drain, clear, destructor | callbacks of a pivot create and enqueue requests inside workers | two workers finishing one request; pivots during shutdown; release while the last references die | every request answered once and whole; shutdown loses nothing; a release on an idle service destroys the model |
| `BlockingService` (`E/service`) | its aggregate queue; what calls leave in the pools of the models | translateMultiple, pivotMultiple, release | the JNI bridge, one call at a time | an exception in the middle of a call leaves sentences and callbacks for the next one | a call that returns is complete, no response arrives late, a released model is not kept |
| `TranslationModel` replicas (`E/translation_model.cpp`, packing caches of the Marian fork) | a replica per worker, count of loads, the shared image of the model file; per worker a cache of packed weights and the generation it has seen | loadBackend, translateBatch, destructor | workers concurrently, clients that release | the last loader frees what others read; caches are keyed by addresses that are used again, behind a counter read relaxed | the image lives until the last load and no longer; no multiplication uses another model's weights |
| `ClientLifecycle`, `Foxlet` | children of a job, closing flag, process lease | run, shutdown, create | coroutines of any thread | a call between its check and its dispatch when the client closes | no call dropped, shutdown returns |
| `NativeEngine`, `IdleSweeper`, `ActiveModels` | handles by key, unconfirmed releases, reservations per directory, last use, booked sweep | translate, translatePivot, unloadModels, sweep, close | one engine thread; `ModelStore` deletes directories | a native release that destroys nothing, deletion racing with loads, cancellation anywhere | files of a live model stay, reservations exact, sweeps booked, teardown clean |
| `ModelDownloader`, `ModelManifest` | temporary directory with finished and partial assets, manifest, published directories | download | HTTP server, disk, cancellation, other processes | resumption, retries, ignored ranges, crashes, damage | only whole directories are published; failures leave what they should |
| `ModelStore`, `ModelManager` | installed directories and their suffixed twins, trash, temporary directories | prepare, findUsable, checkUpdates, delete, cleanup | downloader, engine reservations, write lock | delete as rename and erase; a search that takes no lock | nothing in use removed, a cleanup keeps the newest that verifies, trash goes |
| `Catalog`, `RemoteIndex` | an index of models | version order, selection | HTTP | partial orders, compatibility | newest compatible model |
| `ThreadPlanner`, translation cache, segmenter, text and HTML processing, quality estimator, JNI marshalling, Marian | none that outlives a call, or a lookup table | pure | | strings and numbers rather than states | |

PROJECT.json lists each with its status. How they meet: `Foxlet` hands calls to
`ClientLifecycle.run`, which queues them on the engine thread of `NativeEngine`;
that calls through JNI into a service, which enqueues a model in the aggregate
pool, where workers draw batches and call back. `ModelManager` holds
`Catalog.writeLock` around downloads and deletions, and asks `ActiveModels`
before it removes a directory.

## 2. Modules

| Module | Models | Role |
|---|---|---|
| `BatchQueue` | what a batching pool promises | abstract specification |
| `BatchingPool` | `E/batching_pool.*`, every operation | implements `BatchQueue` |
| `TranslationService` | what a service promises | abstract specification |
| `AsyncService` | `E/service.cpp` (asynchronous part), both pools above the models, `Request` | implements `TranslationService`, uses the contract of `BatchQueue` |
| `BlockingService` | `E/service.cpp` (blocking part), with exceptions | uses the contract of `BatchQueue` |
| `ModelReplicas` | `E/translation_model.cpp`, the packing caches of the Marian fork | |
| `TranslationClient` | what a client promises the application and other users of the device | abstract specification |
| `ModelRoot` | what published model directories go through, for all who share them | abstract specification |
| `NativeEngine` | `K/ClientLifecycle.kt`, `NativeEngine.kt`, `IdleSweeper.kt`, `ActiveModels.kt`, the lease from `Foxlet.kt` | composes client, engine and reservations; implements `TranslationClient` and `ModelRoot` |
| `ModelDownloader` | `K/ModelDownloader.kt`, writing in `ModelManifest.kt` | implements `ModelRoot` |
| `ModelStore` | `K/ModelStore.kt`, `K/ModelManager.kt` | takes downloads and loads as steps; implements `ModelRoot` |
| `BatchingPool_proofs`, `AsyncService_proofs`, `AsyncMaintenance_proofs`, `BlockingService_proofs`, `ModelReplicas_proofs`, `NativeEngine_proofs`, `ModelDownloader_proofs`, `ModelStore_proofs` | | theorems; `AsyncMaintenance_proofs` builds on the invariant of `AsyncService_proofs` |
| `MC*` | | constants and symmetry for TLC |

Definitions that begin with "Mutant:" in their comment are plausible mistakes in
the definition that follows them. With one put in its place, TLC finds the
property it is listed with violated; that is how each property was shown to
depend on the code.

### BatchingPool

Variables carry the names of the members. `bucket` maps a length to a set of
sentences; a sentence is its place in the order of `RequestSentence`. The loop
of `fillBatch()` is stated as a set: an entry is taken iff it and all entries
before it fit. `countBatches()` stays a recursion over that order (`DryRun`, a
recursive function on the walk), because it is a dry run of the loop, and
`ForecastExact` compares the two. `submission` is a ghost that remembers the last
bulk submission.

### AsyncService

An action is a section under the mutex, or a step between two. `WorkerSleep`,
`NoticeMaintenance`, `DrawBatch`, `WorkerExit` are `generateBatch()`;
`StoreHistory` and `CountDown` are `completeBatch()` for one sentence; `DropBatch`
is the end of the loop body; `AckMaintenance` the pass. A client's call is one
action up to its first block on the mutex, then one per later section.
Condition variables are sets: `asleep` holds blocked threads, a notification
removes them, and a thread that is not in it evaluates its predicate. The model
references that `release()` depends on are explicit: handles, arguments on a
stack, the queue, workers, callbacks.

Abstractions: the pool of a model is a set, and a batch any nonempty subset, as
`BatchQueue` allows. The callback of a first leg and the enqueue it performs are
one step with the countdown that fires it (they run in the same worker, and the
enqueue is one section). Sentences prefilled from the cache never reach a pool,
so a request is the sentences left. `enqueued` is an integer, `enqueued_` a
`size_t`: below zero both are "not 0", which is all the code asks. In a pivot
whose first leg has no sentence left the chain runs inside `CallOne`, as it runs
on the calling thread.

### BlockingService

One thread, so the steps are `make` (a request is made and its sentences put in
the pool), `draw` and `translate`; a pivot runs the loop twice. Making a request
and translating a batch may throw at any point. What was enqueued then stays in
the pool of the model, together with the requests, and `release()` runs in
between. A request that is completed after its call is over writes through a
reference to a local variable of that call: what happens next is undefined, so
the request is put in `late` and the model stops there. Every property is about
behaviours up to that point. Bounds: `MaxTexts`, `MaxSegments`, `MaxCalls`,
`MaxRequests`.

### ModelReplicas

A model is owned by the client's handle, by the aggregate queue and by workers;
whoever gives up the last reference runs the destructor, in two steps: the
generation is raised, then the weights of the replicas are freed. A worker
without its replica loads it: it pins the image of the model file if that is
still in memory (and would read the file from disk otherwise), builds, counts
itself in `backendsLoaded_`, and frees the image if it counts last. Steps of
several workers interleave. The weights of a replica are at an address; freed
addresses are handed out again. `cache` maps addresses to the model whose packed
weights are stored under them.

The counter of destroyed models is an atomic that is read and written relaxed,
so a read may return an old value. `view[t]` is the oldest value thread `t` may
still read and `freed[a]` the counter when address `a` was last freed. The one
synchronisation assumed besides a thread's own order is that of the allocator: a
thread that is handed an address sees what the thread that freed it had seen.
Other synchronisation exists (the mutex of the pool) and only strengthens what
holds.

### NativeEngine

A call is `none`, `started` (a registered child), `entering`, `queued` on the
executor, `running`. `task`, `at` and `leg` are the program counter of the engine
thread, so deletions, cancellations and shutdown interleave with the steps of
a task. `live` is external: what really is in native memory. `releaseModel()`
through JNI returns true (destroyed) or false (consumed, still in memory), the
latter at most `MaxUnconfirmed` times. Loading may fail; a directory may have
been deleted since. Time is abstracted to the order in which keys were used: a
sweep may find any prefix of that order due. A verified load is one step with
the native load, under the reservation that precedes both; the last step of
`close()` merges the shutdown of the executor with the release of the lease.
Directories inside one another are represented by what `DirectoriesOf` returns.

To the application all of this is `TranslationClient`: calls that are accepted
return, each once; `shutdown()` waits for them, returns, and leaves nothing in
native memory. The mapping takes a client that runs `close()` as still
joining, a call as in progress from its registration until it completes, and a
model as resident while an instance of it lives, its handle known or not.

### ModelDownloader

`pc` is the line `download()`, `fetch()` or `transfer()` is at. Content is
abstracted to a number of chunks and whether they are the first ones of the
asset; a good digest is exactly `Whole`. Everything the environment may do is an
action that counts as a fault: bad status, wrong `Content-Length`, wrong or
surplus bytes, early end, broken connection, cancellation or a full disk
(`Interrupt`), a crash or power cut that shortens or spoils what was not synced,
damage to finished or published files, deletion, another process. A server that
ignores a range or rejects it is not a fault. Publication is two
steps, `Choose` and `Publish`: the name is chosen by looking at what exists, and
the rename fails if another process has taken it meanwhile. After a crash
`returned` is `Lost`: nobody is told how the call ended. Damage and deletion
happen between calls: all calls hold `Catalog.writeLock`. Stray files in the temporary directory
that no version of this code writes are not modelled, nor is a read error that goes
away again: `reusable()` takes any `IOException` for a copy that cannot be used
(`ModelDownloader.kt:216`), so a whole copy would be passed over and one more
published beside it. `OneWholeCopy` is about storage that reads what it holds.

### ModelStore

The installations of one language pair. An entry is a version and whether its
name has the collision suffix, under which a damaged installation is replaced;
each is absent, whole, damaged, or unknown (its manifest is lost: it is listed
without a description, cannot be verified, and is never superseded). `Supported`
are the versions of a major version this engine reads. Two tests decide which
installation is the best, and they differ: `Verified` is `verifies()`, which hashes the
files and is what a cleanup goes by (`Best`), `Usable` is `checked()`, which asks for a
supported version as well and is what a search and a load go by. Only supported
versions are downloaded; the initial states hold whatever unsupported ones another
release of the library has left. Downloads, deletions and cleanups hold `Catalog.writeLock` and run one
at a time, each as the sequence of its renames and erases; the check for
occupancy and the rename are one step, because both are under the monitor of
`ActiveModels`, while the engine reserves and gives back entries between any two
steps. `trash` holds the names of deletions that are not complete, `temps` the
temporary directories, `stale` those old enough to be swept. Faults are damage,
a failed rename or erase, and a crash, which ends the operation and the
reservations of its process. A load of an entry that is gone or damaged fails
and gives back its reservation; that is in `NativeEngine`. `keep` is any set of
installations; temporary directories and trash that are in it, or in use, are
skipped by the code and not in the model: the engine reserves published names only,
and to keep a remnant a host has to name its directory.

`Find`, `List`, `Check` and `NoneFound` are a search without the lock: directory
names are read, then sizes and manifests, then the files are verified newest
first. `gap` is a ghost: during this search there was a moment with nothing
usable.

### ModelRoot

Downloader, store and engine share the published directories, and each of their
modules takes the steps of the others as given. `ModelRoot` is what they agree
on: a directory appears whole under a name nobody uses, goes bad where it is, and
is removed only while nobody reads from it; nothing else happens to it, and never
to two at once. Each module implements it, with its own view of who reads: nobody
in the downloader's, which removes no published directory itself, the reserved
entries for the store, the directories of the instances in native memory for the engine. The
last two differ on purpose: that reservations cover the instances is
`LiveFilesOnDisk` and `ReservationsExact`.

## 3. Runs

| Run | Instance | Shows |
|---|---|---|
| `batching_pool` | four sentences of 1, 2 or 4 tokens, batches of 4 words, 0, 2 or 3 workers | counters, forecast, cap; `BatchQueue` refined, and with it that a pool with work yields a batch |
| `batching_pool_long` | a sentence of 5 tokens | finding: the pool has work and yields no batch |
| `async_service` | two workers, two clients, two models, two requests of up to two sentences, one maintenance pass | safety of the service; no lost wake-up |
| `async_service_live` | one model, requests of one sentence, two maintenance passes, fair scheduling | the handshake, and progress; `TranslationService` refined |
| `async_service_clear` | as `async_service`, with `clear()` | finding: a worker leaves without shutdown |
| `replicas` | two workers, one client, two models, three addresses | image, packed weights, lifetime of models |
| `blocking` | two models, three calls of up to two texts of up to two sentences, three requests | complete responses, what failed calls leave, calls end |
| `blocking_late` | as `blocking` | finding: a response arrives after its call |
| `engine` | two calls, two models sharing a directory, one unconfirmed release | reservations, handles, sweeps, teardown; nothing forgotten; idle models go; `TranslationClient` refined, and with it that calls end, once each, and shutdown returns |
| `downloader` | two assets of two chunks, one retry, four faults | `ModelRoot` refined, and with it that only whole directories are published and none is replaced; digests, retries, failures, progress |
| `model_store` | three versions and their twins, the newest not supported, two trash names, one fault | what is in use stays, a cleanup keeps the newest that verifies, trash goes |
| `model_store_search` | two supported versions, no faults | finding: a search misses what was there all the time |

Why the bounds suffice. Two workers are needed for a race on one request and
for one that is busy while the other acknowledges; a third adds no new pair. Two
clients let a pivot overlap a release, and one maintenance pass wait for the
other. Two requests make a pivot; two sentences let workers share one. Four
sentences over three lengths fill, overflow and mix batches; that a batch ended
by its padding may follow one ended by the cap takes six sentences and is left to
the theorem `CapAlwaysShares`. Three addresses are
one fewer than the replicas of two models need, so an address must be used
again, by the same worker and by the other one. Three blocking calls are two
that fail and one that meets what they left; two texts are what a late response
needs. Two calls of the engine are enough for one to run while another is
queued, cancelled or about to be dispatched; two models sharing a directory
distinguish counts from flags; a second client would start in the state the
first one left, which `TornDownClean` describes. Two assets give a finished and
an unfinished one; two chunks give a partial file; four faults allow spoil,
crash, refuse and one more. Two supported versions with twins give an entry to keep, one
superseded by version and one by suffix, and a third version one that verifies
and is not usable; one fault is damage to what would have been kept, a deletion
that fails, or a crash. What is proved holds without these
bounds.

Deadlock is checked for `downloader` and `model_store` and `model_store_search`.
The other systems really stop: a service whose workers have left, a pool with no
fresh sentences, models that have all been released, a blocking service at a
late completion or out of calls, a client that is shut down for the last time;
their configurations say `CHECK_DEADLOCK FALSE`, and the liveness properties say
what must have happened by then.

### Fairness

`AsyncService!FairSpec` assumes weak fairness of each worker, and of each client
inside a call: they are operating system threads that run when they can, and a
notified waiter evaluates its predicate. Nothing forces a client to call, to
release or to shut down. `NativeEngine!Spec` assumes weak fairness of the engine
thread, of the hand-over to `close()`, and of dispatch; the sweep timer fires
because `schedule()` does; callers, cancellation, shutdown and deletion are free.
`ModelDownloader!Spec` assumes that the thread of a call runs and that a host
without a model calls again; since faults are bounded, the property reads: once
faults stop, the model arrives. `BlockingService!Spec` assumes that the calling
thread runs as long as its behaviour is defined. `ModelStore!Spec` assumes that an
operation that holds the lock goes on; `TrashGoes` says in its premise that
cleanups are asked for. `BatchingPool` and `ModelReplicas` state safety only.

### Properties

Every property has a comment in its module naming the claim in the source it
stands for. The ones that took most care:

- `NothingStranded`: the aggregate queue may be emptied only when the count says
  that every pool is empty, while callbacks and clients add to both.
- `ShutdownDrains`: second legs created during shutdown are translated, because
  the worker that creates one still has to come back to the pool.
- `OneBatchInFlight`: a maintenance pass waits for the batch a worker held when
  the pass began and for no other, although work keeps arriving.
- `NeverStuck` of the service: when no thread can go on, everything asked for has been done. Every
  `notify` in the code is one of its premises: workers are woken for work, for a
  maintenance pass and for shutdown, clients by the last acknowledgement.
- `CapShares`: where the cap meets the padding a batch is ended by either, so how
  many there are is bounded by both together and by neither alone.
- `ReleaseDestroys`: on an idle service workers and the queue may still hold the
  model; the maintenance pass must make them let go before release looks.
- `PackedCurrent`: the destructor raises the generation before it frees the
  weights, and each multiplication reads it after its replica has its address;
  together with the allocator that is enough, and relaxed order suffices.
- `LateTakesTwo`: what an exception throws away is what keeps a single failed
  call harmless, because the request it belongs to can never complete.
- `NeverStuck` of the engine: when neither the engine thread, the timer, a caller
  nor the closing client can go on, no call is left, no shutdown hangs, and no
  model that should be unloaded is in memory. A call that is cancelled before it
  is dispatched, or queued when the client closes, must still complete its child.
- `ImplementsClient`: cancelled, failed and overtaken calls complete like others
  do, and `close()` runs behind all of them.
- `LiveFilesOnDisk`, `ReservationsExact`: reservations cover unconfirmed releases
  and failed loads, but not one more.
- `CleanupKeepsBest`: a cleanup that fails or is cut short between any two of its
  steps has kept the newest installation that verifies. If that is of a supported
  version, a search still selects it; if it is not, the search may lose what it would
  select (section 4).
- `FailureKeepsOrRemoves`: a call that returns without a model, for whatever reason
  and from wherever, keeps the temporary directory if and only if its policy says so.
  Only the end of the process is excused, and it is told apart by `Lost`.
- `OneWholeCopy`, `EventuallyPublished`: a damaged copy is replaced beside
  itself, the repaired copy is found again, and no leftover of a failed call
  makes every later call fail.

## 4. Findings

Four runs expect a violation; each checks one sentence of the source.

1. `batching_pool_long`. `batching_pool.h:39`, "One sentence always fits in a
   batch, so no bound can stall the pool": false for a sentence longer than
   `mini-batch-words`, which the second leg of a pivot can produce because it is
   not wrapped. What the services do then, with assertions off: the aggregate
   queue takes the empty batch for an empty pool, erases the model
   (`aggregate_batching_pool.cpp`) and returns 0 while `enqueued_` stays above zero. In
   `AsyncService` the worker that draws takes 0 for shutdown and leaves its loop
   (`service.cpp:240`); `enqueued_` being above zero, so does each worker that asks next.
   Its requests are never answered, the others only while a worker is left, and a later
   `release()` or `drain()` waits for acknowledgements nobody sends. In
   `BlockingService` the loop over batches ends, and the call returns with that
   response empty. A debug build stops at the assertion
   `threadsafe_batching_pool.cpp:101`. What is checked and proved of `AsyncService` and
   `BlockingService` rests on the contract `BatchQueue`, so it holds as long as no
   leg is longer than the budget.
2. `async_service_clear`. `threadsafe_batching_pool.h:63`, "0 means shutdown":
   after `clear()` the count disagrees with the pools, and a worker can leave its
   loop.
3. `blocking_late`. `service.cpp:149`, "translateMultipleRaw() drains the
   aggregate queue before returning": not when an exception ends a call of
   several texts. The next call completes what was left, through a reference to
   the responses of the failed call. `LateTakesTwo` says how little is safe: one
   failed call of one text.
4. `model_store_search`. `ModelManager.kt:49`, "Returns the newest verified local
   installation": a search takes no lock, so it can list one version, miss the
   newer one published meanwhile, find the listed one superseded and removed,
   and report that none is installed.

Remarks that no run checks:

- `batching_pool.h:27`, "spread over `numWorkers` batches", and
  `batching_pool.cpp:130`, "at least W batches whenever S >= W": four sentences
  over three workers have a cap of two and make two batches. There may also be
  more batches than workers: five sentences of one token and one of three, with
  five words to a batch and three workers, have a cap of two; the padding keeps
  the long one out of the third batch and there is a fourth. `CapShares` states
  what the cap does guarantee.
- `service.h:241`, "False means a request is still in flight (or the caller kept
  another copy)": the aggregate queue also holds a drained model as long as
  another one has work. `ReleaseDestroys` is stated for an idle service for this
  reason.
- `threadsafe_batching_pool.cpp:25`, `assert(!shutdown_)`: the callback of a pivot
  may enqueue after the destructor has signalled. `ShutdownDrains` shows that it
  is harmless where assertions are off.
- `ModelManager.kt:165`, "superseded installations only when a newer usable version
  is verified": a cleanup goes by `verifies()` (`ModelStore.kt:277`), a search by
  `checked()`, which refuses an unsupported major version (`ModelManager.kt:241`).
  With 1.0 and 2.0 installed beside a whole 3.0 that another release of the library
  has left, a cleanup takes 3.0 for the best and removes the other two, and
  `findUsable()` finds nothing. `ModelStoreTest.kt:378` asserts that removal, so test
  and comment disagree. `CleanupKeepsBest` states what does hold; with
  `Usable # {} => Usable' # {}` in place of its last conjunct TLC shows this
  behaviour on the instance of `model_store`.
- A model that is packaged again (the same version, another identity) is offered
  as an update (`RemoteIndex.kt:294`) and installed beside the old one. The order
  of the listing breaks the tie of versions by directory name and identity
  (`ModelStore.kt:79-95`), so the old one may still come first and the update be
  offered again; a cleanup removes neither.

## 5. Proofs

TLAPS proves the theorems below for every value of the constants that satisfies
the named assumption of the module (`PoolAssumption`, `ServiceAssumption`,
`BlockingAssumption`, `ReplicasAssumption`, `EngineAssumption`,
`DownloaderAssumption`, `StoreAssumption`). These say that bounds and sizes are
natural numbers, that sets that are counted are finite, and that tags differ from
the values they stand beside; `PoolAssumption` adds what the constructor aborts
on, `ServiceAssumption` that no worker is a client (the code forbids callbacks to
wait for a maintenance pass, `threadsafe_batching_pool.h:82`), and `StoreAssumption` that there are more names for trash than faults, as the
code makes names up when it needs them (which versions are supported is arbitrary). TLC evaluates each of them.

The invariants the runs check are seldom inductive. Each proof module defines an
`IInv`, proves that it holds initially and that every action keeps it (one lemma
per conjunct or per action), and derives the theorems.

**`BatchingPool_proofs`**. `IInv` is `Buckets` (a sentence is in at most one bucket,
of its own length, and not fresh), `Reached` (none lies beyond the longest active
bucket), `Counted` (`pending` is the number of sentences) and `DrainedPoolUncapped`.
`TypeCorrect`, `NothingIsStranded` and `DrainedAlwaysUncapped` hold for any lengths.
`NoBoundEverStalls` and `ImplementsContract` (the pool implements `BatchQueue`)
assume in addition that no length exceeds `MiniBatchWords`; finding 1 is what
happens without it.

`ForecastAlwaysExact` and `CapAlwaysShares` hold for any lengths too. They need
what a recursion over the walk computes, and the library's induction cannot be
instantiated here; `Induction` states it for sets of numbers, from the existence
of a least element, and each use names the set of numbers of which the fact
holds. A walk is the ranked set of its entries (`OrderedIs`), a batch is the start
of one (`BatchIsStart`), and `LeftAfterBatch` compares the forecast before and after
a batch: one less when the padding ended the batch or the pool is empty
(`OneBatchLess`), no more in any case (`NoMore`). The invariant `Served` follows from
it. As long as a submission has the pool for itself, without a cap the batches
served and those still forecast are the forecast made at first; with a cap the
batches cut by it are at most one for each worker, because each takes
`ceil(S / W)` sentences, and each other batch takes one off the forecast.

**`AsyncService_proofs`**. `IInv` is `TypeOK` with `Accounting` (a sentence is in one
place; the count of a request that has been handed to the pool is the number of
its sentences waiting or in batches, a request still being submitted has none,
and no two calls submit the same one), `NothingStranded`, `CallsMatch` (what a
call is about to enqueue is for the model it will put in the aggregate queue),
`WorkersStayOn`, and `ShutdownOrder` (after the shutdown no call submits anything, a
worker that left its loop holds nothing, and the last one leaves nothing in the
pools). Theorems: `TypeCorrect`, `NeverStranded`, `AlwaysAnsweredWhole`,
`AlwaysStayOn`, `ShutdownLosesNothing`.

**`AsyncMaintenance_proofs`** adds `Handshake` (`acked` is the number of workers that
have seen the epoch and finished their pass, all of them when no pass runs; who
is busy since before the pass is none of them) and `Calm` (calls hold their models
until they return; the client that waits for its pass is the one with
`maintenanceSerial_`; the model to be released has no handle; a service that was
idle when a release began stays idle, and the workers the pass has been through
hold nothing). Theorems: `AcknowledgedIsFlushed`, `BoundedByOneBatch`,
`ReleaseAlwaysDestroys`, and `KeepsThePromise`, which says that the service
implements the safety half of `TranslationService`: each step is shown to give out
ids upwards and answers at most once, to requests that exist (`Served`).

`NeverWaitsForEver` is the absence of deadlock and of lost wake-ups, as a statement
about states: `Spec => []NeverStuck`. Its invariant says who may be asleep.
`WorkersAwake`: a worker sleeps only while there is nothing for it to do, no work,
no shutdown and no epoch it has not seen. `ClientsAwake`: a client sleeps only in
its own pass and while an acknowledgement is missing. With the invariants above,
a state in which nobody can go on then has empty pools and nothing in batches,
so each request has counted to zero and has been answered.

**`BlockingService_proofs`**. `IInv` is `TypeOK`, `ReleasedIsGone`, `Apart` (a sentence
is in one place), `Reachable` (the sentences of the running call are where the
queue will come to), `Numbered` (its requests take the slots in turn, and those
that counted to zero are filled), `Accounted` (a request waits for at least as
many sentences as there are, exactly as many while its call runs) and `Lost` (with
no failure nothing is left over; after one, a request of a call of one text waits
for more than there is). Theorems: `TypeCorrect`, `ReturnsAlwaysComplete`,
`LateAlwaysTakesTwo`, `ReleasedAlwaysGone`.

**`ModelReplicas_proofs`**. `IInv` is `TypeOK`, `Held` (a busy worker owns its model, a
dying model has no owner), `Placed` (replicas have addresses of their own), `Known`
(what a thread may still read; whoever uses an address can no longer read a value
older than its last freeing), `Fresh` (a cache entry belongs to the model at its
address, or the worker's generation is older than its end) and `Image` (the
counter is the number of workers that need the image no more). Theorems:
`TypeCorrect`, `WeightsAlwaysStay`, `PackedAlwaysCurrent`, `AlwaysLoadsFromMemory`,
`ImageAlwaysReleased`.

**`NativeEngine_proofs`**. `IInv` is `TypeOK`, `Control` (the engine thread and its
task), `Phases` (what a client that is closing or closed still has), `NoCallDropped`,
`Residence` (handles and the models a call has so far), `Booked` (sweeps), and a
ledger: `Counting` (the reservations of a directory are the models that hold one,
one being loaded, one being given back, and the unconfirmed releases), `Lives`
(instances in native memory) and `Kept` (the files of each are there). Theorems:
`TypeCorrect`, `LiveFilesAlwaysOnDisk`, `ReservationsAlwaysExact`,
`HandlesAlwaysValid`, `SweepAlwaysBooked`, `NoCallEverDropped`, `AlwaysTornDownClean`.

Three more say how it looks from outside. `NeverWaitsForEver` is
`Spec => []NeverStuck`; besides `IInv` it needs `Working` (a call runs only
as the task of the engine thread, a client that closes has its `close()` in the
queue or running, and a sweep is booked only for something to sweep).
`KeepsTheContract` is `Spec => Client!Spec`, the safety half of `TranslationClient`.
It needs `Waiting` (a task in the queue is that of a call that waits for it, and
is there once, so that a call returns once) and `Instances` (what has instances
in native memory is reserved); then each step of the engine thread is a load, an
unload, the return of one call or unseen, and the last step of `close()` is the
return of `shutdown()`. `KeepsTheRoot` is `Spec => ImplementsRoot`.

**`ModelDownloader_proofs`**. `IInv` is `TypeOK` with `Progress` (the assets before the
current one are finished and good, and the manifest is good when publication
begins), `Digested` (digest and partial file agree, and their length is where the
transfer is), `Counted` (an attempt that is sent back to zero has one more request,
and that one asks for no range, so it is not sent back), `Copied` (a call that
transfers anything found none of its copies whole), and the invariants
`PublishedWhole`, `RequestsBounded`, `OneWholeCopy`. Theorems: `TypeCorrect`,
`PublishedAlwaysWhole`, `DigestAlwaysCovers`, `RequestsAlwaysBounded`,
`AtMostOneWholeCopy`, the action properties `AlwaysReturnsWhole`,
`NeverReplaced`, `FailureAlwaysKeepsOrRemoves`, and `KeepsTheContract`, which says
that the downloader implements `ModelRoot`: what a step changes is seen at one name
at most (`Seen`, `SeenOne`), and what it publishes there is whole.

**`ModelStore_proofs`**. `IInv` is `TypeOK`, `Phase` (which operation is where),
`Littered` (each trash name but the one being erased has cost a fault, so there is
always a fresh one), `InUseStays` and `Kept` (what a cleanup is still to remove
does not hold the newest entry that verifies). Theorems: `TypeCorrect`, `InUseAlwaysStays`,
`CleanupAlwaysKeepsBest` (by `NewestAmong`: what is left keeps its newest, and that is
what a search selects if it is usable), and `KeepsTheContract`, which says that the store implements
`ModelRoot`: an operation removes one entry at a time, and checks in the same step
that nobody has it in use.

Only model-checked: all liveness (`MaintenanceReturns`, `ShutdownJoins`, the
liveness halves of `AnswersEveryRequest` and `ImplementsClient`, `CallEnds`,
`IdleModelsUnloaded`, `EventuallyPublished`, `TrashGoes`), because fairness and
ENABLED are out of reach of the prover. The two theorems `NeverWaitsForEver` are the part
of it that is a matter of states. Every invariant and action property
a passing run checks is stated by a theorem, and so is the type invariant of each
module. Conversely,
`NoCallDropped` and `PublishedWhole` are theorems that no run lists, because
`ImplementsClient` and `ImplementsRoot` say more; `ImplementsRoot` of the store and of
the engine is proved and listed in no run, because their other properties cover
what can go wrong there.

## 6. Not modelled

Most lines of the repository are the vendored Marian fork with its third-party
libraries and the tables of text normalization: numerical kernels, generated
code and data. Of it only the caches of packed weights, which this repository
added, are modelled.

Text processing, HTML, segmentation, UTF conversion and quality estimation are
pure functions of strings or floats. The translation cache can only save work:
`AsyncService` allows any outcome of the prefill. `ThreadPlanner` is a pure
function whose result, a number of workers, is a constant of the models.
`Catalog` and `RemoteIndex` select releases and report updates from one answer of
the index and one listing; they change nothing, and `ModelStore` takes the order
of versions as given. URLs, hosts, redirects, progress events, back-off times,
the byte counts of reports and thread affinity are left out because no property
depends on them. `Foxlet.create()` is modelled when it succeeds.

Hazards without a property are listed with the reason: a cap that
one submission leaves for an overlapping one (a hint, a matter of speed), and the
repackaged update of section 4, which needs identities within a version.

## 7. Plan

What is left, in order of importance:

1. Identities within a version: entries of `ModelStore` as version and identity,
   with the selection and the report of `RemoteIndex` beside the order of the
   listing. Property: an update that was installed is not offered again.
2. The temporary directories: `ModelRoot` is what downloader, store and engine
   agree on about published names, and nothing relates yet the sweep of stale
   temporary directories (a step of `ModelStore`) to a download that resumes from
   one (a step of `ModelDownloader`).
3. Pure operators checked against reference definitions over bounded inputs: the
   order of versions, the plan of threads, back-off and `Retry-After`, and the
   alignment of byte ranges between the legs of a pivot.

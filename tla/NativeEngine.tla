---------------------------- MODULE NativeEngine ----------------------------
(***************************************************************************)
(* The Kotlin client around the native library: ClientLifecycle (calls     *)
(* and their shutdown), NativeEngine (the engine thread with lazy loading  *)
(* and release of models), IdleSweeper (unloading what has been idle) and  *)
(* ActiveModels (which model directories are in use), together with what   *)
(* ModelStore may do to those directories meanwhile.                       *)
(*                                                                         *)
(* A call is an operation child of ClientLifecycle: translate() wants one  *)
(* model, translatePivot() two, unloadModels() none.  It is dispatched to  *)
(* the single engine thread, which runs one task at a time; between two    *)
(* steps of a task callers cancel, the client shuts down and directories   *)
(* are deleted.  The native side is external: loadModel() and translate()  *)
(* may fail, and releaseModel() may report that it destroyed nothing.      *)
(*                                                                         *)
(* Time is left out: any of the models a sweep watches may be due.         *)
(***************************************************************************)
EXTENDS Integers, FiniteSets, Sequences, Functions

CONSTANTS
    Calls,             \* operations that can be in progress at once
    Models,            \* ModelFiles by cache key
    Directories,       \* directories model files are read from
    DirectoriesOf,     \* directoriesOf() of each model
    MaxClients,        \* bound: Foxlet clients created over a behaviour
    MaxUnconfirmed     \* bound: releases that report false, per client

ASSUME EngineAssumption ==
    /\ Calls \cap {"none", "close", "sweep"} = {}
    /\ DirectoriesOf \in [Models -> SUBSET Directories]
    /\ IsFiniteSet(Models)
    /\ MaxClients \in Nat
    /\ MaxUnconfirmed \in Nat

VARIABLES
    clients,           \* clients created so far
    phase,             \* of the current client; its process lease is free at "none"
    retention,         \* sign of idleUnloadMillis: "never" < 0, "none" = 0, "timed" > 0
    call,              \* how far each call is
    want,              \* the models a call was given
    cancelled,         \* its job was cancelled
    queue,             \* tasks submitted to the executor
    task,              \* the task the engine thread is running
    at,                \* where in that task
    leg,               \* which of the wanted models it is acquiring
    letGo,             \* models it is about to release
    released,          \* the model just released and what the release returned
    service,           \* the native service exists
    models,            \* models with a resident handle
    unconfirmed,       \* unconfirmedReleases
    tracked,           \* keys of lastUsedAt
    pending,           \* a sweep is booked
    counts,            \* ActiveModels.counts
    disk,              \* directories that are there
    live               \* external: instances of each model in native memory

callvars == <<call, want, cancelled>>
threadvars == <<task, at, leg, letGo, released>>
sweepvars == <<tracked, pending>>
modelvars == <<service, models, unconfirmed, live>>
vars == <<clients, phase, retention, callvars, queue, threadvars, sweepvars,
          modelvars, counts, disk>>

-----------------------------------------------------------------------------
(* ActiveModels and IdleSweeper.                                           *)

(* Mutant: a directory is flagged as in use, not counted.                  *)
ReleaseFlag(old, m) == [d \in Directories |-> IF d \in DirectoriesOf[m] THEN 0 ELSE old[d]]

(* acquire(): the counts old with one more reservation for m.              *)
Reserve(old, m) == [d \in Directories |-> IF d \in DirectoriesOf[m] THEN old[d] + 1 ELSE old[d]]

(* release(): without an acquire it is ignored.                            *)
Unreserve(old, m) ==
    [d \in Directories |-> IF d \in DirectoriesOf[m] /\ old[d] > 0 THEN old[d] - 1 ELSE old[d]]

(* Mutant: a sweep that leaves keys behind does not book the next.         *)
RearmNever(keys) == FALSE

(* rearm(): a sweep is booked if anything is tracked.                      *)
Rearm(keys) == retention # "never" /\ keys # {}

OnDisk(m) == DirectoriesOf[m] \subseteq disk

Closing == phase = "closing"

Init ==
    /\ clients = 0
    /\ phase = "none"
    /\ retention = "timed"
    /\ call = [c \in Calls |-> "none"]
    /\ want = [c \in Calls |-> <<>>]
    /\ cancelled = [c \in Calls |-> FALSE]
    /\ queue = <<>>
    /\ task = "none"
    /\ at = "none"
    /\ leg = 1
    /\ letGo = {}
    /\ released = <<>>
    /\ service = FALSE
    /\ models = {}
    /\ unconfirmed = <<>>
    /\ tracked = {}
    /\ pending = FALSE
    /\ counts = [d \in Directories |-> 0]
    /\ disk = Directories
    /\ live = [m \in Models |-> 0]

-----------------------------------------------------------------------------
(* The client: callers and shutdown.                                       *)

(* Foxlet.create(): only when the process lease is free.                   *)
Create ==
    /\ phase = "none"
    /\ clients < MaxClients
    /\ clients' = clients + 1
    /\ phase' = "open"
    /\ retention' \in {"never", "none", "timed"}
    /\ UNCHANGED <<callvars, queue, threadvars, sweepvars, modelvars, counts, disk>>

(* Mutant: a cancelled operation never completes.                          *)
EndUnlessCancelled(t) ==
    /\ call' = [c \in Calls |-> IF c = t /\ ~cancelled[c] THEN "none" ELSE call[c]]
    /\ UNCHANGED <<want, cancelled>>

(* The call of t is over, if t is a call at all.                           *)
End(t) ==
    /\ call' = [c \in Calls |-> IF c = t THEN "none" ELSE call[c]]
    /\ want' = [c \in Calls |-> IF c = t THEN <<>> ELSE want[c]]
    /\ cancelled' = [c \in Calls |-> c # t /\ cancelled[c]]

(* ClientLifecycle.run(): the child is registered while the lock is held.  *)
(* The models of a pivot connect two directions, so they differ.           *)
Run(c) ==
    /\ phase = "open"
    /\ call[c] = "none"
    /\ call' = [call EXCEPT ![c] = "started"]
    /\ \E n \in 0 .. 2 : \E ms \in Injection(1 .. n, Models) :
          want' = [want EXCEPT ![c] = ms]
    /\ UNCHANGED <<clients, phase, retention, cancelled, queue, threadvars, sweepvars,
                   modelvars, counts, disk>>

(* The caller gives up; its child is cancelled and runs on alone.          *)
Cancel(c) ==
    /\ call[c] # "none"
    /\ cancelled' = [cancelled EXCEPT ![c] = TRUE]
    /\ UNCHANGED <<clients, phase, retention, call, want, queue, threadvars,
                   sweepvars, modelvars, counts, disk>>

(* withContext(dispatcher) looks for cancellation ...                      *)
Enter(c) ==
    /\ call[c] = "started"
    /\ IF cancelled[c]
         THEN End(c)
         ELSE /\ call' = [call EXCEPT ![c] = "entering"]
              /\ UNCHANGED <<want, cancelled>>
    /\ UNCHANGED <<clients, phase, retention, queue, threadvars, sweepvars, modelvars,
                   counts, disk>>

(* ... and then submits the block to the executor.                         *)
Dispatch(c) ==
    /\ call[c] = "entering"
    /\ call' = [call EXCEPT ![c] = "queued"]
    /\ queue' = Append(queue, c)
    /\ UNCHANGED <<clients, phase, retention, want, cancelled, threadvars, sweepvars,
                   modelvars, counts, disk>>

(* shutdown(): nothing new may start, and the children are cancelled.      *)
Shutdown ==
    /\ phase = "open"
    /\ phase' = "joining"
    /\ cancelled' = [c \in Calls |-> call[c] # "none"]
    /\ UNCHANGED <<clients, retention, call, want, queue, threadvars, sweepvars,
                   modelvars, counts, disk>>

(* Mutant: the children are cancelled but not joined.                      *)
NotJoined == TRUE

(* Every child of the lifecycle has completed.                             *)
Joined == \A c \in Calls : call[c] = "none"

(* NativeEngine.close(): the teardown is the last task.                    *)
CloseBackend ==
    /\ phase = "joining"
    /\ Joined
    /\ phase' = "closing"
    /\ queue' = Append(queue, "close")
    /\ UNCHANGED <<clients, retention, callvars, threadvars, sweepvars, modelvars,
                   counts, disk>>

-----------------------------------------------------------------------------
(* Directories of the store.                                               *)

IsActive(d) == counts[d] > 0

(* ModelStore.deleteDetailed(): unpublished under ActiveModels' monitor.   *)
Delete(d) ==
    /\ d \in disk
    /\ ~IsActive(d)
    /\ disk' = disk \ {d}
    /\ UNCHANGED <<clients, phase, retention, callvars, queue, threadvars, sweepvars,
                   modelvars, counts>>

(* ModelDownloader renames a complete directory into place.                *)
Publish(d) ==
    /\ d \notin disk
    /\ disk' = disk \cup {d}
    /\ UNCHANGED <<clients, phase, retention, callvars, queue, threadvars, sweepvars,
                   modelvars, counts>>

-----------------------------------------------------------------------------
(* The engine thread.                                                      *)

(* The task ends, and with it the call it was run for.                     *)
Finish ==
    /\ task' = "none"
    /\ at' = "none"
    /\ leg' = 1
    /\ End(task)

Goto(place) == at' = place /\ UNCHANGED <<task, callvars>>

(* The task of a call begins: a cancelled one is not run, checkOpen() and  *)
(* keyOf() come before anything is loaded.                                 *)
StartCall ==
    /\ task = "none"
    /\ queue # <<>>
    /\ LET c == Head(queue)
       IN  /\ c \in Calls
           /\ IF cancelled[c] \/ Closing \/ (\E i \in DOMAIN want[c] : ~OnDisk(want[c][i]))
                THEN /\ End(c)
                     /\ UNCHANGED <<task, at, letGo>>
                ELSE /\ call' = [call EXCEPT ![c] = "running"]
                     /\ UNCHANGED <<want, cancelled>>
                     /\ task' = c
                     /\ at' = IF want[c] = <<>> THEN "release" ELSE "acquire"
                     /\ letGo' = IF want[c] = <<>> THEN models ELSE {}
    /\ queue' = Tail(queue)
    /\ UNCHANGED <<clients, phase, retention, leg, released, sweepvars,
                   modelvars, counts, disk>>

StartClose ==
    /\ task = "none"
    /\ queue # <<>>
    /\ Head(queue) = "close"
    /\ queue' = Tail(queue)
    /\ task' = "close"
    /\ at' = "release"
    /\ letGo' = models
    /\ UNCHANGED <<clients, phase, retention, callvars, leg, released, sweepvars,
                   modelvars, counts, disk>>

(* Mutant: the sweep forgets every key, due or not.                        *)
LeftNone(due) == {}

(* What is still tracked when the keys that are due are removed.           *)
Left(due) == tracked \ due

(* sweep(): what is due is forgotten, and then unloaded.                   *)
StartSweep ==
    /\ task = "none"
    /\ pending
    /\ \E due \in SUBSET tracked \ {{}} :
        /\ tracked' = Left(due)
        /\ letGo' = due \cap models
    /\ pending' = FALSE
    /\ task' = "sweep"
    /\ at' = "release"
    /\ UNCHANGED <<clients, phase, retention, callvars, queue, leg, released,
                   modelvars, counts, disk>>

Wanted == want[task][leg]

(* A model cannot be had: for the first this is outside the try block.     *)
GiveUp == IF leg = 1 THEN Finish ELSE Goto("finally") /\ UNCHANGED leg

(* A model is had: on to the next, or to inference.                        *)
Proceed(m) ==
    /\ tracked' = tracked \cup {m}
    /\ leg' = IF leg < Len(want[task]) THEN leg + 1 ELSE leg
    /\ Goto(IF leg < Len(want[task]) THEN "acquire" ELSE "infer")

(* acquire() of a model, up to its reservation if it has to be loaded.     *)
Acquire ==
    /\ task \in Calls
    /\ at = "acquire"
    /\ \/ /\ cancelled[task]
          /\ GiveUp
          /\ UNCHANGED <<tracked, counts>>
       \/ /\ ~cancelled[task]
          /\ Wanted \in models
          /\ Proceed(Wanted)
          /\ UNCHANGED counts
       \/ /\ ~cancelled[task]
          /\ Wanted \notin models
          /\ counts' = Reserve(counts, Wanted)
          /\ Goto("load")
          /\ UNCHANGED <<leg, tracked>>
    /\ UNCHANGED <<clients, phase, retention, queue, letGo, released,
                   pending, modelvars, disk>>

(* verify() and loadModel() succeed.                                       *)
Load ==
    /\ at = "load"
    /\ OnDisk(Wanted)
    /\ ~cancelled[task]
    /\ service' = TRUE
    /\ live' = [live EXCEPT ![Wanted] = @ + 1]
    /\ models' = models \cup {Wanted}
    /\ Proceed(Wanted)
    /\ UNCHANGED <<clients, phase, retention, queue, letGo, released,
                   pending, unconfirmed, counts, disk>>

(* Mutant: a failed load keeps its reservation.                            *)
UndoNothing(old, m) == old

(* load(): the reservation of a failed load is undone.                     *)
Undo(old, m) == Unreserve(old, m)

(* The files are gone or wrong, the call is cancelled, or the service or   *)
(* the model cannot be created.                                            *)
LoadFails ==
    /\ at = "load"
    /\ service' \in {service, TRUE}
    /\ counts' = Undo(counts, Wanted)
    /\ GiveUp
    /\ UNCHANGED <<clients, phase, retention, queue, letGo,
                   released, sweepvars, models, unconfirmed, live, disk>>

(* The native call returns or throws, or the call was cancelled before it. *)
Infer ==
    /\ at = "infer"
    /\ Goto("finally")
    /\ UNCHANGED <<clients, phase, retention, queue, leg, letGo,
                   released, sweepvars, modelvars, counts, disk>>

(* Both keys are touched even if the second was never loaded.              *)
Finally ==
    /\ at = "finally"
    /\ IF retention = "none"
         THEN /\ letGo' = models
              /\ Goto("release")
              /\ UNCHANGED <<leg, sweepvars>>
         ELSE /\ tracked' = tracked \cup Range(want[task])
              /\ pending' = Rearm(tracked')
              /\ Finish
              /\ UNCHANGED letGo
    /\ UNCHANGED <<clients, phase, retention, queue, released,
                   modelvars, counts, disk>>

(* Bound on the releases that report false.                                *)
MayFail == Len(unconfirmed) < MaxUnconfirmed

(* Mutant: a sweep keeps the handle it released.                           *)
KeepHandle(m) == models

(* unload() removes the handle, releaseAll() clears them all at its end.   *)
DropHandle(m) == IF task = "sweep" THEN models \ {m} ELSE models

(* releaseModel() of one model, by releaseAll() or by a sweep.             *)
Release ==
    /\ at = "release"
    /\ \E m \in letGo, destroyed \in BOOLEAN :
        /\ destroyed \/ MayFail
        /\ live' = IF destroyed THEN [live EXCEPT ![m] = @ - 1] ELSE live
        /\ released' = <<m, destroyed>>
        /\ letGo' = letGo \ {m}
        /\ models' = DropHandle(m)
    /\ Goto("unreserve")
    /\ UNCHANGED <<clients, phase, retention, queue, leg, sweepvars,
                   service, unconfirmed, counts, disk>>

(* The directories are free again if the model was really destroyed.       *)
Settle ==
    /\ at = "unreserve"
    /\ LET m == released[1]
       IN  IF released[2]
             THEN /\ counts' = Unreserve(counts, m)
                  /\ UNCHANGED unconfirmed
             ELSE /\ unconfirmed' = Append(unconfirmed, m)
                  /\ UNCHANGED counts
    /\ released' = <<>>
    /\ Goto("release")
    /\ UNCHANGED <<clients, phase, retention, queue, leg, letGo,
                   sweepvars, service, models, live, disk>>

(* All are released: releaseAll() forgets what it tracked, a sweep rearms. *)
Released ==
    /\ at = "release"
    /\ letGo = {}
    /\ IF task = "sweep"
         THEN /\ pending' = Rearm(tracked)
              /\ UNCHANGED <<models, tracked>>
         ELSE /\ models' = {}
              /\ tracked' = {}
              /\ pending' = FALSE
    /\ IF task = "close" THEN Goto("destroy") /\ UNCHANGED leg ELSE Finish
    /\ UNCHANGED <<clients, phase, retention, queue, letGo,
                   released, service, unconfirmed, counts, disk, live>>

(* destroyService() ends every instance, referenced or not.                *)
Destroy ==
    /\ at = "destroy"
    /\ service' = FALSE
    /\ live' = [m \in Models |-> 0]
    /\ Goto("settle")
    /\ UNCHANGED <<clients, phase, retention, queue, leg, letGo,
                   released, sweepvars, models, unconfirmed, counts, disk>>

(* Mutant: unconfirmed releases are forgotten with their reservations kept. *)
NoReservations(d) == 0

(* What the unconfirmed releases still reserve of d.                       *)
Reservations(d) == Cardinality({i \in DOMAIN unconfirmed : d \in DirectoriesOf[unconfirmed[i]]})

(* The last reservations go; executor.shutdown() drops what is queued, for *)
(* its policy covers tasks with no delay too, and the lease is free.       *)
Terminate ==
    /\ at = "settle"
    /\ counts' = [d \in Directories |-> counts[d] - Reservations(d)]
    /\ unconfirmed' = <<>>
    /\ queue' = <<>>
    /\ phase' = "none"
    /\ Finish
    /\ UNCHANGED <<clients, retention, letGo, released,
                   sweepvars, service, models, live, disk>>

(* One step of the engine thread.                                          *)
Engine ==
    \/ StartCall
    \/ StartClose
    \/ StartSweep
    \/ Acquire
    \/ Load
    \/ LoadFails
    \/ Infer
    \/ Finally
    \/ Release
    \/ Settle
    \/ Released
    \/ Destroy
    \/ Terminate

Next ==
    \/ Create
    \/ \E c \in Calls : Run(c) \/ Cancel(c) \/ Enter(c) \/ Dispatch(c)
    \/ Shutdown
    \/ CloseBackend
    \/ \E d \in Directories : Delete(d) \/ Publish(d)
    \/ Engine

(* Threads of the executor and of the dispatchers run; timers fire.        *)
Fairness ==
    /\ WF_vars(Engine)
    /\ WF_vars(CloseBackend)
    /\ \A c \in Calls : WF_vars(Enter(c) \/ Dispatch(c))

Spec == Init /\ [][Next]_vars /\ Fairness

-----------------------------------------------------------------------------
(* Properties.                                                             *)

TypeOK ==
    /\ clients \in 0 .. MaxClients
    /\ phase \in {"none", "open", "joining", "closing"}
    /\ retention \in {"never", "none", "timed"}
    /\ call \in [Calls -> {"none", "started", "entering", "queued", "running"}]
    /\ want \in [Calls -> Seq(Models)]
    /\ cancelled \in [Calls -> BOOLEAN]
    /\ queue \in Seq(Calls \cup {"close"})
    /\ task \in Calls \cup {"none", "close", "sweep"}
    /\ at \in {"none", "acquire", "load", "infer", "finally", "release", "unreserve",
               "destroy", "settle"}
    /\ leg \in Nat \ {0}
    /\ letGo \in SUBSET Models
    /\ released \in {<<>>} \cup (Models \X BOOLEAN)
    /\ service \in BOOLEAN
    /\ models \in SUBSET Models
    /\ unconfirmed \in Seq(Models)
    /\ tracked \in SUBSET Models
    /\ pending \in BOOLEAN
    /\ counts \in [Directories -> Nat]
    /\ disk \in SUBSET Directories
    /\ live \in [Models -> Nat]

(* "a removal either finishes before a load starts or sees its             *)
(* reservation" (ActiveModels.kt:22): while an instance of a model may     *)
(* exist in native memory, confirmed or not, its files are on disk.        *)
LiveFilesOnDisk == \A m \in Models : live[m] > 0 => OnDisk(m)

(* Between tasks a directory is reserved once for each handle and each     *)
(* unconfirmed release that reads from it, so nothing leaks: what is       *)
(* unloaded can be deleted (ActiveModels.kt:27).                           *)
ReservationsExact ==
    task = "none" =>
        \A d \in Directories :
            counts[d] = Cardinality({m \in models : d \in DirectoriesOf[m]}) + Reservations(d)

(* A native call is given handles of instances that exist, in a service    *)
(* that exists (NativeEngine.kt:100, 129).                                 *)
HandlesValid ==
    at = "infer" =>
        /\ service
        /\ \A i \in DOMAIN want[task] : live[want[task][i]] > 0

(* Between tasks, a client with a positive retention has a sweep booked as *)
(* long as a model is resident, and will unload every such model           *)
(* (NativeEngine.kt:102-105, IdleSweeper.kt:91); with retention zero       *)
(* nothing is resident (IdleSweeper is never rearmed then).                *)
SweepBooked ==
    task = "none" =>
        /\ retention = "timed" /\ models # {} =>
              pending /\ models \subseteq tracked
        /\ retention = "none" => models = {}

(* Nobody can go on: no task runs or is queued, no sweep is to come, no    *)
(* call is on its way to the executor and close() has nothing to do.       *)
Resting ==
    /\ task = "none" /\ queue = <<>>
    /\ pending => tracked = {}
    /\ \A c \in Calls : call[c] \notin {"started", "entering"}
    /\ ~(phase = "joining" /\ Joined)

(* No call, no teardown and no idle model is forgotten: when nobody can go *)
(* on, every call has returned, a shutdown has come to its end, and a      *)
(* client that unloads at all has unloaded everything                      *)
(* (ClientLifecycle.kt:35, IdleSweeper.kt:69-92).                          *)
NeverStuck ==
    Resting => /\ \A c \in Calls : call[c] = "none"
               /\ phase \in {"none", "open"}
               /\ retention # "never" => models = {}

(* executor.shutdown() drops queued tasks (NativeEngine.kt:53, 180), which *)
(* would leave their callers suspended for good; none is queued then.      *)
NoCallDropped ==
    \A c \in Calls : call[c] = "queued" => \E i \in DOMAIN queue : queue[i] = c

(* "The process lease is released after teardown, allowing a replacement   *)
(* engine" (NativeEngine.kt:164): whoever gets the lease finds no service, *)
(* no instance and no reservation of its predecessor.                      *)
TornDownClean ==
    phase = "none" =>
        /\ ~service /\ models = {} /\ unconfirmed = <<>> /\ tracked = {} /\ ~pending
        /\ \A m \in Models : live[m] = 0
        /\ \A d \in Directories : counts[d] = 0

(* The client as its callers and ModelStore see it: a call is in progress  *)
(* until its child completes, and closing is part of shutdown().  Every    *)
(* accepted call returns, also when it is cancelled or the client closes   *)
(* (ClientLifecycle.kt:35), shutdown() waits for all of them and returns,  *)
(* and by then native memory is empty.                                     *)
Client == INSTANCE TranslationClient WITH
    phase <- IF Closing THEN "joining" ELSE phase,
    inProgress <- {c \in Calls : call[c] # "none"},
    resident <- {m \in Models : live[m] > 0}

ImplementsClient == Client!FairSpec

(* Once calls stop coming, a client with a positive retention unloads      *)
(* everything (IdleSweeper.kt:69-92).                                      *)
IdleModelsUnloaded ==
    <>[](retention = "timed" /\ \A c \in Calls : call[c] = "none") => <>[](models = {})

(* The engine and the store: a directory goes away only while no instance  *)
(* in native memory, confirmed or not, reads from it (ActiveModels.kt:22). *)
Root == INSTANCE ModelRoot WITH
    Names <- Directories,
    state <- [d \in Directories |-> IF d \in disk THEN "whole" ELSE "absent"],
    inUse <- {d \in Directories : \E m \in Models : live[m] > 0 /\ d \in DirectoriesOf[m]}

ImplementsRoot == Root!Spec
=============================================================================

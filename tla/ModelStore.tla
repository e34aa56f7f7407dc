----------------------------- MODULE ModelStore -----------------------------
(***************************************************************************)
(* The installations of one language pair under a model root, and what     *)
(* ModelManager and ModelStore do to them: downloads, deletions and        *)
(* cleanups one at a time under Catalog.writeLock; searches for a usable   *)
(* installation that take no lock; and the engine, which reserves what it  *)
(* loads under the monitor of ActiveModels.                                *)
(*                                                                         *)
(* Removal is a rename to a trash name and then an erase that may fail or  *)
(* be cut short by the end of the process.  A damaged installation is      *)
(* downloaded again beside itself, under a name with a suffix: its twin.   *)
(* How a download goes is in ModelDownloader; here it succeeds or fails.   *)
(***************************************************************************)
EXTENDS Integers, FiniteSets

CONSTANTS
    MaxVersion,        \* bound: versions of the model
    Supported,         \* those of a major version this engine reads
    TrashNames,        \* bound: names of deletions that are not complete
    MaxFaults          \* bound: damage, failed renames and erases, crashes

ASSUME StoreAssumption ==
    /\ MaxVersion \in Nat
    /\ Supported \subseteq 1 .. MaxVersion
    /\ MaxFaults \in Nat
    /\ IsFiniteSet(TrashNames)
    /\ TrashNames \cap (1 .. MaxVersion) = {}
    /\ Cardinality(TrashNames) > MaxFaults

Versions == 1 .. MaxVersion

(* A published name: its version, and whether it has the suffix.           *)
Entries == Versions \X BOOLEAN

VARIABLES
    state,             \* what is under each name; "unknown" lost its manifest
    trash,             \* deletions that are not complete
    temps,             \* versions with a temporary directory
    stale,             \* those not written to for staleTempAgeMillis
    reserved,          \* ActiveModels: installations the engine reads from
    op,                \* operation that holds the write lock
    at,                \* where it is
    due,               \* remnants it is still to erase
    todo,              \* installations it is still to remove
    erasing,           \* the trash name of the one it is removing
    find,              \* usable(): where it is, or how it ended
    candidates,        \* the installations it has not checked
    gap,               \* the pair had a moment without a usable installation
                       \* since the search began
    faults             \* faults so far

lockvars == <<op, at, due, todo, erasing>>
findvars == <<find, candidates>>
tempvars == <<temps, stale>>
vars == <<state, trash, tempvars, reserved, lockvars, findvars, gap, faults>>

-----------------------------------------------------------------------------
Installed == {d \in Entries : state[d] # "absent"}

(* What verifies() finds whole, and what checked() finds usable: that also *)
(* asks for a major version this engine supports.                          *)
Verified == {d \in Entries : state[d] = "whole"}
Usable == {d \in Verified : d[1] \in Supported}

(* newestFirst: a suffixed twin comes after its original.                  *)
Before(d, e) == d[1] > e[1] \/ (d[1] = e[1] /\ ~d[2] /\ e[2])

Newest(S) == CHOOSE d \in S : \A e \in S \ {d} : Before(d, e)

(* Mutant: the newest is taken for the best.                               *)
BestUnverified(S) == IF S = {} THEN {} ELSE {Newest(S)}

(* What cleanup() selects of these: the newest that verifies, also one     *)
(* that a search would pass over.                                          *)
Best(S) == IF S \cap Verified = {} THEN {} ELSE {Newest(S \cap Verified)}

(* Older than the best, or its twin; what cannot be verified stays.        *)
Superseded(best) ==
    {d \in Installed : state[d] # "unknown"
                       /\ (d[1] < best[1] \/ (d[1] = best[1] /\ d # best /\ d[2]))}

Fault == faults < MaxFaults /\ faults' = faults + 1

(* Versions this engine does not support were left by another release of   *)
(* the library.                                                            *)
Init ==
    /\ \E left \in SUBSET (Versions \ Supported) :
          state = [d \in Entries |-> IF d[1] \in left /\ ~d[2] THEN "whole" ELSE "absent"]
    /\ trash = {}
    /\ temps = {}
    /\ stale = {}
    /\ reserved = {}
    /\ op = "none"
    /\ at = "idle"
    /\ due = {}
    /\ todo = {}
    /\ erasing = {}
    /\ find = "idle"
    /\ candidates = {}
    /\ gap = TRUE
    /\ faults = 0

-----------------------------------------------------------------------------
(* Outside the lock.                                                       *)

(* ifInactive() keeps the monitor while it removes: one installation of a  *)
(* cleanup, or everything a deletion was asked for.                        *)
Monitor == at = "erase" \/ op = "delete"

(* The engine begins to load a model, or has released it.  modelFiles()    *)
(* refuses what is not supported.                                          *)
Reserve(d) ==
    /\ ~Monitor
    /\ d \in Usable
    /\ reserved' = reserved \cup {d}
    /\ UNCHANGED <<state, trash, tempvars, lockvars, findvars, faults>>

Unreserve(d) ==
    /\ ~Monitor
    /\ d \in reserved
    /\ reserved' = reserved \ {d}
    /\ UNCHANGED <<state, trash, tempvars, lockvars, findvars, faults>>

Age(v) ==
    /\ v \in temps \ stale
    /\ op # "download"
    /\ stale' = stale \cup {v}
    /\ UNCHANGED <<state, trash, temps, reserved, lockvars, findvars, faults>>

(* Storage goes bad between operations.                                    *)
Damage(d) ==
    /\ op = "none"
    /\ state[d] = "whole"
    /\ Fault
    /\ \E bad \in {"damaged", "unknown"} : state' = [state EXCEPT ![d] = bad]
    /\ UNCHANGED <<trash, tempvars, reserved, lockvars, findvars>>

(* The process ends, and with it locks, reservations and searches.         *)
Crash ==
    /\ Fault
    /\ op' = "none" /\ at' = "idle" /\ due' = {} /\ todo' = {} /\ erasing' = {}
    /\ reserved' = {}
    /\ find' = "idle" /\ candidates' = {}
    /\ UNCHANGED <<state, trash, tempvars>>

-----------------------------------------------------------------------------
(* Under the write lock.                                                   *)

Finish ==
    /\ op' = "none" /\ at' = "idle" /\ due' = {} /\ todo' = {} /\ erasing' = {}

(* downloadExact(): a supported version; a whole copy is reused.           *)
Download(v) ==
    /\ op = "none"
    /\ v \in Supported
    /\ \A d \in Usable : d[1] # v
    /\ op' = "download"
    /\ at' = "fetch"
    /\ temps' = temps \cup {v}
    /\ stale' = stale \ {v}
    /\ UNCHANGED <<state, trash, reserved, due, todo, erasing, findvars, faults>>

(* The bound on names: one twin.                                           *)
Publish(v) ==
    /\ op = "download"
    /\ v \in temps \ stale
    /\ \E suffixed \in BOOLEAN :
        /\ suffixed <=> state[<<v, FALSE>>] # "absent"
        /\ state[<<v, suffixed>>] = "absent"
        /\ state' = [state EXCEPT ![<<v, suffixed>>] = "whole"]
    /\ temps' = temps \ {v}
    /\ Finish
    /\ UNCHANGED <<trash, stale, reserved, findvars, faults>>

(* Under the resume policy the temporary directory stays.                  *)
DownloadFails(v) ==
    /\ op = "download"
    /\ v \in temps \ stale
    /\ temps' \in {temps, temps \ {v}}
    /\ Finish
    /\ UNCHANGED <<state, trash, stale, reserved, findvars, faults>>

(* delete() of one installation, deleteAll() of all: nothing is removed if *)
(* any is in use.                                                          *)
Delete ==
    /\ op = "none"
    /\ \E ds \in {{d} : d \in Installed} \cup {Installed} :
        /\ ds # {}
        /\ ds \cap reserved = {}
        /\ todo' = ds
    /\ op' = "delete"
    /\ at' = "remove"
    /\ UNCHANGED <<state, trash, tempvars, reserved, due, erasing, findvars, faults>>

(* Mutant: trash is left to its age like a temporary directory.            *)
StaleOnly == stale

(* Trash goes whatever its age.                                            *)
Remnants == trash \cup stale

(* cleanup(), and the remnants it looks at first.                          *)
Cleanup ==
    /\ op = "none"
    /\ op' = "cleanup"
    /\ at' = "sweep"
    /\ due' = Remnants
    /\ UNCHANGED <<state, trash, tempvars, reserved, todo, erasing, findvars, faults>>

(* eraseDetailed() of a remnant, whole or in part.                         *)
Sweep ==
    /\ at = "sweep"
    /\ \E r \in due :
        /\ due' = due \ {r}
        /\ \/ /\ trash' = trash \ {r} /\ temps' = temps \ {r} /\ stale' = stale \ {r}
              /\ UNCHANGED faults
           \/ Fault /\ UNCHANGED <<trash, tempvars>>
    /\ UNCHANGED <<state, reserved, op, at, todo, erasing, findvars>>

(* The second half of cleanup(): the best is verified, and what it         *)
(* supersedes is to go unless it is in keep or the option is off.          *)
Supersede ==
    /\ at = "sweep" /\ due = {}
    /\ \E keep \in SUBSET Entries :
          todo' = UNION {Superseded(best) : best \in Best(Installed)} \ keep
    /\ at' = "remove"
    /\ UNCHANGED <<state, trash, tempvars, reserved, op, due, erasing, findvars, faults>>

(* Mutant: occupancy is not looked at again.                               *)
Ignored(d) == FALSE

(* A cleanup looks at each; a deletion has the monitor already.            *)
InUse(d) == d \in reserved

NewName == CHOOSE t \in TrashNames : t \notin trash

(* removeDetailed(): unpublished, or skipped, or the rename fails.         *)
Unpublish ==
    /\ at = "remove"
    /\ \E d \in todo :
        /\ todo' = todo \ {d}
        /\ \/ /\ ~InUse(d)
              /\ erasing' = {NewName}
              /\ trash' = trash \cup erasing'
              /\ state' = [state EXCEPT ![d] = "absent"]
              /\ at' = "erase"
              /\ UNCHANGED faults
           \/ /\ InUse(d)
              /\ UNCHANGED <<state, trash, at, erasing, faults>>
           \/ /\ Fault
              /\ UNCHANGED <<state, trash, at, erasing>>
    /\ UNCHANGED <<tempvars, reserved, op, due, findvars>>

Erase ==
    /\ at = "erase"
    /\ at' = "remove"
    /\ erasing' = {}
    /\ \/ trash' = trash \ erasing /\ UNCHANGED faults
       \/ Fault /\ UNCHANGED trash
    /\ UNCHANGED <<state, tempvars, reserved, op, due, todo, findvars>>

Removed ==
    /\ at = "remove" /\ todo = {}
    /\ Finish
    /\ UNCHANGED <<state, trash, tempvars, reserved, findvars, faults>>

-----------------------------------------------------------------------------
(* usable(): for findUsable() and prepare(), without the lock.             *)

Find ==
    /\ find \in {"idle", "none"}
    /\ find' = "list"
    /\ candidates' = Installed
    /\ UNCHANGED <<state, trash, tempvars, reserved, lockvars, faults>>

(* The search ends, with an installation or with an exception.             *)
EndSearch == find' = "idle" /\ candidates' = {}

(* installed(): what has gone meanwhile is left out, or ends the listing   *)
(* if it goes while its size is taken.  What has no manifest now is        *)
(* Unverifiable whenever it is checked.                                    *)
List ==
    /\ find = "list"
    /\ \/ find' = "check" /\ candidates' = {d \in candidates \cap Installed : state[d] # "unknown"}
       \/ ~(candidates \subseteq Installed) /\ EndSearch
    /\ UNCHANGED <<state, trash, tempvars, reserved, lockvars, faults>>

(* checked(), newest first.  What is not supported is Unverifiable and not *)
(* looked at.  Files are hashed against the manifest of the listing, which *)
(* may be gone by now; a file that goes while it is opened for hashing     *)
(* ends the search.                                                        *)
Check ==
    /\ find = "check" /\ candidates # {}
    /\ LET d == Newest(candidates)
       IN  \/ d[1] \in Supported /\ state[d] # "damaged" /\ EndSearch
           \/ /\ d[1] \in Supported => state[d] \in {"damaged", "absent"}
              /\ candidates' = candidates \ {d}
              /\ UNCHANGED find
    /\ UNCHANGED <<state, trash, tempvars, reserved, lockvars, faults>>

NoneFound ==
    /\ find = "check" /\ candidates = {}
    /\ find' = "none"
    /\ UNCHANGED <<state, trash, tempvars, reserved, lockvars, candidates, faults>>

-----------------------------------------------------------------------------
(* A step of the operation that holds the lock.                            *)
Manager ==
    \/ \E v \in Versions : Publish(v) \/ DownloadFails(v)
    \/ Sweep
    \/ Supersede
    \/ Unpublish
    \/ Erase
    \/ Removed

Step ==
    \/ \E d \in Entries : Reserve(d) \/ Unreserve(d) \/ Damage(d)
    \/ \E v \in Versions : Age(v) \/ Download(v)
    \/ Crash
    \/ Delete
    \/ Cleanup
    \/ Manager
    \/ Find \/ List \/ Check \/ NoneFound

Starts == find' = "list" /\ find # "list"

Witness == gap' = ((gap /\ ~Starts) \/ Usable' = {})

Next == Step /\ Witness

(* An operation that holds the lock goes on.                               *)
Spec == Init /\ [][Next]_vars /\ WF_vars(Manager /\ Witness)

-----------------------------------------------------------------------------
(* State stays in its sets.                                                *)
TypeOK ==
    /\ state \in [Entries -> {"absent", "whole", "damaged", "unknown"}]
    /\ trash \in SUBSET TrashNames
    /\ temps \in SUBSET Versions
    /\ stale \in SUBSET temps
    /\ reserved \in SUBSET Entries
    /\ op \in {"none", "download", "delete", "cleanup"}
    /\ at \in {"idle", "fetch", "sweep", "remove", "erase"}
    /\ due \in SUBSET (TrashNames \cup Versions)
    /\ todo \in SUBSET Entries
    /\ erasing \in SUBSET TrashNames
    /\ find \in {"idle", "list", "check", "none"}
    /\ candidates \in SUBSET Entries
    /\ gap \in BOOLEAN
    /\ faults \in 0 .. MaxFaults

(* "remove superseded installations only after validating a newer version" *)
(* (FoxletConfig.kt:179): the newest that verifies stays the newest in     *)
(* every step of a cleanup, also one that fails or is cut short; and a     *)
(* search that would select it before still does.  It is not "only when a  *)
(* newer usable version is verified" (ModelManager.kt:165-166): below a    *)
(* newest that is not supported, everything a search could select goes.    *)
CleanupKeepsBest ==
    [][op = "cleanup" /\ Verified # {} =>
          LET best == Newest(Verified)
          IN  /\ Verified' # {} /\ Newest(Verified') = best
              /\ best \in Usable => Usable' # {} /\ Newest(Usable') = best]_vars

(* What the engine reads from is never removed, and "All versions are      *)
(* checked for occupancy before deleting any" (ModelManager.kt:154): none  *)
(* a deletion is still to remove can come into use.                        *)
InUseStays ==
    /\ reserved \subseteq Installed
    /\ op = "delete" => todo \cap reserved = {}

(* "Removes ... deletion remnants" (ModelManager.kt:165): what a crash or  *)
(* a failed erase left goes, as long as cleanups are asked for.            *)
TrashGoes == []<>(op = "cleanup") => []<>(trash = {})

(* "Returns the newest verified local installation for [pair].  If none is *)
(* usable, ... throws" (ModelManager.kt:49): a search that finds nothing   *)
(* means that at some moment of the search there was nothing to find.      *)
NoneMeansNone ==
    find = "none" => gap

(* What others see of the store: directories appear whole, one at a time,  *)
(* and go away only while nobody reads from them.                          *)
Root == INSTANCE ModelRoot WITH
    Names <- Entries,
    state <- [d \in Entries |-> IF state[d] \in {"damaged", "unknown"} THEN "bad" ELSE state[d]],
    inUse <- reserved

ImplementsRoot == Root!Spec
=============================================================================

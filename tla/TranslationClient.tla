------------------------- MODULE TranslationClient --------------------------
(***************************************************************************)
(* What a Foxlet client promises the application and the other users of    *)
(* the device: calls that are accepted return; shutdown() waits for them,  *)
(* returns, and leaves no model in native memory, so that the next client  *)
(* starts as the first one did; and a model that is in native memory is    *)
(* never deleted under it.  When models are loaded and unloaded in between *)
(* is the client's own business.                                           *)
(***************************************************************************)
CONSTANTS
    Calls,             \* operations that can be in progress at once
    Models,
    Directories,       \* model directories
    DirectoriesOf      \* the directories each model reads from

VARIABLES
    phase,             \* "none", "open", "joining": shutdown() was called
    inProgress,        \* calls whose operation has not completed
    resident,          \* models in native memory
    disk               \* directories that are there

cvars == <<phase, inProgress, resident, disk>>

Init ==
    /\ phase = "none"
    /\ inProgress = {}
    /\ resident = {}
    /\ disk = Directories

Open ==
    /\ phase = "none"
    /\ phase' = "open"
    /\ UNCHANGED <<inProgress, resident, disk>>

Begin(c) ==
    /\ phase = "open"
    /\ c \notin inProgress
    /\ inProgress' = inProgress \cup {c}
    /\ UNCHANGED <<phase, resident, disk>>

Return(c) ==
    /\ c \in inProgress
    /\ inProgress' = inProgress \ {c}
    /\ UNCHANGED <<phase, resident, disk>>

Shutdown ==
    /\ phase = "open"
    /\ phase' = "joining"
    /\ UNCHANGED <<inProgress, resident, disk>>

(* shutdown() returns.                                                     *)
Closed ==
    /\ phase = "joining"
    /\ inProgress = {}
    /\ resident = {}
    /\ phase' = "none"
    /\ UNCHANGED <<inProgress, resident, disk>>

(* Only a call loads, and only what is there.                              *)
Load(m) ==
    /\ inProgress # {}
    /\ DirectoriesOf[m] \subseteq disk
    /\ resident' = resident \cup {m}
    /\ UNCHANGED <<phase, inProgress, disk>>

Unload(ms) ==
    /\ resident' = resident \ ms
    /\ UNCHANGED <<phase, inProgress, disk>>

(* Only what no resident model reads from is deleted.                      *)
Delete(d) ==
    /\ \A m \in resident : d \notin DirectoriesOf[m]
    /\ disk' = disk \ {d}
    /\ UNCHANGED <<phase, inProgress, resident>>

Publish(d) ==
    /\ disk' = disk \cup {d}
    /\ UNCHANGED <<phase, inProgress, resident>>

Next ==
    \/ Open
    \/ \E c \in Calls : Begin(c) \/ Return(c)
    \/ Shutdown
    \/ Closed
    \/ \E m \in Models : Load(m)
    \/ \E ms \in SUBSET Models : Unload(ms)
    \/ \E d \in Directories : Delete(d) \/ Publish(d)

Spec == Init /\ [][Next]_cvars

(* No call is in progress for ever, and no shutdown() is.                  *)
EveryCallReturns == \A c \in Calls : []<>(c \notin inProgress)

ShutdownReturns == []<>(phase # "joining")

FairSpec == Spec /\ EveryCallReturns /\ ShutdownReturns
=============================================================================

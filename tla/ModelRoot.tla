------------------------------ MODULE ModelRoot ------------------------------
(***************************************************************************)
(* What the published names under a model root go through, for all who     *)
(* share it.  A directory appears under a name nobody uses, whole; it may  *)
(* go bad where it is; and it goes away only while nobody reads from it.   *)
(* Nothing else happens to it, and to no two of them at once.              *)
(*                                                                         *)
(* The downloader, the store and the engine each see the others as steps   *)
(* of this module: who publishes relies on nobody replacing what is there, *)
(* who reads on nothing being removed under it, who removes on finding     *)
(* every reader in inUse.                                                  *)
(***************************************************************************)
CONSTANT Names             \* names a directory may have

VARIABLES
    state,                 \* "absent", "whole" or "bad", for each name
    inUse                  \* the names somebody reads from

rvars == <<state, inUse>>

Init ==
    /\ state \in [Names -> {"absent", "whole"}]
    /\ inUse = {}

Become(n, what) == state' = [state EXCEPT ![n] = what] /\ UNCHANGED inUse

Publish(n) == state[n] = "absent" /\ Become(n, "whole")

Damage(n) == state[n] = "whole" /\ Become(n, "bad")

Remove(n) == state[n] # "absent" /\ n \notin inUse /\ Become(n, "absent")

(* Readers come and go, before they know whether there is anything to read.*)
Use ==
    /\ inUse' \in SUBSET Names
    /\ UNCHANGED state

Next ==
    \/ \E n \in Names : Publish(n) \/ Damage(n) \/ Remove(n)
    \/ Use

Spec == Init /\ [][Next]_rvars
=============================================================================

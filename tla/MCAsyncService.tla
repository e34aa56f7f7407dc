--------------------------- MODULE MCAsyncService ---------------------------
(***************************************************************************)
(* Instances of AsyncService for TLC.                                      *)
(***************************************************************************)
EXTENDS AsyncService, TLC

(* Workers are interchangeable, and so are clients and models: nothing     *)
(* names one of them.  Used for safety only.                               *)
Symmetry == Permutations(Workers) \cup Permutations(Clients) \cup Permutations(Models)
=============================================================================

--------------------------- MODULE MCBatchingPool ---------------------------
(***************************************************************************)
(* Instances of BatchingPool for TLC.                                      *)
(***************************************************************************)
EXTENDS BatchingPool

(* Clear() and the reset of the ghost leave the sentences used up, so the  *)
(* number of sentences bounds every behaviour.                             *)
MCSentences == 1 .. 4
=============================================================================

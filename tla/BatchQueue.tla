----------------------------- MODULE BatchQueue -----------------------------
(***************************************************************************)
(* What a batching pool promises to the code around it, without lengths,   *)
(* buckets or caps: sentences go in once, every batch is a nonempty set of *)
(* sentences that were waiting, and a batch is refused only by a pool that *)
(* has nothing left.  AsyncService draws its batches under this contract;  *)
(* BatchingPool implements it.                                             *)
(***************************************************************************)
EXTENDS FiniteSets

CONSTANT Sentences          \* every sentence a client may submit

VARIABLES
    waiting,                \* submitted and not yet handed out
    batch                   \* the batch the last generateBatch() returned

qvars == <<waiting, batch>>

Init ==
    /\ waiting = {}
    /\ batch = {}

Enqueue ==
    /\ \E new \in SUBSET (Sentences \ waiting) : waiting' = waiting \cup new
    /\ UNCHANGED batch

(* An empty batch is an answer only when nothing waits.                    *)
Take ==
    /\ batch' \in SUBSET waiting
    /\ batch' = {} <=> waiting = {}
    /\ waiting' = waiting \ batch'

Clear ==
    /\ waiting' = {}
    /\ UNCHANGED batch

Next == Enqueue \/ Take \/ Clear

Spec == Init /\ [][Next]_qvars
=============================================================================

--------------------------- MODULE MCBlockingService ------------------------
(***************************************************************************)
(* Model checking BlockingService.                                         *)
(***************************************************************************)
EXTENDS BlockingService, TLC

Symmetry == Permutations(Models)
=============================================================================

-------------------------- MODULE MCDurableRuntime --------------------------
(* Small instances of DurableRuntime for TLC.                               *)
EXTENDS DurableRuntime, TLC

Symmetry == Permutations(Procs)
=============================================================================

---------------------------- MODULE MCLifecycle ----------------------------
(* Small instance of Lifecycle: interchangeable work and lineage ids. *)
EXTENDS Lifecycle, TLC

Symmetry == Permutations(Work) \cup Permutations(Lineage)
=============================================================================

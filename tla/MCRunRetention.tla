--------------------------- MODULE MCRunRetention ---------------------------
(* Small instances of RunRetention: one run, the events it can queue, the     *)
(* constructor's sweep and one thread in sync_once.                           *)
EXTENDS RunRetention, TLC

Symmetry == Permutations(Event)
=============================================================================

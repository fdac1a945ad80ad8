---------------------------- MODULE MC_WriteBack ----------------------------
(* Small instances of WriteBack for TLC. *)
EXTENDS WriteBack, TLC

Symmetry == Permutations(Stores \ Exclusive) \cup Permutations(Flushers \ Refreshers)
=============================================================================

-------------------------- MODULE MC_ObjectManager --------------------------
(* Small instances of ObjectManager for TLC. *)
EXTENDS ObjectManager, TLC

\* Clients and slots are interchangeable (used without liveness only).
Symmetry == Permutations(Clients) \cup Permutations(Slots)
=============================================================================

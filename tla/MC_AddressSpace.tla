--------------------------- MODULE MC_AddressSpace ---------------------------
(* Small instances of AddressSpace for TLC. *)
EXTENDS AddressSpace, TLC

RW == {"R", "W"}
RO == {"R"}
ProtRW == {RW}
ProtBoth == {RW, RO}

CONSTANTS x1, x2

\* Two headers for one external page; the other host pages are of the heap.
OneExternal == [h \in Hosts |-> IF h \in {x1, x2} THEN 0 ELSE NoExtern]
Heap == Hosts \ {x1, x2}

Symmetry == Permutations(Mmus) \cup Permutations(Cpus) \cup Permutations(Heap)
              \cup Permutations(Hosts \ Heap)
              \cup Permutations(Slots) \cup Permutations(Idents)
=============================================================================

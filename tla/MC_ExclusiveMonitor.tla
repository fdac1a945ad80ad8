------------------------- MODULE MC_ExclusiveMonitor -------------------------
(* Small instances of ExclusiveMonitor for TLC: bytes 2 and 3 of one line, with *)
(* accesses of one and two bytes that overlap, byte 67 of a line with the same  *)
(* bucket, and byte 131 of a line with another.                                 *)
EXTENDS ExclusiveMonitor, TLC

MCBucketOf == 0 :> 0 @@ 1 :> 0 @@ 2 :> 1

Symmetry == Permutations(Cpus)

-----------------------------------------------------------------------------
(* CPUs that increment one byte with a ldrex/strex loop, as guest code does.  *)
(* Without plain stores the compare_exchange of an intact strex cannot fail.    *)

Counter == [ptr |-> 3, width |-> 1]

LoopInit == Init /\ mem = [i \in HostBytes |-> 0]

LoopStep(c) ==
    \/ resv[c] = NoResv /\ mem[3] < MaxVersion /\ Ldrex(c, Counter)
    \/ StrexStored(c, Counter, [k \in {0} |-> resv[c].value[k] + 1])
    \/ StrexLost(c, Counter)

LoopSpec ==
    LoopInit /\ [][\E c \in Cpus : LoopStep(c)]_vars /\ \A c \in Cpus : WF_vars(LoopStep(c))

\* Of CPUs that contend for one location one always gets through: its strex
\* never fails for all of them for ever.
Progress == <>(mem[3] = MaxVersion)
=============================================================================

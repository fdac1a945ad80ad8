--------------------------- MODULE ExclusiveMonitor ---------------------------
(***************************************************************************)
(* The software exclusive monitor shared by all CPUs of a fabric           *)
(* (io-mmu/src/cpu_fabric/exclusive_monitor.rs) and the ldrex/strex/clrex  *)
(* helpers compiled code calls (jit-compiler-core/src/ir/ffi_support.rs).  *)
(*                                                                         *)
(* Memory is a function from host bytes to values; an access is an aligned *)
(* pointer with one of the four widths.  The critical section of a bucket  *)
(* is one action: only plain stores can interleave with it, they touch     *)
(* neither bucket nor reservation, so they commute out of it.              *)
(***************************************************************************)
EXTENDS Integers

CONSTANTS Cpus,        \* CPUs, each with its ExecContext
          Ptrs,        \* host pointers the guests use
          Widths,      \* access widths: 1, 2, 4 and 8 bytes in the code
          Buckets,     \* indices of ExclusiveMonitor::reservations
          BucketOf,    \* cache line -> bucket: the hash of reservation_index
          Bytes,       \* values of a byte
          MaxVersion   \* bound: stores per bucket (2^128 - 1 in the code)

CACHE_LINE_SIZE == 64

ASSUME ExclusiveMonitorAssumption ==
    /\ Ptrs \subseteq Nat \ {0}
    /\ Widths \subseteq {1, 2, 4, 8}
    /\ \A p \in Ptrs : BucketOf[p \div CACHE_LINE_SIZE] \in Buckets
    /\ MaxVersion \in Nat

VARIABLES
    slot,      \* bucket -> ReservationSlot
    mem,       \* host byte -> value
    resv,      \* cpu -> ExecContext::exclusive_monitor_reservation
    from,      \* history: cpu -> the access its reservation was taken with
    changed    \* history: cpu -> the bytes that strexes of other cpus wrote since
               \* its ldrex

vars == <<slot, mem, resv, from, changed>>

-----------------------------------------------------------------------------

\* resolve_aligned_scalar_access lets only aligned accesses pass.
Access == {a \in [ptr : Ptrs, width : Widths] : a.ptr % a.width = 0}

Footprint(a) == a.ptr .. (a.ptr + a.width - 1)
HostBytes == UNION {Footprint(a) : a \in Access}

\* An integer as wide as the access, byte by byte: where it was read is not part
\* of it.
Offsets(a) == 0 .. (a.width - 1)
Values(a) == [Offsets(a) -> Bytes]

\* What an access reads, and memory after it has written v.
Value(a) == [k \in Offsets(a) |-> mem[a.ptr + k]]
Written(a, v) ==
    [i \in HostBytes |-> IF i \in Footprint(a) THEN v[i - a.ptr] ELSE mem[i]]

reservation_index(p) == BucketOf[p \div CACHE_LINE_SIZE]

NoPtr == 0
NoAccess == [ptr |-> 0, width |-> 0]
NoResv == [version |-> 0, width |-> 0, value |-> <<>>]

\* Mutants: the store is checked against the pointer only, or against a version
\* that can no longer be.
IntactByPointer(c, a) == slot[reservation_index(a.ptr)].ptr = a.ptr
IntactBelow(c, a) ==
    LET s == slot[reservation_index(a.ptr)]
    IN  s.ptr = a.ptr /\ s.version < resv[c].version

\* ExclusiveMonitor::strex: the bucket still holds ptr at the same version.
Intact(c, a) ==
    LET s == slot[reservation_index(a.ptr)]
    IN  s.ptr = a.ptr /\ s.version = resv[c].version

\* strex finds a reservation, made with its own width.
Matching(c, a) == resv[c] # NoResv /\ resv[c].width = a.width

-----------------------------------------------------------------------------

\* ldrex: reserve the bucket for the pointer and load under its lock.
Ldrex(c, a) ==
    LET b == reservation_index(a.ptr)
    IN  /\ slot' = [slot EXCEPT ![b].ptr = a.ptr]
        /\ resv' = [resv EXCEPT ![c] = [version |-> slot[b].version,
                                        width |-> a.width, value |-> Value(a)]]
        /\ from' = [from EXCEPT ![c] = a]
        /\ changed' = [changed EXCEPT ![c] = {}]
        /\ UNCHANGED mem

\* Option::take on the reservation of c, and the end of its history.
Take(c) ==
    /\ resv' = [resv EXCEPT ![c] = NoResv]
    /\ from' = [from EXCEPT ![c] = NoAccess]

\* The history once c has taken its reservation, and has written the bytes I.
Noted(c, I) ==
    [d \in Cpus |-> IF d = c \/ resv[d] = NoResv THEN {} ELSE changed[d] \cup I]

\* Mutant: a store that leaves the version of its bucket.
StrexStoredUnversioned(c, a, v) ==
    /\ Matching(c, a) /\ Intact(c, a) /\ resv[c].value = Value(a)
    /\ mem' = Written(a, v)
    /\ Take(c)
    /\ changed' = Noted(c, Footprint(a))
    /\ UNCHANGED slot

\* strex that stores: the bucket holds its pointer at the version of the ldrex, and
\* memory the integer the ldrex read, wherever that read it.
StrexStored(c, a, v) ==
    LET b == reservation_index(a.ptr)
    IN  /\ Matching(c, a) /\ Intact(c, a) /\ resv[c].value = Value(a)
        /\ slot[b].version < MaxVersion
        /\ slot' = [slot EXCEPT ![b].version = @ + 1]
        /\ mem' = Written(a, v)
        /\ Take(c)
        /\ changed' = Noted(c, Footprint(a))

\* strex whose compare_exchange fails: the version is bumped all the same.
StrexRaced(c, a) ==
    LET b == reservation_index(a.ptr)
    IN  /\ Matching(c, a) /\ Intact(c, a) /\ resv[c].value # Value(a)
        /\ slot[b].version < MaxVersion
        /\ slot' = [slot EXCEPT ![b].version = @ + 1]
        /\ Take(c)
        /\ changed' = Noted(c, {})
        /\ UNCHANGED mem

\* strex that gives up before the lock (another width, a fault) or after it
\* (ReservationLost): the reservation is taken from the context in any case.
StrexLost(c, a) ==
    /\ resv[c] # NoResv
    /\ ~(Matching(c, a) /\ Intact(c, a))
    /\ Take(c)
    /\ changed' = Noted(c, {})
    /\ UNCHANGED <<slot, mem>>

\* strex whose address does not resolve to a writable page.
StrexFault(c) ==
    /\ resv[c] # NoResv
    /\ Take(c)
    /\ changed' = Noted(c, {})
    /\ UNCHANGED <<slot, mem>>

\* clrex, or a fresh ExecContext.
Clrex(c) ==
    /\ Take(c)
    /\ changed' = Noted(c, {})
    /\ UNCHANGED <<slot, mem>>

\* A plain store of any CPU does not look at the monitor.
Store(a, v) ==
    /\ mem' = Written(a, v)
    /\ UNCHANGED <<slot, resv, from, changed>>

-----------------------------------------------------------------------------

Init ==
    /\ slot = [b \in Buckets |-> [ptr |-> NoPtr, version |-> 0]]
    /\ \E v \in Bytes : mem = [i \in HostBytes |-> v]
    /\ resv = [c \in Cpus |-> NoResv]
    /\ from = [c \in Cpus |-> NoAccess]
    /\ changed = [c \in Cpus |-> {}]

Strex(c, a) ==
    \/ \E v \in Values(a) : StrexStored(c, a, v)
    \/ StrexRaced(c, a)
    \/ StrexLost(c, a)

Next ==
    \/ \E c \in Cpus, a \in Access : Ldrex(c, a) \/ Strex(c, a)
    \/ \E c \in Cpus : StrexFault(c) \/ Clrex(c)
    \/ \E a \in Access : \E v \in Values(a) : Store(a, v)

Spec == Init /\ [][Next]_vars

-----------------------------------------------------------------------------
(* Properties *)

\* Types of the state.
TypeOK ==
    /\ slot \in [Buckets -> [ptr : Ptrs \cup {NoPtr}, version : Nat]]
    /\ mem \in [HostBytes -> Bytes]
    /\ DOMAIN resv = Cpus
    /\ \A c \in Cpus : resv[c] # NoResv =>
          /\ from[c] \in Access
          /\ resv[c].version \in Nat
          /\ resv[c].width = from[c].width
          /\ resv[c].value \in Values(from[c])
    /\ from \in [Cpus -> Access \cup {NoAccess}]
    /\ changed \in [Cpus -> SUBSET HostBytes]

\* A reservation is never newer than its bucket, and once a strex of another CPU
\* has written a byte of that bucket, of whatever width and through whatever
\* pointer, reserved by it or not, the bucket has moved past it for good.
ReservationsExpire ==
    \A c \in Cpus : resv[c] # NoResv =>
        LET b == reservation_index(from[c].ptr)
        IN  /\ resv[c].version <= slot[b].version
            /\ \A i \in changed[c] :
                  reservation_index(i) = b => resv[c].version < slot[b].version

\* Once another CPU's strex has written a byte since the ldrex, even with the value
\* that was there, no strex into the bucket of that ldrex stores over it, at the
\* reserved address or another: at the reserved address, load and store are one
\* atomic update among exclusive accesses.
StrexAtomic ==
    [][\A c \in Cpus, a \in Access :
         (/\ reservation_index(a.ptr) = reservation_index(from[c].ptr)
          /\ Footprint(a) \cap changed[c] # {})
            => \A v \in Values(a) : ~StrexStored(c, a, v)]_vars

\* Aliasing causes "never a wrongly successful store" (the module's own docs): a
\* strex stores only what its CPU reserved.  The bucket does not say who reserved
\* its pointer, so this does not hold (ExclusiveMonitor_alias.cfg).
StrexReserved ==
    [][\A c \in Cpus, a \in Access :
         (\E v \in Values(a) : StrexStored(c, a, v)) => a = from[c]]_vars
=============================================================================

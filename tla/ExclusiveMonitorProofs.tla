------------------------ MODULE ExclusiveMonitorProofs ------------------------
(***************************************************************************)
(* Machine-checked proofs about ExclusiveMonitor, for every set of CPUs,   *)
(* pointers and buckets and every hash of cache lines to buckets.          *)
(***************************************************************************)
EXTENDS ExclusiveMonitor, TLAPS

\* Pointers and widths are numbers.
LEMMA AccessTyped ==
    ASSUME NEW a \in Access
    PROVE  a.ptr \in Nat /\ a.width \in {1, 2, 4, 8} /\ a.width \in Nat
<1>1. a.ptr \in Ptrs /\ a.width \in Widths
  BY DEF Access
<1>2. a.ptr \in Nat /\ a.width \in {1, 2, 4, 8}
  BY <1>1, ExclusiveMonitorAssumption
<1> QED
  BY <1>2

\* An aligned access lies in one cache line.
LEMMA OneLine ==
    ASSUME NEW a \in Access, NEW i \in Footprint(a)
    PROVE  i \div CACHE_LINE_SIZE = a.ptr \div CACHE_LINE_SIZE
<1>1. /\ a.ptr \in Nat /\ a.width \in {1, 2, 4, 8} /\ a.ptr % a.width = 0
      /\ i \in Int /\ a.ptr <= i /\ i <= a.ptr + a.width - 1
  <2>1. a.ptr % a.width = 0
    BY DEF Access
  <2>2. a.ptr \in Nat /\ a.width \in {1, 2, 4, 8}
    BY AccessTyped
  <2>3. a.ptr \in Int /\ a.ptr + a.width - 1 \in Int
    BY <2>2
  <2>4. i \in Int /\ a.ptr <= i /\ i <= a.ptr + a.width - 1
    BY <2>3 DEF Footprint
  <2> QED
    BY <2>1, <2>2, <2>4
<1>2. CASE a.width = 1
  BY <1>1, <1>2 DEF CACHE_LINE_SIZE
<1>3. CASE a.width = 2
  BY <1>1, <1>3 DEF CACHE_LINE_SIZE
<1>4. CASE a.width = 4
  BY <1>1, <1>4 DEF CACHE_LINE_SIZE
<1>5. CASE a.width = 8
  BY <1>1, <1>5 DEF CACHE_LINE_SIZE
<1> QED
  BY <1>1, <1>2, <1>3, <1>4, <1>5

\* Every byte of an access has the bucket of its pointer.
LEMMA SameBucket ==
    ASSUME NEW a \in Access, NEW i \in Footprint(a)
    PROVE  reservation_index(i) = reservation_index(a.ptr)
  BY OneLine DEF reservation_index

\* Every access has a bucket.
LEMMA HasBucket ==
    ASSUME NEW a \in Access
    PROVE  reservation_index(a.ptr) \in Buckets
<1>1. a.ptr \in Ptrs
  BY DEF Access
<1> QED
  BY <1>1, ExclusiveMonitorAssumption DEF reservation_index

Inv == TypeOK /\ ReservationsExpire

\* ldrex takes a fresh reservation at the version its bucket has.
LEMMA LdrexStep ==
    ASSUME Inv, NEW c \in Cpus, NEW a \in Access, Ldrex(c, a)
    PROVE  Inv'
<1> DEFINE b == reservation_index(a.ptr)
<1>a. TypeOK /\ ReservationsExpire
  BY DEF Inv
<1>b. /\ b \in Buckets /\ a.ptr \in Ptrs /\ slot[b].version \in Nat
      /\ \A k \in Offsets(a) : a.ptr + k \in HostBytes
  <2>1. b \in Buckets /\ a.ptr \in Ptrs /\ slot[b].version \in Nat
    BY <1>a, HasBucket DEF TypeOK, Access
  <2>2. a.ptr \in Nat /\ a.width \in Nat
    BY AccessTyped
  <2>3. \A k \in Offsets(a) : a.ptr + k \in Footprint(a)
    BY <2>2 DEF Offsets, Footprint
  <2> QED
    BY <2>1, <2>3 DEF HostBytes
<1>c. /\ slot' \in [Buckets -> [ptr : Ptrs \cup {NoPtr}, version : Nat]]
      /\ \A k \in Buckets : slot'[k].version = slot[k].version
  BY <1>a, <1>b DEF Ldrex, TypeOK
<1>d. /\ DOMAIN resv' = Cpus /\ from' \in [Cpus -> Access \cup {NoAccess}]
      /\ resv'[c].version = slot[b].version /\ resv'[c].width = a.width
      /\ resv'[c].value = Value(a) /\ from'[c] = a
      /\ \A d \in Cpus \ {c} : resv'[d] = resv[d] /\ from'[d] = from[d]
  BY <1>a DEF Ldrex, TypeOK
<1>e. Value(a) \in Values(a)
  BY <1>a, <1>b DEF Value, Values, TypeOK
<1>f. /\ changed' \in [Cpus -> SUBSET HostBytes] /\ mem' = mem
      /\ changed'[c] = {} /\ \A d \in Cpus \ {c} : changed'[d] = changed[d]
  BY <1>a DEF Ldrex, TypeOK
<1>1. TypeOK'
  BY <1>a, <1>b, <1>c, <1>d, <1>e, <1>f DEF TypeOK, Values, Offsets
<1>2. ReservationsExpire'
  <2> SUFFICES ASSUME NEW d \in Cpus, resv'[d] # NoResv
               PROVE  LET k == reservation_index(from'[d].ptr)
                      IN  /\ resv'[d].version <= slot'[k].version
                          /\ \A i \in changed'[d] : reservation_index(i) = k
                                => resv'[d].version < slot'[k].version
    BY DEF ReservationsExpire, reservation_index
  <2>1. CASE d = c
    BY <2>1, <1>b, <1>c, <1>d, <1>f
  <2>2. CASE d # c
    <3>1. reservation_index(from[d].ptr) \in Buckets
      BY <2>2, <1>a, <1>d, HasBucket DEF TypeOK
    <3> QED
      BY <2>2, <3>1, <1>a, <1>c, <1>d, <1>f DEF ReservationsExpire
  <2> QED
    BY <2>1, <2>2
<1> QED
  BY <1>1, <1>2 DEF Inv

\* A strex that reaches the version bump ends the reservations it has to end.
LEMMA BumpStep ==
    ASSUME Inv, NEW c \in Cpus, NEW a \in Access, NEW I, I \subseteq Footprint(a),
           slot' = [slot EXCEPT ![reservation_index(a.ptr)].version = @ + 1],
           mem' \in [HostBytes -> Bytes], Take(c), changed' = Noted(c, I)
    PROVE  Inv'
<1> DEFINE b == reservation_index(a.ptr)
<1>a. TypeOK /\ ReservationsExpire
  BY DEF Inv
<1>b. b \in Buckets
  BY HasBucket
<1>c. /\ slot' \in [Buckets -> [ptr : Ptrs \cup {NoPtr}, version : Nat]]
      /\ slot'[b].version = slot[b].version + 1
      /\ \A k \in Buckets \ {b} : slot'[k].version = slot[k].version
      /\ \A k \in Buckets : slot[k].version \in Nat
  BY <1>a, <1>b DEF TypeOK
<1>d. /\ DOMAIN resv' = Cpus /\ resv'[c] = NoResv
      /\ from' \in [Cpus -> Access \cup {NoAccess}]
      /\ \A d \in Cpus \ {c} : resv'[d] = resv[d] /\ from'[d] = from[d]
  BY <1>a DEF TypeOK, Take
<1>e. \A d \in Cpus : changed'[d] = IF d = c \/ resv[d] = NoResv THEN {} ELSE changed[d] \cup I
  BY DEF Noted
<1>1. TypeOK'
  <2>1. I \subseteq HostBytes
    BY DEF HostBytes
  <2>2. changed' \in [Cpus -> SUBSET HostBytes]
    BY <1>a, <2>1 DEF TypeOK, Noted
  <2> QED
    BY <1>a, <1>c, <1>d, <2>2 DEF TypeOK, Values, Offsets
<1>2. ReservationsExpire'
  <2> SUFFICES ASSUME NEW d \in Cpus, resv'[d] # NoResv
               PROVE  LET k == reservation_index(from'[d].ptr)
                      IN  /\ resv'[d].version <= slot'[k].version
                          /\ \A i \in changed'[d] : reservation_index(i) = k
                                => resv'[d].version < slot'[k].version
    BY DEF ReservationsExpire, reservation_index
  <2>1. /\ d # c /\ resv'[d] = resv[d] /\ from'[d] = from[d] /\ from[d] \in Access
        /\ resv[d].version \in Nat /\ reservation_index(from[d].ptr) \in Buckets
    BY <1>a, <1>d, HasBucket DEF TypeOK
  <2>2. CASE reservation_index(from[d].ptr) = b
    BY <2>1, <2>2, <1>a, <1>b, <1>c DEF ReservationsExpire
  <2>3. CASE reservation_index(from[d].ptr) # b
    <3>1. \A i \in I : reservation_index(i) # reservation_index(from[d].ptr)
      BY <2>3, SameBucket
    <3> QED
      BY <2>1, <2>3, <3>1, <1>a, <1>c, <1>e DEF ReservationsExpire
  <2> QED
    BY <2>2, <2>3
<1> QED
  BY <1>1, <1>2 DEF Inv

\* Giving a reservation up, and plain stores, change no bucket.
LEMMA QuietStep ==
    ASSUME Inv, UNCHANGED slot, mem' \in [HostBytes -> Bytes],
           \/ UNCHANGED <<resv, from, changed>>
           \/ \E c \in Cpus : Take(c) /\ changed' = Noted(c, {})
    PROVE  Inv'
<1>a. TypeOK /\ ReservationsExpire
  BY DEF Inv
<1>b. /\ DOMAIN resv' = Cpus /\ from' \in [Cpus -> Access \cup {NoAccess}]
      /\ changed' \in [Cpus -> SUBSET HostBytes]
      /\ \A d \in Cpus : resv'[d] # NoResv =>
            resv'[d] = resv[d] /\ from'[d] = from[d] /\ changed'[d] = changed[d]
  <2>1. CASE UNCHANGED <<resv, from, changed>>
    BY <1>a, <2>1 DEF TypeOK
  <2>2. CASE \E c \in Cpus : Take(c) /\ changed' = Noted(c, {})
    BY <1>a, <2>2 DEF TypeOK, Take, Noted
  <2> QED
    BY <2>1, <2>2
<1>1. TypeOK'
  BY <1>a, <1>b DEF TypeOK, Values, Offsets
<1>2. ReservationsExpire'
  BY <1>a, <1>b DEF ReservationsExpire, reservation_index
<1> QED
  BY <1>1, <1>2 DEF Inv

\* Memory keeps its type under writes of values.
LEMMA WrittenType ==
    ASSUME TypeOK, NEW a \in Access, NEW v \in Values(a)
    PROVE  Written(a, v) \in [HostBytes -> Bytes]
<1>1. a.ptr \in Nat /\ a.width \in Nat
  BY AccessTyped
<1>2. \A i \in Footprint(a) : i - a.ptr \in Offsets(a)
  BY <1>1 DEF Footprint, Offsets
<1> QED
  BY <1>2 DEF TypeOK, Written, Values

\* Every step keeps types and expiry.
LEMMA NextPreserves ==
    ASSUME Inv, [Next]_vars
    PROVE  Inv'
<1>a. TypeOK /\ mem \in [HostBytes -> Bytes]
  BY DEF Inv, TypeOK
<1>1. ASSUME NEW c \in Cpus, NEW a \in Access, Ldrex(c, a)
      PROVE  Inv'
  BY <1>1, LdrexStep
<1>2. ASSUME NEW c \in Cpus, NEW a \in Access, NEW v \in Values(a),
             StrexStored(c, a, v)
      PROVE  Inv'
  <2>1. mem' \in [HostBytes -> Bytes]
    BY <1>2, <1>a, WrittenType DEF StrexStored
  <2> QED
    BY <1>2, <2>1, BumpStep DEF StrexStored
<1>3. ASSUME NEW c \in Cpus, NEW a \in Access, StrexRaced(c, a)
      PROVE  Inv'
  <2> DEFINE I == {}
  <2>1. I \subseteq Footprint(a) /\ changed' = Noted(c, I)
    BY <1>3 DEF StrexRaced
  <2> HIDE DEF I
  <2> QED
    BY <1>3, <1>a, <2>1, BumpStep DEF StrexRaced
<1>4. ASSUME NEW c \in Cpus, NEW a \in Access, StrexLost(c, a)
      PROVE  Inv'
  BY <1>4, <1>a, QuietStep DEF StrexLost
<1>5. ASSUME NEW c \in Cpus, StrexFault(c) \/ Clrex(c)
      PROVE  Inv'
  BY <1>5, <1>a, QuietStep DEF StrexFault, Clrex
<1>6. ASSUME NEW a \in Access, NEW v \in Values(a), Store(a, v)
      PROVE  Inv'
  BY <1>6, <1>a, QuietStep, WrittenType DEF Store
<1>7. ASSUME UNCHANGED vars
      PROVE  Inv'
  BY <1>7, <1>a, QuietStep DEF vars
<1> QED
  BY <1>1, <1>2, <1>3, <1>4, <1>5, <1>6, <1>7 DEF Next, Strex

\* They hold before the first ldrex.
LEMMA InitEstablishes ==
    ASSUME Init
    PROVE  Inv
<1>1. TypeOK
  BY DEF Init, TypeOK
<1>2. ReservationsExpire
  BY DEF Init, ReservationsExpire
<1> QED
  BY <1>1, <1>2 DEF Inv

\* The state of the monitor always has its type, and a reservation always
\* expires when a strex of another CPU writes a byte of its bucket.
THEOREM Expiry == Spec => [](TypeOK /\ ReservationsExpire)
<1>1. Spec => []Inv
  BY InitEstablishes, NextPreserves, PTL DEF Spec
<1> QED
  BY <1>1, PTL DEF Inv

\* A strex into the bucket of its ldrex never stores over what another CPU's strex
\* wrote since.
THEOREM Atomicity == Spec => StrexAtomic
<1> DEFINE A == \A c \in Cpus, a \in Access :
                  (/\ reservation_index(a.ptr) = reservation_index(from[c].ptr)
                   /\ Footprint(a) \cap changed[c] # {})
                     => \A v \in Values(a) : ~StrexStored(c, a, v)
<1>1. ASSUME Inv
      PROVE  A
  <2> SUFFICES ASSUME NEW c \in Cpus, NEW a \in Access, NEW v \in Values(a),
                      reservation_index(a.ptr) = reservation_index(from[c].ptr),
                      NEW i \in Footprint(a) \cap changed[c], StrexStored(c, a, v)
               PROVE  FALSE
    OBVIOUS
  <2>1. /\ resv[c] # NoResv
        /\ slot[reservation_index(from[c].ptr)].version = resv[c].version
    BY DEF StrexStored, Matching, Intact
  <2>2. reservation_index(i) = reservation_index(from[c].ptr)
    BY SameBucket
  <2>3. resv[c].version < slot[reservation_index(from[c].ptr)].version
    BY <1>1, <2>1, <2>2 DEF Inv, ReservationsExpire
  <2>4. resv[c].version \in Nat
    BY <1>1, <2>1 DEF Inv, TypeOK
  <2> QED
    BY <2>1, <2>3, <2>4
<1>2. Spec => []Inv
  BY InitEstablishes, NextPreserves, PTL DEF Spec
<1> QED
  BY <1>1, <1>2, PTL DEF StrexAtomic
=============================================================================

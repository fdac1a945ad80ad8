----------------------------- MODULE AccessProofs -----------------------------
(***************************************************************************)
(* Machine-checked proofs about guest accesses, for every number of CPUs    *)
(* and shards, every size of lines and pages and every table.  First the    *)
(* locks of the Miri back end: two copies that conflict never overlap, and  *)
(* CPUs never wait for one another in a ring.  Then the bytes: every access *)
(* that is not refused loads and stores each of its bytes once, at the      *)
(* place the table gives it, and marks the pages it has to; every other one *)
(* is refused for a reason and leaves no trace.                             *)
(***************************************************************************)
EXTENDS Access, SequenceTheorems, FiniteSetTheorems, WellFoundedInduction, TLAPS

-----------------------------------------------------------------------------
(* Induction, by the least counterexample                                   *)

LEMMA Least ==
    ASSUME NEW T \in SUBSET Nat, T # {}
    PROVE  \E x \in T : \A y \in T : x <= y
<1>1. \E x \in T : \A y \in T : ~ (<<y, x>> \in OpToRel(<, Nat))
  BY NatLessThanWellFounded, WFMin
<1>2. \A x, y \in Nat : <<y, x>> \in OpToRel(<, Nat) <=> y < x
  BY DEF OpToRel
<1>3. \E x \in T : \A y \in T : ~ (y < x)
  BY <1>1, <1>2
<1> QED
  BY <1>3

-----------------------------------------------------------------------------
(* Sequences                                                                *)

LEMMA FunctionSeq ==
    ASSUME NEW S, NEW n \in Int, NEW f \in [1..n -> S]
    PROVE  f \in Seq(S)
<1>1. CASE n >= 0
  BY <1>1
<1>2. CASE n < 0
  <2>1. 1..n = 1..0
    BY <1>2
  <2> QED
    BY <2>1
<1> QED
  BY <1>1

LEMMA Singleton ==
    ASSUME NEW S, NEW x \in S
    PROVE  <<x>> \in Seq(S)
OBVIOUS

\* The flattening function of FlattenSeq exists, up to every index.
Flattens(f, s, n) == f = [i \in 1..n |-> IF i = 1 THEN s[i] ELSE f[i - 1] \o s[i]]

LEMMA FlattensExists ==
    ASSUME NEW s, NEW n \in Nat
    PROVE  \E f : Flattens(f, s, n)
<1> DEFINE T == {k \in Nat : ~ \E f : Flattens(f, s, k)}
<1> SUFFICES ASSUME T # {}
             PROVE  FALSE
  OBVIOUS
<1>1. PICK k \in T : \A j \in T : k <= j
  BY Least
<1>3. CASE k = 0
  <2>1. Flattens([i \in 1..0 |-> s], s, 0)
    BY DEF Flattens
  <2> QED
    BY <1>3, <2>1
<1>4. CASE k > 0
  <2>1. k - 1 \in Nat /\ k - 1 \notin T
    BY <1>1, <1>4
  <2>2. PICK g : Flattens(g, s, k - 1)
    BY <2>1
  <2> DEFINE h == [i \in 1..k |-> IF i < k THEN g[i]
                                  ELSE IF i = 1 THEN s[1] ELSE g[k - 1] \o s[k]]
  <2>3. \A i \in 1..(k - 1) : g[i] = IF i = 1 THEN s[i] ELSE g[i - 1] \o s[i]
    BY <2>2 DEF Flattens
  <2>4. ASSUME NEW i \in 1..k
        PROVE  h[i] = IF i = 1 THEN s[i] ELSE h[i - 1] \o s[i]
    <3>1. CASE i < k
      BY <2>3
    <3>2. CASE i = k
      BY <3>2
    <3> QED
      BY <3>1
  <2>5. Flattens(h, s, k)
    BY <2>4 DEF Flattens
  <2> QED
    BY <2>5
<1> QED
  BY <1>3, <1>4

\* Flattening sequences of elements of S gives a sequence of elements of S.
LEMMA FlattenType ==
    ASSUME NEW S, NEW s \in Seq(Seq(S))
    PROVE  FlattenSeq(s) \in Seq(S)
<1>1. Len(s) \in Nat /\ s \in [1..Len(s) -> Seq(S)]
  BY LenProperties
<1>2. CASE Len(s) = 0
  <2> QED
    BY <1>2 DEF FlattenSeq
<1>3. CASE Len(s) > 0
  <2> DEFINE f == CHOOSE f : f = [i \in 1..Len(s) |-> IF i = 1 THEN s[i] ELSE f[i - 1] \o s[i]]
  <2>1. f = [i \in 1..Len(s) |-> IF i = 1 THEN s[i] ELSE f[i - 1] \o s[i]]
    <3>1. \E g : g = [i \in 1..Len(s) |-> IF i = 1 THEN s[i] ELSE g[i - 1] \o s[i]]
      BY <1>1, FlattensExists DEF Flattens
    <3> QED
      BY <3>1
  <2>2. FlattenSeq(s) = f[Len(s)]
    BY <1>3 DEF FlattenSeq
  <2> HIDE DEF f
  <2> DEFINE T == {k \in 1..Len(s) : f[k] \notin Seq(S)}
  <2>3. ASSUME T # {}
        PROVE  FALSE
    <3>1. PICK k \in T : \A j \in T : k <= j
      <4>1. T \in SUBSET Nat
        BY <1>1
      <4> QED
        BY <2>3, <4>1, Least
    <3>2. k \in 1..Len(s) /\ f[k] \notin Seq(S) /\ f[k] = IF k = 1 THEN s[k] ELSE f[k - 1] \o s[k]
      BY <2>1
    <3>3. CASE k = 1
      BY <3>2, <3>3
    <3>4. CASE k > 1
      <4>1. k - 1 \in 1..Len(s) /\ k - 1 \notin T
        BY <3>1, <3>2
      <4>2. f[k - 1] \in Seq(S) /\ s[k] \in Seq(S)
        BY <4>1
      <4> QED
        BY <3>2, <4>2
    <3> QED
      BY <3>2, <3>4
  <2> QED
    BY <1>3, <2>2, <2>3
<1> QED
  BY <1>2, <1>3

-----------------------------------------------------------------------------
(* Quotients and remainders                                                 *)

LEMMA DivMod ==
    ASSUME NEW a \in Int, NEW c \in Nat \ {0}
    PROVE  /\ a \div c \in Int /\ a % c \in Int
           /\ a = c * (a \div c) + (a % c) /\ 0 <= a % c /\ a % c < c
OBVIOUS

LEMMA DivModUnique ==
    ASSUME NEW c \in Nat \ {0}, NEW q \in Int, NEW r \in Int, NEW p \in Int, NEW s \in Int,
           c * q + r = c * p + s, 0 <= r, r < c, 0 <= s, s < c
    PROVE  q = p /\ r = s
<1>1. CASE q < p
  <2>1. c * (q + 1) <= c * p
    BY <1>1
  <2> QED
    BY <2>1
<1>2. CASE q > p
  <2>1. c * (p + 1) <= c * q
    BY <1>2
  <2> QED
    BY <2>1
<1> QED
  BY <1>1, <1>2

LEMMA DivMonotonic ==
    ASSUME NEW a \in Int, NEW b \in Int, NEW c \in Nat \ {0}, a <= b
    PROVE  a \div c <= b \div c
<1> SUFFICES ASSUME b \div c < a \div c
             PROVE  FALSE
  BY DivMod
<1>1. c * (b \div c + 1) <= c * (a \div c)
  BY DivMod
<1> QED
  BY <1>1, DivMod

LEMMA DivNext ==
    ASSUME NEW a \in Int, NEW c \in Nat \ {0}
    PROVE  (a + c) \div c = a \div c + 1 /\ (a + c) % c = a % c
<1>1. a + c = c * (a \div c + 1) + (a % c)
  BY DivMod
<1>2. a + c = c * ((a + c) \div c) + ((a + c) % c) /\ (a + c) % c \in 0..(c - 1)
  BY DivMod
<1>3. a \div c + 1 \in Int /\ (a + c) \div c \in Int /\ a % c \in 0..(c - 1)
  BY DivMod
<1> QED
  BY <1>1, <1>2, <1>3, DivModUnique

\* Neighbours have different remainders.
LEMMA ModStep ==
    ASSUME NEW a \in Int, NEW c \in Nat, c > 1
    PROVE  a % c # (a + 1) % c
<1> DEFINE q == a \div c
           p == (a + 1) \div c
<1>1. q \in Int /\ a % c \in Int /\ a = c * q + (a % c)
  BY DivMod
<1>2. p \in Int /\ (a + 1) % c \in Int /\ a + 1 = c * p + ((a + 1) % c)
  BY DivMod
<1> HIDE DEF q, p
<1> SUFFICES ASSUME a % c = (a + 1) % c
             PROVE  FALSE
  OBVIOUS
<1>3. c * p = c * q + 1
  BY <1>1, <1>2
<1>4. CASE p <= q
  <2>1. c * p <= c * q
    BY <1>1, <1>2, <1>4
  <2> QED
    BY <1>1, <1>2, <1>3, <2>1
<1>5. CASE p > q
  <2>1. c * (q + 1) <= c * p
    BY <1>1, <1>2, <1>5
  <2> QED
    BY <1>1, <1>2, <1>3, <2>1
<1> QED
  BY <1>1, <1>2, <1>4, <1>5

\* The remainders of a run of fewer than c numbers are a range, or, when the run
\* crosses a multiple of c, the numbers below c without a range.
LEMMA ModOfRun ==
    ASSUME NEW c \in Nat \ {0}, NEW a \in Int, NEW x \in Int, NEW b \in Int,
           a <= x, x <= b, b - a + 1 < c
    PROVE  /\ a % c <= b % c => a % c <= x % c /\ x % c <= b % c
           /\ a % c > b % c => x % c <= b % c \/ x % c >= a % c
<1>1. a \div c <= x \div c /\ x \div c <= b \div c
  BY DivMonotonic
<1>2. b \div c <= a \div c + 1
  BY DivMonotonic, DivNext
<1>3. CASE a \div c = b \div c
  BY <1>1, <1>3, DivMod
<1>4. CASE b \div c = a \div c + 1
  <2>1. b = c * (a \div c) + c + (b % c)
    BY <1>4, DivMod
  <2>2. a % c > b % c
    BY <2>1, DivMod
  <2>3. CASE x \div c = a \div c
    BY <2>2, <2>3, DivMod
  <2>4. CASE x \div c = b \div c
    BY <2>2, <2>4, DivMod
  <2> QED
    BY <1>1, <1>4, <2>2, <2>3, <2>4, DivMod
<1> QED
  BY <1>1, <1>2, <1>3, <1>4, DivMod

-----------------------------------------------------------------------------
(* The lock plans                                                           *)

\* The host addresses from `at` on are all covered by the shards of L.
Covers(L, at, width) ==
    \A h \in at..(at + width - 1) : shard_of(line_of(h)) \in L

Ascending(s) == \A i, j \in 1..Len(s) : i < j => s[i] < s[j]

\* A lock plan: shards in ascending order that cover an access.
LockPlan(s, at, width) ==
    s \in Seq(Shards) /\ Ascending(s) /\ Covers(Range(s), at, width)

LEMMA ShardOf ==
    ASSUME NEW line \in Int
    PROVE  shard_of(line) \in Shards /\ Shards \subseteq Int
BY MemOpsAssumption DEF shard_of, Shards

\* A range of shards.
LEMMA RangeOfShards ==
    ASSUME NEW i \in Int, NEW j \in Int, \A x \in i..j : x \in Shards
    PROVE  /\ RangeSeq(i, j) \in Seq(Shards) /\ Ascending(RangeSeq(i, j))
           /\ Range(RangeSeq(i, j)) = i..j
           /\ \A k \in 1..Len(RangeSeq(i, j)) : RangeSeq(i, j)[k] \in i..j
<1> DEFINE n == j - i + 1
           s == RangeSeq(i, j)
<1>1. s = [k \in 1..n |-> i + k - 1]
  BY DEF RangeSeq
<1>2. \A k \in 1..n : i + k - 1 \in i..j
  OBVIOUS
<1>3. s \in [1..n -> Shards]
  BY <1>1
<1>4. s \in Seq(Shards)
  BY <1>3
<1>5. 1..Len(s) = 1..n /\ DOMAIN s = 1..n
  BY <1>3
<1>6. ASSUME NEW k \in 1..Len(s)
      PROVE  k \in Int /\ k \in 1..n /\ s[k] = i + k - 1
  <2>1. k \in 1..n
    BY <1>5
  <2> QED
    BY <1>1, <2>1
<1>7. Ascending(s)
  BY <1>6 DEF Ascending
<1>8. ASSUME NEW x \in i..j
      PROVE  x \in Range(s)
  <2>1. x - i + 1 \in DOMAIN s /\ s[x - i + 1] = x
    BY <1>1
  <2> QED
    BY <2>1 DEF Range
<1>9. ASSUME NEW x \in Range(s)
      PROVE  x \in i..j
  BY <1>2, <1>5, <1>6, SMTT(40) DEF Range
<1> QED
  BY <1>2, <1>4, <1>6, <1>7, <1>8, <1>9

\* Plans one below the other.
LEMMA AscendingConcat ==
    ASSUME NEW s \in Seq(Shards), NEW t \in Seq(Shards), Ascending(s), Ascending(t),
           \A i \in 1..Len(s), j \in 1..Len(t) : s[i] < t[j]
    PROVE  /\ s \o t \in Seq(Shards) /\ Ascending(s \o t)
           /\ Range(s \o t) = Range(s) \cup Range(t)
<1>2. ASSUME NEW i \in 1..Len(s \o t), NEW j \in 1..Len(s \o t), i < j
      PROVE  (s \o t)[i] < (s \o t)[j]
  <2>1. CASE j <= Len(s)
    BY <1>2, <2>1 DEF Ascending
  <2>2. CASE i > Len(s)
    BY <1>2, <2>2 DEF Ascending
  <2>3. CASE i <= Len(s) /\ j > Len(s)
    BY <2>3
  <2> QED
    BY <2>1, <2>2
<1>3. Ascending(s \o t)
  BY <1>2 DEF Ascending
<1>4. Range(s \o t) = Range(s) \cup Range(t)
  BY RangeConcatenation
<1> QED
  BY <1>3, <1>4

\* The lines of a run of addresses lie between the first and the last.
LEMMA LinesBetween ==
    ASSUME NEW at \in Int, NEW width \in Int, NEW h \in at..(at + width - 1)
    PROVE  /\ line_of(at) \in Int /\ line_of(h) \in Int /\ line_of(at + width - 1) \in Int
           /\ line_of(at) <= line_of(h) /\ line_of(h) <= line_of(at + width - 1)
BY MemOpsAssumption DEF line_of

\* bulk_mem_op locks a run of lines in ascending order of their shards, also when
\* it wraps around or takes them all.
LEMMA BulkPlan ==
    ASSUME NEW at \in Int, NEW count \in Int
    PROVE  LockPlan(bulk_shards(at, count), at, count)
<1> DEFINE C == SHARDED_LOCK_COUNT
           first == line_of(at)
           last == line_of(at + count - 1)
           fs == shard_of(first)
           ls == shard_of(last)
<1>a. C \in Nat \ {0} /\ Shards = 0..(C - 1)
  BY MemOpsAssumption DEF Shards
<1>b. first \in Int /\ last \in Int
  BY MemOpsAssumption DEF line_of
<1>c. fs \in Shards /\ ls \in Shards /\ fs \in Int /\ ls \in Int
  BY <1>b, ShardOf
<1>d. ASSUME NEW h \in at..(at + count - 1)
      PROVE  line_of(h) \in Int /\ first <= line_of(h) /\ line_of(h) <= last
  BY LinesBetween
<1>1. CASE last - first + 1 >= C
  <2>1. bulk_shards(at, count) = RangeSeq(0, C - 1)
    BY <1>1, <1>b, <1>a DEF bulk_shards
  <2>2. /\ RangeSeq(0, C - 1) \in Seq(Shards) /\ Ascending(RangeSeq(0, C - 1))
        /\ Range(RangeSeq(0, C - 1)) = Shards
    BY <1>a, RangeOfShards
  <2>3. Covers(Shards, at, count)
    BY <1>d, ShardOf DEF Covers
  <2> QED
    BY <2>1, <2>2, <2>3 DEF LockPlan
<1>2. CASE last - first + 1 < C /\ fs <= ls
  <2>1. bulk_shards(at, count) = RangeSeq(fs, ls)
    BY <1>2 DEF bulk_shards
  <2>2. /\ RangeSeq(fs, ls) \in Seq(Shards) /\ Ascending(RangeSeq(fs, ls))
        /\ Range(RangeSeq(fs, ls)) = fs..ls
    BY <1>a, <1>c, RangeOfShards
  <2>3. ASSUME NEW h \in at..(at + count - 1)
        PROVE  shard_of(line_of(h)) \in fs..ls
    <3>1. line_of(h) \in Int /\ first <= line_of(h) /\ line_of(h) <= last
      BY <1>d
    <3>2. shard_of(line_of(h)) \in Int
      BY <3>1, ShardOf
    <3>3. fs <= shard_of(line_of(h)) /\ shard_of(line_of(h)) <= ls
      BY <1>2, <1>a, <1>b, <3>1, ModOfRun DEF shard_of
    <3> QED
      BY <3>2, <3>3
  <2> QED
    BY <2>1, <2>2, <2>3 DEF LockPlan, Covers
<1>3. CASE last - first + 1 < C /\ ~(fs <= ls)
  <2> DEFINE low == RangeSeq(0, ls)
             high == RangeSeq(fs, C - 1)
  <2>1. bulk_shards(at, count) = low \o high
    BY <1>3, <1>b, <1>a, SMTT(40) DEF bulk_shards
  <2>2. /\ low \in Seq(Shards) /\ Ascending(low) /\ Range(low) = 0..ls
        /\ \A k \in 1..Len(low) : low[k] \in 0..ls
    <3>1. \A x \in 0..ls : x \in Shards
      BY <1>a, <1>c
    <3> QED
      BY <1>c, <3>1, RangeOfShards
  <2>3. /\ high \in Seq(Shards) /\ Ascending(high) /\ Range(high) = fs..(C - 1)
        /\ \A k \in 1..Len(high) : high[k] \in fs..(C - 1)
    <3>1. \A x \in fs..(C - 1) : x \in Shards
      BY <1>a, <1>c
    <3>2. C - 1 \in Int
      BY <1>a
    <3> QED
      BY <1>c, <3>1, <3>2, RangeOfShards
  <2> HIDE DEF low, high
  <2>4. ASSUME NEW i \in 1..Len(low), NEW j \in 1..Len(high)
        PROVE  low[i] < high[j]
    <3>1. low[i] \in 0..ls /\ high[j] \in fs..(C - 1)
      BY <2>2, <2>3
    <3> QED
      BY <1>c, <1>3, <3>1
  <2>5. /\ low \o high \in Seq(Shards) /\ Ascending(low \o high)
        /\ Range(low \o high) = (0..ls) \cup (fs..(C - 1))
    BY <2>2, <2>3, <2>4, AscendingConcat
  <2>6. ASSUME NEW h \in at..(at + count - 1)
        PROVE  shard_of(line_of(h)) \in (0..ls) \cup (fs..(C - 1))
    <3>1. shard_of(line_of(h)) <= ls \/ shard_of(line_of(h)) >= fs
      BY <1>3, <1>a, <1>d, ModOfRun DEF shard_of
    <3>2. shard_of(line_of(h)) \in 0..(C - 1)
      BY <1>a, <1>d, ShardOf
    <3> QED
      BY <3>1, <3>2
  <2> QED
    BY <2>1, <2>5, <2>6 DEF LockPlan, Covers
<1> QED
  BY <1>1, <1>2, <1>3, <1>a, <1>b

\* An access that is smaller than a line takes one lock or two, the smaller first.
LEMMA ScalarPlan ==
    ASSUME NEW at \in Int, NEW width \in 1..(CACHE_LINE_SIZE - 1)
    PROVE  LockPlan(get_cache_line_unaligned(at, width), at, width)
<1> DEFINE i == line_of(at)
           j == line_of(at + width - 1)
<1>a. CACHE_LINE_SIZE \in Nat \ {0} /\ SHARDED_LOCK_COUNT \in Nat /\ SHARDED_LOCK_COUNT > 1
  BY MemOpsAssumption
<1>b. width \in Int /\ i \in Int /\ j \in Int
  BY <1>a DEF line_of
<1>c. i <= j /\ j <= i + 1
  <2> QED
    BY <1>a DEF line_of
<1>d. ASSUME NEW h \in at..(at + width - 1)
      PROVE  line_of(h) \in Int /\ i <= line_of(h) /\ line_of(h) <= j
  BY <1>b, LinesBetween
<1>e. shard_of(i) \in Shards /\ shard_of(j) \in Shards /\ Shards \subseteq Int
  BY <1>b, ShardOf
<1>1. CASE i = j
  <2>1. get_cache_line_unaligned(at, width) = <<shard_of(i)>>
    BY <1>1 DEF get_cache_line_unaligned
  <2>2. <<shard_of(i)>> \in Seq(Shards) /\ Ascending(<<shard_of(i)>>)
    BY <1>e DEF Ascending
  <2>3. shard_of(i) \in Range(<<shard_of(i)>>)
    BY DEF Range
  <2>4. \A h \in at..(at + width - 1) : line_of(h) = i
    BY <1>1, <1>d
  <2> QED
    BY <2>1, <2>2, <2>3, <2>4 DEF LockPlan, Covers
<1>2. CASE i # j
  <2>1. j = i + 1 /\ shard_of(i) # shard_of(j)
    <3>1. j = i + 1
      BY <1>2, <1>b, <1>c
    <3> QED
      BY <1>a, <1>b, <3>1, ModStep DEF shard_of
  <2> DEFINE s == ascending(shard_of(i), shard_of(j))
  <2>2. get_cache_line_unaligned(at, width) = s
    BY <1>2 DEF get_cache_line_unaligned
  <2>a. shard_of(i) \in Int /\ shard_of(j) \in Int
    BY <1>e
  <2>3. \E x, y \in Shards : s = <<x, y>> /\ x < y /\ {x, y} = {shard_of(i), shard_of(j)}
    <3>1. CASE shard_of(i) < shard_of(j)
      BY <1>e, <3>1 DEF ascending
    <3>2. CASE shard_of(j) < shard_of(i)
      <4>1. ~(shard_of(i) < shard_of(j))
        BY <2>a, <3>2
      <4>2. s = <<shard_of(j), shard_of(i)>>
        BY <4>1 DEF ascending
      <4> HIDE DEF s
      <4> QED
        BY <1>e, <3>2, <4>2
    <3> QED
      BY <2>a, <2>1, <3>1, <3>2
  <2>4. PICK x \in Shards, y \in Shards :
           s = <<x, y>> /\ x < y /\ {x, y} = {shard_of(i), shard_of(j)}
    BY <2>3
  <2>5. <<x, y>> \in Seq(Shards) /\ Ascending(<<x, y>>)
    BY <2>4 DEF Ascending
  <2>6. x \in Range(<<x, y>>) /\ y \in Range(<<x, y>>)
    BY DEF Range
  <2>7. \A h \in at..(at + width - 1) : line_of(h) \in {i, j}
    BY <1>d, <2>1
  <2> QED
    BY <2>2, <2>4, <2>5, <2>6, <2>7 DEF LockPlan, Covers
<1> QED
  BY <1>1, <1>2

-----------------------------------------------------------------------------
(* What a CPU is about to do                                                *)

Parts ==
    [kind : {"part"}, at : Int, width : Int, shift : Int, le : BOOLEAN, shards : Seq(Shards)]

\* The micro-operations of a plan, with the locks of each part still to be taken.
MicroOps ==
    [kind : {"check"}, ok : BOOLEAN, at : Int]
      \cup {FromLe} \cup [kind : {"dirty"}, at : Frames]
      \cup {p \in Parts : LockPlan(p.shards, p.at, p.width)}

\* Part p with the shards L locked already: what is missing lies above them.
Guarded(p, L) ==
    /\ p \in Parts /\ Ascending(p.shards)
    /\ Covers(L \cup Range(p.shards), p.at, p.width)
    /\ \A x \in L, i \in 1..Len(p.shards) : x < p.shards[i]

Underway(c) ==
    \/ todo[c] \in Seq(MicroOps) /\ held[c] = {}
    \/ /\ todo[c] # <<>> /\ todo[c] \in Seq(MicroOps \cup Parts)
       /\ Guarded(Head(todo[c]), held[c]) /\ Tail(todo[c]) \in Seq(MicroOps)

InScenario == \E s \in Scenarios : env = s.env /\ acc = s.acc

Copying(c) == todo[c] # <<>> /\ Head(todo[c]).kind = "part" /\ Head(todo[c]).shards = <<>>

\* A shard that two CPUs hold is held by loads.
Excluded ==
    \A c, d \in Cpus : c # d /\ held[c] \cap held[d] # {} =>
        acc[c].op = "load" /\ acc[d].op = "load"

Locked ==
    /\ held \in [Cpus -> SUBSET Shards] /\ DOMAIN todo = Cpus
    /\ \A c \in Cpus :
          /\ Underway(c)
          /\ pc[c] = "start" => held[c] = {} /\ acc[c].kind # "idle"
          /\ pc[c] = "copy" => Copying(c)
    /\ Excluded

Inv ==
    /\ InScenario
    /\ pc \in [Cpus -> {"start", "run", "copy", "done"}]
    /\ env.build # "miri" => \A c \in Cpus : pc[c] # "copy"
    /\ env.build = "miri" => Locked

Waiting(c) == At(c, "part") /\ Head(todo[c]).shards # <<>>
Wanted(c) == Head(Head(todo[c]).shards)

\* No CPUs wait for one another in a ring: of those that wait for a shard, one
\* waits for a shard that none of them holds.
NoRing ==
    \A W \in SUBSET Cpus : env.build = "miri" /\ W # {} /\ (\A c \in W : Waiting(c)) =>
        \E c \in W : \A d \in W : Wanted(c) \notin held[d]

-----------------------------------------------------------------------------
(* Plans                                                                    *)

\* An access that a CPU does under Miri.
MiriAccess(a) ==
    /\ a \in Accesses /\ a.kind \notin {"idle", "inline"}
    /\ a.kind \in {"scalar", "fetch"} => a.len \in 1..(CACHE_LINE_SIZE - 1)

\* An environment of a scenario under Miri.
MiriEnv == env.build = "miri" /\ env.frame \in [DOMAIN env.table -> Frames]

LEMMA Addresses ==
    ASSUME NEW n \in Int
    PROVE  /\ PageOf(n) \in Int /\ Offset(n) \in Int /\ vaddr_base(n) \in Int
           /\ TopAddr \in Int /\ Space \in Int /\ PAGE_SIZE \in Int
           /\ n % Space \in Int
<1>1. PAGE_SIZE \in Nat \ {0} /\ PageCount \in Nat \ {0}
  BY AccessAssumption
<1> QED
  BY <1>1 DEF PageOf, Offset, vaddr_base, TopAddr, Space

LEMMA HostAddress ==
    ASSUME MiriEnv, NEW page, Mapped(page), NEW offset \in Int
    PROVE  Host(page, offset) \in Int
<1>1. env.frame[page] \in Frames
  BY DEF MiriEnv, Mapped
<1>3. env.frame[page] \in Int /\ PAGE_SIZE \in Int
  BY <1>1, AccessAssumption
<1> QED
  BY <1>3 DEF Host

LEMMA CheckOp ==
    ASSUME NEW ok \in BOOLEAN, NEW at \in Int
    PROVE  Check(ok, at) \in MicroOps
BY DEF Check, MicroOps

LEMMA PartOp ==
    ASSUME NEW at \in Int, NEW width \in Int, NEW shift \in Int, NEW le \in BOOLEAN, NEW shards,
           LockPlan(shards, at, width)
    PROVE  Part(at, width, shift, le, shards) \in MicroOps
BY DEF Part, MicroOps, Parts, LockPlan

\* A scalar part.
LEMMA LePart ==
    ASSUME MiriEnv, NEW at \in Int, NEW width \in 1..(CACHE_LINE_SIZE - 1), NEW shift \in Int
    PROVE  le_part(env.build, at, width, shift) \in MicroOps
<1>1. LockPlan(get_cache_line_unaligned(at, width), at, width) /\ width \in Int
  BY ScalarPlan
<1> QED
  BY <1>1, PartOp DEF le_part, MiriEnv

LEMMA SetDirty ==
    ASSUME MiriEnv, NEW a, NEW page
    PROVE  set_dirty(a, page) \in Seq(MicroOps)
<1>1. CASE Mapped(page)
  <2>1. env.frame[page] \in Frames
    BY <1>1 DEF MiriEnv, Mapped
  <2>2. Mark(page) \in MicroOps
    BY <2>1 DEF Mark, MicroOps
  <2> QED
    BY <2>2 DEF set_dirty
<1>2. CASE ~Mapped(page)
  BY <1>2 DEF set_dirty, Flags
<1> QED
  BY <1>1, <1>2

LEMMA PageChecks ==
    ASSUME NEW a \in Accesses, NEW page \in Int
    PROVE  page_checks(a, page) \in Seq(MicroOps)
<1>1. Mapped(page) \in BOOLEAN /\ verify(a, page) \in BOOLEAN
  BY DEF Mapped, verify
<1>2. vaddr_base(page) \in Int
  BY Addresses
<1> QED
  BY <1>1, <1>2, CheckOp DEF page_checks

\* The copy of one page of a range.
LEMMA PageCopies ==
    ASSUME MiriEnv, NEW a \in Accesses, NEW page \in Int, RangePages(a)[1] \in Int
    PROVE  page_copies(a, page) \in Seq(MicroOps)
<1> DEFINE pages == RangePages(a)
           end == Offset((a.vaddr + a.len - 1) % Space) + 1
           page_start == IF page = pages[1] THEN Offset(a.vaddr) ELSE 0
           page_end == IF page = Last(pages) THEN end ELSE PAGE_SIZE
           dst == (page - pages[1]) * PAGE_SIZE + page_start - Offset(a.vaddr)
<1>1. a.vaddr \in Int /\ a.len \in Int
  BY DEF Accesses
<1>2. (a.vaddr + a.len - 1) % Space \in Int /\ Offset(a.vaddr) \in Int /\ PAGE_SIZE \in Int
  BY <1>1, Addresses
<1>3. end \in Int
  BY <1>2, Addresses
<1>4. page_start \in Int /\ page_end \in Int /\ pages[1] \in Int
  BY <1>2, <1>3
<1>5. dst \in Int /\ page_end - page_start \in Int
  BY <1>2, <1>4
<1>6. page_copies(a, page) =
        IF Mapped(page)
        THEN CopyThenCommit(copy_parts(env.build, Host(page, page_start),
                                       page_end - page_start, dst),
                            set_dirty(a, page))
        ELSE <<>>
  BY DEF page_copies
<1> HIDE DEF pages, end, page_start, page_end, dst
<1>7. CASE Mapped(page)
  <2>1. Host(page, page_start) \in Int
    BY <1>4, <1>7, HostAddress
  <2>2. Part(Host(page, page_start), page_end - page_start, dst, TRUE,
             bulk_shards(Host(page, page_start), page_end - page_start)) \in MicroOps
    BY <1>5, <2>1, BulkPlan, PartOp
  <2>3. copy_parts(env.build, Host(page, page_start), page_end - page_start, dst)
          \in Seq(MicroOps)
    BY <2>2, Singleton DEF copy_parts, MiriEnv
  <2> QED
    BY <1>6, <2>3, SetDirty DEF CopyThenCommit
<1>8. CASE ~Mapped(page)
  BY <1>6, <1>8
<1> QED
  BY <1>7, <1>8

LEMMA ReverseType ==
    ASSUME NEW S, NEW s \in Seq(S)
    PROVE  Reverse(s) \in Seq(S)
<1>3. Reverse(s) \in [1..Len(s) -> S]
  BY DEF Reverse
<1> QED
  BY <1>3

LEMMA MemAccess ==
    ASSUME MiriEnv, NEW a \in Accesses
    PROVE  mem_access(a) \in Seq(MicroOps)
<1> DEFINE pages == RangePages(a)
           n == Len(pages)
           checks == [i \in 1..n |-> page_checks(a, pages[i])]
           copies == [i \in 1..n |-> page_copies(a, pages[i])]
<1>1. a.vaddr \in Int /\ a.len \in Int
  BY DEF Accesses
<1>3. PageOf(a.vaddr) \in Int /\ PageOf((a.vaddr + a.len - 1) % Space) \in Int
  BY <1>1, Addresses
<1>4. pages \in Seq(Int)
  BY <1>3, FunctionSeq DEF RangePages, RangeSeq
<1>5. n \in Nat /\ \A i \in 1..n : pages[i] \in Int
  BY <1>4
<1>6. checks \in [1..n -> Seq(MicroOps)]
  BY <1>5, PageChecks
<1>7. copies \in [1..n -> Seq(MicroOps)]
  <2>1. ASSUME NEW i \in 1..n
        PROVE  page_copies(a, pages[i]) \in Seq(MicroOps)
    <3> QED
      BY <1>5, PageCopies
  <2> QED
    BY <2>1
<1> HIDE DEF checks, copies
<1>8. checks \in Seq(Seq(MicroOps)) /\ copies \in Seq(Seq(MicroOps))
  <2>1. n \in Int
    BY <1>5
  <2> HIDE DEF n
  <2> QED
    BY <1>6, <1>7, <2>1
<1>9. access(checks, copies) \in Seq(MicroOps)
  <2>1. FlattenSeq(Reverse(checks)) \in Seq(MicroOps)
    BY <1>8, ReverseType, FlattenType
  <2>2. FlattenSeq(copies) \in Seq(MicroOps)
    BY <1>8, FlattenType
  <2> QED
    BY <2>1, <2>2 DEF access
<1>10. <<Check(NoOverflow(a.vaddr + a.len), TopAddr)>> \in Seq(MicroOps)
  <2>1. NoOverflow(a.vaddr + a.len) \in BOOLEAN /\ TopAddr \in Int
    BY Addresses DEF NoOverflow
  <2> QED
    BY <2>1, CheckOp
<1>11. mem_access(a) =
         IF a.len = 0 THEN <<>>
         ELSE <<Check(NoOverflow(a.vaddr + a.len), TopAddr)>>
                \o (IF NoOverflow(a.vaddr + a.len) THEN access(checks, copies) ELSE <<>>)
  BY DEF mem_access, checks, copies
<1>12. CASE NoOverflow(a.vaddr + a.len)
  BY <1>9, <1>10, <1>11
<1>13. CASE ~NoOverflow(a.vaddr + a.len)
  BY <1>10, <1>11, <1>13
<1> QED
  BY <1>12, <1>13

LEMMA GetPages ==
    ASSUME NEW a \in Accesses
    PROVE  get_pages(a) \in Seq(MicroOps)
<1>1. a.vaddr \in Int /\ TopAddr \in Int
  BY Addresses DEF Accesses
<1>2. /\ (Offset(a.vaddr) = 0) \in BOOLEAN /\ (a.len % PAGE_SIZE = 0) \in BOOLEAN
      /\ NoOverflow(a.vaddr + a.len) \in BOOLEAN
  BY DEF NoOverflow
<1>3. /\ Check(Offset(a.vaddr) = 0, a.vaddr) \in MicroOps
      /\ Check(a.len % PAGE_SIZE = 0, a.vaddr) \in MicroOps
      /\ Check(NoOverflow(a.vaddr + a.len), TopAddr) \in MicroOps
  BY <1>1, <1>2, CheckOp, Zenon
<1> QED
  BY <1>3 DEF get_pages

LEMMA OnePagePlan ==
    ASSUME MiriEnv, NEW a \in Accesses, a.len \in 1..(CACHE_LINE_SIZE - 1), NEW page
    PROVE  OnePage(a, page) \in Seq(MicroOps)
<1>1. a.vaddr \in Int /\ a.len \in Int /\ Offset(a.vaddr) \in Int
  BY Addresses DEF Accesses
<1>2. <<Check(Permitted(a, page), a.vaddr)>> \in Seq(MicroOps)
  <2>1. Permitted(a, page) \in BOOLEAN
    BY DEF Permitted
  <2> QED
    BY <1>1, <2>1, CheckOp
<1>3. CASE Mapped(page)
  <2>1. Host(page, Offset(a.vaddr)) \in Int
    BY <1>1, <1>3, HostAddress
  <2>2. Part(Host(page, Offset(a.vaddr)), a.len, 0, FALSE,
             get_cache_line_unaligned(Host(page, Offset(a.vaddr)), a.len)) \in MicroOps
    <3>1. LockPlan(get_cache_line_unaligned(Host(page, Offset(a.vaddr)), a.len),
                   Host(page, Offset(a.vaddr)), a.len)
      BY <2>1, ScalarPlan
    <3>2. 0 \in Int /\ FALSE \in BOOLEAN
      OBVIOUS
    <3> QED
      BY <1>1, <2>1, <3>1, <3>2, PartOp, Zenon
  <2>3. scalar_parts(env.build, env.big, Host(page, Offset(a.vaddr)), a.len) \in Seq(MicroOps)
    BY <2>2, Singleton DEF scalar_parts, MiriEnv
  <2>4. <<FromLe>> \in Seq(MicroOps)
    BY DEF MicroOps
  <2> DEFINE tail == IF a.op = "load" THEN <<FromLe>> ELSE set_dirty(a, page)
  <2>5. tail \in Seq(MicroOps)
    BY <2>4, SetDirty
  <2>6. OnePage(a, page) =
          <<Check(Permitted(a, page), a.vaddr)>>
            \o (scalar_parts(env.build, env.big, Host(page, Offset(a.vaddr)), a.len) \o tail)
    BY <1>3 DEF OnePage
  <2> HIDE DEF tail
  <2> QED
    BY <1>2, <2>3, <2>5, <2>6
<1>4. CASE ~Mapped(page)
  <2>1. OnePage(a, page) = <<Check(Permitted(a, page), a.vaddr)>> \o <<>>
    BY <1>4 DEF OnePage
  <2> QED
    BY <1>2, <2>1
<1> QED
  BY <1>3, <1>4

LEMMA LoadAcrossPlan ==
    ASSUME MiriEnv, NEW a \in Accesses, a.len \in 1..(CACHE_LINE_SIZE - 1),
           NEW lo, NEW hi, Mapped(lo), Mapped(hi)
    PROVE  LoadAcross(a, lo, hi) \in Seq(MicroOps)
<1> DEFINE overflow == a.len - (PAGE_SIZE - Offset(a.vaddr))
<1>1. a.vaddr \in Int /\ a.len \in Int /\ Offset(a.vaddr) \in Int /\ PAGE_SIZE \in Int
  BY Addresses DEF Accesses
<1>2. a.len - overflow \in Int /\ -overflow \in Int /\ PAGE_SIZE - a.len \in Int
  BY <1>1
<1>3. Host(hi, 0) \in Int /\ Host(lo, PAGE_SIZE - a.len) \in Int
  BY <1>2, HostAddress
<1>4. LoadAcross(a, lo, hi) =
        << le_part(env.build, Host(hi, 0), a.len, a.len - overflow),
           le_part(env.build, Host(lo, PAGE_SIZE - a.len), a.len, -overflow) >>
  BY DEF LoadAcross
<1> HIDE DEF overflow
<1>5. /\ le_part(env.build, Host(hi, 0), a.len, a.len - overflow) \in MicroOps
      /\ le_part(env.build, Host(lo, PAGE_SIZE - a.len), a.len, -overflow) \in MicroOps
  BY <1>2, <1>3, LePart
<1> QED
  BY <1>4, <1>5

LEMMA StoreAcrossPlan ==
    ASSUME MiriEnv, NEW a \in Accesses, a.len \in 1..(CACHE_LINE_SIZE - 1),
           NEW lo, NEW hi, Mapped(lo), Mapped(hi)
    PROVE  StoreAcross(a, lo, hi) \in Seq(MicroOps)
<1> DEFINE in_lo == PAGE_SIZE - Offset(a.vaddr)
           stored(k) == IF k >= in_lo
                        THEN le_part(env.build, Host(hi, k - in_lo), 1, k)
                        ELSE le_part(env.build, Host(lo, Offset(a.vaddr) + k), 1, k)
           bytes == [i \in 1..a.len |-> stored(a.len - i)]
<1>1. /\ a.vaddr \in Int /\ a.len \in Int /\ Offset(a.vaddr) \in Int /\ in_lo \in Int
      /\ 1 \in 1..(CACHE_LINE_SIZE - 1)
  BY Addresses, MemOpsAssumption DEF Accesses
<1>2. ASSUME NEW k \in Int
      PROVE  stored(k) \in MicroOps
  <2>1. k - in_lo \in Int /\ Offset(a.vaddr) + k \in Int
    BY <1>1
  <2>2. Host(hi, k - in_lo) \in Int /\ Host(lo, Offset(a.vaddr) + k) \in Int
    BY <2>1, HostAddress
  <2>3. /\ le_part(env.build, Host(hi, k - in_lo), 1, k) \in MicroOps
        /\ le_part(env.build, Host(lo, Offset(a.vaddr) + k), 1, k) \in MicroOps
    BY <1>1, <2>2, LePart
  <2> QED
    BY <2>3
<1>3. StoreAcross(a, lo, hi) = bytes \o set_dirty(a, lo) \o set_dirty(a, hi)
  BY DEF StoreAcross
<1> HIDE DEF stored
<1>4. bytes \in [1..a.len -> MicroOps]
  BY <1>2
<1>5. bytes \in Seq(MicroOps)
  BY <1>4
<1> HIDE DEF bytes
<1> QED
  BY <1>3, <1>5, SetDirty

LEMMA ScalarAccess ==
    ASSUME MiriEnv, NEW a \in Accesses, a.len \in 1..(CACHE_LINE_SIZE - 1)
    PROVE  scalar_access(a) \in Seq(MicroOps)
<1> DEFINE lo == PageOf(a.vaddr)
           hi == lo + 1
           second == <<Check(HasNext(lo), TopAddr), Check(Mapped(hi), vaddr_base(hi))>>
           both == <<Check(Permitted(a, lo), a.vaddr), Check(Permitted(a, hi), vaddr_base(hi))>>
           across == IF ~Mapped(lo) \/ ~Mapped(hi) THEN <<>>
                     ELSE IF a.op = "load" THEN LoadAcross(a, lo, hi) ELSE StoreAcross(a, lo, hi)
<1>1. a.vaddr \in Int /\ lo \in Int /\ hi \in Int /\ TopAddr \in Int
  BY Addresses DEF Accesses
<1>2. vaddr_base(lo) \in Int /\ vaddr_base(hi) \in Int
  BY <1>1, Addresses
<1>3. /\ HasNext(lo) \in BOOLEAN /\ Mapped(lo) \in BOOLEAN /\ Mapped(hi) \in BOOLEAN
      /\ Permitted(a, lo) \in BOOLEAN /\ Permitted(a, hi) \in BOOLEAN
  BY DEF HasNext, Mapped, Permitted
<1>4. scalar_access(a) =
        <<Check(Mapped(lo), vaddr_base(lo))>>
          \o (IF HasSecondPage(a.vaddr, a.len) THEN second \o (both \o across)
              ELSE OnePage(a, lo))
  BY DEF scalar_access, TwoPages
<1> HIDE DEF lo, hi
<1>5. <<Check(Mapped(lo), vaddr_base(lo))>> \in Seq(MicroOps)
  BY <1>2, <1>3, CheckOp
<1>6. second \in Seq(MicroOps) /\ both \in Seq(MicroOps)
  BY <1>1, <1>2, <1>3, CheckOp
<1>7. across \in Seq(MicroOps)
  BY LoadAcrossPlan, StoreAcrossPlan
<1>8. OnePage(a, lo) \in Seq(MicroOps)
  BY OnePagePlan
<1> HIDE DEF second, both, across
<1>9. second \o (both \o across) \in Seq(MicroOps)
  BY <1>6, <1>7
<1>10. CASE HasSecondPage(a.vaddr, a.len)
  BY <1>4, <1>5, <1>9, <1>10
<1>11. CASE ~HasSecondPage(a.vaddr, a.len)
  BY <1>4, <1>5, <1>8, <1>11
<1> QED
  BY <1>10, <1>11

LEMMA FetchPlan ==
    ASSUME MiriEnv, NEW a \in Accesses, a.len \in 1..(CACHE_LINE_SIZE - 1)
    PROVE  fetch_aarch64(a) \in Seq(MicroOps)
<1>1. a.vaddr \in Int /\ PageOf(a.vaddr) \in Int
  BY Addresses DEF Accesses
<1>2. vaddr_base(PageOf(a.vaddr)) \in Int
  BY <1>1, Addresses
<1>3. (a.vaddr % a.len = 0) \in BOOLEAN /\ Mapped(PageOf(a.vaddr)) \in BOOLEAN
  BY DEF Mapped
<1>4. resolve_aligned_scalar_access(a) \in Seq(MicroOps)
  <2>1. /\ Check(a.vaddr % a.len = 0, a.vaddr) \in MicroOps
        /\ Check(Mapped(PageOf(a.vaddr)), vaddr_base(PageOf(a.vaddr))) \in MicroOps
    BY <1>1, <1>2, <1>3, CheckOp, Zenon
  <2> QED
    BY <2>1 DEF resolve_aligned_scalar_access
<1>5. OnePage(a, PageOf(a.vaddr)) \in Seq(MicroOps)
  BY OnePagePlan
<1> QED
  BY <1>4, <1>5 DEF fetch_aarch64

\* Every part of a plan comes with the locks of all the lines it covers, in
\* ascending order.
LEMMA PlanSound ==
    ASSUME MiriEnv, NEW a, MiriAccess(a)
    PROVE  Plan(a) \in Seq(MicroOps)
<1>1. a \in Accesses /\ a.kind \in {"range", "pages", "scalar", "fetch"}
  BY DEF MiriAccess, Accesses
<1>2. CASE a.kind = "range"
  BY <1>1, <1>2, MemAccess DEF Plan
<1>3. CASE a.kind = "pages"
  BY <1>1, <1>3, GetPages DEF Plan
<1>4. CASE a.kind = "scalar"
  BY <1>4, ScalarAccess DEF Plan, MiriAccess
<1>5. CASE a.kind = "fetch"
  BY <1>5, FetchPlan DEF Plan, MiriAccess
<1> QED
  BY <1>1, <1>2, <1>3, <1>4, <1>5

-----------------------------------------------------------------------------
(* The invariant                                                            *)

\* The index that SelectInSeq gives, for the test of RunChecks.
LEMMA SelectIndex ==
    ASSUME NEW s, Len(s) \in Nat
    PROVE  LET next == SelectInSeq(s, LAMBDA x : x.kind # "check")
           IN  next # 0 => next \in 1..Len(s)
<1> DEFINE I == {i \in 1..Len(s) : s[i].kind # "check"}
<1>1. SelectInSeq(s, LAMBDA x : x.kind # "check") = IF I # {} THEN Min(I) ELSE 0
  BY DEF SelectInSeq
<1> HIDE DEF I
<1>2. I \in SUBSET Nat /\ I \in SUBSET (1..Len(s))
  BY DEF I
<1>3. CASE I # {}
  <2>1. \E x \in I : \A y \in I : x <= y
    BY <1>2, <1>3, Least
  <2>2. Min(I) \in I
    BY <2>1 DEF Min
  <2> QED
    BY <1>1, <1>2, <2>2
<1>4. CASE I = {}
  BY <1>1, <1>4
<1> QED
  BY <1>3, <1>4

LEMMA SuffixType ==
    ASSUME NEW S, NEW s \in Seq(S), NEW i \in 1..Len(s)
    PROVE  SubSeq(s, i, Len(s)) \in Seq(S)
BY LenProperties

LEMMA SeqUnion ==
    ASSUME NEW S, NEW T, NEW s \in Seq(S)
    PROVE  s \in Seq(S \cup T)
<1>1. Len(s) \in Nat /\ s \in [1..Len(s) -> S]
  BY LenProperties
<1> QED
  BY <1>1

\* The first micro-operation: one that is not a part holds no lock.
LEMMA HeadOp ==
    ASSUME NEW c \in Cpus, Underway(c), todo[c] # <<>>
    PROVE  /\ Tail(todo[c]) \in Seq(MicroOps) /\ todo[c] \in Seq(MicroOps \cup Parts)
           /\ Head(todo[c]).kind # "part" => todo[c] \in Seq(MicroOps) /\ held[c] = {}
           /\ Head(todo[c]).kind = "part" => Guarded(Head(todo[c]), held[c])
<1>1. CASE todo[c] \in Seq(MicroOps) /\ held[c] = {}
  <2>1. Head(todo[c]) \in MicroOps /\ Tail(todo[c]) \in Seq(MicroOps)
    BY <1>1
  <2>2. ASSUME Head(todo[c]).kind = "part"
        PROVE  Guarded(Head(todo[c]), held[c])
    <3>1. /\ Head(todo[c]) \in Parts
          /\ LockPlan(Head(todo[c]).shards, Head(todo[c]).at, Head(todo[c]).width)
      BY <2>1, <2>2 DEF MicroOps, FromLe
    <3> QED
      BY <1>1, <3>1 DEF Guarded, LockPlan
  <2> QED
    BY <1>1, <2>2
<1>2. CASE /\ Guarded(Head(todo[c]), held[c]) /\ Tail(todo[c]) \in Seq(MicroOps)
           /\ todo[c] \in Seq(MicroOps \cup Parts)
  BY <1>2 DEF Guarded, Parts
<1> QED
  BY <1>1, <1>2 DEF Underway

\* A step of one CPU leaves the others where they are.
LEMMA OthersUnderway ==
    ASSUME NEW d \in Cpus, Underway(d), todo'[d] = todo[d], held'[d] = held[d]
    PROVE  Underway(d)'
BY DEF Underway

LEMMA InvInit == Init => Inv
<1> SUFFICES ASSUME Init
             PROVE  Inv
  OBVIOUS
<1>1. InScenario /\ pc \in [Cpus -> {"start", "run", "copy", "done"}]
  BY DEF Init, InScenario
<1>2. \A c \in Cpus : pc[c] # "copy"
  BY DEF Init
<1>3. Locked
  <2>1. held \in [Cpus -> SUBSET Shards] /\ DOMAIN todo = Cpus
    BY DEF Init
  <2>2. ASSUME NEW c \in Cpus
        PROVE  Underway(c) /\ (pc[c] = "start" => held[c] = {} /\ acc[c].kind # "idle")
    <3>1. todo[c] = <<>> /\ held[c] = {} /\ pc[c] = IF acc[c].kind = "idle" THEN "done" ELSE "start"
      BY DEF Init
    <3> QED
      BY <3>1 DEF Underway
  <2>3. Excluded
    BY DEF Init, Excluded
  <2> QED
    BY <1>2, <2>1, <2>2, <2>3 DEF Locked
<1> QED
  BY <1>1, <1>2, <1>3 DEF Inv

\* What the scenarios say of an access and its environment.
LEMMA ScenarioMiri ==
    ASSUME InScenario, env.build = "miri", NEW c \in Cpus, acc[c].kind # "idle"
    PROVE  MiriEnv /\ MiriAccess(acc[c])
<1>1. PICK s \in Scenarios : env = s.env /\ acc = s.acc
  BY DEF InScenario
<1>2. /\ env.frame \in [DOMAIN env.table -> Frames] /\ acc \in [Cpus -> Accesses]
      /\ acc[c].kind # "inline"
      /\ acc[c].kind \in {"scalar", "fetch"} => acc[c].len \in 1..(CACHE_LINE_SIZE - 1)
  <2>1. /\ s.env.frame \in [DOMAIN s.env.table -> Frames] /\ s.acc \in [Cpus -> Accesses]
        /\ s.acc[c].kind # "inline"
        /\ s.acc[c].kind \in {"scalar", "fetch"} =>
              s.acc[c].len \in {1, 2, 4, 8} /\ s.acc[c].len < CACHE_LINE_SIZE
    BY <1>1, ScenariosAssumption
  <2> QED
    BY <1>1, <2>1, MemOpsAssumption
<1> QED
  BY <1>2 DEF MiriEnv, MiriAccess

\* What a step of CPU c has to leave behind: the other CPUs do not notice it.
LEMMA StepLocked ==
    ASSUME Locked, NEW c \in Cpus, acc' = acc,
           DOMAIN todo' = Cpus, held' \in [Cpus -> SUBSET Shards],
           \A d \in Cpus : d # c => todo'[d] = todo[d] /\ held'[d] = held[d] /\ pc'[d] = pc[d],
           Underway(c)', pc'[c] # "start", pc'[c] = "copy" => Copying(c)',
           \A s \in held'[c] : s \in held[c] \/ Available(c, s)
    PROVE  Locked'
<1>1. ASSUME NEW d \in Cpus
      PROVE  /\ Underway(d)'
             /\ pc'[d] = "start" => held'[d] = {} /\ acc'[d].kind # "idle"
             /\ pc'[d] = "copy" => Copying(d)'
  <2>1. CASE d = c
    BY <2>1
  <2>2. CASE d # c
    <3>1. /\ Underway(d) /\ (pc[d] = "start" => held[d] = {} /\ acc[d].kind # "idle")
          /\ pc[d] = "copy" => Copying(d)
      BY DEF Locked
    <3>3. Underway(d)'
      BY <3>1, OthersUnderway
    <3> QED
      BY <3>1, <3>3 DEF Copying
  <2> QED
    BY <2>2
<1>2. ASSUME NEW d \in Cpus, NEW e \in Cpus, d # e, NEW s \in held'[d] \cap held'[e]
      PROVE  acc[d].op = "load" /\ acc[e].op = "load"
  <2>1. Excluded
    BY DEF Locked
  <2>2. CASE s \in held[d] \cap held[e]
    BY <1>2, <2>1, <2>2 DEF Excluded
  <2>3. CASE d = c /\ s \notin held[c]
    BY <1>2, <2>3 DEF Available
  <2>4. CASE e = c /\ s \notin held[c]
    BY <1>2, <2>4 DEF Available
  <2> QED
    BY <2>2, <2>3, <2>4
<1>3. Excluded'
  BY <1>2 DEF Excluded
<1> QED
  BY <1>1, <1>3 DEF Locked

\* Taking the first of the missing locks, which is above the ones held.
LEMMA LockPart ==
    ASSUME NEW p, NEW L, Guarded(p, L), p.shards # <<>>, L \subseteq Shards
    PROVE  /\ Guarded([p EXCEPT !.shards = Tail(@)], L \cup {Head(p.shards)})
           /\ Head(p.shards) \in Shards /\ \A x \in L : x < Head(p.shards)
<1> DEFINE s == p.shards
           t == Tail(s)
           q == [p EXCEPT !.shards = Tail(@)]
           n == Len(s)
<1>1. p \in Parts /\ s \in Seq(Shards) /\ Ascending(s)
  BY DEF Guarded, Parts
<1>2. /\ t \in Seq(Shards) /\ n \in Nat /\ n >= 1 /\ Len(t) = n - 1 /\ Head(s) = s[1]
      /\ \A i \in 1..(n - 1) : t[i] = s[i + 1]
      /\ \A i \in 1..n : s[i] \in Shards
  <2>1. s \in Seq(Shards) /\ s # <<>>
    BY <1>1
  <2> HIDE DEF s
  <2> QED
    BY <2>1
<1>3. q \in Parts /\ q.shards = t /\ q.at = p.at /\ q.width = p.width
  BY <1>1, <1>2 DEF Parts
<1> HIDE DEF s, t, q, n
<1>4. Ascending(t)
  BY <1>1, <1>2, SMTT(40) DEF Ascending, n
<1>5. \A x \in L, i \in 1..n : x < s[i]
  BY DEF Guarded, s, n
<1>6. \A x \in L \cup {s[1]}, i \in 1..Len(t) : x < t[i]
  BY <1>1, <1>2, <1>5 DEF Ascending, n
<1>7. ASSUME NEW x \in Range(s)
      PROVE  x \in {s[1]} \cup Range(t)
  <2>1. PICK i \in DOMAIN s : x = s[i]
    BY DEF Range
  <2>2. i \in 1..n
    BY DEF n
  <2>3. CASE i = 1
    BY <2>1, <2>3
  <2>4. CASE i # 1
    <3>1. i - 1 \in 1..(n - 1) /\ t[i - 1] = s[(i - 1) + 1]
      BY <1>2, <2>2, <2>4
    <3>2. i - 1 \in DOMAIN t /\ t[i - 1] = x
      BY <1>2, <2>1, <2>2, <3>1
    <3> QED
      BY <3>2 DEF Range
  <2> QED
    BY <2>3, <2>4
<1>8. Covers((L \cup {s[1]}) \cup Range(t), p.at, p.width)
  <2>1. Covers(L \cup Range(s), p.at, p.width)
    BY DEF Guarded, s
  <2> QED
    BY <1>7, <2>1 DEF Covers
<1>9. Guarded(q, L \cup {s[1]})
  BY <1>3, <1>4, <1>6, <1>8 DEF Guarded
<1> QED
  BY <1>2, <1>5, <1>9 DEF s, q

LEMMA BeginInv ==
    ASSUME Inv, env.build = "miri", NEW c \in Cpus, Begin(c)
    PROVE  Locked'
<1>1. /\ Locked /\ held[c] = {} /\ acc[c].kind # "idle"
      /\ pc \in [Cpus -> {"start", "run", "copy", "done"}]
  BY DEF Inv, Locked, Begin
<1>2. Plan(acc[c]) \in Seq(MicroOps)
  BY <1>1, ScenarioMiri, PlanSound DEF Inv
<1>3. todo'[c] = Plan(acc[c]) /\ held' = held /\ acc' = acc /\ pc'[c] = "run" /\ DOMAIN todo' = Cpus
  BY <1>1 DEF Begin, Locked
<1>4. \A d \in Cpus : d # c => todo'[d] = todo[d] /\ held'[d] = held[d] /\ pc'[d] = pc[d]
  BY DEF Begin
<1>5. Underway(c)'
  BY <1>1, <1>2, <1>3 DEF Underway
<1>6. held' \in [Cpus -> SUBSET Shards]
  BY <1>1, <1>3 DEF Locked
<1> QED
  BY <1>1, <1>3, <1>4, <1>5, <1>6, StepLocked

LEMMA RunChecksInv ==
    ASSUME Inv, env.build = "miri", NEW c \in Cpus, RunChecks(c)
    PROVE  Locked'
<1> DEFINE next == SelectInSeq(todo[c], LAMBDA s : s.kind # "check")
<1>1. Locked /\ pc[c] = "run" /\ todo[c] # <<>> /\ Head(todo[c]).kind = "check"
  BY DEF Inv, RunChecks, At
<1>2. todo[c] \in Seq(MicroOps) /\ held[c] = {}
  BY <1>1, HeadOp DEF Locked
<1>3. next # 0 => next \in 1..Len(todo[c])
  BY SelectIndex
<1>4. /\ todo'[c] = <<>> \/ (next # 0 /\ todo'[c] = SubSeq(todo[c], next, Len(todo[c])))
      /\ DOMAIN todo' = Cpus /\ \A d \in Cpus : d # c => todo'[d] = todo[d]
      /\ held' = held /\ acc' = acc /\ pc' = pc
  BY <1>1 DEF RunChecks, Locked
<1> HIDE DEF next
<1>5. todo'[c] \in Seq(MicroOps)
  BY <1>2, <1>3, <1>4, SuffixType, EmptySeq
<1>6. Underway(c)'
  BY <1>2, <1>4, <1>5 DEF Underway
<1>7. held' \in [Cpus -> SUBSET Shards]
  BY <1>1, <1>4 DEF Locked
<1> QED
  BY <1>1, <1>4, <1>6, <1>7, StepLocked

\* MarkDirty, Convert and the end of a copy go on to the next micro-operation.
LEMMA TailInv ==
    ASSUME Locked, NEW c \in Cpus, todo[c] # <<>>, acc' = acc,
           todo' = [todo EXCEPT ![c] = Tail(@)],
           held' = [held EXCEPT ![c] = {}],
           pc'[c] = "run", \A d \in Cpus : d # c => pc'[d] = pc[d]
    PROVE  Locked'
<1>1. DOMAIN todo' = Cpus /\ held' \in [Cpus -> SUBSET Shards]
  BY DEF Locked
<1>4. Underway(c)'
  BY DEF Underway, Locked
<1> QED
  BY <1>1, <1>4, StepLocked

LEMMA LockInv ==
    ASSUME Inv, env.build = "miri", NEW c \in Cpus, Lock(c)
    PROVE  Locked'
<1> DEFINE p == Head(todo[c])
           s == Head(p.shards)
<1>1. /\ Locked /\ pc[c] = "run" /\ todo[c] # <<>> /\ p.kind = "part" /\ p.shards # <<>>
      /\ Available(c, s) /\ held[c] \subseteq Shards /\ held \in [Cpus -> SUBSET Shards]
      /\ DOMAIN todo = Cpus
  BY DEF Inv, Lock, At, Locked
<1>2. Guarded(p, held[c]) /\ Tail(todo[c]) \in Seq(MicroOps)
  BY <1>1, HeadOp DEF Locked
<1>3. /\ todo' = [todo EXCEPT ![c] = [todo[c] EXCEPT ![1] = [todo[c][1] EXCEPT !.shards = Tail(@)]]]
      /\ held' = [held EXCEPT ![c] = held[c] \cup {s}] /\ acc' = acc /\ pc' = pc
  BY DEF Lock
<1> DEFINE q == [p EXCEPT !.shards = Tail(@)]
<1>4. Guarded(q, held[c] \cup {s}) /\ s \in Shards
  BY <1>1, <1>2, LockPart
<1>5. /\ todo'[c] # <<>> /\ Head(todo'[c]) = q /\ Tail(todo'[c]) = Tail(todo[c])
      /\ todo'[c] \in Seq(MicroOps \cup Parts)
  <2>1. todo[c] \in Seq(MicroOps \cup Parts) /\ q \in MicroOps \cup Parts
    BY <1>1, <1>4, HeadOp DEF Locked, Guarded
  <2>3. todo'[c] = [todo[c] EXCEPT ![1] = q]
    BY <1>1, <1>3
  <2> HIDE DEF q
  <2> QED
    BY <1>1, <2>1, <2>3
<1>6. held'[c] = held[c] \cup {s} /\ held' \in [Cpus -> SUBSET Shards]
  BY <1>1, <1>3, <1>4
<1>8. Underway(c)'
  BY <1>2, <1>4, <1>5, <1>6 DEF Underway
<1> HIDE DEF p, s, q
<1> QED
  BY <1>1, <1>3, <1>6, <1>8, StepLocked

\* A micro-operation that is not a part is done without a lock.
LEMMA PlainOpInv ==
    ASSUME Locked, NEW c \in Cpus, pc[c] = "run", todo[c] # <<>>, Head(todo[c]).kind # "part",
           todo' = [todo EXCEPT ![c] = Tail(@)],
           acc' = acc, held' = held, pc' = pc
    PROVE  Locked'
<1>1. held[c] = {}
  BY HeadOp DEF Locked
<1>2. held' = [held EXCEPT ![c] = {}]
  BY <1>1 DEF Locked
<1> QED
  BY <1>2, TailInv

\* The end of a copy releases its locks.
LEMMA EndCopyInv ==
    ASSUME Locked, NEW c \in Cpus, EndCopy(c), pc \in [Cpus -> {"start", "run", "copy", "done"}]
    PROVE  Locked'
<1>1. todo[c] # <<>>
  BY DEF EndCopy, Locked, Copying
<1>2. /\ todo' = [todo EXCEPT ![c] = Tail(@)] /\ held' = [held EXCEPT ![c] = {}]
      /\ acc' = acc /\ pc'[c] = "run" /\ \A d \in Cpus : d # c => pc'[d] = pc[d]
  BY DEF EndCopy, DoPart
<1> QED
  BY <1>1, <1>2, TailInv

\* Only the program counter of c changes.
LEMMA PcInv ==
    ASSUME Locked, NEW c \in Cpus, UNCHANGED <<acc, todo, held>>,
           pc \in [Cpus -> {"start", "run", "copy", "done"}],
           NEW next \in {"copy", "done"}, pc' = [pc EXCEPT ![c] = next],
           next = "copy" => Copying(c)
    PROVE  Locked'
<1>1. Underway(c)'
  BY DEF Locked, Underway
<1>3. next = "copy" => Copying(c)'
  BY DEF Copying
<1>4. DOMAIN todo' = Cpus /\ held' \in [Cpus -> SUBSET Shards]
  BY DEF Locked
<1> QED
  BY <1>1, <1>3, <1>4, StepLocked

LEMMA PcType ==
    ASSUME pc \in [Cpus -> {"start", "run", "copy", "done"}], Next
    PROVE  pc' \in [Cpus -> {"start", "run", "copy", "done"}] /\ env' = env /\ acc' = acc
BY DEF Next, Step, Begin, RunChecks, AtomicPart, Lock, StartCopy, EndCopy,
   MarkDirty, Convert, Finish, DoPart

LEMMA InvNext == Inv /\ [Next]_vars => Inv'
<1> SUFFICES ASSUME Inv, [Next]_vars
             PROVE  Inv'
  OBVIOUS
<1>1. CASE UNCHANGED vars
  BY <1>1 DEF Inv, vars, InScenario, Locked, Underway, Copying, Excluded
<1>2. CASE Next
  <2>1. pc' \in [Cpus -> {"start", "run", "copy", "done"}] /\ env' = env /\ acc' = acc
    BY <1>2, PcType DEF Inv
  <2>2. InScenario'
    BY <2>1 DEF Inv, InScenario
  <2>3. PICK c \in Cpus : Step(c)
    BY <1>2 DEF Next
  <2>4. ASSUME env.build # "miri"
        PROVE  \A d \in Cpus : pc'[d] # "copy"
    BY <2>3, <2>4 DEF Inv, Step, Begin, RunChecks, AtomicPart, Lock, StartCopy,
       EndCopy, MarkDirty, Convert, Finish
  <2>5. ASSUME env.build = "miri"
        PROVE  Locked'
    <3>0. Locked /\ pc \in [Cpus -> {"start", "run", "copy", "done"}]
      BY <2>5 DEF Inv
    <3>1. CASE Begin(c)
      BY <2>5, <3>1, BeginInv
    <3>2. CASE RunChecks(c)
      BY <2>5, <3>2, RunChecksInv
    <3>3. CASE AtomicPart(c)
      BY <2>5, <3>3 DEF AtomicPart
    <3>4. CASE Lock(c)
      BY <2>5, <3>4, LockInv
    <3>5. CASE StartCopy(c)
      BY <3>0, <3>5, PcInv DEF StartCopy, At, Copying
    <3>6. CASE EndCopy(c)
      BY <3>0, <3>6, EndCopyInv
    <3>7. CASE MarkDirty(c)
      BY <3>0, <3>7, PlainOpInv DEF MarkDirty, At
    <3>8. CASE Convert(c)
      BY <3>0, <3>8, PlainOpInv DEF Convert, At
    <3>9. CASE Finish(c)
      BY <3>0, <3>9, PcInv DEF Finish
    <3> QED
      BY <2>3, <3>1, <3>2, <3>3, <3>4, <3>5, <3>6, <3>7, <3>8, <3>9 DEF Step
  <2> QED
    BY <2>1, <2>2, <2>4, <2>5 DEF Inv
<1> QED
  BY <1>1, <1>2

-----------------------------------------------------------------------------
(* Theorems                                                                 *)

\* Inv is an invariant of the specification: under Miri a CPU holds a part of
\* the locks of the access it is about to do, the smaller ones.
THEOREM Invariance == Spec => []Inv
<1> QED
  BY InvInit, InvNext, PTL DEF Spec

\* Under Miri two copies that overlap are both loads: the locks that the memory
\* operations plan cover every line of an access, in every wrap-around of the
\* shards.
THEOREM NoRaces == Spec => []NoDataRace
<1>1. Inv => NoDataRace
  <2> SUFFICES ASSUME Inv, NEW c \in Cpus, NEW d \in Cpus, c # d,
                      pc[c] = "copy", pc[d] = "copy", IsStore(c),
                      NEW h \in (Head(todo[c]).at..(Head(todo[c]).at + Head(todo[c]).width - 1))
                           \cap (Head(todo[d]).at..(Head(todo[d]).at + Head(todo[d]).width - 1))
               PROVE  FALSE
    BY DEF NoDataRace
  <2>1. Locked
    BY DEF Inv
  <2>2. ASSUME NEW e \in Cpus, pc[e] = "copy",
               h \in Head(todo[e]).at..(Head(todo[e]).at + Head(todo[e]).width - 1)
        PROVE  shard_of(line_of(h)) \in held[e]
    <3>1. Guarded(Head(todo[e]), held[e]) /\ Head(todo[e]).shards = <<>>
      BY <2>1, <2>2, HeadOp DEF Locked, Copying
    <3>2. Range(Head(todo[e]).shards) = {}
      BY <3>1 DEF Range
    <3> QED
      BY <2>2, <3>1, <3>2 DEF Guarded, Covers
  <2>3. shard_of(line_of(h)) \in held[c] \cap held[d]
    BY <2>2
  <2> QED
    BY <2>1, <2>3 DEF Locked, Excluded, IsStore
<1> QED
  BY <1>1, Invariance, PTL

\* The locks of the Miri back end never deadlock: of the CPUs that wait for a
\* shard, the one that waits for the largest waits for one that none of the
\* others holds.
THEOREM LocksOrdered == Spec => []NoRing
<1>1. Inv => NoRing
  <2> SUFFICES ASSUME Inv, NEW W \in SUBSET Cpus, env.build = "miri", W # {},
                      \A c \in W : Waiting(c)
               PROVE  \E c \in W : \A d \in W : Wanted(c) \notin held[d]
    BY DEF NoRing
  <2>1. Locked
    BY DEF Inv
  <2>2. ASSUME NEW c \in W
        PROVE  Wanted(c) \in Shards /\ \A x \in held[c] : x < Wanted(c)
    <3>1. /\ todo[c] # <<>> /\ Head(todo[c]).kind = "part" /\ Head(todo[c]).shards # <<>>
          /\ c \in Cpus /\ held[c] \subseteq Shards
      BY <2>1 DEF Waiting, At, Locked
    <3>2. Guarded(Head(todo[c]), held[c])
      BY <2>1, <3>1, HeadOp DEF Locked
    <3> QED
      BY <3>1, <3>2, LockPart DEF Wanted
  <2> DEFINE N == SHARDED_LOCK_COUNT
             T == {N - Wanted(c) : c \in W}
  <2>3. \A c \in W : Wanted(c) \in Int /\ Wanted(c) < N /\ N \in Nat
    BY <2>2, MemOpsAssumption DEF Shards
  <2>4. T \in SUBSET Nat /\ T # {}
    BY <2>3
  <2>5. PICK t \in T : \A u \in T : t <= u
    BY <2>4, Least
  <2>6. PICK c \in W : t = N - Wanted(c)
    OBVIOUS
  <2>7. \A d \in W : Wanted(d) <= Wanted(c)
    BY <2>3, <2>5, <2>6
  <2>8. ASSUME NEW d \in W, Wanted(c) \in held[d]
        PROVE  FALSE
    BY <2>2, <2>3, <2>7, <2>8
  <2> QED
    BY <2>8
<1> QED
  BY <1>1, Invariance, PTL

-----------------------------------------------------------------------------
(* Where the bytes of a part belong                                         *)

Ops == MicroOps \cup Parts

\* The first byte of the value that part p covers, also when the part is native
\* and the host is big-endian.
Base(a, p) == IF p.le \/ ~env.big THEN p.shift ELSE a.len - p.shift - p.width

\* Part p covers byte k of the value.
Hits(a, p, k) == p.kind = "part" /\ k - Base(a, p) \in 0..(p.width - 1)

\* The bytes that a part covers lie where the table says, and a store has them all.
Placed(a, p) ==
    p.kind = "part" =>
        /\ \A k \in 0..(a.len - 1) : Hits(a, p, k) =>
              Mapped(PageOf(a.vaddr + k)) /\ p.at + (k - Base(a, p)) = HostOf(a.vaddr + k)
        /\ a.op = "store" => 0 <= Base(a, p) /\ Base(a, p) + p.width <= a.len

MustMark(a, v) == a.op = "store" /\ Flags(PageOf(v)) \cap MUST_DIRTY # {}

\* The parts of s cover the bytes from lo to hi, each of them once.
Tiles(a, s, lo, hi) ==
    /\ s \in Seq(Ops)
    /\ \A i \in 1..Len(s) : s[i].kind # "check" /\ Placed(a, s[i])
    /\ \A k \in lo..(hi - 1) : \E i \in 1..Len(s) : Hits(a, s[i], k)
    /\ \A i \in 1..Len(s), k \in 0..(a.len - 1) : Hits(a, s[i], k) => k \in lo..(hi - 1)
    /\ \A i, j \in 1..Len(s), k \in 0..(a.len - 1) :
          Hits(a, s[i], k) /\ Hits(a, s[j], k) => i = j

\* The pages of these bytes that have to be tracked are marked.
Marks(a, s, lo, hi) ==
    \A k \in lo..(hi - 1) : MustMark(a, a.vaddr + k) =>
        \E i \in 1..Len(s) : s[i] = Mark(PageOf(a.vaddr + k))

\* No conversion is left: what is loaded is little-endian.
Plain(a, s) ==
    \A i \in 1..Len(s) :
        s[i].kind # "from_le" /\ (a.op = "load" /\ s[i].kind = "part" => s[i].le)

Piece(a, s, lo, hi) == Tiles(a, s, lo, hi) /\ Marks(a, s, lo, hi) /\ Plain(a, s)

LEMMA ConcatElement ==
    ASSUME NEW S, NEW s \in Seq(S), NEW t \in Seq(S)
    PROVE  /\ s \o t \in Seq(S) /\ Len(s \o t) = Len(s) + Len(t)
           /\ Len(s) \in Nat /\ Len(t) \in Nat
           /\ \A i \in 1..Len(s) : i \in 1..Len(s \o t) /\ (s \o t)[i] = s[i]
           /\ \A j \in 1..Len(t) : Len(s) + j \in 1..Len(s \o t) /\ (s \o t)[Len(s) + j] = t[j]
           /\ \A i \in 1..Len(s \o t) :
                 i \in 1..Len(s) \/ (i - Len(s) \in 1..Len(t) /\ (s \o t)[i] = t[i - Len(s)])
OBVIOUS

\* Bytes that follow one another.
LEMMA TilesConcat ==
    ASSUME NEW a, NEW s, NEW t, NEW lo \in Int, NEW mid \in Int, NEW hi \in Int,
           lo <= mid, mid <= hi, Tiles(a, s, lo, mid), Tiles(a, t, mid, hi)
    PROVE  Tiles(a, s \o t, lo, hi)
<1> DEFINE u == s \o t
           n == Len(s)
<1>1. s \in Seq(Ops) /\ t \in Seq(Ops)
  BY DEF Tiles
<1>2. /\ u \in Seq(Ops) /\ Len(u) = n + Len(t) /\ n \in Nat /\ Len(t) \in Nat
      /\ \A i \in 1..n : i \in 1..Len(u) /\ u[i] = s[i]
      /\ \A j \in 1..Len(t) : n + j \in 1..Len(u) /\ u[n + j] = t[j]
      /\ \A i \in 1..Len(u) : i \in 1..n \/ (i - n \in 1..Len(t) /\ u[i] = t[i - n])
  BY <1>1, ConcatElement
<1> HIDE DEF u, n
<1>3. \A i \in 1..Len(u) : u[i].kind # "check" /\ Placed(a, u[i])
  BY <1>2, ZenonT(30) DEF Tiles, n
<1>4. \A k \in lo..(hi - 1) : \E i \in 1..Len(u) : Hits(a, u[i], k)
  <2> TAKE k \in lo..(hi - 1)
  <2>1. CASE k < mid
    <3>1. PICK i \in 1..n : Hits(a, s[i], k)
      BY <2>1 DEF Tiles, n
    <3> QED
      BY <1>2, <3>1
  <2>2. CASE k >= mid
    <3>1. PICK i \in 1..Len(t) : Hits(a, t[i], k)
      BY <2>2 DEF Tiles
    <3> QED
      BY <1>2, <3>1
  <2> QED
    BY <2>1, <2>2
<1>5. ASSUME NEW i \in 1..Len(u), NEW k \in 0..(a.len - 1), Hits(a, u[i], k)
      PROVE  IF i \in 1..n THEN k \in lo..(mid - 1) /\ Hits(a, s[i], k)
             ELSE k \in mid..(hi - 1) /\ i - n \in 1..Len(t) /\ Hits(a, t[i - n], k)
  BY <1>2, <1>5 DEF Tiles, n
<1>6. \A i \in 1..Len(u), k \in 0..(a.len - 1) : Hits(a, u[i], k) => k \in lo..(hi - 1)
  BY <1>5
<1>7. ASSUME NEW i \in 1..Len(u), NEW j \in 1..Len(u), NEW k \in 0..(a.len - 1),
             Hits(a, u[i], k), Hits(a, u[j], k)
      PROVE  i = j
  <2>1. CASE i \in 1..n /\ j \in 1..n
    BY <1>5, <1>7, <2>1 DEF Tiles, n
  <2>2. CASE i \notin 1..n /\ j \notin 1..n
    <3>1. i - n \in 1..Len(t) /\ j - n \in 1..Len(t) /\ Hits(a, t[i - n], k) /\ Hits(a, t[j - n], k)
      BY <1>5, <1>7, <2>2
    <3>2. i - n = j - n
      BY <3>1 DEF Tiles
    <3> QED
      BY <1>2, <3>2
  <2>3. CASE i \in 1..n /\ j \notin 1..n
    BY <1>5, <1>7, <2>3
  <2>4. CASE i \notin 1..n /\ j \in 1..n
    BY <1>5, <1>7, <2>4
  <2> QED
    BY <2>1, <2>2, <2>3, <2>4
<1> QED
  BY <1>2, <1>3, <1>4, <1>6, <1>7 DEF Tiles, u

LEMMA MarksConcat ==
    ASSUME NEW a, NEW s \in Seq(Ops), NEW t \in Seq(Ops),
           NEW lo \in Int, NEW mid \in Int, NEW hi \in Int,
           Marks(a, s, lo, mid), Marks(a, t, mid, hi)
    PROVE  Marks(a, s \o t, lo, hi)
<1> SUFFICES ASSUME NEW k \in lo..(hi - 1), MustMark(a, a.vaddr + k)
             PROVE  \E i \in 1..Len(s \o t) : (s \o t)[i] = Mark(PageOf(a.vaddr + k))
  BY DEF Marks
<1>1. CASE k < mid
  <2>1. PICK i \in 1..Len(s) : s[i] = Mark(PageOf(a.vaddr + k))
    BY <1>1 DEF Marks
  <2> QED
    BY <2>1, ConcatElement
<1>2. CASE k >= mid
  <2>1. PICK i \in 1..Len(t) : t[i] = Mark(PageOf(a.vaddr + k))
    BY <1>2 DEF Marks
  <2>2. Len(s) + i \in 1..Len(s \o t) /\ (s \o t)[Len(s) + i] = t[i]
    BY ConcatElement
  <2> QED
    BY <2>1, <2>2, Zenon
<1>3. k < mid \/ k >= mid
  OBVIOUS
<1> QED
  BY <1>1, <1>2, <1>3, Zenon

LEMMA PlainConcat ==
    ASSUME NEW a, NEW s \in Seq(Ops), NEW t \in Seq(Ops), Plain(a, s), Plain(a, t)
    PROVE  Plain(a, s \o t)
<1> DEFINE u == s \o t
<1> HIDE DEF u
<1> SUFFICES ASSUME NEW i \in 1..Len(u)
             PROVE  u[i].kind # "from_le" /\ (a.op = "load" /\ u[i].kind = "part" => u[i].le)
  BY DEF Plain, u
<1>1. (\E j \in 1..Len(s) : u[i] = s[j]) \/ (\E j \in 1..Len(t) : u[i] = t[j])
  BY ConcatElement DEF u
<1> QED
  BY <1>1 DEF Plain

LEMMA PieceConcat ==
    ASSUME NEW a, NEW s, NEW t, NEW lo \in Int, NEW mid \in Int, NEW hi \in Int,
           lo <= mid, mid <= hi, Piece(a, s, lo, mid), Piece(a, t, mid, hi)
    PROVE  Piece(a, s \o t, lo, hi)
<1>1. Tiles(a, s \o t, lo, hi)
  BY TilesConcat DEF Piece
<1>2. s \in Seq(Ops) /\ t \in Seq(Ops)
  BY DEF Piece, Tiles
<1>3. Marks(a, s \o t, lo, hi)
  BY <1>2, MarksConcat DEF Piece
<1>4. Plain(a, s \o t)
  BY <1>2, PlainConcat DEF Piece
<1> QED
  BY <1>1, <1>3, <1>4 DEF Piece

\* Micro-operations that are no parts cover nothing.
LEMMA TilesNothing ==
    ASSUME NEW a, NEW s \in Seq(Ops), NEW lo \in Int,
           \A i \in 1..Len(s) : s[i].kind \notin {"check", "part"}
    PROVE  Tiles(a, s, lo, lo)
<1>1. lo..(lo - 1) = {}
  OBVIOUS
<1>2. \A i \in 1..Len(s) : \A k : ~Hits(a, s[i], k)
  BY DEF Hits
<1>3. \A i \in 1..Len(s) : s[i].kind # "check" /\ Placed(a, s[i])
  BY DEF Placed
<1> QED
  BY <1>1, <1>2, <1>3 DEF Tiles

\* Boundaries that never fall.
LEMMA Monotone ==
    ASSUME NEW n \in Nat, NEW b \in [1..(n + 1) -> Int], \A i \in 1..n : b[i] <= b[i + 1],
           NEW i \in 1..(n + 1), NEW j \in 1..(n + 1), i <= j
    PROVE  b[i] <= b[j]
<1> DEFINE T == {k \in i..(n + 1) : ~(b[i] <= b[k])}
<1> SUFFICES ASSUME T # {}
             PROVE  FALSE
  <2>1. i \in Int /\ j \in Int /\ i <= j /\ j <= n + 1
    OBVIOUS
  <2>2. j \in i..(n + 1)
    BY <2>1
  <2> QED
    BY <2>2
<1>1. PICK k \in T : \A m \in T : k <= m
  <2>1. T \in SUBSET Nat
    OBVIOUS
  <2> QED
    BY <2>1, Least
<1>2. k \in i..(n + 1) /\ ~(b[i] <= b[k])
  OBVIOUS
<1>3. k > i
  BY <1>2
<1>4. k - 1 \in i..(n + 1) /\ k - 1 \notin T
  BY <1>1, <1>3
<1>5. b[i] <= b[k - 1] /\ b[k - 1] <= b[(k - 1) + 1]
  BY <1>2, <1>3, <1>4
<1> QED
  BY <1>2, <1>5

\* A byte between the first and the last boundary lies between two neighbours.
LEMMA Between ==
    ASSUME NEW n \in Nat, NEW b \in [1..(n + 1) -> Int], NEW k \in Int,
           b[1] <= k, k < b[n + 1]
    PROVE  \E i \in 1..n : b[i] <= k /\ k < b[i + 1]
<1> DEFINE T == {i \in 1..(n + 1) : k < b[i]}
<1>1. PICK j \in T : \A m \in T : j <= m
  <2>1. T \in SUBSET Nat /\ n + 1 \in T
    OBVIOUS
  <2> QED
    BY <2>1, Least
<1>2. j \in 1..(n + 1) /\ k < b[j] /\ j # 1
  OBVIOUS
<1>3. j - 1 \in 1..n /\ j - 1 \notin T /\ (j - 1) + 1 = j
  BY <1>1, <1>2
<1>4. b[j - 1] <= k
  BY <1>3
<1> QED
  BY <1>2, <1>3, <1>4

\* Parts in the order of the bytes, with the boundaries b.
LEMMA TilesChain ==
    ASSUME NEW a, NEW s \in Seq(Ops), NEW b \in [1..(Len(s) + 1) -> Int],
           \A i \in 1..Len(s) : b[i] <= b[i + 1],
           \A i \in 1..Len(s) : s[i].kind # "check" /\ Placed(a, s[i]),
           \A i \in 1..Len(s), k \in Int : Hits(a, s[i], k) <=> k \in b[i]..(b[i + 1] - 1),
           a.len \in Int
    PROVE  Tiles(a, s, b[1], b[Len(s) + 1])
<1> DEFINE n == Len(s)
<1>1. n \in Nat
  BY LenProperties
<1>2. \A i, j \in 1..(n + 1) : i <= j => b[i] <= b[j]
  BY <1>1, Monotone
<1>3. \A i \in 1..n : i + 1 \in 1..(n + 1) /\ i \in 1..(n + 1) /\ b[i] \in Int /\ b[i + 1] \in Int
  BY <1>1
<1>4. 1 \in 1..(n + 1) /\ n + 1 \in 1..(n + 1) /\ b[1] \in Int /\ b[n + 1] \in Int
  BY <1>1
<1>5. ASSUME NEW k \in b[1]..(b[n + 1] - 1)
      PROVE  \E i \in 1..n : Hits(a, s[i], k)
  <2>1. k \in Int /\ b[1] <= k /\ k < b[n + 1]
    BY <1>4
  <2>2. \E i \in 1..n : b[i] <= k /\ k < b[i + 1]
    <3> HIDE DEF n
    <3> QED
      BY <1>1, <2>1, Between DEF n
  <2>3. PICK i \in 1..n : b[i] <= k /\ k < b[i + 1]
    BY <2>2
  <2>4. k \in b[i]..(b[i + 1] - 1)
    BY <1>3, <2>1, <2>3
  <2> QED
    BY <2>1, <2>4
<1>6. ASSUME NEW i \in 1..n, NEW k \in 0..(a.len - 1), Hits(a, s[i], k)
      PROVE  k \in b[1]..(b[n + 1] - 1)
  <2>1. k \in b[i]..(b[i + 1] - 1) /\ k \in Int
    BY <1>6
  <2>2. b[1] <= b[i] /\ b[i + 1] <= b[n + 1]
    <3>1. 1 <= i /\ i + 1 <= n + 1
      BY <1>1
    <3> QED
      BY <1>2, <1>3, <1>4, <3>1
  <2> QED
    BY <1>3, <1>4, <2>1, <2>2
<1>7. ASSUME NEW i \in 1..n, NEW j \in 1..n, NEW k \in 0..(a.len - 1),
             Hits(a, s[i], k), Hits(a, s[j], k)
      PROVE  i = j
  <2>1. k \in b[i]..(b[i + 1] - 1) /\ k \in b[j]..(b[j + 1] - 1) /\ k \in Int
    BY <1>7
  <2>2. i < j => b[i + 1] <= b[j]
    <3>1. i < j => i + 1 <= j
      BY <1>1
    <3> QED
      BY <1>2, <1>3, <3>1
  <2>3. j < i => b[j + 1] <= b[i]
    <3>1. j < i => j + 1 <= i
      BY <1>1
    <3> QED
      BY <1>2, <1>3, <3>1
  <2>4. b[i] <= k /\ k < b[i + 1] /\ b[j] <= k /\ k < b[j + 1]
    BY <1>3, <2>1, SMTT(30)
  <2>5. ~(b[i + 1] <= b[j]) /\ ~(b[j + 1] <= b[i])
    BY <1>3, <2>1, <2>4
  <2>6. i < j \/ j < i \/ i = j
    BY <1>1
  <2> QED
    BY <2>2, <2>3, <2>5, <2>6
<1> QED
  BY <1>5, <1>6, <1>7 DEF Tiles

LEMMA PieceNothing ==
    ASSUME NEW a, NEW lo \in Int
    PROVE  Piece(a, <<>>, lo, lo)
<1>1. <<>> \in Seq(Ops) /\ Len(<<>>) = 0
  OBVIOUS
<1>2. Tiles(a, <<>>, lo, lo)
  <2>1. \A i \in 1..Len(<<>>) : FALSE
    BY <1>1
  <2> DEFINE e == <<>>
  <2>2. e \in Seq(Ops) /\ \A i \in 1..Len(e) : e[i].kind \notin {"check", "part"}
    BY <1>1, <2>1
  <2> HIDE DEF e
  <2>3. Tiles(a, e, lo, lo)
    BY <2>2, TilesNothing
  <2> QED
    BY <2>3 DEF e
<1>3. lo..(lo - 1) = {}
  OBVIOUS
<1> QED
  BY <1>1, <1>2, <1>3 DEF Piece, Marks, Plain

\* FlattenSeq from the left.
LEMMA FlattenUnfold ==
    ASSUME NEW S, NEW s \in Seq(S), Len(s) > 0
    PROVE  \E f : /\ FlattenSeq(s) = f[Len(s)]
                  /\ \A i \in 1..Len(s) : f[i] = IF i = 1 THEN s[i] ELSE f[i - 1] \o s[i]
<1> DEFINE f == CHOOSE f : f = [i \in 1..Len(s) |-> IF i = 1 THEN s[i] ELSE f[i - 1] \o s[i]]
<1>1. f = [i \in 1..Len(s) |-> IF i = 1 THEN s[i] ELSE f[i - 1] \o s[i]]
  <2>1. \E g : g = [i \in 1..Len(s) |-> IF i = 1 THEN s[i] ELSE g[i - 1] \o s[i]]
    <3>1. Len(s) \in Nat
      BY LenProperties
    <3> QED
      BY <3>1, FlattensExists DEF Flattens
  <2> QED
    BY <2>1
<1>2. FlattenSeq(s) = f[Len(s)]
  BY DEF FlattenSeq
<1> HIDE DEF f
<1>3. \A i \in 1..Len(s) : f[i] = IF i = 1 THEN s[i] ELSE f[i - 1] \o s[i]
  BY <1>1
<1> QED
  BY <1>2, <1>3

\* Pieces with the boundaries b, one after the other.
LEMMA PieceFlatten ==
    ASSUME NEW a, NEW n \in Nat, NEW ss \in Seq(Seq(Ops)), Len(ss) = n,
           NEW b \in [1..(n + 1) -> Int], \A i \in 1..n : b[i] <= b[i + 1],
           \A i \in 1..n : Piece(a, ss[i], b[i], b[i + 1])
    PROVE  Piece(a, FlattenSeq(ss), b[1], b[n + 1])
<1>1. CASE n = 0
  <2>1. FlattenSeq(ss) = <<>>
    BY <1>1 DEF FlattenSeq
  <2>2. b[1] \in Int /\ b[n + 1] = b[1]
    BY <1>1
  <2> QED
    BY <2>1, <2>2, PieceNothing
<1>2. CASE n > 0
  <2>1. PICK f : /\ FlattenSeq(ss) = f[n]
                 /\ \A i \in 1..n : f[i] = IF i = 1 THEN ss[i] ELSE f[i - 1] \o ss[i]
    BY <1>2, FlattenUnfold
  <2> DEFINE T == {i \in 1..n : ~Piece(a, f[i], b[1], b[i + 1])}
  <2>2. ASSUME T # {}
        PROVE  FALSE
    <3>1. PICK k \in T : \A j \in T : k <= j
      <4>1. T \in SUBSET Nat
        OBVIOUS
      <4> QED
        BY <2>2, <4>1, Least
    <3>2. k \in 1..n /\ ~Piece(a, f[k], b[1], b[k + 1])
      OBVIOUS
    <3>3. Piece(a, ss[k], b[k], b[k + 1]) /\ b[k] <= b[k + 1] /\ b[k] \in Int /\ b[k + 1] \in Int
      <4>1. k \in 1..n /\ k \in 1..(n + 1) /\ k + 1 \in 1..(n + 1)
        BY <3>2
      <4> HIDE DEF T
      <4> QED
        BY <4>1
    <3>4. CASE k = 1
      <4>1. f[k] = ss[k]
        BY <2>1, <3>2, <3>4
      <4> QED
        BY <3>2, <3>3, <3>4, <4>1
    <3>5. CASE k > 1
      <4>1. k - 1 \in 1..n /\ k - 1 \notin T /\ (k - 1) + 1 = k
        BY <3>1, <3>2, <3>5
      <4>2. Piece(a, f[k - 1], b[1], b[k])
        BY <4>1
      <4>3. f[k] = f[k - 1] \o ss[k]
        BY <2>1, <3>2, <3>5
      <4>4. b[1] <= b[k] /\ b[1] \in Int
        <5>1. 1 \in 1..(n + 1) /\ k \in 1..(n + 1) /\ 1 <= k
          BY <3>2
        <5> HIDE DEF T
        <5> QED
          BY <5>1, Monotone
      <4>5. Piece(a, f[k - 1] \o ss[k], b[1], b[k + 1])
        <5> HIDE DEF T
        <5> QED
          BY <3>3, <4>2, <4>4, PieceConcat
      <4> QED
        BY <3>2, <4>3, <4>5
    <3>6. k = 1 \/ k > 1
      BY <3>2
    <3> QED
      BY <3>4, <3>5, <3>6
  <2>3. n \in 1..n
    BY <1>2
  <2> QED
    BY <2>1, <2>2, <2>3
<1> QED
  BY <1>1, <1>2

-----------------------------------------------------------------------------
(* Addresses                                                                *)

\* The environment of a scenario.
GoodEnv ==
    /\ env.build \in {"atomic", "miri"} /\ env.big \in BOOLEAN
    /\ DOMAIN env.table \subseteq 0..MaxPage
    /\ env.frame \in [DOMAIN env.table -> Frames]
    /\ \A i \in 0..(TLB_SIZE - 1) : env.tlb[i] \in {None} \cup DOMAIN env.table

LEMMA Sizes ==
    /\ PAGE_SIZE \in Nat \ {0, 1} /\ PageCount \in Nat \ {0} /\ Space = PAGE_SIZE * PageCount
    /\ Space \in Nat \ {0} /\ TopAddr = Space - 1 /\ MaxPage = PageCount - 1
<1>1. PAGE_SIZE \in Nat \ {0, 1} /\ PageCount \in Nat \ {0}
  BY AccessAssumption
<1>2. PAGE_SIZE * PageCount \in Nat \ {0}
  BY <1>1
<1> QED
  BY <1>1, <1>2 DEF Space, TopAddr, MaxPage

LEMMA MulMono ==
    ASSUME NEW w \in Nat, NEW x \in Int, NEW y \in Int, x <= y
    PROVE  w * x <= w * y /\ w * x \in Int /\ w * y \in Int
OBVIOUS

LEMMA PageAt ==
    ASSUME NEW v \in Int, NEW page \in Int, NEW off \in Int, 0 <= off, off < PAGE_SIZE,
           v = PAGE_SIZE * page + off
    PROVE  PageOf(v) = page /\ Offset(v) = off
<1>1. PAGE_SIZE \in Nat \ {0}
  BY Sizes
<1>2. /\ v \div PAGE_SIZE \in Int /\ v % PAGE_SIZE \in Int
      /\ v = PAGE_SIZE * (v \div PAGE_SIZE) + (v % PAGE_SIZE)
      /\ 0 <= v % PAGE_SIZE /\ v % PAGE_SIZE < PAGE_SIZE
  BY <1>1, DivMod
<1>3. v \div PAGE_SIZE = page /\ v % PAGE_SIZE = off
  BY <1>1, <1>2, DivModUnique
<1> QED
  BY <1>3 DEF PageOf, Offset

LEMMA PageParts ==
    ASSUME NEW v \in Int
    PROVE  /\ PageOf(v) \in Int /\ Offset(v) \in Int /\ 0 <= Offset(v) /\ Offset(v) < PAGE_SIZE
           /\ v = PAGE_SIZE * PageOf(v) + Offset(v)
BY Sizes, DivMod DEF PageOf, Offset

LEMMA HostInside ==
    ASSUME GoodEnv, NEW page, Mapped(page), NEW off \in Int, 0 <= off, off < PAGE_SIZE
    PROVE  Host(page, off) \in HostBytes /\ env.frame[page] \in Frames
<1> DEFINE f == env.frame[page]
           n == Cardinality(Frames)
<1>1. f \in Frames /\ n \in Nat /\ Frames = 0..(n - 1)
  BY AccessAssumption DEF GoodEnv, Mapped
<1>2. PAGE_SIZE \in Nat
  BY Sizes
<1>3. Host(page, off) = f * PAGE_SIZE + off /\ HostBytes = 0..(n * PAGE_SIZE - 1)
  BY DEF Host, HostBytes
<1> HIDE DEF f, n
<1>4. f \in Int /\ 0 <= f /\ f <= n - 1
  BY <1>1
<1>5. PAGE_SIZE * f <= PAGE_SIZE * (n - 1) /\ PAGE_SIZE * 0 <= PAGE_SIZE * f
  BY <1>1, <1>2, <1>4, MulMono
<1>6. PAGE_SIZE * (n - 1) = n * PAGE_SIZE - PAGE_SIZE /\ f * PAGE_SIZE = PAGE_SIZE * f
  BY <1>1, <1>2, <1>4
<1>7. f * PAGE_SIZE \in Int /\ n * PAGE_SIZE \in Int
  BY <1>1, <1>2, <1>4
<1>8. 0 <= f * PAGE_SIZE /\ f * PAGE_SIZE <= n * PAGE_SIZE - PAGE_SIZE
  BY <1>2, <1>5, <1>6, <1>7
<1>9. f * PAGE_SIZE + off \in 0..(n * PAGE_SIZE - 1)
  <2> DEFINE x == f * PAGE_SIZE
             y == n * PAGE_SIZE
  <2>1. x \in Int /\ y \in Int /\ 0 <= x /\ x <= y - PAGE_SIZE
    BY <1>7, <1>8
  <2> HIDE DEF x, y
  <2>2. x + off \in 0..(y - 1)
    BY <1>2, <2>1
  <2> QED
    BY <2>2 DEF x, y
<1> QED
  BY <1>1, <1>3, <1>9 DEF f

\* The bytes from lo to hi of the value lie one after the other from `at` on.
Lies(a, at, lo, hi) ==
    \A k \in lo..(hi - 1) : Mapped(PageOf(a.vaddr + k)) /\ HostOf(a.vaddr + k) = at + (k - lo)

LEMMA LiesWithin ==
    ASSUME NEW a, NEW at \in Int, NEW lo \in Int, NEW hi \in Int, Lies(a, at, lo, hi),
           NEW i \in Int, NEW j \in Int, lo <= i, j <= hi
    PROVE  Lies(a, at + (i - lo), i, j)
BY DEF Lies

\* Bytes of one page.
LEMMA LiesInPage ==
    ASSUME GoodEnv, NEW a, a.vaddr \in Int, NEW page \in Int, Mapped(page), NEW off \in Int,
           NEW lo \in Int, NEW hi \in Int, 0 <= off, off + (hi - lo) <= PAGE_SIZE,
           a.vaddr + lo = PAGE_SIZE * page + off
    PROVE  Lies(a, Host(page, off), lo, hi)
<1> SUFFICES ASSUME NEW k \in lo..(hi - 1)
             PROVE  /\ Mapped(PageOf(a.vaddr + k))
                    /\ HostOf(a.vaddr + k) = Host(page, off) + (k - lo)
  BY DEF Lies
<1> DEFINE x == PAGE_SIZE * page
           o == off + (k - lo)
<1>1. PAGE_SIZE \in Nat /\ x \in Int /\ k \in Int /\ o \in Int
  BY Sizes
<1> HIDE DEF x
<1>2. 0 <= o /\ o < PAGE_SIZE /\ a.vaddr + k = x + o
  BY <1>1 DEF x
<1> HIDE DEF o
<1>3. PageOf(a.vaddr + k) = page /\ Offset(a.vaddr + k) = o
  BY <1>1, <1>2, PageAt DEF x
<1>4. env.frame[page] \in Int
  BY AccessAssumption DEF GoodEnv, Mapped
<1>5. env.frame[page] * PAGE_SIZE \in Int
  BY <1>1, <1>4
<1>6. Host(page, o) = Host(page, off) + (k - lo)
  BY <1>1, <1>5 DEF Host, o
<1> QED
  BY <1>3, <1>6 DEF HostOf

-----------------------------------------------------------------------------
(* The parts of the memory operations                                       *)

\* A part whose bytes lie where it accesses them.
LEMMA PartPlaced ==
    ASSUME NEW a \in Accesses, NEW p \in Parts, NEW base \in Int, base = Base(a, p),
           \A k \in 0..(a.len - 1) : k \in base..(base + p.width - 1) =>
               Mapped(PageOf(a.vaddr + k)) /\ HostOf(a.vaddr + k) = p.at + (k - base),
           a.op = "store" => 0 <= base /\ base + p.width <= a.len
    PROVE  /\ p \in Ops /\ p.kind = "part" /\ Placed(a, p)
           /\ \A k \in Int : Hits(a, p, k) <=> k \in base..(base + p.width - 1)
<1>1. p \in Ops /\ p.kind = "part" /\ p.width \in Int /\ p.at \in Int
  BY DEF Ops, Parts
<1>2. \A k \in Int : Hits(a, p, k) <=> k \in base..(base + p.width - 1)
  BY <1>1 DEF Hits
<1>3. a.len \in Int
  BY Sizes DEF Accesses
<1>4. Placed(a, p)
  BY <1>1, <1>2, <1>3 DEF Placed
<1> QED
  BY <1>1, <1>2, <1>4

\* One part of its own.
LEMMA SinglePart ==
    ASSUME NEW a \in Accesses, NEW p \in Ops, p.kind = "part", Placed(a, p),
           NEW lo \in Int, NEW hi \in Int, lo <= hi, 0 <= lo, hi <= a.len,
           \A k \in 0..(a.len - 1) : Hits(a, p, k) <=> k \in lo..(hi - 1)
    PROVE  Tiles(a, <<p>>, lo, hi)
<1>1. <<p>> \in Seq(Ops) /\ Len(<<p>>) = 1 /\ <<p>>[1] = p
  OBVIOUS
<1>2. 1..Len(<<p>>) = {1}
  BY <1>1
<1>3. a.len \in Int
  BY Sizes DEF Accesses
<1>4. lo..(hi - 1) \subseteq 0..(a.len - 1)
  BY <1>3
<1> QED
  BY <1>1, <1>2, <1>4 DEF Tiles

LEMMA LastOf ==
    ASSUME NEW lo \in Int, NEW w \in Int, NEW hi \in Int, lo + w = hi
    PROVE  lo + w - 1 = hi - 1
OBVIOUS

LEMMA SeqOfLength ==
    ASSUME NEW S, NEW n \in Int, n >= 0, NEW f \in [1..n -> S]
    PROVE  f \in Seq(S) /\ Len(f) = n
OBVIOUS

\* Parts in the order of the bytes, with the boundaries b.
LEMMA PartsTile ==
    ASSUME NEW a \in Accesses, NEW n \in Nat, NEW s \in Seq(Parts), Len(s) = n,
           NEW b \in [1..(n + 1) -> Int], \A i \in 1..n : b[i] <= b[i + 1],
           0 <= b[1], b[n + 1] <= a.len, NEW at \in Int, Lies(a, at, b[1], b[n + 1]),
           \A i \in 1..n : /\ s[i].at = at + (b[i] - b[1]) /\ s[i].width = b[i + 1] - b[i]
                            /\ Base(a, s[i]) = b[i]
    PROVE  Tiles(a, s, b[1], b[n + 1])
<1>1. a.len \in Int
  BY Sizes DEF Accesses
<1>2. \A i \in 1..n : i + 1 \in 1..(n + 1) /\ i \in 1..(n + 1) /\ 1 <= i /\ i + 1 <= n + 1
  OBVIOUS
<1>3. 1 \in 1..(n + 1) /\ n + 1 \in 1..(n + 1) /\ b[1] \in Int /\ b[n + 1] \in Int
  OBVIOUS
<1>4. ASSUME NEW i \in 1..n
      PROVE  /\ s[i] \in Ops /\ s[i].kind = "part" /\ Placed(a, s[i])
             /\ \A k \in Int : Hits(a, s[i], k) <=> k \in b[i]..(b[i + 1] - 1)
  <2> DEFINE p == s[i]
             lo == b[i]
             hi == b[i + 1]
  <2>1. lo \in Int /\ hi \in Int /\ lo <= hi /\ b[1] <= lo /\ hi <= b[n + 1]
    BY <1>2, <1>3, Monotone
  <2>2. p \in Parts /\ p.at = at + (lo - b[1]) /\ p.width = hi - lo /\ Base(a, p) = lo
    OBVIOUS
  <2> HIDE DEF p, lo, hi
  <2>3. Lies(a, at + (lo - b[1]), lo, hi)
    BY <1>3, <2>1, LiesWithin
  <2>4. lo + p.width = hi /\ 0 <= lo /\ hi <= a.len /\ p.width \in Int
    BY <1>1, <1>3, <2>1, <2>2
  <2>7. lo + p.width - 1 = hi - 1
    BY <2>1, <2>4, LastOf, ZenonT(30)
  <2>5. \A k \in 0..(a.len - 1) : k \in lo..(lo + p.width - 1) =>
            Mapped(PageOf(a.vaddr + k)) /\ HostOf(a.vaddr + k) = p.at + (k - lo)
    <3> SUFFICES ASSUME NEW k \in 0..(a.len - 1), k \in lo..(lo + p.width - 1)
                 PROVE  Mapped(PageOf(a.vaddr + k)) /\ HostOf(a.vaddr + k) = p.at + (k - lo)
      OBVIOUS
    <3>1. k \in lo..(hi - 1)
      BY <2>7
    <3> QED
      BY <2>2, <2>3, <3>1 DEF Lies
  <2>6. /\ p \in Ops /\ p.kind = "part" /\ Placed(a, p)
        /\ \A k \in Int : Hits(a, p, k) <=> k \in lo..(lo + p.width - 1)
    BY <2>1, <2>2, <2>4, <2>5, PartPlaced
  <2>8. /\ p \in Ops /\ p.kind = "part" /\ Placed(a, p)
        /\ \A k \in Int : Hits(a, p, k) <=> k \in lo..(hi - 1)
    BY <2>6, <2>7
  <2> QED
    BY <2>8, Zenon DEF p, lo, hi
<1>5. s \in Seq(Ops)
  <2>1. s \in [1..n -> Ops]
    BY <1>4
  <2> QED
    BY <2>1, FunctionSeq
<1>6. Tiles(a, s, b[1], b[Len(s) + 1])
  <2>1. \A i \in 1..Len(s) : s[i].kind # "check" /\ Placed(a, s[i])
    BY <1>4
  <2> QED
    BY <1>1, <1>4, <1>5, <2>1, TilesChain
<1> QED
  BY <1>6

\* A run of n parts of w bytes each, from byte lo on.
Run(a, s, n, w, at, lo) ==
    /\ s \in Seq(Parts) /\ Len(s) = n /\ n \in Nat /\ w \in Nat /\ at \in Int /\ lo \in Int
    /\ \A i \in 1..n : /\ s[i].at = at + w * (i - 1) /\ s[i].width = w
                        /\ Base(a, s[i]) = lo + w * (i - 1) /\ s[i].le = TRUE

LEMMA RunTiles ==
    ASSUME NEW a \in Accesses, NEW n, NEW w, NEW at, NEW lo, NEW s, Run(a, s, n, w, at, lo),
           NEW m \in Int, m = w * n, 0 <= lo, lo + m <= a.len, Lies(a, at, lo, lo + m)
    PROVE  Tiles(a, s, lo, lo + m) /\ Plain(a, s)
<1>0. /\ s \in Seq(Parts) /\ Len(s) = n /\ n \in Nat /\ w \in Nat /\ at \in Int /\ lo \in Int
      /\ \A i \in 1..n : /\ s[i].at = at + w * (i - 1) /\ s[i].width = w
                          /\ Base(a, s[i]) = lo + w * (i - 1) /\ s[i].le = TRUE
  BY DEF Run
<1> DEFINE b == [i \in 1..(n + 1) |-> lo + w * (i - 1)]
<1>1. \A i \in 1..(n + 1) : w * (i - 1) \in Int
  BY <1>0
<1>2. b \in [1..(n + 1) -> Int]
  BY <1>0, <1>1
<1>3. b[1] = lo /\ b[n + 1] = lo + m
  <2>1. w * (1 - 1) = 0 /\ w * ((n + 1) - 1) = m
    BY <1>0
  <2> QED
    BY <1>0, <2>1
<1>4. ASSUME NEW i \in 1..n
      PROVE  /\ b[i + 1] - b[i] = w /\ b[i] <= b[i + 1]
             /\ b[i] = lo + w * (i - 1) /\ b[i] - b[1] = w * (i - 1)
  <2>1. w * ((i + 1) - 1) = w * (i - 1) + w /\ w * (i - 1) \in Int
    BY <1>0
  <2>2. b[i] = lo + w * (i - 1) /\ b[i + 1] = lo + w * ((i + 1) - 1)
    BY <1>0
  <2> HIDE DEF b
  <2> DEFINE x == w * (i - 1)
  <2>3. b[i] = lo + x /\ b[i + 1] = lo + (x + w) /\ x \in Int
    BY <2>1, <2>2
  <2> HIDE DEF x
  <2>4. b[i + 1] - b[i] = w /\ b[i] <= b[i + 1] /\ b[i] - b[1] = x
    BY <1>0, <1>3, <2>3
  <2> QED
    BY <2>2, <2>4 DEF x
<1> HIDE DEF b
<1>5. \A i \in 1..n : /\ s[i].at = at + (b[i] - b[1]) /\ s[i].width = b[i + 1] - b[i]
                       /\ Base(a, s[i]) = b[i]
  BY <1>0, <1>4
<1>6. Tiles(a, s, b[1], b[n + 1])
  <2>1. \A i \in 1..n : b[i] <= b[i + 1]
    BY <1>4, Zenon
  <2>2. 0 <= b[1] /\ b[n + 1] <= a.len /\ Lies(a, at, b[1], b[n + 1])
    BY <1>3, Zenon
  <2> QED
    BY <1>0, <1>2, <1>5, <2>1, <2>2, PartsTile, Zenon
<1>7. \A i \in 1..Len(s) : s[i].kind = "part" /\ s[i].le = TRUE
  <2>1. \A p \in Parts : p.kind = "part"
    BY DEF Parts
  <2>2. \A i \in 1..Len(s) : s[i] \in Parts
    BY <1>0, ElementOfSeq, Zenon
  <2> QED
    BY <1>0, <2>1, <2>2, Zenon
<1>8. Plain(a, s)
  BY <1>7, Zenon DEF Plain
<1> QED
  BY <1>3, <1>6, <1>8

\* bulk_byte_chunk_copy: bytes, chunks and bytes tile the range.
LEMMA BulkTiles ==
    ASSUME NEW a \in Accesses, NEW at \in Int, NEW count \in Int, NEW lo \in Int,
           0 <= lo, 0 <= count, lo + count <= a.len, Lies(a, at, lo, lo + count)
    PROVE  /\ Tiles(a, bulk_parts(at, count, lo), lo, lo + count)
           /\ Plain(a, bulk_parts(at, count, lo))
<1> DEFINE prefix == Smaller((-at) % CHUNK_SIZE, count)
           chunks == (count - prefix) \div CHUNK_SIZE
           mid == chunks * CHUNK_SIZE
           mid_end == prefix + mid
           rest == count - mid_end
           first == [i \in 1..prefix |-> Part(at + (i - 1), 1, lo + (i - 1), TRUE, <<>>)]
           middle == [j \in 1..chunks |-> Part(at + prefix + (j - 1) * CHUNK_SIZE, CHUNK_SIZE,
                                               lo + prefix + (j - 1) * CHUNK_SIZE, TRUE, <<>>)]
           last == [i \in 1..rest |-> Part(at + (mid_end + i - 1), 1, lo + (mid_end + i - 1), TRUE, <<>>)]
<1>1. bulk_parts(at, count, lo) = (first \o middle) \o last
  BY DEF bulk_parts
<1>2. CHUNK_SIZE \in Nat \ {0} /\ a.len \in Int
  BY MemOpsAssumption, Sizes DEF Accesses
<1>3. prefix \in Int /\ 0 <= prefix /\ prefix <= count
  <2>1. (-at) % CHUNK_SIZE \in Int /\ 0 <= (-at) % CHUNK_SIZE
    BY <1>2, DivMod
  <2> QED
    BY <2>1 DEF Smaller
<1> HIDE DEF prefix
<1>4. chunks \in Int /\ 0 <= chunks /\ mid \in Int /\ 0 <= mid /\ mid <= count - prefix
  <2> DEFINE d == count - prefix
  <2>1. d \in Int /\ 0 <= d
    BY <1>3
  <2> HIDE DEF d
  <2>2. /\ d \div CHUNK_SIZE \in Int /\ d % CHUNK_SIZE \in Int /\ 0 <= d % CHUNK_SIZE
        /\ d = CHUNK_SIZE * (d \div CHUNK_SIZE) + (d % CHUNK_SIZE) /\ d % CHUNK_SIZE < CHUNK_SIZE
    BY <1>2, <2>1, DivMod
  <2>3. 0 <= d \div CHUNK_SIZE
    BY <1>2, <2>1, <2>2
  <2>4. 0 <= CHUNK_SIZE * (d \div CHUNK_SIZE)
    BY <1>2, <2>2, <2>3
  <2>5. (d \div CHUNK_SIZE) * CHUNK_SIZE = CHUNK_SIZE * (d \div CHUNK_SIZE)
    BY <1>2, <2>2
  <2>6. chunks = d \div CHUNK_SIZE
    BY DEF d
  <2>7. (d \div CHUNK_SIZE) * CHUNK_SIZE <= d /\ (d \div CHUNK_SIZE) * CHUNK_SIZE \in Int
    BY <1>2, <2>1, <2>2, <2>5
  <2> HIDE DEF chunks
  <2> QED
    BY <2>2, <2>3, <2>4, <2>5, <2>6, <2>7 DEF d
<1>5. mid = CHUNK_SIZE * chunks
  BY <1>2, <1>4
<1> HIDE DEF chunks
<1>6. Tiles(a, first, lo, lo + prefix) /\ Plain(a, first)
  <2>1. ASSUME NEW i \in 1..prefix
        PROVE  LET p == Part(at + (i - 1), 1, lo + (i - 1), TRUE, <<>>)
               IN  /\ p \in Parts /\ p.at = at + 1 * (i - 1) /\ p.width = 1 /\ p.le = TRUE
                   /\ Base(a, p) = lo + 1 * (i - 1)
    <3>1. at + (i - 1) \in Int /\ lo + (i - 1) \in Int /\ 1 \in Int /\ 1 * (i - 1) = i - 1
      BY <1>3
    <3> QED
      BY <3>1 DEF Part, Parts, Base
  <2>2. first \in [1..prefix -> Parts]
    BY <2>1
  <2>3. \A i \in 1..prefix : /\ first[i].at = at + 1 * (i - 1) /\ first[i].width = 1
                              /\ Base(a, first[i]) = lo + 1 * (i - 1) /\ first[i].le = TRUE
    BY <2>1
  <2> HIDE DEF first
  <2>4. first \in Seq(Parts) /\ Len(first) = prefix
    BY <1>3, <2>2, SeqOfLength
  <2>5. Lies(a, at + (lo - lo), lo, lo + prefix)
    BY <1>3, LiesWithin
  <2>6. at + (lo - lo) = at /\ 1 * prefix = prefix /\ lo + prefix <= a.len /\ prefix \in Nat
    BY <1>2, <1>3
  <2> QED
    <3>1. Lies(a, at, lo, lo + prefix) /\ prefix = 1 * prefix /\ 1 \in Nat
      BY <2>5, <2>6
    <3>2. Run(a, first, prefix, 1, at, lo)
      BY <2>3, <2>4, <2>6, <3>1 DEF Run
    <3> QED
      BY <1>3, <2>6, <3>1, <3>2, RunTiles
<1>7. Tiles(a, middle, lo + prefix, lo + mid_end) /\ Plain(a, middle)
  <2> DEFINE from == lo + prefix
             start == at + prefix
  <2>1. ASSUME NEW i \in 1..chunks
        PROVE  LET p == Part(at + prefix + (i - 1) * CHUNK_SIZE, CHUNK_SIZE,
                             lo + prefix + (i - 1) * CHUNK_SIZE, TRUE, <<>>)
               IN  /\ p \in Parts /\ p.at = start + CHUNK_SIZE * (i - 1) /\ p.width = CHUNK_SIZE
                   /\ p.le = TRUE /\ Base(a, p) = from + CHUNK_SIZE * (i - 1)
    <3> DEFINE x == (i - 1) * CHUNK_SIZE
    <3>1. x \in Int /\ x = CHUNK_SIZE * (i - 1)
      BY <1>2, <1>4
    <3> HIDE DEF x
    <3>2. at + prefix + x \in Int /\ lo + prefix + x \in Int /\ CHUNK_SIZE \in Int
      BY <1>2, <1>3, <3>1
    <3>3. LET p == Part(at + prefix + x, CHUNK_SIZE, lo + prefix + x, TRUE, <<>>)
          IN  /\ p \in Parts /\ p.at = start + x /\ p.width = CHUNK_SIZE
              /\ p.le = TRUE /\ Base(a, p) = from + x
      BY <3>2 DEF Part, Parts, Base
    <3> QED
      BY <3>1, <3>3 DEF x
  <2>2. middle \in [1..chunks -> Parts]
    BY <2>1
  <2>3. \A i \in 1..chunks : /\ middle[i].at = start + CHUNK_SIZE * (i - 1)
                              /\ middle[i].width = CHUNK_SIZE /\ middle[i].le = TRUE
                              /\ Base(a, middle[i]) = from + CHUNK_SIZE * (i - 1)
    BY <2>1
  <2> HIDE DEF middle
  <2>4. middle \in Seq(Parts) /\ Len(middle) = chunks /\ chunks \in Nat
    BY <1>4, <2>2, SeqOfLength
  <2> HIDE DEF mid
  <2>5. from \in Int /\ start \in Int /\ 0 <= from /\ lo <= from /\ from + mid <= lo + count
    BY <1>3, <1>4
  <2>6. /\ at + (from - lo) = start /\ from + mid <= a.len /\ lo + mid_end = from + mid
    BY <1>2, <1>3, <1>4, <2>5
  <2>7. Lies(a, at + (from - lo), from, from + mid)
    <3>1. from + mid \in Int /\ lo + count \in Int
      BY <1>4, <2>5
    <3> HIDE DEF from
    <3> QED
      BY <2>5, <3>1, LiesWithin
  <2>8. Lies(a, start, from, from + mid)
    BY <2>6, <2>7
  <2> HIDE DEF from, start, mid_end
  <2>9. Tiles(a, middle, from, from + mid) /\ Plain(a, middle)
    <3>1. CHUNK_SIZE \in Nat
      BY <1>2
    <3>2. Run(a, middle, chunks, CHUNK_SIZE, start, from)
      BY <2>3, <2>4, <2>5, <3>1 DEF Run
    <3> QED
      BY <1>4, <1>5, <2>5, <2>6, <2>8, <3>2, RunTiles
  <2> QED
    BY <2>6, <2>9 DEF from
<1>8. Tiles(a, last, lo + mid_end, lo + count) /\ Plain(a, last)
  <2> DEFINE from == lo + mid_end
             start == at + mid_end
  <2>1. mid_end \in Int /\ 0 <= mid_end /\ mid_end <= count /\ rest \in Int /\ 0 <= rest
    <3> HIDE DEF mid
    <3> QED
      BY <1>3, <1>4
  <2> HIDE DEF mid_end
  <2>2. ASSUME NEW i \in 1..rest
        PROVE  LET p == Part(at + (mid_end + i - 1), 1, lo + (mid_end + i - 1), TRUE, <<>>)
               IN  /\ p \in Parts /\ p.at = start + 1 * (i - 1) /\ p.width = 1 /\ p.le = TRUE
                   /\ Base(a, p) = from + 1 * (i - 1)
    <3>1. /\ at + (mid_end + i - 1) \in Int /\ lo + (mid_end + i - 1) \in Int /\ 1 \in Int
          /\ at + (mid_end + i - 1) = start + 1 * (i - 1)
          /\ lo + (mid_end + i - 1) = from + 1 * (i - 1)
      BY <2>1
    <3> QED
      BY <3>1 DEF Part, Parts, Base
  <2>3. last \in [1..rest -> Parts]
    BY <2>2
  <2>4. \A i \in 1..rest : /\ last[i].at = start + 1 * (i - 1) /\ last[i].width = 1
                            /\ Base(a, last[i]) = from + 1 * (i - 1) /\ last[i].le = TRUE
    BY <2>2
  <2> HIDE DEF last
  <2>5. last \in Seq(Parts) /\ Len(last) = rest /\ rest \in Nat
    <3> HIDE DEF rest
    <3> QED
      BY <2>1, <2>3, SeqOfLength
  <2>6. /\ from \in Int /\ start \in Int /\ 0 <= from /\ from + rest = lo + count
        /\ at + (from - lo) = start /\ from + rest <= a.len /\ rest = 1 * rest
    BY <1>2, <2>1
  <2>7. Lies(a, at + (from - lo), from, lo + count)
    BY <2>1, <2>6, LiesWithin
  <2>8. Lies(a, start, from, from + rest)
    BY <2>6, <2>7
  <2> HIDE DEF from, start, rest
  <2>9. Tiles(a, last, from, from + rest) /\ Plain(a, last)
    <3>1. 1 \in Nat
      OBVIOUS
    <3>2. Run(a, last, rest, 1, start, from)
      BY <2>4, <2>5, <2>6, <3>1 DEF Run
    <3> QED
      BY <2>1, <2>6, <2>8, <3>2, RunTiles
  <2> QED
    BY <2>6, <2>9 DEF from
<1>9. mid_end \in Int /\ prefix <= mid_end /\ mid_end <= count
  BY <1>3, <1>4
<1> HIDE DEF first, middle, last, mid_end
<1>10. Tiles(a, first \o middle, lo, lo + mid_end)
  BY <1>3, <1>6, <1>7, <1>9, TilesConcat
<1>11. Tiles(a, (first \o middle) \o last, lo, lo + count)
  BY <1>3, <1>8, <1>9, <1>10, TilesConcat
<1>12. first \in Seq(Ops) /\ middle \in Seq(Ops) /\ last \in Seq(Ops) /\ first \o middle \in Seq(Ops)
  BY <1>6, <1>7, <1>8, <1>10 DEF Tiles
<1>13. Plain(a, (first \o middle) \o last)
  BY <1>6, <1>7, <1>8, <1>12, PlainConcat
<1> QED
  BY <1>1, <1>11, <1>13

\* The copy of a range in either build.
LEMMA CopyTiles ==
    ASSUME GoodEnv, NEW a \in Accesses, NEW at \in Int, NEW count \in Int, NEW lo \in Int,
           0 <= lo, 0 <= count, lo + count <= a.len, Lies(a, at, lo, lo + count)
    PROVE  /\ Tiles(a, copy_parts(env.build, at, count, lo), lo, lo + count)
           /\ Plain(a, copy_parts(env.build, at, count, lo))
<1>1. CASE env.build # "miri"
  BY <1>1, BulkTiles DEF copy_parts
<1>2. CASE env.build = "miri"
  <2> DEFINE p == Part(at, count, lo, TRUE, bulk_shards(at, count))
             hi == lo + count
  <2>1. bulk_shards(at, count) \in Seq(Shards)
    BY BulkPlan DEF LockPlan
  <2>2. p \in Parts /\ p.at = at /\ p.width = count /\ p.le = TRUE /\ Base(a, p) = lo
    BY <2>1 DEF Part, Parts, Base
  <2>3. copy_parts(env.build, at, count, lo) = <<p>>
    BY <1>2 DEF copy_parts
  <2> HIDE DEF p
  <2>4. \A k \in 0..(a.len - 1) : k \in lo..(lo + p.width - 1) =>
            Mapped(PageOf(a.vaddr + k)) /\ HostOf(a.vaddr + k) = p.at + (k - lo)
    BY <2>2 DEF Lies
  <2>5. /\ p \in Ops /\ p.kind = "part" /\ Placed(a, p)
        /\ \A k \in Int : Hits(a, p, k) <=> k \in lo..(lo + p.width - 1)
    BY <2>2, <2>4, PartPlaced
  <2>6. hi \in Int /\ lo <= hi /\ hi <= a.len /\ a.len \in Int
    BY Sizes DEF Accesses
  <2>7. \A k \in 0..(a.len - 1) : Hits(a, p, k) <=> k \in lo..(hi - 1)
    BY <2>2, <2>5
  <2> HIDE DEF hi
  <2>8. Tiles(a, <<p>>, lo, hi)
    BY <2>5, <2>6, <2>7, SinglePart
  <2>9. Plain(a, <<p>>)
    <3>1. \A i \in 1..Len(<<p>>) : <<p>>[i] = p
      OBVIOUS
    <3>2. p.kind # "from_le" /\ (a.op = "load" /\ p.kind = "part" => p.le)
      BY <2>2, <2>5
    <3> QED
      BY <3>1, <3>2, Zenon DEF Plain
  <2> QED
    BY <2>3, <2>8, <2>9 DEF hi
<1> QED
  BY <1>1, <1>2

\* The mark of a page, if it has to be tracked.
LEMMA SetDirtyOps ==
    ASSUME GoodEnv, NEW a, NEW page
    PROVE  /\ set_dirty(a, page) \in Seq(Ops)
           /\ \A i \in 1..Len(set_dirty(a, page)) : set_dirty(a, page)[i].kind = "dirty"
           /\ a.op = "store" /\ Flags(page) \cap MUST_DIRTY # {} =>
                 \E i \in 1..Len(set_dirty(a, page)) : set_dirty(a, page)[i] = Mark(page)
<1>1. CASE a.op = "store" /\ Flags(page) \cap MUST_DIRTY # {}
  <2>1. Mapped(page)
    BY <1>1 DEF Flags
  <2>2. env.frame[page] \in Frames
    BY <2>1 DEF GoodEnv, Mapped
  <2>3. Mark(page) \in Ops /\ Mark(page).kind = "dirty"
    BY <2>2 DEF Mark, MicroOps, Ops
  <2>4. set_dirty(a, page) = <<Mark(page)>>
    BY <1>1 DEF set_dirty
  <2>5. /\ <<Mark(page)>> \in Seq(Ops) /\ Len(<<Mark(page)>>) = 1
        /\ \A i \in 1..1 : <<Mark(page)>>[i] = Mark(page)
    BY <2>3
  <2> QED
    BY <2>3, <2>4, <2>5
<1>2. CASE ~(a.op = "store" /\ Flags(page) \cap MUST_DIRTY # {})
  <2>1. set_dirty(a, page) = <<>>
    BY <1>2 DEF set_dirty
  <2> QED
    BY <1>2, <2>1
<1> QED
  BY <1>1, <1>2

\* Bytes of one page, then its mark.
LEMMA MarkAfter ==
    ASSUME GoodEnv, NEW a, NEW page, NEW s, NEW lo \in Int, NEW hi \in Int, lo <= hi,
           Tiles(a, s, lo, hi), \A k \in lo..(hi - 1) : PageOf(a.vaddr + k) = page
    PROVE  /\ Tiles(a, s \o set_dirty(a, page), lo, hi) /\ Marks(a, s \o set_dirty(a, page), lo, hi)
           /\ Plain(a, s) => Plain(a, s \o set_dirty(a, page))
<1> DEFINE t == set_dirty(a, page)
<1>1. t \in Seq(Ops) /\ s \in Seq(Ops) /\ \A i \in 1..Len(t) : t[i].kind = "dirty"
  BY SetDirtyOps DEF Tiles
<1>2. a.op = "store" /\ Flags(page) \cap MUST_DIRTY # {} => \E i \in 1..Len(t) : t[i] = Mark(page)
  BY SetDirtyOps
<1> HIDE DEF t
<1>3. Tiles(a, t, hi, hi)
  BY <1>1, TilesNothing
<1>4. Tiles(a, s \o t, lo, hi)
  BY <1>3, TilesConcat
<1>5. Marks(a, s \o t, lo, hi)
  <2> SUFFICES ASSUME NEW k \in lo..(hi - 1), MustMark(a, a.vaddr + k)
               PROVE  \E i \in 1..Len(s \o t) : (s \o t)[i] = Mark(PageOf(a.vaddr + k))
    BY DEF Marks
  <2>1. PageOf(a.vaddr + k) = page
    OBVIOUS
  <2>2. PICK i \in 1..Len(t) : t[i] = Mark(page)
    BY <1>2, <2>1 DEF MustMark
  <2>3. Len(s) + i \in 1..Len(s \o t) /\ (s \o t)[Len(s) + i] = t[i]
    BY <1>1, ConcatElement
  <2> QED
    BY <2>1, <2>2, <2>3, Zenon
<1>6. Plain(a, t)
  BY <1>1 DEF Plain
<1>7. Plain(a, s) => Plain(a, s \o t)
  BY <1>1, <1>6, PlainConcat
<1> QED
  BY <1>4, <1>5, <1>7 DEF t

-----------------------------------------------------------------------------
(* Ranges                                                                   *)

\* The end of a range may lie at the top of the address space, not beyond it.
LEMMA EndOfRange ==
    ASSUME NEW a \in Accesses
    PROVE  /\ NoOverflow(a.vaddr + a.len) <=> a.vaddr + a.len <= Space
           /\ a.vaddr \in Int /\ a.len \in Int /\ 0 <= a.vaddr /\ a.vaddr < Space /\ 0 <= a.len
<1> DEFINE e == a.vaddr + a.len
<1>1. /\ a.vaddr \in Int /\ a.len \in Int /\ 0 <= a.vaddr /\ a.vaddr < Space
      /\ 0 <= a.len /\ a.len < Space /\ Space \in Nat \ {0}
  BY Sizes DEF Accesses
<1>2. e \in Int /\ 0 <= e /\ e < Space + Space
  BY <1>1
<1> HIDE DEF e
<1>3. /\ e = Space * (e \div Space) + (e % Space) /\ 0 <= e % Space /\ e % Space < Space
      /\ e \div Space \in Int /\ e % Space \in Int
  BY <1>1, <1>2, DivMod
<1>4. CASE e >= Space
  <2>1. e = Space * 1 + (e - Space) /\ 0 <= e - Space /\ e - Space < Space
    BY <1>1, <1>2, <1>4
  <2>2. e % Space = e - Space
    BY <1>1, <1>2, <1>3, <2>1, DivModUnique
  <2> QED
    BY <1>1, <1>2, <1>4, <2>2 DEF NoOverflow, e
<1>5. CASE e < Space
  BY <1>1, <1>2, <1>5 DEF NoOverflow, e
<1> QED
  BY <1>1, <1>2, <1>4, <1>5

\* Where page i of a range starts and ends, and where its bytes go.
PageStart(a, i) == IF i = 1 THEN Offset(a.vaddr) ELSE 0
PageEnd(a, n, i) == IF i = n THEN Offset(a.vaddr + a.len - 1) + 1 ELSE PAGE_SIZE
PageDst(a, i) == (i - 1) * PAGE_SIZE + PageStart(a, i) - Offset(a.vaddr)

LEMMA RangeFacts ==
    ASSUME NEW a \in Accesses, a.len > 0, a.vaddr + a.len <= Space,
           NEW first, first = PageOf(a.vaddr), NEW n, n = PageOf(a.vaddr + a.len - 1) - first + 1
    PROVE  /\ first \in Int /\ n \in Nat \ {0} /\ RangePages(a) \in Seq(Int)
           /\ Len(RangePages(a)) = n /\ \A i \in 1..n : RangePages(a)[i] = first + i - 1
           /\ a.len = (n - 1) * PAGE_SIZE + Offset(a.vaddr + a.len - 1) + 1 - Offset(a.vaddr)
           /\ (a.vaddr + a.len - 1) % Space = a.vaddr + a.len - 1
<1> DEFINE last == a.vaddr + a.len - 1
<1>1. /\ a.vaddr \in Int /\ a.len \in Int /\ last \in Int /\ 0 <= a.vaddr /\ 0 <= last /\ last < Space
      /\ a.vaddr <= last /\ Space \in Nat \ {0} /\ PAGE_SIZE \in Nat \ {0}
  BY EndOfRange, Sizes
<1> HIDE DEF last
<1>2. last % Space = last
  <2>1. /\ last = Space * (last \div Space) + (last % Space) /\ 0 <= last % Space /\ last % Space < Space
        /\ last \div Space \in Int /\ last % Space \in Int
    BY <1>1, DivMod
  <2>2. last = Space * 0 + last
    BY <1>1
  <2> QED
    BY <1>1, <2>1, <2>2, DivModUnique
<1>3. PageOf(a.vaddr) <= PageOf(last) /\ PageOf(a.vaddr) \in Int /\ PageOf(last) \in Int
  BY <1>1, DivMonotonic, DivMod DEF PageOf
<1>4. first \in Int /\ n \in Nat \ {0} /\ PageOf(last) = first + n - 1
  BY <1>3 DEF last
<1>5. RangePages(a) = [i \in 1..(PageOf(last) - first + 1) |-> first + i - 1]
  BY <1>2 DEF RangePages, RangeSeq, last
<1>6. PageOf(last) - first + 1 = n
  BY <1>3, <1>4
<1>7. RangePages(a) \in [1..n -> Int] /\ \A i \in 1..n : RangePages(a)[i] = first + i - 1
  BY <1>4, <1>5, <1>6, SMTT(30)
<1>8. RangePages(a) \in Seq(Int) /\ Len(RangePages(a)) = n
  BY <1>4, <1>7, SeqOfLength, SMTT(30)
<1>9. a.len = (n - 1) * PAGE_SIZE + Offset(last) + 1 - Offset(a.vaddr)
  <2> DEFINE q == PAGE_SIZE * first
             d == (n - 1) * PAGE_SIZE
  <2>1. /\ a.vaddr = PAGE_SIZE * first + Offset(a.vaddr) /\ Offset(a.vaddr) \in Int
        /\ last = PAGE_SIZE * PageOf(last) + Offset(last) /\ Offset(last) \in Int
    BY <1>1, PageParts
  <2>2. PAGE_SIZE * (first + n - 1) = PAGE_SIZE * first + (n - 1) * PAGE_SIZE
    BY <1>1, <1>4
  <2>3. q \in Int /\ d \in Int /\ last = q + d + Offset(last) /\ a.vaddr = q + Offset(a.vaddr)
    BY <1>1, <1>4, <2>1, <2>2
  <2> HIDE DEF q, d
  <2>4. a.len = last - a.vaddr + 1
    BY <1>1 DEF last
  <2>5. a.len = d + Offset(last) + 1 - Offset(a.vaddr)
    BY <1>1, <2>1, <2>3, <2>4
  <2> QED
    BY <2>5 DEF d
<1> QED
  BY <1>2, <1>4, <1>7, <1>8, <1>9 DEF last

LEMMA PageBounds ==
    ASSUME NEW a \in Accesses, a.len > 0, a.vaddr + a.len <= Space,
           NEW n, n = PageOf(a.vaddr + a.len - 1) - PageOf(a.vaddr) + 1, NEW i \in 1..n
    PROVE  /\ PageStart(a, i) \in Int /\ PageEnd(a, n, i) \in Int /\ PageDst(a, i) \in Int
           /\ 0 <= PageStart(a, i) /\ PageStart(a, i) < PageEnd(a, n, i)
           /\ PageEnd(a, n, i) <= PAGE_SIZE /\ 0 <= PageDst(a, i)
           /\ a.vaddr + PageDst(a, i) = PAGE_SIZE * (PageOf(a.vaddr) + i - 1) + PageStart(a, i)
           /\ PageDst(a, i) + (PageEnd(a, n, i) - PageStart(a, i)) =
                 IF i = n THEN a.len ELSE PageDst(a, i + 1)
<1> DEFINE first == PageOf(a.vaddr)
           off == Offset(a.vaddr)
           endoff == Offset(a.vaddr + a.len - 1)
           d == (i - 1) * PAGE_SIZE
<1>1. /\ first \in Int /\ n \in Nat \ {0} /\ i \in Int /\ 1 <= i /\ i <= n
      /\ a.len = (n - 1) * PAGE_SIZE + endoff + 1 - off
  BY RangeFacts
<1>2. /\ a.vaddr \in Int /\ a.len \in Int /\ a.vaddr + a.len - 1 \in Int /\ PAGE_SIZE \in Nat \ {0}
  BY EndOfRange, Sizes
<1>3. /\ off \in Int /\ 0 <= off /\ off < PAGE_SIZE /\ endoff \in Int /\ 0 <= endoff /\ endoff < PAGE_SIZE
      /\ a.vaddr = PAGE_SIZE * first + off
  BY <1>2, PageParts
<1>4. d \in Int /\ 0 <= d /\ (i = 1 => d = 0) /\ (i > 1 => PAGE_SIZE <= d)
  <2>1. PAGE_SIZE * 0 <= PAGE_SIZE * (i - 1) /\ (i > 1 => PAGE_SIZE * 1 <= PAGE_SIZE * (i - 1))
    BY <1>1, <1>2, MulMono
  <2>2. (i - 1) * PAGE_SIZE = PAGE_SIZE * (i - 1) /\ PAGE_SIZE * (i - 1) \in Int
    BY <1>1, <1>2
  <2> QED
    BY <1>1, <1>2, <2>1, <2>2
<1>5. PAGE_SIZE * (first + i - 1) = PAGE_SIZE * first + d /\ PAGE_SIZE * first \in Int
  BY <1>1, <1>2
<1>6. ((i + 1) - 1) * PAGE_SIZE = d + PAGE_SIZE /\ (i = n => (n - 1) * PAGE_SIZE = d)
  BY <1>1, <1>2
<1>7. PageDst(a, i) = d + PageStart(a, i) - off /\ PageDst(a, i + 1) = ((i + 1) - 1) * PAGE_SIZE + 0 - off
  BY <1>1 DEF PageDst, PageStart
<1>8. PageStart(a, i) = IF i = 1 THEN off ELSE 0
  BY DEF PageStart
<1>9. PageEnd(a, n, i) = IF i = n THEN endoff + 1 ELSE PAGE_SIZE
  BY DEF PageEnd
<1> DEFINE q == PAGE_SIZE * first
<1>10. q \in Int /\ a.vaddr = q + off /\ PAGE_SIZE * (first + i - 1) = q + d
  BY <1>3, <1>5
<1> HIDE DEF d, off, endoff, first, q
<1>11. PageDst(a, i + 1) = d + PAGE_SIZE - off /\ (i = n => a.len = d + endoff + 1 - off)
  <2>1. i = n => a.len = d + endoff + 1 - off
    BY <1>1, <1>6, Zenon
  <2>2. PageDst(a, i + 1) = d + PAGE_SIZE + 0 - off
    BY <1>6, <1>7, Zenon
  <2>3. d + PAGE_SIZE + 0 - off = d + PAGE_SIZE - off
    BY <1>2, <1>3, <1>4
  <2> QED
    BY <2>1, <2>2, <2>3, Zenon
<1>12. i = 1 /\ i = n => PageStart(a, i) < PageEnd(a, n, i)
  <2>1. i = 1 /\ i = n => a.len = endoff + 1 - off
    BY <1>2, <1>3, <1>4, <1>11
  <2> QED
    BY <1>2, <1>3, <1>8, <1>9, <2>1
<1>13. PageStart(a, i) < PageEnd(a, n, i)
  BY <1>2, <1>3, <1>8, <1>9, <1>12
<1>14. PageDst(a, i) \in Int /\ 0 <= PageDst(a, i)
  BY <1>1, <1>2, <1>3, <1>4, <1>7, <1>8
<1>15. a.vaddr + PageDst(a, i) = PAGE_SIZE * (first + i - 1) + PageStart(a, i)
  BY <1>2, <1>3, <1>4, <1>7, <1>8, <1>10
<1>16. PageDst(a, i) + (PageEnd(a, n, i) - PageStart(a, i)) =
          IF i = n THEN a.len ELSE PageDst(a, i + 1)
  BY <1>2, <1>3, <1>4, <1>7, <1>8, <1>9, <1>11
<1> QED
  BY <1>2, <1>3, <1>8, <1>9, <1>13, <1>14, <1>15, <1>16 DEF first

LEMMA PageEndBelow ==
    ASSUME NEW a \in Accesses, a.len > 0, a.vaddr + a.len <= Space,
           NEW n, n = PageOf(a.vaddr + a.len - 1) - PageOf(a.vaddr) + 1, NEW i \in 1..n
    PROVE  PageDst(a, i) + (PageEnd(a, n, i) - PageStart(a, i)) <= a.len
<1>1. n \in Nat \ {0} /\ i \in Int /\ 1 <= i /\ i <= n
  BY RangeFacts
<1>2. a.vaddr \in Int /\ a.len \in Int /\ PAGE_SIZE \in Nat
  BY EndOfRange, Sizes
<1>3. ASSUME i # n
      PROVE  PageDst(a, i + 1) <= a.len
  <2> DEFINE x == i * PAGE_SIZE
             y == (n - 1) * PAGE_SIZE
  <2>1. i + 1 # 1 /\ (i + 1) - 1 = i /\ i <= n - 1
    BY <1>1, <1>3
  <2>2. PageDst(a, i + 1) = x + 0 - Offset(a.vaddr)
    BY <2>1 DEF PageDst, PageStart
  <2>3. PAGE_SIZE * i <= PAGE_SIZE * (n - 1) /\ x = PAGE_SIZE * i /\ y = PAGE_SIZE * (n - 1)
    BY <1>1, <1>2, <2>1, MulMono
  <2>4. x \in Int /\ y \in Int /\ x <= y
    BY <1>1, <1>2, <2>3
  <2>5. a.len = y + Offset(a.vaddr + a.len - 1) + 1 - Offset(a.vaddr)
    BY RangeFacts
  <2>6. /\ Offset(a.vaddr) \in Int /\ Offset(a.vaddr + a.len - 1) \in Int
        /\ 0 <= Offset(a.vaddr + a.len - 1)
    BY <1>2, PageParts, SMTT(30)
  <2> HIDE DEF x, y
  <2> QED
    BY <1>2, <2>2, <2>4, <2>5, <2>6
<1>4. PageDst(a, i) + (PageEnd(a, n, i) - PageStart(a, i)) = IF i = n THEN a.len ELSE PageDst(a, i + 1)
  BY PageBounds
<1> QED
  BY <1>2, <1>3, <1>4

\* The copy of page i of a range.
LEMMA PagePiece ==
    ASSUME GoodEnv, NEW a \in Accesses, a.len > 0, a.vaddr + a.len <= Space,
           NEW n, n = PageOf(a.vaddr + a.len - 1) - PageOf(a.vaddr) + 1, NEW i \in 1..n,
           Mapped(PageOf(a.vaddr) + i - 1)
    PROVE  Piece(a, page_copies(a, PageOf(a.vaddr) + i - 1), PageDst(a, i),
                 IF i = n THEN a.len ELSE PageDst(a, i + 1))
<1> DEFINE first == PageOf(a.vaddr)
           page == first + i - 1
           st == PageStart(a, i)
           en == PageEnd(a, n, i)
           dst == PageDst(a, i)
           at == Host(page, st)
           hi == dst + (en - st)
<1>1. /\ first \in Int /\ n \in Nat \ {0} /\ i \in Int /\ 1 <= i /\ i <= n /\ page \in Int
      /\ RangePages(a)[1] = first /\ Last(RangePages(a)) = first + n - 1
      /\ (a.vaddr + a.len - 1) % Space = a.vaddr + a.len - 1
  <2>1. /\ first \in Int /\ n \in Nat \ {0} /\ Len(RangePages(a)) = n
        /\ \A j \in 1..n : RangePages(a)[j] = first + j - 1
        /\ (a.vaddr + a.len - 1) % Space = a.vaddr + a.len - 1
    BY RangeFacts
  <2>2. 1 \in 1..n /\ n \in 1..n /\ first + 1 - 1 = first
    BY <2>1
  <2>3. RangePages(a)[1] = first /\ Last(RangePages(a)) = first + n - 1
    BY <2>1, <2>2 DEF Last
  <2> QED
    BY <2>1, <2>3
<1>2. /\ st \in Int /\ en \in Int /\ dst \in Int /\ 0 <= st /\ st < en /\ en <= PAGE_SIZE /\ 0 <= dst
      /\ a.vaddr + dst = PAGE_SIZE * page + st
      /\ hi = IF i = n THEN a.len ELSE PageDst(a, i + 1)
  BY PageBounds
<1>3. /\ page = RangePages(a)[1] <=> i = 1
      /\ page = Last(RangePages(a)) <=> i = n
  BY <1>1
<1>4. page_copies(a, page) = copy_parts(env.build, at, en - st, dst) \o set_dirty(a, page)
  <2>1. (page - first) * PAGE_SIZE = (i - 1) * PAGE_SIZE
    BY <1>1
  <2>2. (IF page = RangePages(a)[1] THEN Offset(a.vaddr) ELSE 0) = st
    BY <1>3 DEF PageStart
  <2>3. (IF page = Last(RangePages(a)) THEN Offset((a.vaddr + a.len - 1) % Space) + 1 ELSE PAGE_SIZE) = en
    BY <1>1, <1>3 DEF PageEnd
  <2>4. (page - RangePages(a)[1]) * PAGE_SIZE + st - Offset(a.vaddr) = dst
    BY <1>1, <2>1 DEF PageDst
  <2>5. Mapped(page)
    OBVIOUS
  <2> HIDE DEF st, en, dst, page
  <2> QED
    BY <2>2, <2>3, <2>4, <2>5 DEF page_copies, CopyThenCommit
<1>5. Mapped(page) /\ a.vaddr \in Int /\ a.len \in Int /\ PAGE_SIZE \in Nat
  BY EndOfRange, Sizes
<1>6. hi <= a.len
  BY PageEndBelow
<1>7. at \in Int
  <2>1. at \in HostBytes
    BY <1>2, <1>5, HostInside
  <2> QED
    BY <2>1 DEF HostBytes
<1> HIDE DEF first, page, st, en, dst, at
<1>8. dst <= hi /\ hi \in Int /\ st + (hi - dst) <= PAGE_SIZE /\ en - st \in Int /\ 0 <= en - st
  BY <1>2, <1>5
<1>9. Lies(a, at, dst, hi)
  <2> HIDE DEF hi
  <2> QED
    BY <1>1, <1>2, <1>5, <1>8, LiesInPage DEF at
<1>10. /\ Tiles(a, copy_parts(env.build, at, en - st, dst), dst, hi)
       /\ Plain(a, copy_parts(env.build, at, en - st, dst))
  BY <1>2, <1>6, <1>7, <1>8, <1>9, CopyTiles
<1>11. \A k \in dst..(hi - 1) : PageOf(a.vaddr + k) = page
  <2> HIDE DEF hi
  <2> SUFFICES ASSUME NEW k \in dst..(hi - 1)
               PROVE  PageOf(a.vaddr + k) = page
    OBVIOUS
  <2> DEFINE q == PAGE_SIZE * page
             o == st + (k - dst)
  <2>1. q \in Int /\ a.vaddr + dst = q + st /\ o \in Int
    BY <1>1, <1>2, <1>5, <1>8
  <2> HIDE DEF q
  <2>2. 0 <= o /\ o < PAGE_SIZE /\ a.vaddr + k = q + o /\ a.vaddr + k \in Int
    BY <1>2, <1>5, <1>8, <2>1
  <2> HIDE DEF o
  <2> QED
    BY <1>1, <2>1, <2>2, PageAt DEF q
<1> HIDE DEF hi
<1>12. Piece(a, page_copies(a, page), dst, hi)
  BY <1>2, <1>4, <1>8, <1>10, <1>11, MarkAfter DEF Piece
<1> QED
  BY <1>2, <1>12 DEF first, page, dst, hi

-----------------------------------------------------------------------------
(* The shape of a plan: checks, then what is done when they have passed      *)

\* The elements of a flattened sequence.
From(F, ss, n) ==
    /\ \A i \in 1..Len(F) : \E j \in 1..n : \E m \in 1..Len(ss[j]) : F[i] = ss[j][m]
    /\ \A j \in 1..n : \A m \in 1..Len(ss[j]) : \E i \in 1..Len(F) : F[i] = ss[j][m]

LEMMA FromConcat ==
    ASSUME NEW S, NEW n \in Nat, n > 0, NEW ss \in Seq(Seq(S)), n <= Len(ss), NEW F \in Seq(S),
           From(F, ss, n - 1)
    PROVE  From(F \o ss[n], ss, n)
<1> DEFINE t == ss[n]
           G == F \o t
<1>1. t \in Seq(S) /\ n \in 1..n /\ 1..(n - 1) \subseteq 1..n
  OBVIOUS
<1> HIDE DEF t
<1>2. /\ Len(G) = Len(F) + Len(t)
      /\ \A i \in 1..Len(F) : i \in 1..Len(G) /\ G[i] = F[i]
      /\ \A j \in 1..Len(t) : Len(F) + j \in 1..Len(G) /\ G[Len(F) + j] = t[j]
      /\ \A i \in 1..Len(G) : i \in 1..Len(F) \/ (i - Len(F) \in 1..Len(t) /\ G[i] = t[i - Len(F)])
  BY <1>1, ConcatElement
<1> HIDE DEF G
<1>3. ASSUME NEW i \in 1..Len(G)
      PROVE  \E j \in 1..n : \E m \in 1..Len(ss[j]) : G[i] = ss[j][m]
  <2>1. CASE i \in 1..Len(F)
    <3>1. PICK j \in 1..(n - 1) : \E m \in 1..Len(ss[j]) : F[i] = ss[j][m]
      BY <2>1, Zenon DEF From
    <3>2. j \in 1..n /\ G[i] = F[i]
      BY <1>1, <1>2, <2>1
    <3> QED
      BY <3>1, <3>2, Zenon
  <2>2. CASE i - Len(F) \in 1..Len(t) /\ G[i] = t[i - Len(F)]
    BY <1>1, <2>2, Zenon DEF t
  <2> QED
    BY <1>2, <2>1, <2>2, Zenon
<1>4. ASSUME NEW j \in 1..n, NEW m \in 1..Len(ss[j])
      PROVE  \E i \in 1..Len(G) : G[i] = ss[j][m]
  <2>1. CASE j \in 1..(n - 1)
    <3>1. PICK i \in 1..Len(F) : F[i] = ss[j][m]
      BY <2>1, Zenon DEF From
    <3> QED
      BY <1>2, <3>1, Zenon
  <2>2. CASE j = n
    <3>1. Len(F) + m \in 1..Len(G) /\ G[Len(F) + m] = t[m]
      BY <1>2, <2>2, Zenon DEF t
    <3> QED
      BY <2>2, <3>1, Zenon DEF t
  <2>3. j \in 1..(n - 1) \/ j = n
    OBVIOUS
  <2> QED
    BY <2>1, <2>2, <2>3, Zenon
<1> QED
  BY <1>3, <1>4, Zenon DEF From, G, t

LEMMA FlattenElements ==
    ASSUME NEW S, NEW ss \in Seq(Seq(S))
    PROVE  FlattenSeq(ss) \in Seq(S) /\ From(FlattenSeq(ss), ss, Len(ss))
<1> DEFINE n == Len(ss)
<1>1. n \in Nat
  BY LenProperties
<1>2. CASE n = 0
  <2>1. FlattenSeq(ss) = <<>> /\ 1..n = {} /\ 1..Len(<<>>) = {}
    BY <1>2 DEF FlattenSeq
  <2> QED
    BY <2>1, SMTT(30) DEF From
<1>3. CASE n > 0
  <2>1. PICK f : /\ FlattenSeq(ss) = f[n]
                 /\ \A i \in 1..n : f[i] = IF i = 1 THEN ss[i] ELSE f[i - 1] \o ss[i]
    BY <1>3, FlattenUnfold
  <2> DEFINE T == {i \in 1..n : ~(f[i] \in Seq(S) /\ From(f[i], ss, i))}
  <2>2. ASSUME T # {}
        PROVE  FALSE
    <3>1. PICK k \in T : \A j \in T : k <= j
      <4>1. T \in SUBSET Nat
        BY <1>1
      <4> QED
        BY <2>2, <4>1, Least
    <3>2. k \in 1..n /\ ~(f[k] \in Seq(S) /\ From(f[k], ss, k))
      OBVIOUS
    <3>3. k \in Nat /\ k > 0 /\ k <= n /\ ss[k] \in Seq(S)
      BY <1>1, <3>2
    <3>4. CASE k = 1
      <4>1. f[k] = ss[k] /\ 1..1 = {1}
        BY <2>1, <3>2, <3>4
      <4> QED
        BY <3>2, <3>3, <3>4, <4>1 DEF From
    <3>5. CASE k > 1
      <4>1. k - 1 \in 1..n /\ k - 1 \notin T
        BY <1>1, <3>1, <3>2, <3>5
      <4>2. f[k - 1] \in Seq(S) /\ From(f[k - 1], ss, k - 1)
        BY <4>1
      <4>3. f[k] = f[k - 1] \o ss[k]
        <5>1. k # 1
          BY <3>5
        <5> QED
          BY <2>1, <3>2, <5>1, Zenon
      <4>4. From(f[k - 1] \o ss[k], ss, k)
        BY <3>3, <4>2, FromConcat
      <4>5. f[k - 1] \o ss[k] \in Seq(S)
        BY <3>3, <4>2, ConcatElement
      <4> QED
        BY <3>2, <4>3, <4>4, <4>5
    <3>6. k = 1 \/ k > 1
      BY <3>3
    <3> QED
      BY <3>4, <3>5, <3>6
  <2>3. n \in 1..n
    BY <1>1, <1>3
  <2> QED
    BY <2>1, <2>2, <2>3
<1> QED
  BY <1>1, <1>2, <1>3

Ok(x) == x.ok

\* The access may be done, and the address at is why it may not.
Allowed(a) ==
    ~Beyond(a) /\ ~Misaligned(a) /\ \A v \in Touched(a) : ~Refused(a, v)

Explains(a, at) ==
    \/ Beyond(a) /\ at = TopAddr
    \/ Misaligned(a) /\ at = a.vaddr
    \/ \E v \in Touched(a) : Refused(a, v) /\ at = ReportedAddress(a, v)

\* Native parts, which are converted at the end.
Native(s) ==
    /\ s # <<>> /\ s[Len(s)].kind = "from_le"
    /\ \A i \in 1..(Len(s) - 1) : s[i].kind = "part" /\ s[i].le = FALSE

Converts(a, s) == Plain(a, s) \/ (a.op = "load" /\ Native(s))

Body(a, s) ==
    IF a.kind = "pages" THEN s = <<>>
    ELSE Tiles(a, s, 0, a.len) /\ Marks(a, s, 0, a.len) /\ Converts(a, s)

\* Checks that pass, and then either what the access does, or the check that fails
\* and says why it is refused.
Planned(a, s) ==
    \E cs, rest \in Seq(Ops) :
        /\ s = cs \o rest
        /\ \A i \in 1..Len(cs) : cs[i].kind = "check" /\ Ok(cs[i])
        /\ \/ Allowed(a) /\ Body(a, rest)
           \/ /\ Len(rest) > 0 /\ rest[1].kind = "check" /\ ~Ok(rest[1])
              /\ Explains(a, rest[1].at)

LEMMA CheckOps ==
    ASSUME NEW ok \in BOOLEAN, NEW at \in Int
    PROVE  /\ Check(ok, at) \in Ops /\ Check(ok, at).kind = "check" /\ Check(ok, at).at = at
           /\ Ok(Check(ok, at)) <=> ok
BY DEF Check, MicroOps, Ops, Ok

\* The pages of the bytes of a range.
LEMMA TouchedPages ==
    ASSUME NEW a \in Accesses, a.len > 0, a.vaddr + a.len <= Space,
           NEW n, n = PageOf(a.vaddr + a.len - 1) - PageOf(a.vaddr) + 1
    PROVE  /\ \A v \in Touched(a) : v \in Int /\ \E i \in 1..n : PageOf(v) = PageOf(a.vaddr) + i - 1
           /\ \A i \in 1..n : \E v \in Touched(a) : PageOf(v) = PageOf(a.vaddr) + i - 1
<1> DEFINE first == PageOf(a.vaddr)
           last == a.vaddr + a.len - 1
<1>1. /\ a.vaddr \in Int /\ a.len \in Int /\ last \in Int /\ a.vaddr <= last /\ last <= TopAddr
      /\ PAGE_SIZE \in Nat \ {0} /\ TopAddr \in Int
  BY EndOfRange, Sizes
<1>2. first \in Int /\ n \in Nat \ {0} /\ PageOf(last) = first + n - 1 /\ PageOf(last) \in Int
  <2>1. first \in Int /\ n \in Nat \ {0}
    BY RangeFacts
  <2>2. PageOf(last) \in Int
    BY <1>1, PageParts
  <2> QED
    BY <2>1, <2>2
<1>3. ASSUME NEW v \in Touched(a)
      PROVE  v \in Int /\ \E i \in 1..n : PageOf(v) = first + i - 1
  <2>1. v \in Int /\ a.vaddr <= v /\ v <= last
    BY <1>1 DEF Touched
  <2> HIDE DEF last
  <2>2. first <= PageOf(v) /\ PageOf(v) <= PageOf(last) /\ PageOf(v) \in Int
    BY <1>1, <2>1, DivMonotonic, PageParts DEF PageOf
  <2> DEFINE j == PageOf(v) - first + 1
  <2>3. j \in 1..n /\ PageOf(v) = first + j - 1
    BY <1>2, <2>2
  <2> QED
    BY <2>1, <2>3
<1>4. ASSUME NEW i \in 1..n
      PROVE  \E v \in Touched(a) : PageOf(v) = first + i - 1
  <2> DEFINE v == a.vaddr + PageDst(a, i)
             st == PageStart(a, i)
             en == PageEnd(a, n, i)
             dst == PageDst(a, i)
  <2>1. /\ st \in Int /\ en \in Int /\ dst \in Int /\ 0 <= st /\ st < en /\ en <= PAGE_SIZE /\ 0 <= dst
        /\ a.vaddr + dst = PAGE_SIZE * (first + i - 1) + st
    BY PageBounds
  <2>2. dst + (en - st) <= a.len
    BY PageEndBelow
  <2> HIDE DEF st, en, dst
  <2>3. dst <= a.len - 1
    BY <1>1, <2>1, <2>2
  <2>4. a.vaddr + dst \in a.vaddr..(a.vaddr + a.len - 1) /\ a.vaddr + dst <= TopAddr
    BY <1>1, <2>1, <2>3
  <2>5. a.vaddr + dst \in Touched(a)
    BY <2>4 DEF Touched
  <2>6. PageOf(a.vaddr + dst) = first + i - 1
    <3>1. first + i - 1 \in Int /\ st < PAGE_SIZE /\ a.vaddr + dst \in Int
      BY <1>1, <1>2, <2>1
    <3> HIDE DEF first
    <3> QED
      BY <2>1, <3>1, PageAt
  <2> QED
    BY <2>5, <2>6
<1> QED
  BY <1>3, <1>4

LEMMA PlannedBody ==
    ASSUME NEW a, NEW s \in Seq(Ops), Allowed(a), Body(a, s)
    PROVE  Planned(a, s)
<1> DEFINE e == <<>>
<1>1. e \in Seq(Ops) /\ Len(e) = 0 /\ e \o s = s
  BY EmptySeq, ConcatEmptySeq
<1>2. 1..Len(e) = {}
  BY <1>1
<1> HIDE DEF e
<1> QED
  BY <1>1, <1>2, Zenon DEF Planned

\* A check in front.
LEMMA PlannedCheck ==
    ASSUME NEW a, NEW s \in Seq(Ops), NEW ok \in BOOLEAN, NEW at \in Int,
           ok => Planned(a, s), ~ok => Explains(a, at)
    PROVE  /\ Planned(a, <<Check(ok, at)>> \o s) /\ <<Check(ok, at)>> \o s \in Seq(Ops)
<1> DEFINE x == Check(ok, at)
           one == <<x>>
<1>1. x \in Ops /\ x.kind = "check" /\ x.at = at /\ (Ok(x) <=> ok)
  BY CheckOps
<1> HIDE DEF x
<1>2. one \in Seq(Ops) /\ Len(one) = 1 /\ one[1] = x /\ 1..Len(one) = {1}
  BY <1>1
<1> HIDE DEF one
<1>3. one \in Seq(Ops) /\ one \o s \in Seq(Ops)
  BY <1>2, ConcatElement
<1>4. CASE ok
  <2>1. PICK cs \in Seq(Ops), rest \in Seq(Ops) :
          /\ s = cs \o rest
          /\ \A i \in 1..Len(cs) : cs[i].kind = "check" /\ Ok(cs[i])
          /\ \/ Allowed(a) /\ Body(a, rest)
             \/ /\ Len(rest) > 0 /\ rest[1].kind = "check" /\ ~Ok(rest[1])
                /\ Explains(a, rest[1].at)
    BY <1>4 DEF Planned
  <2> DEFINE ds == one \o cs
  <2>2. ds \in Seq(Ops)
    BY <1>2, ConcatElement
  <2>3. one \o s = ds \o rest
    <3>1. one \o (cs \o rest) = (one \o cs) \o rest
      BY <1>3, ConcatAssociative, SMTT(30)
    <3> QED
      BY <2>1, <3>1, Zenon
  <2>4. \A i \in 1..Len(ds) : \/ i \in 1..Len(one) /\ ds[i] = one[i]
                              \/ i - Len(one) \in 1..Len(cs) /\ ds[i] = cs[i - Len(one)]
    BY <1>3, ConcatElement
  <2>5. \A i \in 1..Len(ds) : ds[i].kind = "check" /\ Ok(ds[i])
    <3> HIDE DEF ds
    <3> TAKE i \in 1..Len(ds)
    <3>1. CASE i \in 1..Len(one) /\ ds[i] = one[i]
      <4>1. ds[i] = x
        BY <1>2, <3>1
      <4> QED
        BY <1>1, <1>4, <4>1, Zenon
    <3>2. CASE i - Len(one) \in 1..Len(cs) /\ ds[i] = cs[i - Len(one)]
      BY <2>1, <3>2, Zenon
    <3> QED
      BY <2>4, <3>1, <3>2, Zenon
  <2> HIDE DEF ds
  <2>6. Planned(a, one \o s)
    BY <2>1, <2>2, <2>3, <2>5, Zenon DEF Planned
  <2> QED
    BY <1>3, <2>6 DEF one, x
<1>5. CASE ~ok
  <2> DEFINE r == one \o s
             e == <<>>
  <2>1. r \in Seq(Ops) /\ Len(r) > 0 /\ r[1] = x
    <3>1. /\ r \in Seq(Ops) /\ Len(r) = Len(one) + Len(s) /\ Len(s) \in Nat
          /\ \A i \in 1..Len(one) : r[i] = one[i]
      BY <1>3, ConcatElement
    <3> HIDE DEF r
    <3> QED
      BY <1>2, <3>1
  <2>2. e \in Seq(Ops) /\ Len(e) = 0 /\ e \o r = r
    BY <1>3, EmptySeq, ConcatEmptySeq
  <2> HIDE DEF r
  <2>3. 1..Len(e) = {}
    BY <2>2
  <2> HIDE DEF e
  <2>4. r[1].kind = "check" /\ ~Ok(r[1]) /\ Explains(a, r[1].at)
    BY <1>1, <1>5, <2>1, Zenon
  <2>5. Planned(a, r)
    BY <2>1, <2>2, <2>3, <2>4, Zenon DEF Planned
  <2> QED
    BY <1>3, <2>5, Zenon DEF r, one, x
<1> QED
  BY <1>4, <1>5

LEMMA PairThen ==
    ASSUME NEW S, NEW x \in S, NEW y \in S, NEW t \in Seq(S)
    PROVE  <<x, y>> \o t = <<x>> \o (<<y>> \o t)
<1> DEFINE p == <<x>>
           q == <<y>>
<1>1. p \in Seq(S) /\ q \in Seq(S)
  OBVIOUS
<1>2. <<x, y>> = p \o q
  <2>1. Len(<<x, y>>) = 2 /\ Len(p) = 1 /\ Len(q) = 1 /\ <<x, y>> \in Seq(S)
    OBVIOUS
  <2>2. <<x, y>>[1] = x /\ <<x, y>>[2] = y /\ p[1] = x /\ q[1] = y
    OBVIOUS
  <2> HIDE DEF p, q
  <2>3. p \o q \in Seq(S) /\ Len(p \o q) = 2 /\ (p \o q)[1] = x /\ (p \o q)[2] = y
    <3>1. Len(p) = 1 /\ Len(q) = 1 /\ p[1] = x /\ q[1] = y
      BY <2>1, <2>2
    <3>2. Len(p \o q) = 1 + 1 /\ p \o q \in Seq(S)
      <4>1. Len(p \o q) = Len(p) + Len(q) /\ p \o q \in Seq(S)
        BY <1>1, ConcatProperties
      <4> QED
        BY <3>1, <4>1
    <3>3. 1 \in 1..Len(p \o q) /\ 2 \in 1..Len(p \o q) /\ 1 <= 1 /\ ~(2 <= 1) /\ 2 - 1 = 1
      BY <3>2
    <3> QED
      BY <1>1, <3>1, <3>2, <3>3
  <2> DEFINE r == <<x, y>>
  <2> HIDE DEF r
  <2>4. \A i \in 1..2 : r[i] = (p \o q)[i]
    BY <2>2, <2>3 DEF r
  <2> QED
    BY <2>1, <2>3, <2>4, SeqEqual DEF r
<1> HIDE DEF p, q
<1> QED
  BY <1>1, <1>2, ConcatAssociative DEF p, q

\* Any number of checks in front of what the access does.
LEMMA PlannedChecks ==
    ASSUME NEW a, NEW F \in Seq(Ops), NEW s \in Seq(Ops),
           \A i \in 1..Len(F) : F[i].kind = "check",
           \A i \in 1..Len(F) : ~Ok(F[i]) => Explains(a, F[i].at),
           (\A i \in 1..Len(F) : Ok(F[i])) => Allowed(a) /\ Body(a, s)
    PROVE  Planned(a, F \o s)
<1>1. CASE \A i \in 1..Len(F) : Ok(F[i])
  BY <1>1, Zenon DEF Planned
<1>2. CASE ~(\A i \in 1..Len(F) : Ok(F[i]))
  <2> DEFINE T == {i \in 1..Len(F) : ~Ok(F[i])}
  <2>1. Len(F) \in Nat
    BY LenProperties
  <2>2. T \in SUBSET Nat /\ T # {}
    BY <1>2
  <2>3. PICK m \in T : \A j \in T : m <= j
    BY <2>2, Least
  <2>4. m \in Int /\ 1 <= m /\ m <= Len(F) /\ m \in 1..Len(F) /\ ~Ok(F[m])
    BY <2>1
  <2>5. \A j \in 1..(m - 1) : j \in 1..Len(F) /\ Ok(F[j])
    BY <2>1, <2>3, <2>4
  <2> HIDE DEF T
  <2> DEFINE cs == SubSeq(F, 1, m - 1)
             tl == SubSeq(F, m, Len(F))
  <2>6. /\ cs \in Seq(Ops) /\ Len(cs) = m - 1 /\ \A j \in 1..(m - 1) : cs[j] = F[j]
        /\ tl \in Seq(Ops) /\ Len(tl) > 0 /\ tl[1] = F[m]
    BY <2>1, <2>4
  <2>7. F = cs \o tl
    <3>1. Len(tl) = Len(F) - m + 1 /\ \A j \in 1..Len(tl) : tl[j] = F[m + j - 1]
      BY <2>1, <2>4
    <3> HIDE DEF cs, tl
    <3>2. Len(cs \o tl) = Len(F) /\ cs \o tl \in Seq(Ops)
      BY <2>1, <2>4, <2>6, <3>1
    <3>3. \A j \in 1..Len(F) : (cs \o tl)[j] = F[j]
      <4> TAKE j \in 1..Len(F)
      <4>1. (cs \o tl)[j] = IF j <= m - 1 THEN cs[j] ELSE tl[j - (m - 1)]
        <5>1. j \in 1..(Len(cs) + Len(tl)) /\ Len(cs) = m - 1 /\ cs \in Seq(Ops) /\ tl \in Seq(Ops)
          BY <2>1, <2>4, <2>6, <3>1
        <5> QED
          BY <5>1
      <4>2. CASE j <= m - 1
        BY <2>4, <2>6, <4>1, <4>2
      <4>3. CASE j > m - 1
        <5>1. j - (m - 1) \in 1..Len(tl) /\ m + (j - (m - 1)) - 1 = j
          BY <2>1, <2>4, <3>1, <4>3
        <5>2. tl[j - (m - 1)] = F[j]
          BY <3>1, <5>1
        <5> QED
          BY <2>4, <4>1, <4>3, <5>2
      <4>4. j <= m - 1 \/ j > m - 1
        BY <2>1, <2>4
      <4> QED
        BY <4>2, <4>3, <4>4
    <3> QED
      BY <3>2, <3>3, SeqEqual
  <2> HIDE DEF cs, tl
  <2> DEFINE r == tl \o s
  <2>8. F \o s = cs \o r
    BY <2>6, <2>7, ConcatAssociative
  <2>9. r \in Seq(Ops) /\ Len(r) > 0 /\ r[1] = F[m]
    <3>1. 1 \in 1..Len(tl)
      BY <2>6
    <3> QED
      BY <2>6, <3>1, ConcatElement
  <2> HIDE DEF r
  <2>10. \A j \in 1..Len(cs) : cs[j].kind = "check" /\ Ok(cs[j])
    BY <2>5, <2>6
  <2>11. r[1].kind = "check" /\ ~Ok(r[1]) /\ Explains(a, r[1].at)
    BY <2>4, <2>9, Zenon
  <2>12. Planned(a, cs \o r)
    BY <2>6, <2>9, <2>10, <2>11, Zenon DEF Planned
  <2> QED
    BY <2>8, <2>12
<1> QED
  BY <1>1, <1>2

-----------------------------------------------------------------------------
(* The plans of ranges and of table operations                              *)

LEMMA PageChecksOk ==
    ASSUME NEW a, NEW page \in Int
    PROVE  LET cs == page_checks(a, page)
           IN  /\ cs \in Seq(Ops) /\ 1..Len(cs) = {1, 2}
               /\ \A m \in {1, 2} : cs[m].kind = "check" /\ cs[m].at = vaddr_base(page)
               /\ (Ok(cs[1]) /\ Ok(cs[2])) <=> (Mapped(page) /\ verify(a, page))
               /\ \A m \in {1, 2} : ~Ok(cs[m]) => ~(Mapped(page) /\ verify(a, page))
<1> DEFINE x == Check(Mapped(page), vaddr_base(page))
           y == Check(verify(a, page), vaddr_base(page))
<1>1. Mapped(page) \in BOOLEAN /\ verify(a, page) \in BOOLEAN
  BY DEF Mapped, verify
<1>2. vaddr_base(page) \in Int
  BY Addresses
<1>3. /\ x \in Ops /\ x.kind = "check" /\ x.at = vaddr_base(page) /\ (Ok(x) <=> Mapped(page))
      /\ y \in Ops /\ y.kind = "check" /\ y.at = vaddr_base(page) /\ (Ok(y) <=> verify(a, page))
  BY <1>1, <1>2, CheckOps, Zenon
<1>4. page_checks(a, page) = <<x, y>>
  BY DEF page_checks
<1> HIDE DEF x, y
<1>5. <<x, y>> \in Seq(Ops) /\ 1..Len(<<x, y>>) = {1, 2} /\ <<x, y>>[1] = x /\ <<x, y>>[2] = y
  BY <1>3
<1> DEFINE cs == <<x, y>>
<1>6. cs \in Seq(Ops) /\ 1..Len(cs) = {1, 2} /\ cs[1] = x /\ cs[2] = y
  BY <1>5
<1> HIDE DEF cs
<1>7. \A m \in {1, 2} : cs[m] = x \/ cs[m] = y
  BY <1>6
<1> QED
  BY <1>3, <1>4, <1>6, <1>7, Zenon DEF cs

LEMMA Mirror ==
    ASSUME NEW n \in Int, NEW first \in Int, NEW i \in 1..n
    PROVE  first + i - 1 \in Int /\ n - i + 1 \in 1..n /\ n - (n - i + 1) + 1 = i
OBVIOUS

\* The checks of a range: all of its pages are asked, the last one first.
LEMMA RangeChecks ==
    ASSUME NEW a \in Accesses, a.kind = "range", a.len > 0, a.vaddr + a.len <= Space,
           NEW n, n = PageOf(a.vaddr + a.len - 1) - PageOf(a.vaddr) + 1, NEW R, NEW F \in Seq(Ops),
           \A i \in 1..n : R[i] = page_checks(a, PageOf(a.vaddr) + (n - i + 1) - 1), From(F, R, n)
    PROVE  /\ \A i \in 1..Len(F) : F[i].kind = "check"
           /\ \A i \in 1..Len(F) : ~Ok(F[i]) => Explains(a, F[i].at)
           /\ (\A i \in 1..Len(F) : Ok(F[i])) =>
                 Allowed(a) /\ \A i \in 1..n : Mapped(PageOf(a.vaddr) + i - 1)
<1> DEFINE first == PageOf(a.vaddr)
           page(i) == first + i - 1
<1>1. first \in Int /\ n \in Nat \ {0}
  BY RangeFacts
<1>2. \A i \in 1..n : page(i) \in Int /\ n - i + 1 \in 1..n /\ n - (n - i + 1) + 1 = i
  <2>1. n \in Int
    BY <1>1
  <2> TAKE i \in 1..n
  <2>2. first + i - 1 \in Int /\ n - i + 1 \in 1..n /\ n - (n - i + 1) + 1 = i
    <3> HIDE DEF first
    <3> QED
      BY <1>1, <2>1, Mirror
  <2> QED
    BY <2>2, Zenon
<1>3. ASSUME NEW i \in 1..Len(F)
      PROVE  \E j \in 1..n : \E m \in {1, 2} : F[i] = page_checks(a, page(j))[m]
  <2>1. PICK k \in 1..n : \E m \in 1..Len(R[k]) : F[i] = R[k][m]
    BY Zenon DEF From
  <2> DEFINE j == n - k + 1
  <2>2. j \in 1..n /\ page(j) \in Int /\ R[k] = page_checks(a, page(j))
    BY <1>2, Zenon
  <2> HIDE DEF j
  <2>3. 1..Len(R[k]) = {1, 2}
    BY <2>2, PageChecksOk
  <2> QED
    BY <2>1, <2>2, <2>3, Zenon
<1>4. ASSUME NEW j \in 1..n, NEW m \in {1, 2}
      PROVE  \E i \in 1..Len(F) : F[i] = page_checks(a, page(j))[m]
  <2> DEFINE k == n - j + 1
  <2>1. k \in 1..n /\ n - k + 1 = j /\ page(j) \in Int
    BY <1>2, Zenon
  <2> HIDE DEF k
  <2>2. R[k] = page_checks(a, page(j))
    BY <2>1, Zenon
  <2>3. m \in 1..Len(R[k])
    <3>1. 1..Len(R[k]) = {1, 2}
      BY <2>1, <2>2, PageChecksOk
    <3> QED
      BY <3>1
  <2>4. PICK i \in 1..Len(F) : F[i] = R[k][m]
    BY <2>1, <2>3, Zenon DEF From
  <2> QED
    BY <2>2, <2>4, Zenon
<1>5. ASSUME NEW v
      PROVE  Refused(a, v) <=> ~(Mapped(PageOf(v)) /\ verify(a, PageOf(v)))
  BY DEF Refused, verify, Permitted
<1>6. ~Beyond(a) /\ ~Misaligned(a)
  <2>1. a.vaddr \in Int /\ a.len \in Int /\ Space \in Nat
    BY EndOfRange, Sizes
  <2> QED
    BY <2>1 DEF Beyond, Misaligned
<1>7. \A i \in 1..Len(F) : F[i].kind = "check"
  <2> TAKE i \in 1..Len(F)
  <2>1. PICK j \in 1..n : \E m \in {1, 2} : F[i] = page_checks(a, page(j))[m]
    BY <1>3
  <2>2. page(j) \in Int
    BY <1>2
  <2> HIDE DEF page
  <2>3. \A m \in {1, 2} : page_checks(a, page(j))[m].kind = "check"
    BY <2>2, PageChecksOk
  <2> QED
    BY <2>1, <2>3
<1>8. ASSUME NEW i \in 1..Len(F), ~Ok(F[i])
      PROVE  Explains(a, F[i].at)
  <2>1. PICK j \in 1..n : \E m \in {1, 2} : F[i] = page_checks(a, page(j))[m]
    BY <1>3
  <2>2. page(j) \in Int
    BY <1>2
  <2>3. PICK v \in Touched(a) : PageOf(v) = page(j)
    BY TouchedPages
  <2> HIDE DEF page
  <2>4. \A m \in {1, 2} : /\ page_checks(a, page(j))[m].at = vaddr_base(page(j))
                          /\ ~Ok(page_checks(a, page(j))[m]) => ~(Mapped(page(j)) /\ verify(a, page(j)))
    BY <2>2, PageChecksOk
  <2>5. F[i].at = vaddr_base(page(j)) /\ ~(Mapped(page(j)) /\ verify(a, page(j)))
    BY <1>8, <2>1, <2>4, Zenon
  <2>6. Refused(a, v) /\ F[i].at = ReportedAddress(a, v)
    BY <1>5, <2>3, <2>5 DEF ReportedAddress
  <2> QED
    BY <2>6, Zenon DEF Explains
<1>9. ASSUME \A i \in 1..Len(F) : Ok(F[i]), NEW j \in 1..n
      PROVE  Mapped(page(j)) /\ verify(a, page(j))
  <2>1. page(j) \in Int
    BY <1>2
  <2>2. Ok(page_checks(a, page(j))[1]) /\ Ok(page_checks(a, page(j))[2])
    <3>1. PICK i \in 1..Len(F) : F[i] = page_checks(a, page(j))[1]
      BY <1>4
    <3>2. PICK k \in 1..Len(F) : F[k] = page_checks(a, page(j))[2]
      BY <1>4
    <3> QED
      BY <1>9, <3>1, <3>2, Zenon
  <2> HIDE DEF page
  <2> QED
    BY <2>1, <2>2, PageChecksOk
<1>10. ASSUME \A i \in 1..Len(F) : Ok(F[i])
       PROVE  Allowed(a)
  <2> SUFFICES ASSUME NEW v \in Touched(a)
               PROVE  ~Refused(a, v)
    BY <1>6, Zenon DEF Allowed
  <2>1. PICK i \in 1..n : PageOf(v) = page(i)
    BY TouchedPages
  <2>2. Mapped(page(i)) /\ verify(a, page(i))
    BY <1>9, <1>10
  <2> QED
    BY <1>5, <2>1, <2>2, Zenon
<1> QED
  BY <1>7, <1>8, <1>9, <1>10, Zenon

\* The copies of all pages of a range, whose pages are mapped.
LEMMA RangeBody ==
    ASSUME GoodEnv, NEW a \in Accesses, a.len > 0, a.vaddr + a.len <= Space,
           NEW n, n = PageOf(a.vaddr + a.len - 1) - PageOf(a.vaddr) + 1,
           NEW C \in Seq(Seq(Ops)), Len(C) = n,
           \A i \in 1..n : C[i] = page_copies(a, PageOf(a.vaddr) + i - 1),
           \A i \in 1..n : Mapped(PageOf(a.vaddr) + i - 1)
    PROVE  Piece(a, FlattenSeq(C), 0, a.len)
<1> DEFINE b == [i \in 1..(n + 1) |-> IF i = n + 1 THEN a.len ELSE PageDst(a, i)]
<1>1. n \in Nat \ {0} /\ a.len \in Int
  BY RangeFacts, EndOfRange
<1>2. \A i \in 1..n : PageDst(a, i) \in Int
  BY PageBounds
<1>3. \A i \in 1..(n + 1) : i = n + 1 \/ i \in 1..n
  BY <1>1
<1>4. b \in [1..(n + 1) -> Int]
  BY <1>1, <1>2, <1>3
<1>5. ASSUME NEW i \in 1..n
      PROVE  /\ i \in 1..(n + 1) /\ i + 1 \in 1..(n + 1) /\ b[i] = PageDst(a, i)
             /\ b[i + 1] = IF i = n THEN a.len ELSE PageDst(a, i + 1)
  <2>1. i \in 1..(n + 1) /\ i + 1 \in 1..(n + 1) /\ i # n + 1 /\ (i + 1 = n + 1 <=> i = n)
    BY <1>1
  <2> QED
    BY <2>1
<1>6. b[1] = 0
  <2>1. 1 \in 1..n
    BY <1>1
  <2>2. b[1] = PageDst(a, 1)
    BY <1>5, <2>1
  <2>3. PageDst(a, 1) = 0
    <3>1. Offset(a.vaddr) \in Int /\ (1 - 1) * PAGE_SIZE = 0
      <4>1. a.vaddr \in Int /\ PAGE_SIZE \in Int
        BY EndOfRange, Sizes
      <4>2. Offset(a.vaddr) \in Int
        BY <4>1, PageParts
      <4>3. 1 - 1 = 0 /\ 0 * PAGE_SIZE = 0
        BY <4>1
      <4> QED
        BY <4>2, <4>3, Zenon
    <3> QED
      BY <3>1 DEF PageDst, PageStart
  <2> QED
    BY <2>2, <2>3
<1>7. b[n + 1] = a.len
  BY <1>1
<1> HIDE DEF b
<1>8. ASSUME NEW i \in 1..n
      PROVE  Piece(a, C[i], b[i], b[i + 1]) /\ b[i] <= b[i + 1]
  <2>1. Piece(a, page_copies(a, PageOf(a.vaddr) + i - 1), PageDst(a, i),
              IF i = n THEN a.len ELSE PageDst(a, i + 1))
    BY PagePiece
  <2>2. /\ PageStart(a, i) \in Int /\ PageEnd(a, n, i) \in Int /\ PageDst(a, i) \in Int
        /\ PageStart(a, i) < PageEnd(a, n, i)
        /\ PageDst(a, i) + (PageEnd(a, n, i) - PageStart(a, i)) =
              IF i = n THEN a.len ELSE PageDst(a, i + 1)
    BY PageBounds
  <2>3. C[i] = page_copies(a, PageOf(a.vaddr) + i - 1)
    OBVIOUS
  <2>4. Piece(a, C[i], b[i], b[i + 1])
    BY <1>5, <2>1, <2>3, Zenon
  <2>5. b[i + 1] = b[i] + (PageEnd(a, n, i) - PageStart(a, i))
    BY <1>5, <2>2, Zenon
  <2>6. b[i] \in Int
    BY <1>5, <2>2
  <2> QED
    BY <2>2, <2>4, <2>5, <2>6
<1>9. Piece(a, FlattenSeq(C), b[1], b[n + 1])
  <2>1. n \in Nat
    BY <1>1
  <2> QED
    BY <1>4, <1>8, <2>1, PieceFlatten
<1> QED
  BY <1>6, <1>7, <1>9

LEMMA PageCopiesType ==
    ASSUME GoodEnv, NEW a \in Accesses, a.len > 0, a.vaddr + a.len <= Space,
           NEW n, n = PageOf(a.vaddr + a.len - 1) - PageOf(a.vaddr) + 1, NEW i \in 1..n
    PROVE  page_copies(a, PageOf(a.vaddr) + i - 1) \in Seq(Ops)
<1> DEFINE page == PageOf(a.vaddr) + i - 1
<1>1. CASE Mapped(page)
  BY <1>1, PagePiece DEF Piece, Tiles
<1>2. CASE ~Mapped(page)
  <2>1. page_copies(a, page) = <<>>
    <3> HIDE DEF page
    <3> QED
      BY <1>2 DEF page_copies
  <2> QED
    BY <2>1, EmptySeq
<1> QED
  BY <1>1, <1>2

LEMMA ReverseOf ==
    ASSUME NEW S, NEW s \in Seq(S), NEW n, n = Len(s)
    PROVE  /\ Reverse(s) \in Seq(S) /\ Len(Reverse(s)) = n
           /\ \A i \in 1..n : Reverse(s)[i] = s[n - i + 1]
<1>1. Len(s) \in Nat
  BY LenProperties
<1>2. Reverse(s) = [i \in 1..Len(s) |-> s[(Len(s) - i) + 1]]
  BY DEF Reverse
<1>3. Reverse(s) \in Seq(S)
  BY ReverseType
<1>4. Len(Reverse(s)) = n
  BY <1>1, <1>2
<1> QED
  BY <1>2, <1>3, <1>4

LEMMA RangePlanned ==
    ASSUME GoodEnv, NEW a \in Accesses, a.kind = "range"
    PROVE  Planned(a, mem_access(a))
<1>1. /\ NoOverflow(a.vaddr + a.len) <=> a.vaddr + a.len <= Space
      /\ a.vaddr \in Int /\ a.len \in Int /\ 0 <= a.vaddr /\ a.vaddr < Space /\ 0 <= a.len
      /\ Space \in Nat /\ TopAddr \in Int
  BY EndOfRange, Sizes
<1>2. ~Misaligned(a)
  BY DEF Misaligned
<1>3. CASE a.len = 0
  <2> DEFINE e == <<>>
  <2>1. mem_access(a) = e
    BY <1>3 DEF mem_access
  <2>2. Allowed(a)
    <3>1. ~Beyond(a)
      BY <1>1, <1>3 DEF Beyond
    <3>2. Touched(a) = {}
      BY <1>1, <1>3 DEF Touched
    <3> QED
      BY <1>2, <3>1, <3>2 DEF Allowed
  <2>3. Piece(a, e, 0, 0) /\ e \in Seq(Ops)
    BY PieceNothing
  <2> HIDE DEF e
  <2>4. Body(a, e)
    BY <1>3, <2>3 DEF Body, Piece, Converts
  <2> QED
    BY <2>1, <2>2, <2>3, <2>4, PlannedBody
<1>4. CASE a.len > 0 /\ ~(a.vaddr + a.len <= Space)
  <2>1. mem_access(a) = <<Check(FALSE, TopAddr)>> \o <<>>
    <3>1. ~NoOverflow(a.vaddr + a.len) /\ a.len # 0
      BY <1>1, <1>4
    <3>2. NoOverflow(a.vaddr + a.len) = FALSE
      BY <3>1 DEF NoOverflow
    <3> QED
      BY <3>1, <3>2, Zenon DEF mem_access
  <2>2. Explains(a, TopAddr)
    BY <1>1, <1>4 DEF Explains, Beyond
  <2> DEFINE e == <<>>
             ok == FALSE
  <2>3. e \in Seq(Ops) /\ ok \in BOOLEAN /\ ~ok
    OBVIOUS
  <2> HIDE DEF e, ok
  <2>4. Planned(a, <<Check(ok, TopAddr)>> \o e)
    BY <1>1, <2>2, <2>3, PlannedCheck
  <2> QED
    BY <2>1, <2>4 DEF e, ok
<1>5. CASE a.len > 0 /\ a.vaddr + a.len <= Space
  <2> DEFINE first == PageOf(a.vaddr)
             n == PageOf(a.vaddr + a.len - 1) - first + 1
             pages == RangePages(a)
             checks == [i \in 1..n |-> page_checks(a, first + i - 1)]
             copies == [i \in 1..n |-> page_copies(a, first + i - 1)]
             F == FlattenSeq(Reverse(checks))
             G == FlattenSeq(copies)
  <2>1. /\ first \in Int /\ n \in Nat \ {0} /\ Len(pages) = n
        /\ \A i \in 1..n : pages[i] = first + i - 1 /\ first + i - 1 \in Int
    <3>1. /\ first \in Int /\ n \in Nat \ {0} /\ Len(pages) = n
          /\ \A i \in 1..n : pages[i] = first + i - 1
      BY <1>5, RangeFacts
    <3> HIDE DEF n, first, pages
    <3> QED
      BY <3>1
  <2> HIDE DEF n, first, pages
  <2>2. mem_access(a) = <<Check(NoOverflow(a.vaddr + a.len), TopAddr)>> \o (F \o G)
    <3>1. NoOverflow(a.vaddr + a.len) /\ a.len # 0
      BY <1>1, <1>5
    <3>2. mem_access(a) = <<Check(NoOverflow(a.vaddr + a.len), TopAddr)>> \o
            access([i \in 1..Len(pages) |-> page_checks(a, pages[i])],
                   [i \in 1..Len(pages) |-> page_copies(a, pages[i])])
      BY <3>1, Zenon DEF mem_access, pages
    <3>3. /\ [i \in 1..Len(pages) |-> page_checks(a, pages[i])] = checks
          /\ [i \in 1..Len(pages) |-> page_copies(a, pages[i])] = copies
      BY <2>1, Zenon
    <3> HIDE DEF checks, copies
    <3> QED
      BY <3>2, <3>3, Zenon DEF access
  <2>3. checks \in [1..n -> Seq(Ops)] /\ \A i \in 1..n : checks[i] = page_checks(a, first + i - 1)
    BY <2>1, PageChecksOk
  <2>4. copies \in [1..n -> Seq(Ops)] /\ \A i \in 1..n : copies[i] = page_copies(a, first + i - 1)
    <3>1. ASSUME NEW i \in 1..n
          PROVE  page_copies(a, first + i - 1) \in Seq(Ops)
      BY <1>5, PageCopiesType DEF n, first
    <3> QED
      BY <3>1
  <2> HIDE DEF checks, copies
  <2>5. n \in Int /\ n >= 0
    BY <2>1
  <2>6. checks \in Seq(Seq(Ops)) /\ Len(checks) = n /\ copies \in Seq(Seq(Ops)) /\ Len(copies) = n
    BY <2>3, <2>4, <2>5, SeqOfLength
  <2> DEFINE R == Reverse(checks)
  <2>7. /\ R \in Seq(Seq(Ops)) /\ Len(R) = n
        /\ \A i \in 1..n : R[i] = checks[n - i + 1]
    BY <2>6, ReverseOf
  <2> HIDE DEF R
  <2>8. \A i \in 1..n : R[i] = page_checks(a, first + (n - i + 1) - 1)
    <3> TAKE i \in 1..n
    <3>1. n - i + 1 \in 1..n
      BY <2>5
    <3> QED
      BY <2>3, <2>7, <3>1, Zenon
  <2>9. F \in Seq(Ops) /\ From(F, R, n)
    <3>1. FlattenSeq(R) \in Seq(Ops) /\ From(FlattenSeq(R), R, Len(R))
      BY <2>7, FlattenElements
    <3> QED
      BY <2>7, <3>1 DEF R
  <2>10. G \in Seq(Ops)
    BY <2>6, FlattenElements
  <2> HIDE DEF F
  <2>11. /\ \A i \in 1..Len(F) : F[i].kind = "check"
         /\ \A i \in 1..Len(F) : ~Ok(F[i]) => Explains(a, F[i].at)
         /\ (\A i \in 1..Len(F) : Ok(F[i])) =>
               Allowed(a) /\ \A i \in 1..n : Mapped(first + i - 1)
    BY <1>5, <2>8, <2>9, RangeChecks DEF n, first
  <2>12. (\A i \in 1..n : Mapped(first + i - 1)) => Piece(a, G, 0, a.len)
    BY <1>5, <2>4, <2>6, RangeBody DEF n, first
  <2> HIDE DEF G
  <2>13. Piece(a, G, 0, a.len) => Body(a, G)
    BY DEF Body, Piece, Converts
  <2>14. Planned(a, F \o G) /\ F \o G \in Seq(Ops)
    <3>1. (\A i \in 1..Len(F) : Ok(F[i])) => Allowed(a) /\ Body(a, G)
      BY <2>11, <2>12, <2>13, Zenon
    <3>2. F \o G \in Seq(Ops)
      BY <2>9, <2>10, ConcatElement
    <3> QED
      BY <2>9, <2>10, <2>11, <3>1, <3>2, PlannedChecks
  <2> DEFINE s == F \o G
             ok == NoOverflow(a.vaddr + a.len)
  <2>15. s \in Seq(Ops) /\ Planned(a, s) /\ ok \in BOOLEAN /\ ok
    BY <1>1, <1>5, <2>14 DEF NoOverflow
  <2> HIDE DEF s, ok
  <2>16. Planned(a, <<Check(ok, TopAddr)>> \o s)
    BY <1>1, <2>15, PlannedCheck
  <2> QED
    BY <2>2, <2>16 DEF s, ok
<1> QED
  BY <1>1, <1>3, <1>4, <1>5

\* The table operations only check their range.
LEMMA PagesPlanned ==
    ASSUME NEW a \in Accesses, a.kind = "pages"
    PROVE  Planned(a, get_pages(a))
<1> DEFINE x == Check(Offset(a.vaddr) = 0, a.vaddr)
           y == Check(a.len % PAGE_SIZE = 0, a.vaddr)
           z == Check(NoOverflow(a.vaddr + a.len), TopAddr)
           F == <<x, y, z>>
           e == <<>>
<1>1. /\ NoOverflow(a.vaddr + a.len) <=> a.vaddr + a.len <= Space
      /\ a.vaddr \in Int /\ a.len \in Int /\ Space \in Nat /\ TopAddr \in Int
  BY EndOfRange, Sizes
<1>2. /\ (Offset(a.vaddr) = 0) \in BOOLEAN /\ (a.len % PAGE_SIZE = 0) \in BOOLEAN
      /\ NoOverflow(a.vaddr + a.len) \in BOOLEAN
  BY DEF NoOverflow
<1>3. /\ x \in Ops /\ x.kind = "check" /\ x.at = a.vaddr /\ (Ok(x) <=> Offset(a.vaddr) = 0)
      /\ y \in Ops /\ y.kind = "check" /\ y.at = a.vaddr /\ (Ok(y) <=> a.len % PAGE_SIZE = 0)
      /\ z \in Ops /\ z.kind = "check" /\ z.at = TopAddr /\ (Ok(z) <=> NoOverflow(a.vaddr + a.len))
  BY <1>1, <1>2, CheckOps, Zenon
<1>4. get_pages(a) = F
  BY DEF get_pages
<1> HIDE DEF x, y, z
<1>5. F \in Seq(Ops) /\ 1..Len(F) = {1, 2, 3} /\ F[1] = x /\ F[2] = y /\ F[3] = z
  BY <1>3
<1>6. e \in Seq(Ops) /\ F \o e = F
  BY <1>5, ConcatEmptySeq
<1> HIDE DEF F
<1>7. \A i \in 1..Len(F) : F[i] = x \/ F[i] = y \/ F[i] = z
  BY <1>5
<1>8. /\ ~Ok(x) => Explains(a, x.at)
      /\ ~Ok(y) => Explains(a, y.at)
  BY <1>3 DEF Explains, Misaligned, Offset
<1>9. ~Ok(z) => Explains(a, z.at)
  BY <1>1, <1>3 DEF Explains, Beyond
<1>10. Ok(x) /\ Ok(y) /\ Ok(z) => Allowed(a)
  <2>1. \A v : ~Refused(a, v)
    BY DEF Refused
  <2>2. NoOverflow(a.vaddr + a.len) => ~Beyond(a)
    BY <1>1 DEF Beyond
  <2>3. Offset(a.vaddr) = 0 /\ a.len % PAGE_SIZE = 0 => ~Misaligned(a)
    BY DEF Misaligned, Offset
  <2> QED
    BY <1>3, <2>1, <2>2, <2>3, Zenon DEF Allowed
<1>11. Body(a, e)
  BY DEF Body
<1> HIDE DEF e
<1>12. /\ \A i \in 1..Len(F) : F[i].kind = "check"
       /\ \A i \in 1..Len(F) : ~Ok(F[i]) => Explains(a, F[i].at)
  BY <1>3, <1>7, <1>8, <1>9, Zenon
<1>13. (\A i \in 1..Len(F) : Ok(F[i])) => Allowed(a) /\ Body(a, e)
  <2>1. 1 \in 1..Len(F) /\ 2 \in 1..Len(F) /\ 3 \in 1..Len(F)
    BY <1>5
  <2> QED
    BY <1>5, <1>10, <1>11, <2>1, Zenon
<1>14. Planned(a, F \o e)
  BY <1>5, <1>6, <1>12, <1>13, PlannedChecks
<1> QED
  BY <1>4, <1>6, <1>14

\* One to four widths that add up.
Adds(ws, total) ==
    /\ ws \in Seq(Nat) /\ Len(ws) \in 1..4
    /\ Len(ws) = 1 => ws[1] = total
    /\ Len(ws) = 2 => ws[1] + ws[2] = total
    /\ Len(ws) = 3 => ws[1] + ws[2] + ws[3] = total
    /\ Len(ws) = 4 => ws[1] + ws[2] + ws[3] + ws[4] = total

LEMMA Sums ==
    /\ \A n \in Nat : Adds(<<n>>, n)
    /\ Adds(<<4, 4>>, 8) /\ Adds(<<2, 4, 2>>, 8)
    /\ Adds(<<1, 2, 4, 1>>, 8) /\ Adds(<<1, 4, 2, 1>>, 8)
    /\ Adds(<<2, 2>>, 4) /\ Adds(<<1, 2, 1>>, 4) /\ Adds(<<1, 1>>, 2)
<1>1. \A n \in Nat : Adds(<<n>>, n)
  BY DEF Adds
<1>2. Adds(<<4, 4>>, 8)
  BY DEF Adds
<1>3. Adds(<<2, 4, 2>>, 8)
  BY DEF Adds
<1>4. Adds(<<1, 2, 4, 1>>, 8)
  BY DEF Adds
<1>5. Adds(<<1, 4, 2, 1>>, 8)
  BY DEF Adds
<1>6. Adds(<<2, 2>>, 4)
  BY DEF Adds
<1>7. Adds(<<1, 2, 1>>, 4)
  BY DEF Adds
<1>8. Adds(<<1, 1>>, 2)
  BY DEF Adds
<1> QED
  BY <1>1, <1>2, <1>3, <1>4, <1>5, <1>6, <1>7, <1>8, Zenon

\* make_unaligned_ne_access takes a value apart into parts that add up to it.
LEMMA PartWidths ==
    ASSUME NEW total \in {1, 2, 4, 8}, NEW r \in 0..(total - 1)
    PROVE  Adds(part_widths(total, r), total)
<1> DEFINE ws == part_widths(total, r)
<1>1. CASE r = 0
  <2>1. ws = <<total>> /\ total \in Nat
    BY <1>1 DEF part_widths
  <2> QED
    BY <2>1, Sums, Zenon
<1>2. CASE r # 0
  <2>1. total # 1
    BY <1>2
  <2>2. CASE total = 8
    <3>1. r \in 1..7
      BY <1>2, <2>2
    <3>2. ws = <<4, 4>> \/ ws = <<2, 4, 2>> \/ ws = <<1, 2, 4, 1>> \/ ws = <<1, 4, 2, 1>>
      BY <1>2, <2>2, <3>1 DEF part_widths
    <3> QED
      BY <2>2, <3>2, Sums, Zenon
  <2>3. CASE total = 4
    <3>1. r \in 1..3
      BY <1>2, <2>3
    <3>2. ws = <<2, 2>> \/ ws = <<1, 2, 1>>
      BY <1>2, <2>3, <3>1 DEF part_widths
    <3> QED
      BY <2>3, <3>2, Sums, Zenon
  <2>4. CASE total = 2
    <3>1. r = 1
      BY <1>2, <2>4
    <3>2. ws = <<1, 1>>
      BY <1>2, <2>4, <3>1 DEF part_widths
    <3> QED
      BY <2>4, <3>2, Sums, Zenon
  <2> QED
    BY <2>1, <2>2, <2>3, <2>4
<1> QED
  BY <1>1, <1>2

\* The running offsets.
OffsetsOf(f, ws, n) == f = [i \in 1..n |-> IF i = 1 THEN 0 ELSE f[i - 1] + ws[i - 1]]

LEMMA OffsetsAre ==
    ASSUME NEW ws, NEW n \in Nat, NEW b \in [1..(n + 1) -> Int], b[1] = 0,
           \A i \in 1..n : b[i + 1] = b[i] + ws[i]
    PROVE  /\ \E f : OffsetsOf(f, ws, n)
           /\ \A f : OffsetsOf(f, ws, n) => \A i \in 1..n : f[i] = b[i]
<1>1. \E f : OffsetsOf(f, ws, n)
  <2> DEFINE g == [i \in 1..n |-> b[i]]
  <2>1. ASSUME NEW i \in 1..n
        PROVE  b[i] = IF i = 1 THEN 0 ELSE g[i - 1] + ws[i - 1]
    <3>1. CASE i # 1
      <4>1. i - 1 \in 1..n /\ (i - 1) + 1 = i
        BY <3>1
      <4>2. b[(i - 1) + 1] = b[i - 1] + ws[i - 1] /\ g[i - 1] = b[i - 1]
        BY <4>1
      <4> QED
        BY <3>1, <4>1, <4>2
    <3> QED
      BY <3>1
  <2>2. OffsetsOf(g, ws, n)
    BY <2>1 DEF OffsetsOf
  <2> QED
    BY <2>2
<1>2. ASSUME NEW f, OffsetsOf(f, ws, n)
      PROVE  \A i \in 1..n : f[i] = b[i]
  <2>1. \A i \in 1..n : f[i] = IF i = 1 THEN 0 ELSE f[i - 1] + ws[i - 1]
    BY <1>2 DEF OffsetsOf
  <2> DEFINE T == {i \in 1..n : f[i] # b[i]}
  <2> SUFFICES ASSUME T # {}
               PROVE  FALSE
    OBVIOUS
  <2>2. T \in SUBSET Nat
    OBVIOUS
  <2>3. PICK k \in T : \A j \in T : k <= j
    BY <2>2, Least
  <2>4. k \in 1..n /\ f[k] # b[k] /\ k # 1
    BY <2>1
  <2>5. k - 1 \in 1..n /\ k - 1 \notin T /\ (k - 1) + 1 = k
    BY <2>3, <2>4
  <2>6. f[k - 1] = b[k - 1] /\ b[(k - 1) + 1] = b[k - 1] + ws[k - 1]
    BY <2>5
  <2> QED
    BY <2>1, <2>4, <2>5, <2>6
<1> QED
  BY <1>1, <1>2

LEMMA Boundaries ==
    ASSUME NEW ws, NEW total, Adds(ws, total), NEW n, n = Len(ws)
    PROVE  /\ n \in Nat
           /\ \E b \in [1..(n + 1) -> Int] :
                 /\ b[1] = 0 /\ b[n + 1] = total
                 /\ \A i \in 1..n : b[i + 1] = b[i] + ws[i] /\ ws[i] \in Nat
<1>1. n \in 1..4 /\ \A i \in 1..n : ws[i] \in Nat
  <2>1. ws \in Seq(Nat) /\ n \in 1..4
    BY DEF Adds
  <2> QED
    BY <2>1, ElementOfSeq
<1>0. n \in Nat
  BY <1>1
<1> DEFINE b == [i \in 1..(n + 1) |->
                   CASE i = 1 -> 0 [] i = 2 -> ws[1] [] i = 3 -> ws[1] + ws[2]
                     [] i = 4 -> ws[1] + ws[2] + ws[3] [] OTHER -> total]
<1>2. CASE n = 1
  <2>1. ws[1] = total /\ ws[1] \in Nat /\ 1..(n + 1) = {1, 2} /\ 1..n = {1}
    BY <1>1, <1>2 DEF Adds
  <2>2. b \in [1..(n + 1) -> Int] /\ b[1] = 0 /\ b[2] = ws[1]
    BY <2>1
  <2> HIDE DEF b
  <2>3. b[1] = 0 /\ b[n + 1] = total /\ \A i \in 1..n : b[i + 1] = b[i] + ws[i]
    BY <1>2, <2>1, <2>2
  <2>4. \A i \in 1..n : b[i + 1] = b[i] + ws[i] /\ ws[i] \in Nat
    BY <1>1, <2>3
  <2> QED
    BY <1>0, <2>2, <2>3, <2>4, Zenon
<1>3. CASE n = 2
  <2>1. /\ ws[1] + ws[2] = total /\ ws[1] \in Nat /\ ws[2] \in Nat
        /\ 1..(n + 1) = {1, 2, 3} /\ 1..n = {1, 2}
    BY <1>1, <1>3 DEF Adds
  <2>2. b \in [1..(n + 1) -> Int] /\ b[1] = 0 /\ b[2] = ws[1] /\ b[3] = ws[1] + ws[2]
    BY <2>1
  <2> HIDE DEF b
  <2>3. b[1] = 0 /\ b[n + 1] = total /\ \A i \in 1..n : b[i + 1] = b[i] + ws[i]
    BY <1>3, <2>1, <2>2
  <2>4. \A i \in 1..n : b[i + 1] = b[i] + ws[i] /\ ws[i] \in Nat
    BY <1>1, <2>3
  <2> QED
    BY <1>0, <2>2, <2>3, <2>4, Zenon
<1>4. CASE n = 3
  <2>1. /\ ws[1] + ws[2] + ws[3] = total /\ ws[1] \in Nat /\ ws[2] \in Nat /\ ws[3] \in Nat
        /\ 1..(n + 1) = {1, 2, 3, 4} /\ 1..n = {1, 2, 3}
    BY <1>1, <1>4 DEF Adds
  <2>2. /\ b \in [1..(n + 1) -> Int] /\ b[1] = 0 /\ b[2] = ws[1] /\ b[3] = ws[1] + ws[2]
        /\ b[4] = ws[1] + ws[2] + ws[3]
    BY <2>1
  <2> HIDE DEF b
  <2>3. b[1] = 0 /\ b[n + 1] = total /\ \A i \in 1..n : b[i + 1] = b[i] + ws[i]
    BY <1>4, <2>1, <2>2
  <2>4. \A i \in 1..n : b[i + 1] = b[i] + ws[i] /\ ws[i] \in Nat
    BY <1>1, <2>3
  <2> QED
    BY <1>0, <2>2, <2>3, <2>4, Zenon
<1>5. CASE n = 4
  <2>1. /\ ws[1] + ws[2] + ws[3] + ws[4] = total
        /\ ws[1] \in Nat /\ ws[2] \in Nat /\ ws[3] \in Nat /\ ws[4] \in Nat
        /\ 1..(n + 1) = {1, 2, 3, 4, 5} /\ 1..n = {1, 2, 3, 4}
    BY <1>1, <1>5 DEF Adds
  <2>2. /\ b \in [1..(n + 1) -> Int] /\ b[1] = 0 /\ b[2] = ws[1] /\ b[3] = ws[1] + ws[2]
        /\ b[4] = ws[1] + ws[2] + ws[3] /\ b[5] = total
    BY <2>1
  <2> HIDE DEF b
  <2>3. b[1] = 0 /\ b[n + 1] = total /\ \A i \in 1..n : b[i + 1] = b[i] + ws[i]
    BY <1>5, <2>1, <2>2
  <2>4. \A i \in 1..n : b[i + 1] = b[i] + ws[i] /\ ws[i] \in Nat
    BY <1>1, <2>3
  <2> QED
    BY <1>0, <2>2, <2>3, <2>4, Zenon
<1>6. n \in Nat /\ (n = 1 \/ n = 2 \/ n = 3 \/ n = 4)
  BY <1>1
<1> QED
  BY <1>2, <1>3, <1>4, <1>5, <1>6

\* n native parts in the order of the addresses, with the boundaries b.
Cut(s, big, at, total, n, b) ==
    /\ b[1] = 0 /\ b[n + 1] = total /\ s \in Seq(Parts) /\ Len(s) = n
    /\ \A i \in 1..n : /\ b[i] <= b[i + 1] /\ s[i].at = at + b[i]
                        /\ s[i].width = b[i + 1] - b[i] /\ s[i].le = FALSE
                        /\ s[i].shift = IF big THEN total - b[i + 1] ELSE b[i]

\* combine_ne_parts and split_ne_parts.
LEMMA NeParts ==
    ASSUME NEW big \in BOOLEAN, NEW at \in Int, NEW total \in {1, 2, 4, 8}
    PROVE  \E n \in Nat : \E b \in [1..(n + 1) -> Int] :
               Cut(ne_parts(big, at, total), big, at, total, n, b)
<1> DEFINE ws == part_widths(total, at % total)
           n == Len(ws)
<1>1. at % total \in 0..(total - 1)
  BY DivMod
<1>2. Adds(ws, total)
  BY <1>1, PartWidths
<1> HIDE DEF ws
<1>3. n \in Nat
  BY <1>2, Boundaries
<1>4. PICK b \in [1..(n + 1) -> Int] :
         /\ b[1] = 0 /\ b[n + 1] = total
         /\ \A i \in 1..n : b[i + 1] = b[i] + ws[i] /\ ws[i] \in Nat
  BY <1>2, Boundaries
<1> DEFINE f == CHOOSE f : f = [i \in 1..n |-> IF i = 1 THEN 0 ELSE f[i - 1] + ws[i - 1]]
           s == [i \in 1..n |->
                   Part(at + f[i], ws[i], ne_part_shift(big, f[i], ws[i], total), FALSE, <<>>)]
<1>5. ne_parts(big, at, total) = s
  BY DEF ne_parts, ws
<1>6. \A i \in 1..n : f[i] = b[i]
  <2>1. \E g : OffsetsOf(g, ws, n)
    <3> HIDE DEF n
    <3> QED
      BY <1>3, <1>4, OffsetsAre
  <2>2. OffsetsOf(f, ws, n)
    BY <2>1 DEF OffsetsOf
  <2> HIDE DEF n, f
  <2>3. \A g : OffsetsOf(g, ws, n) => \A i \in 1..n : g[i] = b[i]
    BY <1>3, <1>4, OffsetsAre, ZenonT(30)
  <2> QED
    BY <2>2, <2>3, Zenon
<1> HIDE DEF f, n
<1>7. ASSUME NEW i \in 1..n
      PROVE  /\ s[i] \in Parts /\ b[i] <= b[i + 1] /\ s[i].at = at + b[i]
             /\ s[i].width = b[i + 1] - b[i] /\ s[i].le = FALSE
             /\ s[i].shift = IF big THEN total - b[i + 1] ELSE b[i]
  <2>1. i \in 1..(n + 1) /\ i + 1 \in 1..(n + 1)
    BY <1>3
  <2>2. b[i] \in Int /\ b[i + 1] \in Int /\ b[i + 1] = b[i] + ws[i] /\ ws[i] \in Nat /\ total \in Int
    BY <1>4, <2>1
  <2>3. s[i] = Part(at + b[i], ws[i], ne_part_shift(big, b[i], ws[i], total), FALSE, <<>>)
    BY <1>6
  <2> HIDE DEF s
  <2>4. /\ ne_part_shift(big, b[i], ws[i], total) = IF big THEN total - b[i + 1] ELSE b[i]
        /\ ne_part_shift(big, b[i], ws[i], total) \in Int
    BY <2>2 DEF ne_part_shift
  <2>5. ws[i] = b[i + 1] - b[i] /\ b[i] <= b[i + 1] /\ at + b[i] \in Int /\ ws[i] \in Int
    BY <2>2
  <2> QED
    BY <2>3, <2>4, <2>5 DEF Part, Parts
<1>8. s \in Seq(Parts) /\ Len(s) = n
  <2>1. s \in [1..n -> Parts]
    BY <1>7
  <2> HIDE DEF s
  <2>2. n \in Int /\ n >= 0
    BY <1>3
  <2> QED
    BY <2>1, <2>2, SeqOfLength
<1> HIDE DEF s
<1>9. Cut(s, big, at, total, n, b)
  BY <1>4, <1>7, <1>8, Zenon DEF Cut
<1> QED
  BY <1>3, <1>5, <1>9, Zenon

-----------------------------------------------------------------------------
(* The plans of scalars                                                     *)

LEMMA LineShards ==
    ASSUME NEW at \in Int, NEW width \in Int
    PROVE  get_cache_line_unaligned(at, width) \in Seq(Shards)
<1> DEFINE i == line_of(at)
           j == line_of(at + width - 1)
<1>1. i \in Int /\ j \in Int
  BY DivMod, MemOpsAssumption DEF line_of
<1> HIDE DEF i, j
<1>2. shard_of(i) \in Shards /\ shard_of(j) \in Shards
  BY <1>1, ShardOf
<1> QED
  BY <1>2 DEF get_cache_line_unaligned, ascending, i, j

\* load_le and store_le in either build: native parts.
NativeParts(s) == s \in Seq(Ops) /\ \A i \in 1..Len(s) : s[i].kind = "part" /\ s[i].le = FALSE

LEMMA PartsNative ==
    ASSUME NEW s \in Seq(Parts), \A i \in 1..Len(s) : s[i].le = FALSE
    PROVE  NativeParts(s)
<1>1. s \in Seq(Ops)
  <2>1. s \in Seq(Parts \cup MicroOps)
    BY SeqUnion
  <2>2. Parts \cup MicroOps = Ops
    BY DEF Ops
  <2> QED
    BY <2>1, <2>2, Zenon
<1>2. \A i \in 1..Len(s) : s[i] \in Parts
  BY ElementOfSeq
<1>3. \A p \in Parts : p.kind = "part"
  BY DEF Parts
<1> QED
  BY <1>1, <1>2, <1>3, Zenon DEF NativeParts

LEMMA ScalarType ==
    ASSUME GoodEnv, NEW at \in Int, NEW total \in {1, 2, 4, 8}
    PROVE  NativeParts(scalar_parts(env.build, env.big, at, total))
<1> DEFINE s == scalar_parts(env.build, env.big, at, total)
<1>1. CASE env.build = "miri"
  <2> DEFINE p == Part(at, total, 0, FALSE, get_cache_line_unaligned(at, total))
  <2>1. s = <<p>>
    BY <1>1 DEF scalar_parts
  <2>2. get_cache_line_unaligned(at, total) \in Seq(Shards) /\ total \in Int
    BY LineShards
  <2>3. p \in Parts /\ p.le = FALSE
    BY <2>2 DEF Part, Parts
  <2> HIDE DEF p
  <2>4. <<p>> \in Seq(Parts) /\ \A i \in 1..Len(<<p>>) : <<p>>[i] = p
    BY <2>3
  <2> HIDE DEF s
  <2>5. s \in Seq(Parts) /\ \A i \in 1..Len(s) : s[i].le = FALSE
    BY <2>1, <2>3, <2>4, Zenon
  <2> QED
    BY <2>5, PartsNative DEF s
<1>2. CASE env.build # "miri"
  <2>1. s = ne_parts(env.big, at, total) /\ env.big \in BOOLEAN
    BY <1>2 DEF scalar_parts, GoodEnv
  <2> HIDE DEF s
  <2>2. PICK n \in Nat : \E b \in [1..(n + 1) -> Int] : Cut(s, env.big, at, total, n, b)
    BY <2>1, NeParts, Zenon
  <2>3. s \in Seq(Parts) /\ \A i \in 1..Len(s) : s[i].le = FALSE
    BY <2>2, Zenon DEF Cut
  <2> QED
    BY <2>3, PartsNative DEF s
<1> QED
  BY <1>1, <1>2

LEMMA ScalarTiles ==
    ASSUME GoodEnv, NEW a \in Accesses, a.len \in {1, 2, 4, 8}, NEW at \in Int,
           Lies(a, at, 0, a.len)
    PROVE  Tiles(a, scalar_parts(env.build, env.big, at, a.len), 0, a.len)
<1> DEFINE total == a.len
           s == scalar_parts(env.build, env.big, at, total)
<1>0. total \in Int /\ 0 <= total /\ env.big \in BOOLEAN
  BY DEF GoodEnv
<1>1. CASE env.build = "miri"
  <2> DEFINE p == Part(at, total, 0, FALSE, get_cache_line_unaligned(at, total))
  <2>1. s = <<p>>
    BY <1>1 DEF scalar_parts
  <2>2. get_cache_line_unaligned(at, total) \in Seq(Shards)
    BY <1>0, LineShards
  <2>3. p \in Parts /\ p.at = at /\ p.width = total /\ Base(a, p) = 0
    BY <1>0, <2>2 DEF Part, Parts, Base
  <2> HIDE DEF p
  <2> DEFINE lo == 0
  <2>4. lo \in Int /\ lo = Base(a, p) /\ lo = 0
    BY <2>3
  <2> HIDE DEF lo
  <2>5. \A k \in 0..(a.len - 1) : k \in lo..(lo + p.width - 1) =>
            Mapped(PageOf(a.vaddr + k)) /\ HostOf(a.vaddr + k) = p.at + (k - lo)
    BY <1>0, <2>3, <2>4 DEF Lies
  <2>6. 0 <= lo /\ lo + p.width <= a.len
    BY <1>0, <2>3, <2>4
  <2>7. /\ p \in Ops /\ p.kind = "part" /\ Placed(a, p)
        /\ \A k \in Int : Hits(a, p, k) <=> k \in lo..(lo + p.width - 1)
    BY <2>3, <2>4, <2>5, <2>6, PartPlaced
  <2>8. \A k \in 0..(a.len - 1) : Hits(a, p, k) <=> k \in lo..(a.len - 1)
    BY <1>0, <2>3, <2>4, <2>7
  <2>9. Tiles(a, <<p>>, lo, a.len)
    BY <1>0, <2>4, <2>7, <2>8, SinglePart
  <2> QED
    BY <2>1, <2>4, <2>9
<1>2. CASE env.build # "miri"
  <2>1. s = ne_parts(env.big, at, total)
    BY <1>2 DEF scalar_parts
  <2> DEFINE big == env.big
  <2>2. s = ne_parts(big, at, total) /\ big \in BOOLEAN /\ total \in {1, 2, 4, 8}
    BY <1>0, <2>1
  <2> HIDE DEF s, total, big
  <2>3. PICK n \in Nat : \E b \in [1..(n + 1) -> Int] : Cut(s, big, at, total, n, b)
    BY <2>2, NeParts, Zenon
  <2>4. PICK b \in [1..(n + 1) -> Int] :
          /\ b[1] = 0 /\ b[n + 1] = total /\ s \in Seq(Parts) /\ Len(s) = n
          /\ \A i \in 1..n : /\ b[i] <= b[i + 1] /\ s[i].at = at + b[i]
                              /\ s[i].width = b[i + 1] - b[i] /\ s[i].le = FALSE
                              /\ s[i].shift = IF big THEN total - b[i + 1] ELSE b[i]
    BY <2>3, Zenon DEF Cut
  <2>5. ASSUME NEW i \in 1..n
        PROVE  /\ s[i].at = at + (b[i] - b[1]) /\ s[i].width = b[i + 1] - b[i]
               /\ Base(a, s[i]) = b[i]
    <3>1. i \in 1..(n + 1) /\ i + 1 \in 1..(n + 1)
      OBVIOUS
    <3>2. b[i] \in Int /\ b[i + 1] \in Int
      BY <3>1
    <3>3. Base(a, s[i]) = IF big THEN total - s[i].shift - s[i].width ELSE s[i].shift
      BY <2>4 DEF Base, big, total
    <3>4. Base(a, s[i]) = b[i]
      BY <1>0, <2>4, <3>2, <3>3, SMTT(30)
    <3>5. b[i] - b[1] = b[i]
      BY <2>4, <3>2
    <3> QED
      BY <2>4, <3>4, <3>5
  <2>6. Tiles(a, s, b[1], b[n + 1])
    <3>1. 0 <= b[1] /\ b[n + 1] <= a.len
      BY <1>0, <2>4 DEF total
    <3>2. Lies(a, at, b[1], b[n + 1])
      BY <2>4, Zenon DEF total
    <3>3. \A i \in 1..n : b[i] <= b[i + 1]
      BY <2>4
    <3> QED
      BY <2>4, <2>5, <3>1, <3>2, <3>3, PartsTile
  <2> QED
    BY <2>4, <2>6, Zenon DEF s, total
<1> QED
  BY <1>1, <1>2

\* Accesses that stay within their first page.
LEMMA InPage ==
    ASSUME GoodEnv, NEW a \in Accesses, a.len > 0, ~HasSecondPage(a.vaddr, a.len),
           NEW page, page = PageOf(a.vaddr), Mapped(page)
    PROVE  /\ ~Beyond(a) /\ a.vaddr \in Touched(a) /\ \A v \in Touched(a) : PageOf(v) = page
           /\ \A k \in 0..(a.len - 1) : PageOf(a.vaddr + k) = page
           /\ Lies(a, Host(page, Offset(a.vaddr)), 0, a.len)
           /\ Host(page, Offset(a.vaddr)) \in Int
<1> DEFINE off == Offset(a.vaddr)
           q == PAGE_SIZE * page
<1>1. /\ a.vaddr \in Int /\ a.len \in Int /\ a.vaddr < Space /\ PAGE_SIZE \in Nat \ {0}
      /\ PageCount \in Nat /\ Space \in Int /\ TopAddr = Space - 1 /\ Space = PAGE_SIZE * PageCount
  BY EndOfRange, Sizes
<1>2. /\ page \in Int /\ off \in Int /\ 0 <= off /\ off < PAGE_SIZE /\ a.vaddr = q + off /\ q \in Int
  <2>1. /\ page \in Int /\ off \in Int /\ 0 <= off /\ off < PAGE_SIZE /\ a.vaddr = q + off
    BY <1>1, PageParts
  <2> QED
    BY <1>1, <2>1
<1>3. off + a.len <= PAGE_SIZE
  BY <1>1, <1>2 DEF HasSecondPage
<1>4. q + PAGE_SIZE <= Space
  <2>1. page \in 0..MaxPage /\ MaxPage = PageCount - 1
    BY Sizes DEF GoodEnv, Mapped
  <2>2. page + 1 <= PageCount
    BY <1>1, <2>1
  <2>3. PAGE_SIZE * (page + 1) <= PAGE_SIZE * PageCount
    BY <1>1, <1>2, <2>2, MulMono
  <2>4. PAGE_SIZE * (page + 1) = q + PAGE_SIZE
    BY <1>1, <1>2
  <2> QED
    BY <1>1, <2>3, <2>4
<1>5. ASSUME NEW k \in 0..(a.len - 1)
      PROVE  PageOf(a.vaddr + k) = page
  <2> DEFINE o == off + k
  <2>1. o \in Int /\ 0 <= o /\ o < PAGE_SIZE /\ a.vaddr + k \in Int
    BY <1>1, <1>2, <1>3
  <2>2. a.vaddr + k = q + o
    <3> HIDE DEF q
    <3> QED
      BY <1>1, <1>2
  <2> HIDE DEF o
  <2> QED
    BY <1>2, <2>1, <2>2, PageAt
<1> HIDE DEF q
<1>6. ~Beyond(a)
  BY <1>1, <1>2, <1>3, <1>4 DEF Beyond
<1>7. a.vaddr \in Touched(a)
  BY <1>1 DEF Touched
<1>8. ASSUME NEW v \in Touched(a)
      PROVE  PageOf(v) = page
  <2> DEFINE k == v - a.vaddr
  <2>1. k \in 0..(a.len - 1) /\ a.vaddr + k = v
    BY <1>1 DEF Touched
  <2> QED
    BY <1>5, <2>1
<1>9. Lies(a, Host(page, off), 0, a.len)
  <2> DEFINE lo == 0
  <2>1. lo \in Int /\ off + (a.len - lo) <= PAGE_SIZE
    BY <1>1, <1>2, <1>3
  <2>2. a.vaddr + lo = PAGE_SIZE * page + off
    <3>1. a.vaddr + lo = q + off
      BY <1>1, <1>2
    <3> QED
      BY <3>1 DEF q
  <2> HIDE DEF lo
  <2>3. Lies(a, Host(page, off), lo, a.len)
    BY <1>1, <1>2, <2>1, <2>2, LiesInPage
  <2> QED
    BY <2>3 DEF lo
<1>10. Host(page, off) \in Int
  BY <1>1, <1>2, HostInside DEF HostBytes
<1> QED
  BY <1>5, <1>6, <1>7, <1>8, <1>9, <1>10

Scalar(a) == a.kind \in {"scalar", "inline", "fetch"} /\ a.len \in {1, 2, 4, 8} /\ PAGE_SIZE % a.len = 0

\* Permission is all that a scalar access to a mapped page needs.
LEMMA ScalarRefused ==
    ASSUME NEW a, Scalar(a), NEW v
    PROVE  Refused(a, v) <=> ~Mapped(PageOf(v)) \/ ~Permitted(a, PageOf(v))
BY DEF Refused, Scalar, Permitted

LEMMA ScalarPermitted ==
    ASSUME NEW a \in Accesses, NEW page
    PROVE  Permitted(a, page) \in BOOLEAN /\ Mapped(page) \in BOOLEAN
BY DEF Permitted, Mapped

\* The parts of a load, converted at the end.
LEMMA NativeLoad ==
    ASSUME NEW a \in Accesses, a.op = "load", NEW s, NativeParts(s), Tiles(a, s, 0, a.len),
           a.kind # "pages"
    PROVE  Body(a, s \o <<FromLe>>) /\ s \o <<FromLe>> \in Seq(Ops)
<1> DEFINE t == <<FromLe>>
<1>1. FromLe \in Ops /\ FromLe.kind = "from_le"
  BY DEF FromLe, MicroOps, Ops
<1>2. t \in Seq(Ops) /\ Len(t) = 1 /\ t[1] = FromLe /\ \A i \in 1..Len(t) : t[i] = FromLe
  BY <1>1
<1> HIDE DEF t
<1>3. a.len \in Int /\ 0 <= a.len
  BY EndOfRange
<1>4. Tiles(a, t, a.len, a.len)
  <2>1. \A i \in 1..Len(t) : t[i].kind \notin {"check", "part"}
    BY <1>1, <1>2
  <2> QED
    BY <1>2, <1>3, <2>1, TilesNothing
<1>5. Tiles(a, s \o t, 0, a.len)
  <2> DEFINE lo == 0
  <2>1. lo \in Int /\ lo <= a.len /\ Tiles(a, s, lo, a.len) /\ a.len <= a.len
    BY <1>3
  <2> HIDE DEF lo
  <2>2. Tiles(a, s \o t, lo, a.len)
    BY <1>3, <1>4, <2>1, TilesConcat
  <2> QED
    BY <2>2 DEF lo
<1>6. Marks(a, s \o t, 0, a.len)
  BY DEF Marks, MustMark
<1>7. Native(s \o t)
  <2>1. s \in Seq(Ops) /\ \A i \in 1..Len(s) : s[i].kind = "part" /\ s[i].le = FALSE
    BY DEF NativeParts
  <2>2. /\ s \o t \in Seq(Ops) /\ Len(s \o t) = Len(s) + Len(t) /\ Len(s) \in Nat
        /\ \A i \in 1..Len(s) : (s \o t)[i] = s[i]
        /\ \A j \in 1..Len(t) : (s \o t)[Len(s) + j] = t[j]
    <3>1. s \in Seq(Ops) /\ t \in Seq(Ops)
      BY <1>2, <2>1
    <3> QED
      BY <3>1, ConcatElement
  <2> DEFINE u == s \o t
  <2> HIDE DEF u
  <2>3. /\ u \in Seq(Ops) /\ Len(u) = Len(s) + 1 /\ \A i \in 1..Len(s) : u[i] = s[i]
        /\ u[Len(s) + 1] = FromLe
    <3>1. 1 \in 1..Len(t)
      BY <1>2
    <3> QED
      BY <1>2, <2>2, <3>1 DEF u
  <2>4. Len(u) - 1 = Len(s) /\ Len(u) > 0
    BY <2>2, <2>3
  <2>5. u # <<>>
    BY <2>4
  <2>6. u[Len(u)].kind = "from_le"
    BY <1>1, <2>3, Zenon
  <2>7. \A i \in 1..(Len(u) - 1) : u[i].kind = "part" /\ u[i].le = FALSE
    BY <2>1, <2>3, <2>4, Zenon
  <2> QED
    BY <2>5, <2>6, <2>7, Zenon DEF Native, u
<1>8. s \o t \in Seq(Ops)
  BY <1>5 DEF Tiles
<1> QED
  BY <1>5, <1>6, <1>7, <1>8, Zenon DEF Body, Converts, t

\* The parts of an access within one page, and then its mark.
LEMMA MarkedBody ==
    ASSUME GoodEnv, NEW a \in Accesses, a.kind # "pages", NEW page,
           \A k \in 0..(a.len - 1) : PageOf(a.vaddr + k) = page,
           NEW s, Tiles(a, s, 0, a.len), Plain(a, s)
    PROVE  Body(a, s \o set_dirty(a, page)) /\ s \o set_dirty(a, page) \in Seq(Ops)
<1> DEFINE lo == 0
<1>1. lo \in Int /\ a.len \in Int /\ lo <= a.len /\ Tiles(a, s, lo, a.len)
      /\ \A k \in lo..(a.len - 1) : PageOf(a.vaddr + k) = page
  BY EndOfRange
<1> HIDE DEF lo
<1>2. /\ Tiles(a, s \o set_dirty(a, page), lo, a.len) /\ Marks(a, s \o set_dirty(a, page), lo, a.len)
      /\ Plain(a, s \o set_dirty(a, page))
  BY <1>1, MarkAfter
<1> QED
  BY <1>2, Zenon DEF Body, Converts, Tiles, lo

LEMMA OnePageType ==
    ASSUME GoodEnv, NEW a \in Accesses, Scalar(a), NEW page
    PROVE  \E s \in Seq(Ops) :
              /\ OnePage(a, page) = <<Check(Permitted(a, page), a.vaddr)>> \o s
              /\ Mapped(page) => s = scalar_parts(env.build, env.big, Host(page, Offset(a.vaddr)), a.len)
                                       \o (IF a.op = "load" THEN <<FromLe>> ELSE set_dirty(a, page))
<1> DEFINE tail == IF a.op = "load" THEN <<FromLe>> ELSE set_dirty(a, page)
           parts == scalar_parts(env.build, env.big, Host(page, Offset(a.vaddr)), a.len)
           s == IF Mapped(page) THEN parts \o tail ELSE <<>>
<1>1. tail \in Seq(Ops)
  <2>1. FromLe \in Ops
    BY DEF FromLe, MicroOps, Ops
  <2>2. <<FromLe>> \in Seq(Ops)
    BY <2>1
  <2> QED
    BY <2>2, SetDirtyOps
<1>2. ASSUME Mapped(page)
      PROVE  parts \in Seq(Ops)
  <2> DEFINE off == Offset(a.vaddr)
  <2>1. off \in Int /\ 0 <= off /\ off < PAGE_SIZE
    BY EndOfRange, PageParts
  <2> HIDE DEF off
  <2>2. Host(page, off) \in Int
    BY <1>2, <2>1, HostInside DEF HostBytes
  <2>3. NativeParts(scalar_parts(env.build, env.big, Host(page, off), a.len))
    BY <2>2, ScalarType DEF Scalar
  <2> QED
    BY <2>3 DEF NativeParts, off
<1>3. OnePage(a, page) = <<Check(Permitted(a, page), a.vaddr)>> \o s
  BY DEF OnePage
<1> HIDE DEF tail, parts
<1>4. s \in Seq(Ops)
  BY <1>1, <1>2
<1>5. Mapped(page) => s = parts \o tail
  OBVIOUS
<1> HIDE DEF s
<1> QED
  BY <1>3, <1>4, <1>5, Zenon DEF tail, parts

\* Two ways to explain a refusal: by the address of the access, and by its page.
LEMMA RefusedFirst ==
    ASSUME NEW a \in Accesses, Scalar(a), a.vaddr \in Touched(a), Refused(a, a.vaddr),
           Mapped(PageOf(a.vaddr))
    PROVE  Explains(a, a.vaddr)
<1>1. a.vaddr = ReportedAddress(a, a.vaddr)
  BY DEF ReportedAddress, Scalar
<1> QED
  BY <1>1 DEF Explains

LEMMA RefusedPage ==
    ASSUME NEW a \in Accesses, NEW v \in Touched(a), Refused(a, v),
           ~Mapped(PageOf(v)) \/ PageOf(v) # PageOf(a.vaddr)
    PROVE  Explains(a, vaddr_base(PageOf(v)))
<1>1. vaddr_base(PageOf(v)) = ReportedAddress(a, v)
  BY DEF ReportedAddress
<1> QED
  BY <1>1 DEF Explains

\* load_byte, load_le, store_byte and store_le within one page.
LEMMA OnePagePlanned ==
    ASSUME GoodEnv, NEW a \in Accesses, Scalar(a), ~Misaligned(a),
           ~HasSecondPage(a.vaddr, a.len), NEW page, page = PageOf(a.vaddr), Mapped(page)
    PROVE  Planned(a, OnePage(a, page)) /\ OnePage(a, page) \in Seq(Ops)
<1> DEFINE at == Host(page, Offset(a.vaddr))
           parts == scalar_parts(env.build, env.big, at, a.len)
           tail == IF a.op = "load" THEN <<FromLe>> ELSE set_dirty(a, page)
<1>1. PICK s \in Seq(Ops) :
        OnePage(a, page) = <<Check(Permitted(a, page), a.vaddr)>> \o s /\ s = parts \o tail
  BY OnePageType, Zenon
<1>2. a.len > 0 /\ a.kind # "pages" /\ a.len \in {1, 2, 4, 8}
  BY DEF Scalar
<1>3. /\ ~Beyond(a) /\ a.vaddr \in Touched(a) /\ \A v \in Touched(a) : PageOf(v) = page
      /\ \A k \in 0..(a.len - 1) : PageOf(a.vaddr + k) = page
      /\ Lies(a, at, 0, a.len) /\ at \in Int
  BY <1>2, InPage
<1> HIDE DEF at
<1>4. Tiles(a, parts, 0, a.len) /\ NativeParts(parts)
  BY <1>2, <1>3, ScalarTiles, ScalarType
<1>5. Body(a, parts \o tail)
  <2>1. CASE a.op = "load"
    <3>1. tail = <<FromLe>>
      BY <2>1
    <3> HIDE DEF parts
    <3>2. Body(a, parts \o <<FromLe>>)
      BY <1>2, <1>4, <2>1, NativeLoad
    <3> QED
      BY <3>1, <3>2, Zenon
  <2>2. CASE a.op # "load"
    <3>1. tail = set_dirty(a, page)
      BY <2>2
    <3> HIDE DEF parts, tail
    <3>2. Plain(a, parts)
      BY <1>4, <2>2 DEF Plain, NativeParts
    <3>3. Body(a, parts \o set_dirty(a, page))
      BY <1>2, <1>3, <1>4, <3>2, MarkedBody
    <3> QED
      BY <3>1, <3>3, Zenon
  <2> QED
    BY <2>1, <2>2
<1> HIDE DEF parts, tail
<1>6. Permitted(a, page) => Planned(a, s)
  <2>1. Permitted(a, page) => Allowed(a)
    BY <1>3, ScalarRefused, Zenon DEF Allowed
  <2>2. Body(a, s)
    BY <1>1, <1>5
  <2> QED
    BY <2>1, <2>2, PlannedBody
<1>7. ~Permitted(a, page) => Explains(a, a.vaddr)
  <2>1. ~Permitted(a, page) => Refused(a, a.vaddr)
    BY ScalarRefused
  <2> QED
    BY <1>3, <2>1, RefusedFirst
<1>8. a.vaddr \in Int /\ Permitted(a, page) \in BOOLEAN
  BY EndOfRange, ScalarPermitted
<1> DEFINE ok == Permitted(a, page)
<1> HIDE DEF ok
<1>9. Planned(a, <<Check(ok, a.vaddr)>> \o s) /\ <<Check(ok, a.vaddr)>> \o s \in Seq(Ops)
  <2>1. ok \in BOOLEAN /\ (ok => Planned(a, s)) /\ (~ok => Explains(a, a.vaddr))
    BY <1>6, <1>7, <1>8 DEF ok
  <2> QED
    BY <1>8, <2>1, PlannedCheck
<1> QED
  BY <1>1, <1>9, Zenon DEF ok

\* An aligned scalar does not cross the end of a page.
LEMMA AlignedInPage ==
    ASSUME NEW a \in Accesses, Scalar(a), a.vaddr % a.len = 0
    PROVE  ~HasSecondPage(a.vaddr, a.len)
<1> DEFINE w == a.len
           off == Offset(a.vaddr)
           page == PageOf(a.vaddr)
           q == PAGE_SIZE \div w
           r == a.vaddr \div w
<1>1. w \in Nat \ {0} /\ a.vaddr \in Int /\ PAGE_SIZE \in Nat /\ PAGE_SIZE % w = 0 /\ a.vaddr % w = 0
  BY EndOfRange, Sizes DEF Scalar
<1> HIDE DEF w
<1>2. PAGE_SIZE = w * q + 0 /\ q \in Int
  BY <1>1, DivMod
<1>3. a.vaddr = w * r + 0 /\ r \in Int
  BY <1>1, DivMod
<1>4. page \in Int /\ off \in Int /\ 0 <= off /\ off < PAGE_SIZE /\ a.vaddr = PAGE_SIZE * page + off
  BY <1>1, PageParts
<1> HIDE DEF q, r, off, page
<1> DEFINE m == r - q * page
<1>5. m \in Int /\ off = w * m
  <2>1. q * page \in Int
    BY <1>2, <1>4
  <2>2. (w * q) * page = w * (q * page)
    BY <1>1, <1>2, <1>4
  <2>3. w * m = w * r - w * (q * page)
    BY <1>1, <1>3, <2>1, SMTT(30)
  <2>4. PAGE_SIZE = w * q /\ a.vaddr = w * r
    BY <1>1, <1>2, <1>3
  <2>5. a.vaddr = (w * q) * page + off
    BY <1>4, <2>4, Zenon
  <2> DEFINE x == w * (q * page)
             y == w * r
  <2>6. x \in Int /\ y \in Int /\ y = x + off /\ w * m = y - x
    BY <1>1, <1>3, <2>1, <2>2, <2>3, <2>4, <2>5
  <2> HIDE DEF x, y, m
  <2>7. off = y - x
    BY <1>4, <2>6
  <2>8. m \in Int
    BY <1>3, <2>1 DEF m
  <2> QED
    BY <2>6, <2>7, <2>8
<1> HIDE DEF m
<1>6. m < q
  <2>1. ASSUME q <= m
        PROVE  FALSE
    <3>1. w * q <= w * m
      BY <1>1, <1>2, <1>5, <2>1, MulMono
    <3>2. PAGE_SIZE = w * q
      BY <1>1, <1>2
    <3> QED
      BY <1>1, <1>4, <1>5, <3>1, <3>2
  <2> QED
    BY <1>2, <1>5, <2>1
<1>7. w * (m + 1) <= w * q
  <2>1. m + 1 \in Int /\ m + 1 <= q
    BY <1>2, <1>5, <1>6
  <2> QED
    BY <1>1, <1>2, <2>1, MulMono
<1>8. w * (m + 1) = w * m + w
  BY <1>1, <1>5
<1>9. off + w <= PAGE_SIZE
  <2> DEFINE x == w * m
             y == w * q
  <2>1. x \in Int /\ y \in Int /\ x + w <= y /\ off = x /\ PAGE_SIZE = y
    BY <1>1, <1>2, <1>5, <1>7, <1>8
  <2> HIDE DEF x, y
  <2> QED
    BY <1>1, <2>1
<1> QED
  BY <1>1, <1>4, <1>9 DEF HasSecondPage, w, off

\* fetch_aarch64.
LEMMA FetchPlanned ==
    ASSUME GoodEnv, NEW a \in Accesses, Scalar(a), a.kind = "fetch"
    PROVE  Planned(a, fetch_aarch64(a))
<1> DEFINE page == PageOf(a.vaddr)
           aligned == a.vaddr % a.len = 0
           x == Check(aligned, a.vaddr)
           y == Check(Mapped(page), vaddr_base(page))
           s == OnePage(a, page)
<1>1. a.vaddr \in Int /\ page \in Int /\ aligned \in BOOLEAN /\ Mapped(page) \in BOOLEAN
  BY EndOfRange, PageParts DEF Mapped
<1>2. vaddr_base(page) \in Int
  BY <1>1, Addresses
<1>3. a.vaddr \in Touched(a)
  BY EndOfRange, Sizes DEF Touched, Scalar
<1>4. aligned <=> ~Misaligned(a)
  BY DEF Misaligned
<1>5. s \in Seq(Ops)
  <2>1. PICK t \in Seq(Ops) : s = <<Check(Permitted(a, page), a.vaddr)>> \o t
    BY OnePageType, Zenon
  <2>2. Check(Permitted(a, page), a.vaddr) \in Ops
    BY <1>1, ScalarPermitted, CheckOps
  <2>3. <<Check(Permitted(a, page), a.vaddr)>> \in Seq(Ops)
    BY <2>2
  <2> QED
    BY <2>1, <2>3, ConcatElement
<1>6. aligned /\ Mapped(page) => Planned(a, s)
  <2> SUFFICES ASSUME aligned, Mapped(page)
               PROVE  Planned(a, s)
    OBVIOUS
  <2>1. ~HasSecondPage(a.vaddr, a.len)
    BY AlignedInPage
  <2> QED
    BY <1>4, <2>1, OnePagePlanned
<1>7. ~aligned => Explains(a, a.vaddr)
  BY <1>4, Zenon DEF Explains
<1>8. ~Mapped(page) => Explains(a, vaddr_base(page))
  <2>1. ~Mapped(page) => Refused(a, a.vaddr)
    BY ScalarRefused
  <2> QED
    BY <1>3, <2>1, RefusedPage
<1>9. x \in Ops /\ y \in Ops
  BY <1>1, <1>2, CheckOps
<1>10. fetch_aarch64(a) = <<x, y>> \o s
  BY DEF fetch_aarch64, resolve_aligned_scalar_access
<1> HIDE DEF s
<1>11. <<x, y>> \o s = <<x>> \o (<<y>> \o s)
  <2> HIDE DEF x, y
  <2> QED
    BY <1>5, <1>9, PairThen
<1> DEFINE t == <<Check(Mapped(page), vaddr_base(page))>> \o s
           mapped == Mapped(page)
           base == vaddr_base(page)
<1> HIDE DEF aligned, mapped, base
<1>12. aligned => Planned(a, <<Check(mapped, base)>> \o s)
  <2> SUFFICES ASSUME aligned
               PROVE  Planned(a, <<Check(mapped, base)>> \o s)
    OBVIOUS
  <2>1. mapped \in BOOLEAN /\ base \in Int /\ (mapped => Planned(a, s)) /\ (~mapped => Explains(a, base))
    BY <1>1, <1>2, <1>6, <1>8, Zenon DEF mapped, base
  <2> QED
    BY <1>5, <2>1, PlannedCheck
<1>13. <<Check(mapped, base)>> \o s \in Seq(Ops)
  <2>1. <<y>> \in Seq(Ops)
    BY <1>9
  <2> QED
    BY <1>5, <2>1, ConcatElement DEF mapped, base
<1> DEFINE u == <<Check(mapped, base)>> \o s
<1> HIDE DEF u
<1>14. Planned(a, <<Check(aligned, a.vaddr)>> \o u)
  <2>1. u \in Seq(Ops) /\ (aligned => Planned(a, u)) /\ (~aligned => Explains(a, a.vaddr))
    BY <1>7, <1>12, <1>13, Zenon DEF u
  <2> QED
    BY <1>1, <2>1, PlannedCheck
<1> QED
  BY <1>10, <1>11, <1>14, Zenon DEF u, mapped, base

LEMMA Remainder ==
    ASSUME NEW x \in Int, NEW c \in Nat \ {0}, NEW q \in Int, NEW r \in Int, x = c * q + r, 0 <= r, r < c
    PROVE  x % c = r
<1>1. /\ x \div c \in Int /\ x % c \in Int /\ x = c * (x \div c) + (x % c)
      /\ 0 <= x % c /\ x % c < c
  BY DivMod
<1> QED
  BY <1>1, DivModUnique

\* The page number of vm_access is that of the TLB only in the lower half.
LEMMA HitMapped ==
    ASSUME GoodEnv, NEW a \in Accesses, TlbHit(a.vaddr)
    PROVE  Mapped(PageOf(a.vaddr))
<1> DEFINE page == PageOf(a.vaddr)
           signed == SignedPage(a.vaddr)
           n == PageCount
<1>1. /\ a.vaddr \in Int /\ 0 <= a.vaddr /\ a.vaddr < Space /\ PAGE_SIZE \in Nat \ {0, 1}
      /\ n \in Nat \ {0} /\ Space = PAGE_SIZE * n /\ Space \in Nat \ {0} /\ MaxPage = n - 1
  BY EndOfRange, Sizes
<1>2. /\ page \in Int /\ Offset(a.vaddr) \in Int /\ 0 <= Offset(a.vaddr) /\ Offset(a.vaddr) < PAGE_SIZE
      /\ a.vaddr = PAGE_SIZE * page + Offset(a.vaddr)
  BY <1>1, PageParts
<1>3. 0 <= page /\ page < n
  <2>1. ASSUME page < 0
        PROVE  FALSE
    <3>1. PAGE_SIZE * page <= PAGE_SIZE * (-1)
      BY <1>1, <1>2, <2>1, MulMono
    <3> QED
      BY <1>1, <1>2, <3>1
  <2>2. ASSUME n <= page
        PROVE  FALSE
    <3>1. PAGE_SIZE * n <= PAGE_SIZE * page
      BY <1>1, <1>2, <2>2, MulMono
    <3> QED
      BY <1>1, <1>2, <3>1
  <2> QED
    BY <1>1, <1>2, <2>1, <2>2
<1>4. n + n <= Space
  <2>1. n * 2 <= n * PAGE_SIZE
    BY <1>1, MulMono
  <2>2. n * 2 = n + n /\ n * PAGE_SIZE = PAGE_SIZE * n
    BY <1>1
  <2> QED
    BY <1>1, <2>1, <2>2
<1>5. CASE a.vaddr >= Space \div 2
  <2>1. (a.vaddr - Space) \div PAGE_SIZE = page - n
    <3> DEFINE v == a.vaddr - Space
    <3>1. v \in Int /\ page - n \in Int
      BY <1>1, <1>2
    <3>2. PAGE_SIZE * (page - n) = PAGE_SIZE * page - PAGE_SIZE * n
      BY <1>1, <1>2
    <3>3. v = PAGE_SIZE * (page - n) + Offset(a.vaddr)
      <4> DEFINE p == PAGE_SIZE * page
                 m == PAGE_SIZE * n
      <4>1. p \in Int /\ m \in Int /\ a.vaddr = p + Offset(a.vaddr) /\ Space = m
        BY <1>1, <1>2
      <4> HIDE DEF p, m
      <4>2. v = (p - m) + Offset(a.vaddr)
        BY <1>2, <4>1
      <4> QED
        BY <3>2, <4>2 DEF p, m
    <3> HIDE DEF v
    <3>4. PageOf(v) = page - n
      BY <1>2, <3>1, <3>3, PageAt
    <3> QED
      BY <3>4 DEF PageOf, v
  <2>2. signed = (page - n) % Space
    BY <1>5, <2>1 DEF SignedPage
  <2>3. (page - n) % Space = page - n + Space
    <3> DEFINE x == page - n
    <3>1. x \in Int /\ 0 <= x + Space /\ x + Space < Space
      BY <1>1, <1>2, <1>3, <1>4
    <3> HIDE DEF x
    <3>2. x = Space * (-1) + (x + Space)
      BY <1>1, <3>1
    <3>3. x % Space = x + Space
      <4> DEFINE q == -1
                 r == x + Space
      <4>1. q \in Int /\ r \in Int /\ x = Space * q + r /\ 0 <= r /\ r < Space
        BY <1>1, <3>1, <3>2
      <4> HIDE DEF q, r
      <4>2. x % Space = r
        BY <1>1, <3>1, <4>1, Remainder
      <4> QED
        BY <4>2 DEF r
    <3> QED
      BY <3>3 DEF x
  <2>4. signed \in Int /\ signed > MaxPage
    BY <1>1, <1>2, <1>3, <1>4, <2>2, <2>3
  <2>5. signed % TLB_SIZE \in 0..(TLB_SIZE - 1)
    <3>1. TLB_SIZE \in Nat \ {0}
      BY AccessAssumption
    <3> QED
      BY <2>4, <3>1, DivMod
  <2>6. signed \in {None} \cup DOMAIN env.table
    BY <2>5 DEF GoodEnv, TlbHit
  <2>7. signed \in {None} \cup 0..MaxPage
    BY <2>6 DEF GoodEnv
  <2> QED
    BY <1>1, <2>4, <2>7 DEF None
<1>6. CASE ~(a.vaddr >= Space \div 2)
  <2>1. signed = page % Space
    BY <1>6 DEF SignedPage
  <2>2. page % Space = page
    <3>1. page = Space * 0 + page /\ 0 <= page /\ page < Space
      BY <1>1, <1>2, <1>3, <1>4
    <3> DEFINE q == 0
    <3>2. q \in Int /\ page = Space * q + page
      BY <3>1
    <3> HIDE DEF q
    <3> QED
      BY <1>1, <1>2, <3>1, <3>2, Remainder
  <2>3. page % TLB_SIZE \in 0..(TLB_SIZE - 1)
    <3>1. TLB_SIZE \in Nat \ {0}
      BY AccessAssumption
    <3> QED
      BY <1>2, <3>1, DivMod
  <2>4. env.tlb[page % TLB_SIZE] = page
    BY <2>1, <2>2 DEF TlbHit
  <2>5. page \in {None} \cup DOMAIN env.table
    BY <2>3, <2>4 DEF GoodEnv
  <2> QED
    BY <1>2, <1>3, <2>5 DEF None, Mapped
<1> QED
  BY <1>5, <1>6

-----------------------------------------------------------------------------
(* Scalars across two pages                                                 *)

\* An access that crosses into the next page: where its bytes lie.
Crosses(a, lo, hi, in_lo) ==
    /\ lo = PageOf(a.vaddr) /\ hi = lo + 1 /\ in_lo = PAGE_SIZE - Offset(a.vaddr)
    /\ HasSecondPage(a.vaddr, a.len)

LEMMA CrossFacts ==
    ASSUME NEW a \in Accesses, Scalar(a), NEW lo, NEW hi, NEW in_lo, Crosses(a, lo, hi, in_lo)
    PROVE  /\ lo \in Int /\ hi \in Int /\ in_lo \in Int /\ 0 < in_lo /\ in_lo < a.len /\ in_lo <= PAGE_SIZE
           /\ a.len \in Nat \ {0} /\ a.len <= PAGE_SIZE /\ a.vaddr \in Int /\ a.vaddr \in Touched(a)
           /\ 0 <= lo /\ lo <= MaxPage /\ MaxPage \in Int
           /\ a.vaddr + in_lo = PAGE_SIZE * hi + 0 /\ a.vaddr = PAGE_SIZE * lo + Offset(a.vaddr)
           /\ PAGE_SIZE * hi = vaddr_base(hi) /\ vaddr_base(hi) \in Int /\ vaddr_base(lo) \in Int
           /\ Offset(a.vaddr) \in Int /\ 0 <= Offset(a.vaddr) /\ PAGE_SIZE \in Nat
           /\ Offset(a.vaddr) = PAGE_SIZE - in_lo
           /\ \A k \in 0..(a.len - 1) : PageOf(a.vaddr + k) = IF k < in_lo THEN lo ELSE hi
           /\ hi <= MaxPage => ~Beyond(a) /\ vaddr_base(hi) \in Touched(a)
           /\ lo = MaxPage => Beyond(a)
           /\ PageOf(vaddr_base(hi)) = hi
<1> DEFINE off == Offset(a.vaddr)
           p == PAGE_SIZE * lo
<1>1. /\ a.vaddr \in Int /\ a.len \in Nat \ {0} /\ 0 <= a.vaddr /\ a.vaddr < Space
      /\ PAGE_SIZE \in Nat \ {0} /\ Space \in Int
      /\ PageCount \in Nat \ {0} /\ MaxPage = PageCount - 1 /\ TopAddr = Space - 1
      /\ Space = PAGE_SIZE * PageCount /\ PAGE_SIZE % a.len = 0
      /\ lo = PageOf(a.vaddr) /\ hi = lo + 1 /\ in_lo = PAGE_SIZE - off
  BY EndOfRange, Sizes DEF Scalar, Crosses
<1>2. /\ lo \in Int /\ off \in Int /\ 0 <= off /\ off < PAGE_SIZE /\ a.vaddr = p + off /\ p \in Int
  <2>1. /\ lo \in Int /\ off \in Int /\ 0 <= off /\ off < PAGE_SIZE /\ a.vaddr = p + off
    BY <1>1, PageParts
  <2> QED
    BY <1>1, <2>1
<1>3. a.len <= PAGE_SIZE
  <2> DEFINE w == a.len
             q == PAGE_SIZE \div w
  <2>1. w \in Nat \ {0} /\ PAGE_SIZE \in Int /\ PAGE_SIZE % w = 0
    BY <1>1
  <2> HIDE DEF w
  <2>2. q \in Int /\ PAGE_SIZE = w * q /\ w \in Nat
    <3>1. PAGE_SIZE = w * q + 0 /\ q \in Int
      BY <2>1, DivMod
    <3> QED
      BY <2>1, <3>1
  <2> HIDE DEF q
  <2>3. q >= 1
    <3>1. ASSUME q <= 0
          PROVE  FALSE
      <4>1. w * q <= w * 0
        BY <2>2, <3>1, MulMono
      <4> QED
        BY <1>1, <2>2, <4>1
    <3> QED
      BY <2>2, <3>1
  <2>4. w * 1 <= w * q
    BY <2>2, <2>3, MulMono
  <2>5. w <= PAGE_SIZE
    BY <2>2, <2>4
  <2> QED
    BY <2>5 DEF w
<1>4. in_lo \in Int /\ 0 < in_lo /\ in_lo <= PAGE_SIZE /\ in_lo < a.len /\ hi \in Int
  BY <1>1, <1>2 DEF Crosses, HasSecondPage
<1>5. PAGE_SIZE * hi = p + PAGE_SIZE /\ vaddr_base(hi) = PAGE_SIZE * hi /\ vaddr_base(lo) = p
  BY <1>1, <1>2, <1>4 DEF vaddr_base
<1>6. 0 <= lo /\ lo <= MaxPage
  <2>1. ASSUME lo < 0
        PROVE  FALSE
    <3>1. PAGE_SIZE * lo <= PAGE_SIZE * (-1)
      BY <1>1, <1>2, <2>1, MulMono
    <3> QED
      BY <1>1, <1>2, <3>1
  <2>2. ASSUME PageCount <= lo
        PROVE  FALSE
    <3>1. PAGE_SIZE * PageCount <= PAGE_SIZE * lo
      BY <1>1, <1>2, <2>2, MulMono
    <3> QED
      BY <1>1, <1>2, <3>1
  <2> QED
    BY <1>1, <1>2, <2>1, <2>2
<1>7. hi <= MaxPage => p + PAGE_SIZE + PAGE_SIZE <= Space
  <2> SUFFICES ASSUME hi <= MaxPage
               PROVE  p + PAGE_SIZE + PAGE_SIZE <= Space
    OBVIOUS
  <2>1. PAGE_SIZE * (hi + 1) <= PAGE_SIZE * PageCount
    BY <1>1, <1>4, MulMono
  <2>2. PAGE_SIZE * (hi + 1) = PAGE_SIZE * hi + PAGE_SIZE
    BY <1>1, <1>4
  <2> QED
    BY <1>1, <1>5, <2>1, <2>2
<1>8. lo = MaxPage => p + PAGE_SIZE = Space
  BY <1>1, <1>4, <1>5
<1> HIDE DEF p, off
<1>9. ASSUME NEW k \in 0..(a.len - 1)
      PROVE  PageOf(a.vaddr + k) = IF k < in_lo THEN lo ELSE hi
  <2>1. k \in Int /\ a.vaddr + k \in Int /\ 0 <= k /\ k < a.len
    BY <1>1
  <2>2. CASE k < in_lo
    <3> DEFINE o == off + k
    <3>1. o \in Int /\ 0 <= o /\ o < PAGE_SIZE /\ a.vaddr + k = p + o
      BY <1>1, <1>2, <2>1, <2>2
    <3> HIDE DEF o
    <3>2. PageOf(a.vaddr + k) = lo
      BY <1>2, <2>1, <3>1, PageAt DEF p
    <3> QED
      BY <2>2, <3>2
  <2>3. CASE ~(k < in_lo)
    <3> DEFINE o == k - in_lo
    <3>1. o \in Int /\ 0 <= o /\ o < PAGE_SIZE /\ a.vaddr + k = (p + PAGE_SIZE) + o
      BY <1>1, <1>2, <1>3, <1>4, <2>1, <2>3
    <3> HIDE DEF o
    <3>2. PageOf(a.vaddr + k) = hi
      BY <1>4, <1>5, <2>1, <3>1, PageAt
    <3> QED
      BY <2>3, <3>2
  <2> QED
    BY <2>2, <2>3
<1>10. hi <= MaxPage => ~Beyond(a)
  BY <1>1, <1>2, <1>3, <1>4, <1>7 DEF Beyond
<1>11. hi <= MaxPage => vaddr_base(hi) \in Touched(a)
  <2> SUFFICES ASSUME hi <= MaxPage
               PROVE  p + PAGE_SIZE \in Touched(a)
    BY <1>5
  <2>1. p + PAGE_SIZE \in a.vaddr..(a.vaddr + a.len - 1)
    BY <1>1, <1>2, <1>4
  <2>2. p + PAGE_SIZE <= TopAddr
    BY <1>1, <1>2, <1>7
  <2> QED
    BY <2>1, <2>2 DEF Touched
<1>12. lo = MaxPage => Beyond(a)
  BY <1>1, <1>2, <1>4, <1>8 DEF Beyond
<1>13. a.vaddr \in Touched(a)
  BY <1>1 DEF Touched
<1>14. PageOf(vaddr_base(hi)) = hi
  <2> DEFINE x == PAGE_SIZE * hi
             o == 0
  <2>1. x \in Int /\ o \in Int /\ 0 <= o /\ o < PAGE_SIZE /\ x = PAGE_SIZE * hi + o
    BY <1>1, <1>4
  <2> HIDE DEF x, o
  <2>2. PageOf(x) = hi
    BY <1>4, <2>1, PageAt
  <2> QED
    BY <1>5, <2>2 DEF x
<1>15. a.vaddr + in_lo = PAGE_SIZE * hi + 0 /\ a.vaddr = PAGE_SIZE * lo + Offset(a.vaddr)
  <2>1. a.vaddr + in_lo = p + PAGE_SIZE
    BY <1>1, <1>2
  <2>2. PAGE_SIZE * hi + 0 = p + PAGE_SIZE
    BY <1>1, <1>2, <1>5
  <2> QED
    BY <1>2, <2>1, <2>2 DEF p, off
<1>16. vaddr_base(hi) \in Int /\ vaddr_base(lo) \in Int /\ PAGE_SIZE * hi = vaddr_base(hi) /\ MaxPage \in Int
  BY <1>1, <1>2, <1>5
<1>17. off = PAGE_SIZE - in_lo /\ PAGE_SIZE \in Nat
  BY <1>1, <1>2
<1> QED
  BY <1>1, <1>2, <1>3, <1>4, <1>6, <1>9, <1>10, <1>11, <1>12, <1>13, <1>14, <1>15, <1>16, <1>17, Zenon DEF off

\* The bytes on either side.
LEMMA CrossLies ==
    ASSUME GoodEnv, NEW a \in Accesses, Scalar(a), NEW lo, NEW hi, NEW in_lo,
           Crosses(a, lo, hi, in_lo), Mapped(lo), Mapped(hi)
    PROVE  /\ Lies(a, Host(lo, Offset(a.vaddr)), 0, in_lo) /\ Lies(a, Host(hi, 0), in_lo, a.len)
           /\ \A o \in Int : /\ Host(lo, o) \in Int /\ Host(hi, o) \in Int
                             /\ Host(hi, o) = Host(hi, 0) + o
                             /\ Host(lo, o) = Host(lo, Offset(a.vaddr)) + (o - Offset(a.vaddr))
<1> DEFINE off == Offset(a.vaddr)
<1>1. /\ lo \in Int /\ hi \in Int /\ in_lo \in Int /\ 0 < in_lo /\ in_lo < a.len /\ in_lo <= PAGE_SIZE
      /\ a.len \in Nat \ {0} /\ a.len <= PAGE_SIZE /\ a.vaddr \in Int
      /\ off \in Int /\ 0 <= off /\ PAGE_SIZE \in Nat /\ off = PAGE_SIZE - in_lo
  BY CrossFacts
<1>2. a.vaddr + in_lo = PAGE_SIZE * hi + 0 /\ a.vaddr = PAGE_SIZE * lo + off
  BY CrossFacts
<1> HIDE DEF off
<1>3. Lies(a, Host(lo, off), 0, in_lo)
  <2> DEFINE z == 0
  <2>1. z \in Int /\ off + (in_lo - z) <= PAGE_SIZE /\ a.vaddr + z = a.vaddr
    BY <1>1
  <2>2. a.vaddr + z = PAGE_SIZE * lo + off
    BY <1>2, <2>1, Zenon
  <2> HIDE DEF z
  <2>3. Lies(a, Host(lo, off), z, in_lo)
    BY <1>1, <2>1, <2>2, LiesInPage
  <2> QED
    BY <2>3 DEF z
<1>4. Lies(a, Host(hi, 0), in_lo, a.len)
  <2> DEFINE z == 0
  <2>1. z \in Int /\ 0 <= z /\ z + (a.len - in_lo) <= PAGE_SIZE /\ a.len \in Int
    BY <1>1
  <2>2. a.vaddr + in_lo = PAGE_SIZE * hi + z
    BY <1>2
  <2> HIDE DEF z
  <2>3. Lies(a, Host(hi, z), in_lo, a.len)
    BY <1>1, <2>1, <2>2, LiesInPage
  <2> QED
    BY <2>3 DEF z
<1>5. ASSUME NEW o \in Int
      PROVE  /\ Host(lo, o) \in Int /\ Host(hi, o) \in Int /\ Host(hi, o) = Host(hi, 0) + o
             /\ Host(lo, o) = Host(lo, off) + (o - off)
  <2> DEFINE x == env.frame[lo] * PAGE_SIZE
             y == env.frame[hi] * PAGE_SIZE
  <2>1. env.frame[lo] \in Int /\ env.frame[hi] \in Int
    BY AccessAssumption DEF GoodEnv, Mapped
  <2>2. x \in Int /\ y \in Int
    BY <1>1, <2>1
  <2>3. Host(lo, o) = x + o /\ Host(lo, off) = x + off /\ Host(hi, o) = y + o /\ Host(hi, 0) = y + 0
    BY DEF Host
  <2> HIDE DEF x, y
  <2> QED
    BY <1>1, <2>2, <2>3
<1> QED
  BY <1>3, <1>4, <1>5 DEF off

LeOf(p, at, width, shift) ==
    at \in Int /\ width \in Int /\ shift \in Int /\ p = le_part(env.build, at, width, shift)

LEMMA LePartType ==
    ASSUME NEW at, NEW width, NEW shift, NEW p, LeOf(p, at, width, shift)
    PROVE  /\ p \in Parts /\ p.at = at /\ p.width = width /\ p.le
           /\ \A a \in Accesses : Base(a, p) = shift
<1> DEFINE shards == IF env.build = "miri" THEN get_cache_line_unaligned(at, width) ELSE <<>>
<1>1. shards \in Seq(Shards)
  BY LineShards DEF LeOf
<1>2. p = Part(at, width, shift, TRUE, shards)
  BY DEF le_part, LeOf
<1> HIDE DEF shards
<1> QED
  BY <1>1, <1>2 DEF LeOf, Part, Parts, Base

\* Two parts, the one with the upper bytes first.
LEMMA TwoTiles ==
    ASSUME NEW a \in Accesses, NEW p \in Ops, NEW q \in Ops, p.kind = "part", q.kind = "part",
           Placed(a, p), Placed(a, q), p.le, q.le, NEW mid \in Int,
           \A k \in 0..(a.len - 1) : Hits(a, p, k) <=> k >= mid,
           \A k \in 0..(a.len - 1) : Hits(a, q, k) <=> k < mid
    PROVE  Tiles(a, <<p, q>>, 0, a.len) /\ Plain(a, <<p, q>>)
<1> DEFINE s == <<p, q>>
<1>1. s \in Seq(Ops) /\ Len(s) = 2 /\ s[1] = p /\ s[2] = q /\ \A i \in 1..Len(s) : i = 1 \/ i = 2
  OBVIOUS
<1>2. a.len \in Int
  BY EndOfRange
<1> HIDE DEF s
<1>3. 1 \in 1..Len(s) /\ 2 \in 1..Len(s)
  BY <1>1
<1>4. \A i \in 1..Len(s) : s[i].kind = "part" /\ Placed(a, s[i]) /\ s[i].le
  BY <1>1
<1>5. ASSUME NEW k \in 0..(a.len - 1)
      PROVE  /\ \E i \in 1..Len(s) : Hits(a, s[i], k)
             /\ \A i, j \in 1..Len(s) : Hits(a, s[i], k) /\ Hits(a, s[j], k) => i = j
  <2>1. k \in Int
    BY <1>2
  <2>2. (Hits(a, p, k) \/ Hits(a, q, k)) /\ ~(Hits(a, p, k) /\ Hits(a, q, k))
    BY <2>1
  <2> QED
    BY <1>1, <1>3, <2>2, Zenon
<1>6. Tiles(a, s, 0, a.len)
  BY <1>1, <1>4, <1>5 DEF Tiles
<1>7. Plain(a, s)
  BY <1>4 DEF Plain
<1> QED
  BY <1>6, <1>7 DEF s

\* Two aligned words, shifted together.
LEMMA LoadAcrossBody ==
    ASSUME GoodEnv, NEW a \in Accesses, Scalar(a), a.op = "load", NEW lo, NEW hi, NEW in_lo,
           Crosses(a, lo, hi, in_lo), Mapped(lo), Mapped(hi)
    PROVE  Body(a, LoadAcross(a, lo, hi)) /\ LoadAcross(a, lo, hi) \in Seq(Ops)
<1> DEFINE x == Host(hi, 0)
           y == Host(lo, PAGE_SIZE - a.len)
           z == Host(lo, Offset(a.vaddr))
           base == in_lo - a.len
           p == le_part(env.build, x, a.len, in_lo)
           q == le_part(env.build, y, a.len, base)
<1>1. /\ in_lo \in Int /\ 0 < in_lo /\ in_lo < a.len /\ in_lo <= PAGE_SIZE
      /\ a.len \in Int /\ a.len <= PAGE_SIZE /\ a.vaddr \in Int
      /\ Offset(a.vaddr) \in Int /\ PAGE_SIZE \in Nat /\ Offset(a.vaddr) = PAGE_SIZE - in_lo
  BY CrossFacts
<1>2. Lies(a, z, 0, in_lo) /\ Lies(a, x, in_lo, a.len)
  BY CrossLies
<1>3. x \in Int /\ y \in Int /\ z \in Int /\ base \in Int /\ y = z + base
  <2>1. PAGE_SIZE - a.len \in Int /\ 0 \in Int
    BY <1>1
  <2>2. /\ \A o \in Int : /\ Host(lo, o) \in Int /\ Host(hi, o) \in Int
                          /\ Host(lo, o) = z + (o - Offset(a.vaddr))
    BY CrossLies
  <2>3. x \in Int /\ y \in Int /\ z \in Int /\ y = z + ((PAGE_SIZE - a.len) - Offset(a.vaddr))
    BY <1>1, <2>1, <2>2
  <2> HIDE DEF x, y, z
  <2> QED
    BY <1>1, <2>3
<1>4. LoadAcross(a, lo, hi) = <<p, q>>
  <2>1. a.len - (a.len - (PAGE_SIZE - Offset(a.vaddr))) = in_lo
        /\ -(a.len - (PAGE_SIZE - Offset(a.vaddr))) = base
    BY <1>1
  <2> QED
    BY <2>1 DEF LoadAcross
<1>16. LeOf(p, x, a.len, in_lo) /\ LeOf(q, y, a.len, base)
  BY <1>1, <1>3 DEF LeOf
<1> HIDE DEF x, y, z, base, p, q
<1>5. /\ p \in Parts /\ p.at = x /\ p.width = a.len /\ p.le /\ Base(a, p) = in_lo
  BY <1>16, LePartType
<1>6. /\ q \in Parts /\ q.at = y /\ q.width = a.len /\ q.le /\ Base(a, q) = base
  BY <1>16, LePartType
<1>7. base = in_lo - a.len
  BY DEF base
<1>8. /\ p \in Ops /\ p.kind = "part" /\ Placed(a, p)
      /\ \A k \in Int : Hits(a, p, k) <=> k \in in_lo..(in_lo + p.width - 1)
  <2>1. \A k \in 0..(a.len - 1) : k \in in_lo..(in_lo + p.width - 1) =>
               Mapped(PageOf(a.vaddr + k)) /\ HostOf(a.vaddr + k) = p.at + (k - in_lo)
    BY <1>1, <1>2, <1>5 DEF Lies
  <2> QED
    BY <1>1, <1>5, <2>1, PartPlaced
<1>9. /\ q \in Ops /\ q.kind = "part" /\ Placed(a, q)
      /\ \A k \in Int : Hits(a, q, k) <=> k \in base..(base + q.width - 1)
  <2>1. ASSUME NEW k \in 0..(a.len - 1), k \in base..(base + q.width - 1)
        PROVE  Mapped(PageOf(a.vaddr + k)) /\ HostOf(a.vaddr + k) = q.at + (k - base)
    <3>1. k \in 0..(in_lo - 1) /\ k \in Int
      BY <1>1, <1>6, <1>7, <2>1
    <3>2. Mapped(PageOf(a.vaddr + k)) /\ HostOf(a.vaddr + k) = z + (k - 0)
      BY <1>2, <3>1 DEF Lies
    <3>3. z + (k - 0) = q.at + (k - base)
      BY <1>1, <1>3, <1>6, <3>1
    <3> QED
      BY <3>2, <3>3, Zenon
  <2> QED
    BY <1>3, <1>6, <2>1, PartPlaced
<1>10. \A k \in 0..(a.len - 1) : Hits(a, p, k) <=> k >= in_lo
  BY <1>1, <1>5, <1>8
<1>11. \A k \in 0..(a.len - 1) : Hits(a, q, k) <=> k < in_lo
  BY <1>1, <1>6, <1>7, <1>9
<1>12. Tiles(a, <<p, q>>, 0, a.len) /\ Plain(a, <<p, q>>)
  BY <1>1, <1>5, <1>6, <1>8, <1>9, <1>10, <1>11, TwoTiles
<1>13. Marks(a, <<p, q>>, 0, a.len)
  BY DEF Marks, MustMark
<1>14. a.kind # "pages"
  BY DEF Scalar
<1>15. <<p, q>> \in Seq(Ops)
  BY <1>8, <1>9
<1> QED
  BY <1>4, <1>12, <1>13, <1>14, <1>15, Zenon DEF Body, Converts

\* Bytes one by one, the last one first.
LEMMA ByteTiles ==
    ASSUME NEW a \in Accesses, NEW s \in Seq(Ops), Len(s) = a.len,
           \A i \in 1..a.len : s[i].kind = "part" /\ Placed(a, s[i]) /\ s[i].le,
           \A i \in 1..a.len, k \in 0..(a.len - 1) : Hits(a, s[i], k) <=> k = a.len - i
    PROVE  Tiles(a, s, 0, a.len) /\ Plain(a, s)
<1>1. a.len \in Int
  BY EndOfRange
<1>2. ASSUME NEW k \in 0..(a.len - 1)
      PROVE  \E i \in 1..Len(s) : Hits(a, s[i], k)
  <2>1. a.len - k \in 1..a.len /\ k = a.len - (a.len - k)
    BY <1>1
  <2> QED
    BY <2>1
<1>3. ASSUME NEW i \in 1..Len(s), NEW j \in 1..Len(s), NEW k \in 0..(a.len - 1),
             Hits(a, s[i], k), Hits(a, s[j], k)
      PROVE  i = j
  <2>1. k = a.len - i /\ k = a.len - j
    BY <1>3
  <2> QED
    BY <1>1, <2>1
<1> QED
  BY <1>2, <1>3 DEF Tiles, Plain

\* A store, byte by byte, and then the marks of both pages.
LEMMA StoreAcrossBody ==
    ASSUME GoodEnv, NEW a \in Accesses, Scalar(a), a.op = "store", NEW lo, NEW hi, NEW in_lo,
           Crosses(a, lo, hi, in_lo), Mapped(lo), Mapped(hi)
    PROVE  Body(a, StoreAcross(a, lo, hi)) /\ StoreAcross(a, lo, hi) \in Seq(Ops)
<1> DEFINE x == Host(hi, 0)
           z == Host(lo, Offset(a.vaddr))
           stored(k) == IF k >= in_lo
                        THEN le_part(env.build, Host(hi, k - in_lo), 1, k)
                        ELSE le_part(env.build, Host(lo, Offset(a.vaddr) + k), 1, k)
           n == a.len
           s == [i \in 1..n |-> stored(n - i)]
           t == set_dirty(a, lo)
           u == set_dirty(a, hi)
<1>1. /\ in_lo \in Int /\ 0 < in_lo /\ in_lo < n /\ n \in Nat /\ a.vaddr \in Int
      /\ Offset(a.vaddr) \in Int /\ PAGE_SIZE \in Nat /\ Offset(a.vaddr) = PAGE_SIZE - in_lo
  BY CrossFacts
<1>2. Lies(a, z, 0, in_lo) /\ Lies(a, x, in_lo, n)
  BY CrossLies
<1>3. StoreAcross(a, lo, hi) = (s \o t) \o u
  <2>1. PAGE_SIZE - Offset(a.vaddr) = in_lo
    BY <1>1
  <2> QED
    BY <2>1 DEF StoreAcross
<1>4. ASSUME NEW k \in 0..(n - 1)
      PROVE  /\ stored(k) \in Ops /\ stored(k).kind = "part" /\ Placed(a, stored(k)) /\ stored(k).le
             /\ \A j \in 0..(n - 1) : Hits(a, stored(k), j) <=> j = k
  <2> DEFINE at == IF k >= in_lo THEN Host(hi, k - in_lo) ELSE Host(lo, Offset(a.vaddr) + k)
             w == 1
             p == le_part(env.build, at, w, k)
  <2>1. k \in Int /\ 0 <= k /\ k < n
    BY <1>1
  <2>2. at \in Int /\ Mapped(PageOf(a.vaddr + k)) /\ at = HostOf(a.vaddr + k)
    <3> DEFINE f == k - in_lo
               g == Offset(a.vaddr) + k
    <3>1. f \in Int /\ g \in Int /\ g - Offset(a.vaddr) = k
      BY <1>1, <2>1
    <3>2. \A o \in Int : /\ Host(lo, o) \in Int /\ Host(hi, o) \in Int /\ Host(hi, o) = x + o
                         /\ Host(lo, o) = z + (o - Offset(a.vaddr))
      BY CrossLies
    <3>3. CASE k >= in_lo
      <4>1. at = Host(hi, f)
        BY <3>3
      <4>2. Mapped(PageOf(a.vaddr + k)) /\ HostOf(a.vaddr + k) = x + f
        BY <1>1, <1>2, <2>1, <3>3 DEF Lies
      <4> HIDE DEF f, x, at
      <4> QED
        BY <3>1, <3>2, <4>1, <4>2, Zenon
    <3>4. CASE ~(k >= in_lo)
      <4>1. at = Host(lo, g)
        BY <3>4
      <4>2. Mapped(PageOf(a.vaddr + k)) /\ HostOf(a.vaddr + k) = z + (k - 0)
        BY <1>1, <1>2, <2>1, <3>4 DEF Lies
      <4>3. k - 0 = g - Offset(a.vaddr)
        BY <2>1, <3>1
      <4> HIDE DEF g, z, at
      <4> QED
        BY <3>1, <3>2, <4>1, <4>2, <4>3, Zenon
    <3> QED
      BY <3>3, <3>4
  <2>3. stored(k) = p
    OBVIOUS
  <2>4. w = 1 /\ w \in Int /\ LeOf(p, at, w, k)
    BY <2>1, <2>2 DEF LeOf
  <2> HIDE DEF at, w, stored, p
  <2>5. p \in Parts /\ p.at = at /\ p.width = w /\ p.le /\ Base(a, p) = k
    BY <2>4, LePartType
  <2>6. \A j \in 0..(n - 1) : j \in k..(k + p.width - 1) => j = k /\ p.at + (j - k) = p.at
    BY <1>1, <2>1, <2>2, <2>4, <2>5
  <2>7. \A j \in 0..(n - 1) : j \in k..(k + p.width - 1) =>
            Mapped(PageOf(a.vaddr + j)) /\ HostOf(a.vaddr + j) = p.at + (j - k)
    BY <2>2, <2>5, <2>6, Zenon
  <2>8. 0 <= k /\ k + p.width <= n
    BY <1>1, <2>1, <2>4, <2>5
  <2>9. /\ p \in Ops /\ p.kind = "part" /\ Placed(a, p)
        /\ \A j \in Int : Hits(a, p, j) <=> j \in k..(k + p.width - 1)
    BY <2>1, <2>5, <2>7, <2>8, PartPlaced
  <2>10. \A j \in 0..(n - 1) : Hits(a, p, j) <=> j = k
    BY <1>1, <2>1, <2>4, <2>5, <2>9
  <2> QED
    BY <2>3, <2>5, <2>9, <2>10, Zenon
<1> HIDE DEF stored
<1>5. s \in Seq(Ops) /\ Len(s) = n /\ \A i \in 1..n : n - i \in 0..(n - 1) /\ s[i] = stored(n - i)
  <2>1. \A i \in 1..n : n - i \in 0..(n - 1)
    BY <1>1
  <2>2. s \in [1..n -> Ops]
    BY <1>4, <2>1
  <2> QED
    BY <1>1, <2>1, <2>2, SMTT(30)
<1> HIDE DEF s, x, z
<1>6. Tiles(a, s, 0, n) /\ Plain(a, s)
  <2>1. ASSUME NEW i \in 1..n
        PROVE  s[i].kind = "part" /\ Placed(a, s[i]) /\ s[i].le
    <3>1. s[i] = stored(n - i) /\ n - i \in 0..(n - 1)
      BY <1>5
    <3>2. stored(n - i).kind = "part" /\ Placed(a, stored(n - i)) /\ stored(n - i).le
      BY <1>4, <3>1
    <3> QED
      BY <3>1, <3>2, Zenon
  <2>2. ASSUME NEW i \in 1..n, NEW k \in 0..(n - 1)
        PROVE  Hits(a, s[i], k) <=> k = n - i
    <3>1. s[i] = stored(n - i) /\ n - i \in 0..(n - 1)
      BY <1>5
    <3>2. Hits(a, stored(n - i), k) <=> k = n - i
      BY <1>4, <3>1
    <3> QED
      BY <3>1, <3>2, Zenon
  <2> QED
    BY <1>5, <2>1, <2>2, ByteTiles
<1>7. /\ t \in Seq(Ops) /\ \A i \in 1..Len(t) : t[i].kind = "dirty"
      /\ u \in Seq(Ops) /\ \A i \in 1..Len(u) : u[i].kind = "dirty"
      /\ Flags(lo) \cap MUST_DIRTY # {} => \E i \in 1..Len(t) : t[i] = Mark(lo)
      /\ Flags(hi) \cap MUST_DIRTY # {} => \E i \in 1..Len(u) : u[i] = Mark(hi)
  BY SetDirtyOps, Zenon
<1> HIDE DEF t, u
<1>8. Tiles(a, t, n, n) /\ Tiles(a, u, n, n) /\ Plain(a, t) /\ Plain(a, u)
  <2>1. n \in Int
    BY <1>1
  <2>2. /\ \A i \in 1..Len(t) : t[i].kind \notin {"check", "part"} /\ t[i].kind # "from_le" /\ t[i].kind # "part"
        /\ \A i \in 1..Len(u) : u[i].kind \notin {"check", "part"} /\ u[i].kind # "from_le" /\ u[i].kind # "part"
    BY <1>7
  <2>3. Tiles(a, t, n, n) /\ Tiles(a, u, n, n)
    BY <1>7, <2>1, <2>2, TilesNothing, Zenon
  <2> QED
    BY <2>2, <2>3, Zenon DEF Plain
<1>9. Tiles(a, (s \o t) \o u, 0, n)
  <2> DEFINE z0 == 0
  <2>1. z0 \in Int /\ z0 <= n /\ n <= n /\ n \in Int /\ Tiles(a, s, z0, n)
    BY <1>1, <1>6
  <2> HIDE DEF z0
  <2>2. Tiles(a, s \o t, z0, n)
    BY <1>8, <2>1, TilesConcat
  <2>3. Tiles(a, (s \o t) \o u, z0, n)
    BY <1>8, <2>1, <2>2, TilesConcat
  <2> QED
    BY <2>3 DEF z0
<1>10. s \o t \in Seq(Ops) /\ Plain(a, s \o t)
  BY <1>5, <1>6, <1>7, <1>8, PlainConcat
<1>11. Plain(a, (s \o t) \o u)
  BY <1>7, <1>8, <1>10, PlainConcat
<1>12. ASSUME NEW k \in 0..(n - 1), MustMark(a, a.vaddr + k)
       PROVE  \E i \in 1..Len((s \o t) \o u) : ((s \o t) \o u)[i] = Mark(PageOf(a.vaddr + k))
  <2> DEFINE v == s \o t
  <2>1. PageOf(a.vaddr + k) = IF k < in_lo THEN lo ELSE hi
    BY CrossFacts
  <2>2. Flags(PageOf(a.vaddr + k)) \cap MUST_DIRTY # {}
    BY <1>12 DEF MustMark
  <2>3. CASE k < in_lo
    <3>1. PICK i \in 1..Len(t) : t[i] = Mark(PageOf(a.vaddr + k))
      BY <1>7, <2>1, <2>2, <2>3, Zenon
    <3>2. Len(s) + i \in 1..Len(v) /\ v[Len(s) + i] = t[i]
      <4>1. s \in Seq(Ops) /\ t \in Seq(Ops)
        BY <1>5, <1>7
      <4> QED
        BY <4>1, ConcatElement
    <3> HIDE DEF v
    <3>3. \A j \in 1..Len(v) : j \in 1..Len(v \o u) /\ (v \o u)[j] = v[j]
      BY <1>7, <1>10, ConcatElement DEF v
    <3>4. Len(s) + i \in 1..Len(v \o u) /\ (v \o u)[Len(s) + i] = Mark(PageOf(a.vaddr + k))
      BY <3>1, <3>2, <3>3, Zenon
    <3> QED
      BY <3>4, Zenon DEF v
  <2>4. CASE ~(k < in_lo)
    <3>1. PICK i \in 1..Len(u) : u[i] = Mark(PageOf(a.vaddr + k))
      BY <1>7, <2>1, <2>2, <2>4, Zenon
    <3> HIDE DEF v
    <3>2. Len(v) + i \in 1..Len(v \o u) /\ (v \o u)[Len(v) + i] = u[i]
      <4>1. v \in Seq(Ops) /\ u \in Seq(Ops)
        BY <1>7, <1>10 DEF v
      <4> QED
        BY <4>1, ConcatElement
    <3> QED
      BY <3>1, <3>2, Zenon DEF v
  <2> QED
    BY <2>3, <2>4
<1>13. Marks(a, (s \o t) \o u, 0, n)
  BY <1>12 DEF Marks
<1>14. a.kind # "pages"
  BY DEF Scalar
<1>15. (s \o t) \o u \in Seq(Ops)
  BY <1>9 DEF Tiles
<1> QED
  BY <1>3, <1>9, <1>11, <1>13, <1>14, <1>15, Zenon DEF Body, Converts

\* Scalars across two pages.
LEMMA TwoPagesPlanned ==
    ASSUME GoodEnv, NEW a \in Accesses, Scalar(a), ~Misaligned(a), NEW lo, NEW hi, NEW in_lo,
           Crosses(a, lo, hi, in_lo), Mapped(lo), Mapped(hi), hi <= MaxPage
    PROVE  Planned(a, TwoPages(a, lo, hi)) /\ TwoPages(a, lo, hi) \in Seq(Ops)
<1> DEFINE s == IF a.op = "load" THEN LoadAcross(a, lo, hi) ELSE StoreAcross(a, lo, hi)
           okl == Permitted(a, lo)
           okh == Permitted(a, hi)
           base == vaddr_base(hi)
           vaddr == a.vaddr
           x == Check(okl, vaddr)
           y == Check(okh, base)
<1>1. /\ a.vaddr \in Touched(a) /\ a.vaddr \in Int /\ vaddr_base(hi) \in Int
      /\ ~Beyond(a) /\ vaddr_base(hi) \in Touched(a) /\ PageOf(vaddr_base(hi)) = hi
      /\ \A k \in 0..(a.len - 1) : PageOf(a.vaddr + k) = IF k < in_lo THEN lo ELSE hi
  BY CrossFacts
<1>2. Body(a, s) /\ s \in Seq(Ops)
  <2>1. a.op \in {"load", "store"}
    BY DEF Accesses
  <2> QED
    BY <2>1, LoadAcrossBody, StoreAcrossBody
<1>3. TwoPages(a, lo, hi) = <<x, y>> \o s
  BY DEF TwoPages
<1> HIDE DEF s
<1>4. okl \in BOOLEAN /\ okh \in BOOLEAN
  BY ScalarPermitted
<1>5. okl /\ okh => Allowed(a)
  <2> SUFFICES ASSUME okl, okh, NEW v \in Touched(a)
               PROVE  ~Refused(a, v)
    BY <1>1 DEF Allowed
  <2>1. PICK k \in 0..(a.len - 1) : v = a.vaddr + k
    <3>1. v \in Int /\ a.vaddr <= v /\ v <= a.vaddr + a.len - 1 /\ a.len \in Int
      BY <1>1, EndOfRange DEF Touched
    <3>2. v - a.vaddr \in 0..(a.len - 1) /\ v = a.vaddr + (v - a.vaddr)
      BY <1>1, <3>1
    <3> QED
      BY <3>2
  <2>2. PageOf(v) = lo \/ PageOf(v) = hi
    BY <1>1, <2>1
  <2> QED
    BY <2>2, ScalarRefused
<1>6. ~okl => Explains(a, vaddr)
  <2>1. PageOf(a.vaddr) = lo
    BY DEF Crosses
  <2>2. ~okl => Refused(a, a.vaddr)
    BY <2>1, ScalarRefused
  <2> QED
    BY <1>1, <2>1, <2>2, RefusedFirst
<1>7. ~okh => Explains(a, base)
  <2>1. ~okh => Refused(a, base)
    BY <1>1, ScalarRefused
  <2>2. PageOf(base) = hi /\ hi # PageOf(a.vaddr)
    BY <1>1, PageParts DEF Crosses
  <2> QED
    BY <1>1, <2>1, <2>2, RefusedPage
<1>8. okl /\ okh => Planned(a, s)
  BY <1>2, <1>5, PlannedBody
<1>9. x \in Ops /\ y \in Ops
  BY <1>1, <1>4, CheckOps
<1>10. <<x, y>> \o s = <<x>> \o (<<y>> \o s)
  <2> HIDE DEF x, y
  <2> QED
    BY <1>2, <1>9, PairThen
<1> HIDE DEF okl, okh, base, vaddr
<1>11. vaddr \in Int /\ base \in Int
  BY <1>1 DEF vaddr, base
<1> DEFINE t == <<Check(okh, base)>> \o s
<1>12. okl => Planned(a, t)
  <2> SUFFICES ASSUME okl
               PROVE  Planned(a, <<Check(okh, base)>> \o s)
    OBVIOUS
  <2> QED
    BY <1>2, <1>4, <1>7, <1>8, <1>11, PlannedCheck
<1>13. t \in Seq(Ops)
  <2>1. <<y>> \in Seq(Ops)
    BY <1>9
  <2> QED
    BY <1>2, <2>1, ConcatElement
<1> HIDE DEF t
<1>14. Planned(a, <<Check(okl, vaddr)>> \o t) /\ <<Check(okl, vaddr)>> \o t \in Seq(Ops)
  BY <1>4, <1>6, <1>11, <1>12, <1>13, PlannedCheck
<1> QED
  BY <1>3, <1>10, <1>14, Zenon DEF t

LEMMA TwoPagesType ==
    ASSUME GoodEnv, NEW a \in Accesses, Scalar(a), NEW lo, NEW hi, NEW in_lo, Crosses(a, lo, hi, in_lo)
    PROVE  TwoPages(a, lo, hi) \in Seq(Ops)
<1> DEFINE x == Check(Permitted(a, lo), a.vaddr)
           y == Check(Permitted(a, hi), vaddr_base(hi))
           s == IF ~Mapped(lo) \/ ~Mapped(hi) THEN <<>>
                ELSE IF a.op = "load" THEN LoadAcross(a, lo, hi) ELSE StoreAcross(a, lo, hi)
<1>1. a.vaddr \in Int /\ vaddr_base(hi) \in Int
  BY CrossFacts
<1>2. x \in Ops /\ y \in Ops
  BY <1>1, CheckOps, ScalarPermitted
<1>3. <<x, y>> \in Seq(Ops)
  BY <1>2
<1>4. s \in Seq(Ops)
  <2>1. a.op \in {"load", "store"}
    BY DEF Accesses
  <2>2. ASSUME Mapped(lo), Mapped(hi)
        PROVE  s \in Seq(Ops)
    BY <2>1, <2>2, LoadAcrossBody, StoreAcrossBody
  <2> QED
    BY <2>2
<1>5. TwoPages(a, lo, hi) = <<x, y>> \o s
  BY DEF TwoPages
<1> HIDE DEF x, y, s
<1> QED
  BY <1>3, <1>4, <1>5, ConcatElement

\* The scalar functions of the IoMMU.
LEMMA ScalarPlanned ==
    ASSUME GoodEnv, NEW a \in Accesses, Scalar(a), ~Misaligned(a)
    PROVE  Planned(a, scalar_access(a))
<1> DEFINE lo == PageOf(a.vaddr)
           hi == lo + 1
           in_lo == PAGE_SIZE - Offset(a.vaddr)
           okl == Mapped(lo)
           atl == vaddr_base(lo)
<1>1. a.vaddr \in Int /\ lo \in Int /\ a.vaddr \in Touched(a) /\ okl \in BOOLEAN
  <2>1. a.vaddr \in Int /\ lo \in Int
    BY EndOfRange, PageParts
  <2>2. a.vaddr \in Touched(a)
    BY EndOfRange, Sizes DEF Touched, Scalar
  <2> QED
    BY <2>1, <2>2 DEF Mapped
<1>2. atl \in Int
  BY <1>1, Addresses
<1>3. ~okl => Explains(a, atl)
  <2>1. ~okl => Refused(a, a.vaddr)
    BY ScalarRefused
  <2> QED
    BY <1>1, <2>1, RefusedPage
<1>4. CASE ~HasSecondPage(a.vaddr, a.len)
  <2> DEFINE s == OnePage(a, lo)
  <2>1. scalar_access(a) = <<Check(okl, atl)>> \o s
    BY <1>4 DEF scalar_access
  <2>2. okl => Planned(a, s)
    BY <1>4, OnePagePlanned
  <2>3. s \in Seq(Ops)
    <3>1. PICK t \in Seq(Ops) : s = <<Check(Permitted(a, lo), a.vaddr)>> \o t
      BY OnePageType, Zenon
    <3>2. Check(Permitted(a, lo), a.vaddr) \in Ops
      BY <1>1, ScalarPermitted, CheckOps
    <3>3. <<Check(Permitted(a, lo), a.vaddr)>> \in Seq(Ops)
      BY <3>2
    <3> QED
      BY <3>1, <3>3, ConcatElement
  <2> HIDE DEF s, okl, atl
  <2>4. Planned(a, <<Check(okl, atl)>> \o s)
    BY <1>1, <1>2, <1>3, <2>2, <2>3, PlannedCheck
  <2> QED
    BY <2>1, <2>4, Zenon
<1>5. CASE HasSecondPage(a.vaddr, a.len)
  <2> DEFINE s == TwoPages(a, lo, hi)
             okn == HasNext(lo)
             okh == Mapped(hi)
             ath == vaddr_base(hi)
             top == TopAddr
             x == Check(okn, top)
             y == Check(okh, ath)
  <2>1. Crosses(a, lo, hi, in_lo)
    BY <1>5 DEF Crosses
  <2>2. /\ ath \in Int /\ top \in Int /\ lo <= MaxPage /\ MaxPage \in Int
        /\ hi <= MaxPage => ~Beyond(a) /\ ath \in Touched(a)
        /\ lo = MaxPage => Beyond(a)
        /\ PageOf(ath) = hi
    BY <2>1, CrossFacts, Sizes
  <2>3. okn \in BOOLEAN /\ okh \in BOOLEAN /\ (okn => hi <= MaxPage) /\ (~okn => lo = MaxPage)
    BY <1>1, <2>2 DEF HasNext, Mapped
  <2>4. scalar_access(a) = <<Check(okl, atl)>> \o (<<x, y>> \o s)
    BY <1>5 DEF scalar_access
  <2>5. s \in Seq(Ops)
    BY <2>1, TwoPagesType
  <2>6. okl /\ okn /\ okh => Planned(a, s)
    <3> SUFFICES ASSUME okl, okn, okh
                 PROVE  Planned(a, s)
      OBVIOUS
    <3>1. hi <= MaxPage
      BY <2>3
    <3> QED
      BY <2>1, <3>1, TwoPagesPlanned
  <2>7. ~okn => Explains(a, top)
    BY <2>2, <2>3 DEF Explains
  <2>8. okn /\ ~okh => Explains(a, ath)
    <3>1. okn /\ ~okh => Refused(a, ath)
      BY <2>2, ScalarRefused
    <3> QED
      BY <2>2, <2>3, <3>1, RefusedPage
  <2>9. x \in Ops /\ y \in Ops
    BY <2>2, <2>3, CheckOps
  <2> HIDE DEF s
  <2>10. <<x, y>> \o s = <<x>> \o (<<y>> \o s)
    <3> HIDE DEF x, y
    <3> QED
      BY <2>5, <2>9, PairThen
  <2> HIDE DEF okl, atl, okn, okh, ath, top
  <2> DEFINE t == <<Check(okh, ath)>> \o s
  <2>11. t \in Seq(Ops)
    <3>1. <<y>> \in Seq(Ops)
      BY <2>9
    <3> QED
      BY <2>5, <3>1, ConcatElement
  <2>12. okl /\ okn => Planned(a, t)
    <3> SUFFICES ASSUME okl, okn
                 PROVE  Planned(a, <<Check(okh, ath)>> \o s)
      OBVIOUS
    <3> QED
      BY <2>2, <2>3, <2>5, <2>6, <2>8, PlannedCheck
  <2> HIDE DEF t
  <2> DEFINE u == <<Check(okn, top)>> \o t
  <2>13. (okl => Planned(a, u)) /\ u \in Seq(Ops)
    <3>1. u \in Seq(Ops)
      <4>1. <<x>> \in Seq(Ops)
        BY <2>9
      <4> QED
        BY <2>11, <4>1, ConcatElement
    <3>2. ASSUME okl
          PROVE  Planned(a, <<Check(okn, top)>> \o t)
      BY <2>2, <2>3, <2>7, <2>11, <2>12, <3>2, PlannedCheck
    <3> QED
      BY <3>1, <3>2
  <2> HIDE DEF u
  <2>14. Planned(a, <<Check(okl, atl)>> \o u)
    BY <1>1, <1>2, <1>3, <2>13, PlannedCheck
  <2> QED
    BY <2>4, <2>10, <2>14, Zenon DEF u, t
<1> QED
  BY <1>4, <1>5

\* The inlined access of compiled code.
LEMMA InlinePlanned ==
    ASSUME GoodEnv, NEW a \in Accesses, Scalar(a), a.kind = "inline"
    PROVE  Planned(a, vm_access(a))
<1>1. ~Misaligned(a)
  BY DEF Misaligned
<1>2. CASE ~TlbHit(a.vaddr) \/ ~InlineAligned(a.vaddr, a.len)
  <2>1. vm_access(a) = scalar_access(a)
    BY <1>2 DEF vm_access, emit_host_mem_fallback
  <2> QED
    BY <1>1, <2>1, ScalarPlanned
<1>3. CASE TlbHit(a.vaddr) /\ InlineAligned(a.vaddr, a.len)
  <2> DEFINE page == PageOf(a.vaddr)
             at == Host(page, Offset(a.vaddr))
             z == 0
             n == a.len
             p == le_part(env.build, at, n, z)
             ok == Permitted(a, page)
             vaddr == a.vaddr
             x == Check(ok, vaddr)
             marks == set_dirty(a, page)
  <2>1. Mapped(page)
    BY <1>3, HitMapped
  <2>2. n \in Int /\ n > 0 /\ a.kind # "pages" /\ vaddr \in Int
    BY EndOfRange DEF Scalar
  <2>3. ~HasSecondPage(a.vaddr, a.len)
    <3>1. a.vaddr % a.len = 0
      <4>1. CASE a.len = 1
        <5>1. a.vaddr % 1 = 0
          BY <2>2
        <5> QED
          BY <4>1, <5>1
      <4> QED
        BY <1>3, <4>1 DEF InlineAligned
    <3> QED
      BY <3>1, AlignedInPage
  <2>4. /\ ~Beyond(a) /\ a.vaddr \in Touched(a) /\ \A v \in Touched(a) : PageOf(v) = page
        /\ \A k \in 0..(n - 1) : PageOf(a.vaddr + k) = page
        /\ Lies(a, at, z, n) /\ at \in Int
    BY <2>1, <2>2, <2>3, InPage
  <2>5. vm_access(a) = <<x, p>> \o marks
    BY <1>3 DEF vm_access
  <2>6. z \in Int /\ z = 0
    OBVIOUS
  <2>7. ok \in BOOLEAN
    BY ScalarPermitted
  <2>8. x \in Ops
    BY <2>2, <2>7, CheckOps
  <2>9. LeOf(p, at, n, z)
    BY <2>2, <2>4 DEF LeOf
  <2>10. ok => Allowed(a)
    BY <1>1, <2>1, <2>4, ScalarRefused, Zenon DEF Allowed
  <2>11. ~ok => Explains(a, vaddr)
    <3>1. ~ok => Refused(a, a.vaddr)
      BY ScalarRefused
    <3> QED
      BY <2>1, <2>4, <3>1, RefusedFirst
  <2> HIDE DEF at, z, p, ok, vaddr
  <2>12. p \in Parts /\ p.at = at /\ p.width = n /\ p.le /\ Base(a, p) = z
    BY <2>9, LePartType
  <2>13. /\ p \in Ops /\ p.kind = "part" /\ Placed(a, p)
         /\ \A k \in Int : Hits(a, p, k) <=> k \in z..(z + p.width - 1)
    <3>1. \A k \in 0..(n - 1) : k \in z..(z + p.width - 1) =>
               Mapped(PageOf(a.vaddr + k)) /\ HostOf(a.vaddr + k) = p.at + (k - z)
      BY <2>2, <2>4, <2>6, <2>12 DEF Lies
    <3>2. 0 <= z /\ z + p.width <= n
      BY <2>2, <2>6, <2>12
    <3> QED
      BY <2>6, <2>12, <3>1, <3>2, PartPlaced
  <2>14. Tiles(a, <<p>>, 0, n) /\ Plain(a, <<p>>)
    <3>1. \A k \in 0..(n - 1) : Hits(a, p, k) <=> k \in z..(n - 1)
      BY <2>2, <2>6, <2>12, <2>13
    <3>2. z <= n /\ 0 <= z /\ n <= a.len
      BY <2>2, <2>6
    <3>3. Tiles(a, <<p>>, z, n)
      BY <2>2, <2>6, <2>13, <3>1, <3>2, SinglePart
    <3>4. Plain(a, <<p>>)
      BY <2>12, <2>13 DEF Plain
    <3> QED
      BY <3>3, <3>4 DEF z
  <2> DEFINE s == <<p>>
  <2> HIDE DEF s
  <2>15. Body(a, s \o marks) /\ s \o marks \in Seq(Ops)
    BY <2>2, <2>4, <2>14, MarkedBody DEF s
  <2>16. marks \in Seq(Ops)
    BY SetDirtyOps
  <2>17. <<x, p>> \o marks = <<x>> \o (s \o marks)
    <3> HIDE DEF x, marks
    <3> QED
      BY <2>8, <2>13, <2>16, PairThen, SMTT(30) DEF s
  <2> HIDE DEF marks
  <2> DEFINE t == s \o marks
  <2>18. (ok => Planned(a, t)) /\ t \in Seq(Ops)
    BY <2>10, <2>15, PlannedBody
  <2> HIDE DEF t
  <2>19. Planned(a, <<Check(ok, vaddr)>> \o t)
    BY <2>2, <2>7, <2>11, <2>18, PlannedCheck
  <2> QED
    BY <2>5, <2>17, <2>19, Zenon DEF t
<1> QED
  BY <1>2, <1>3

LEMMA PlanPlanned ==
    ASSUME GoodEnv, NEW a \in Accesses, a.kind # "idle",
           a.kind \in {"scalar", "inline", "fetch"} => Scalar(a)
    PROVE  Planned(a, Plan(a))
<1>1. a.kind \in {"range", "pages", "scalar", "inline", "fetch"}
  BY DEF Accesses
<1>2. CASE a.kind = "range"
  BY <1>2, RangePlanned DEF Plan
<1>3. CASE a.kind = "pages"
  BY <1>3, PagesPlanned DEF Plan
<1>4. CASE a.kind = "scalar"
  <2>1. ~Misaligned(a)
    BY <1>4 DEF Misaligned
  <2>2. Plan(a) = scalar_access(a)
    BY <1>4 DEF Plan
  <2> QED
    BY <1>4, <2>1, <2>2, ScalarPlanned
<1>5. CASE a.kind = "inline"
  <2>1. Plan(a) = vm_access(a)
    BY <1>5 DEF Plan
  <2> QED
    BY <1>5, <2>1, InlinePlanned
<1>6. CASE a.kind = "fetch"
  <2>1. Plan(a) = fetch_aarch64(a)
    BY <1>6 DEF Plan
  <2> QED
    BY <1>6, <2>1, FetchPlanned
<1> QED
  BY <1>1, <1>2, <1>3, <1>4, <1>5, <1>6

-----------------------------------------------------------------------------
(* The state of an access                                                   *)

\* CPU c has left no trace in the memory m and the dirty marks d.
Clean(c, m, d) ==
    (\A h \in HostBytes : m[h][1] # c) /\ (\A f \in Frames : c \notin d[f])

FirstValue(a, c) ==
    [k \in 0..(a.len - 1) |-> IF a.op = "load" THEN ZeroByte ELSE StoredByte(c, k)]

\* Where byte k is in what has been loaded, until the value is converted.
Slot(a, s, k) == IF Native(s) /\ env.big THEN a.len - 1 - k ELSE k

\* What is left to be done: parts that cover no byte twice, marks and a conversion.
Pending(a, s) ==
    /\ s \in Seq(Ops)
    /\ \A i \in 1..Len(s) : s[i].kind # "check" /\ Placed(a, s[i])
    /\ \A i, j \in 1..Len(s), k \in 0..(a.len - 1) :
          Hits(a, s[i], k) /\ Hits(a, s[j], k) => i = j
    /\ Converts(a, s)

Covered(a, s, k) == \E i \in 1..Len(s) : Hits(a, s[i], k)

Loaded(a, s, v) ==
    \A k \in 0..(a.len - 1) :
        IF Covered(a, s, k) THEN v[Slot(a, s, k)] = ZeroByte
        ELSE Legit(v[Slot(a, s, k)], HostOf(a.vaddr + k))

Stored(a, s, m) ==
    \A k \in 0..(a.len - 1) :
        Covered(a, s, k) \/ m[HostOf(a.vaddr + k)] # InitialByte(HostOf(a.vaddr + k))

Marked(a, c, s, d) ==
    \A k \in 0..(a.len - 1) : MustMark(a, a.vaddr + k) =>
        \/ c \in d[env.frame[PageOf(a.vaddr + k)]]
        \/ \E i \in 1..Len(s) : s[i] = Mark(PageOf(a.vaddr + k))

\* An access that nothing refuses, with s left to be done.
Rest(a, c, s, v, m, d) ==
    /\ Allowed(a)
    /\ IF a.kind = "pages" THEN s = <<>>
       ELSE /\ Pending(a, s)
            /\ a.op = "load" => Loaded(a, s, v)
            /\ a.op = "store" => v = FirstValue(a, c) /\ Stored(a, s, m) /\ Marked(a, c, s, d)

Fresh(a, c, s, v, m, d) == Planned(a, s) /\ Clean(c, m, d) /\ v = FirstValue(a, c)

Failed(a, c, s, m, d, f) == s = <<>> /\ Clean(c, m, d) /\ Explains(a, f)

Progress(a, c, p, f, s, v, m, d) ==
    \/ a.kind = "idle" /\ p = "done" /\ f = None
    \/ a.kind # "idle" /\ p = "start" /\ f = None /\ Clean(c, m, d) /\ v = FirstValue(a, c)
    \/ a.kind # "idle" /\ p = "run" /\ f = None /\ Fresh(a, c, s, v, m, d)
    \/ a.kind # "idle" /\ p \in {"run", "copy", "done"} /\ f = None /\ Rest(a, c, s, v, m, d)
         /\ (p = "done" => s = <<>>)
    \/ a.kind # "idle" /\ p \in {"run", "done"} /\ Failed(a, c, s, m, d, f)

Memory(m) == DOMAIN m = HostBytes /\ \A h \in HostBytes : Legit(m[h], h)

\* The inductive invariant of the bytes.
State ==
    /\ Memory(mem)
    /\ dirty \in [Frames -> SUBSET Cpus] /\ held \in [Cpus -> SUBSET Shards]
    /\ fault \in [Cpus -> {None} \cup 0..TopAddr]
    /\ todo \in [Cpus -> Seq(Ops)]
    /\ DOMAIN val = Cpus /\ \A c \in Cpus : DOMAIN val[c] = 0..(acc[c].len - 1)
    /\ \A c \in Cpus : Progress(acc[c], c, pc[c], fault[c], todo[c], val[c], mem, dirty)

\* The table and the accesses never change, and nothing here depends on the rest.
LEMMA Stable ==
    ASSUME env' = env, acc' = acc, NEW a, NEW c, NEW p, NEW f, NEW s, NEW v, NEW m, NEW d
    PROVE  /\ Progress(a, c, p, f, s, v, m, d)' <=> Progress(a, c, p, f, s, v, m, d)
           /\ Memory(m)' <=> Memory(m)
<1>1. Memory(m)' <=> Memory(m)
  BY DEF Memory, Legit, IsStore, HostOf, Host
<1>2. Progress(a, c, p, f, s, v, m, d)' <=> Progress(a, c, p, f, s, v, m, d)
  <2>1. Explains(a, f)' <=> Explains(a, f)
    BY DEF Explains, ReportedAddress, Refused, Mapped, Flags
  <2>2. Allowed(a)' <=> Allowed(a)
    BY DEF Allowed, Refused, Mapped, Flags
  <2>3. \A x, k : Hits(a, x, k)' <=> Hits(a, x, k)
    BY DEF Hits, Base
  <2>4. \A x : Placed(a, x)' <=> Placed(a, x)
    BY <2>3 DEF Placed, Mapped, HostOf, Host, Base
  <2>5. \A x : MustMark(a, x)' <=> MustMark(a, x)
    BY DEF MustMark, Flags, Mapped
  <2>6. \A x : Mark(x)' = Mark(x)
    BY DEF Mark
  <2>7. \A x : Body(a, x)' <=> Body(a, x)
    <3>1. \A x, lo, hi : Tiles(a, x, lo, hi)' <=> Tiles(a, x, lo, hi)
      BY <2>3, <2>4 DEF Tiles
    <3>2. \A x, lo, hi : Marks(a, x, lo, hi)' <=> Marks(a, x, lo, hi)
      BY <2>5, <2>6, Zenon DEF Marks
    <3> QED
      BY <3>1, <3>2, Zenon DEF Body
  <2>8. Planned(a, s)' <=> Planned(a, s)
    <3>1. \A x : Explains(a, x)' <=> Explains(a, x)
      BY DEF Explains, ReportedAddress, Refused, Mapped, Flags
    <3> QED
      BY <2>2, <2>7, <3>1, Zenon DEF Planned
  <2>9. Pending(a, s)' <=> Pending(a, s)
    BY <2>3, <2>4, Zenon DEF Pending
  <2>10. \A k : Covered(a, s, k)' <=> Covered(a, s, k)
    BY <2>3, Zenon DEF Covered
  <2>11. \A k : HostOf(k)' = HostOf(k)
    BY DEF HostOf, Host
  <2>12. Loaded(a, s, v)' <=> Loaded(a, s, v)
    <3>1. \A k : Slot(a, s, k)' = Slot(a, s, k)
      BY DEF Slot
    <3>2. \A b, h : Legit(b, h)' <=> Legit(b, h)
      BY DEF Legit, IsStore, HostOf, Host
    <3> QED
      BY <2>10, <2>11, <3>1, <3>2 DEF Loaded
  <2>13. Stored(a, s, m)' <=> Stored(a, s, m)
    BY <2>10, <2>11, Zenon DEF Stored
  <2>14. Marked(a, c, s, d)' <=> Marked(a, c, s, d)
    <3>1. env'.frame = env.frame
      OBVIOUS
    <3> QED
      BY <2>5, <2>6, <3>1, Zenon DEF Marked
  <2> QED
    BY <2>1, <2>2, <2>8, <2>9, <2>12, <2>13, <2>14, Zenon DEF Progress, Fresh, Failed, Rest
<1> QED
  BY <1>1, <1>2

-----------------------------------------------------------------------------
(* What a micro-operation does                                              *)

\* Nothing is done yet.
LEMMA FreshRest ==
    ASSUME GoodEnv, NEW a \in Accesses, NEW c, NEW s, Allowed(a), Body(a, s), NEW m, NEW d
    PROVE  Rest(a, c, s, FirstValue(a, c), m, d)
<1> DEFINE v == FirstValue(a, c)
<1>1. CASE a.kind = "pages"
  BY <1>1 DEF Rest, Body
<1>2. CASE a.kind # "pages"
  <2>1. Tiles(a, s, 0, a.len) /\ Marks(a, s, 0, a.len) /\ Converts(a, s)
    BY <1>2 DEF Body
  <2>2. Pending(a, s)
    BY <2>1 DEF Tiles, Pending
  <2>3. \A k \in 0..(a.len - 1) : Covered(a, s, k)
    BY <2>1 DEF Tiles, Covered
  <2>4. ASSUME a.op = "load"
        PROVE  Loaded(a, s, v)
    <3>1. a.len \in Int
      BY EndOfRange
    <3>2. \A k \in 0..(a.len - 1) : Slot(a, s, k) \in 0..(a.len - 1)
      BY <3>1 DEF Slot
    <3>3. \A k \in 0..(a.len - 1) : v[k] = ZeroByte
      BY <2>4 DEF FirstValue
    <3> HIDE DEF v
    <3> QED
      BY <2>3, <3>2, <3>3, Zenon DEF Loaded
  <2>5. Stored(a, s, m)
    BY <2>3, Zenon DEF Stored
  <2>6. Marked(a, c, s, d)
    BY <2>1, Zenon DEF Marks, Marked
  <2> QED
    BY <1>2, <2>2, <2>4, <2>5, <2>6, Zenon DEF Rest
<1> QED
  BY <1>1, <1>2

LEMMA NoElements ==
    ASSUME NEW S, NEW s \in Seq(S)
    PROVE  s = <<>> <=> Len(s) = 0
OBVIOUS

LEMMA TailElements ==
    ASSUME NEW S, NEW s \in Seq(S), s # <<>>
    PROVE  /\ Tail(s) \in Seq(S) /\ Head(s) = s[1] /\ Head(s) \in S /\ Len(s) \in Nat /\ Len(s) >= 1
           /\ Len(Tail(s)) = Len(s) - 1 /\ 1 \in 1..Len(s)
           /\ \A i \in 1..Len(Tail(s)) : i + 1 \in 1..Len(s) /\ Tail(s)[i] = s[i + 1]
           /\ \A i \in 1..Len(s) : i # 1 => i - 1 \in 1..Len(Tail(s)) /\ s[i] = Tail(s)[i - 1]
OBVIOUS

\* What is left after the first micro-operation.
LEMMA PendingTail ==
    ASSUME NEW a \in Accesses, NEW s, Pending(a, s), s # <<>>
    PROVE  /\ Head(s).kind # "from_le" => Pending(a, Tail(s))
           /\ \A k \in 0..(a.len - 1) : Covered(a, s, k) <=> Hits(a, Head(s), k) \/ Covered(a, Tail(s), k)
           /\ \A k \in 0..(a.len - 1) : ~(Hits(a, Head(s), k) /\ Covered(a, Tail(s), k))
           /\ Head(s) \in Ops /\ Head(s).kind # "check" /\ Placed(a, Head(s)) /\ Tail(s) \in Seq(Ops)
           /\ Head(s).kind = "part" => (Native(Tail(s)) <=> Native(s))
           /\ Head(s).kind = "part" /\ a.op = "load" => (Head(s).le \/ (Native(s) /\ Head(s).le = FALSE))
           /\ Head(s).kind = "part" /\ a.op = "load" /\ Native(s) => Head(s).le = FALSE
           /\ Head(s).kind \notin {"part", "from_le"} => ~Native(Tail(s)) /\ ~Native(s)
           /\ Head(s).kind = "from_le" => a.op = "load" /\ Native(s) /\ Tail(s) = <<>>
<1> DEFINE t == Tail(s)
           x == Head(s)
<1>1. s \in Seq(Ops)
  BY DEF Pending
<1>2. /\ t \in Seq(Ops) /\ x = s[1] /\ x \in Ops /\ Len(s) \in Nat /\ Len(s) >= 1
      /\ Len(t) = Len(s) - 1 /\ 1 \in 1..Len(s)
      /\ \A i \in 1..Len(t) : i + 1 \in 1..Len(s) /\ t[i] = s[i + 1]
      /\ \A i \in 1..Len(s) : i # 1 => i - 1 \in 1..Len(t) /\ s[i] = t[i - 1]
  BY <1>1, TailElements
<1> HIDE DEF t, x
<1>3. t # <<>> <=> Len(s) > 1
  <2>1. t = <<>> <=> Len(t) = 0
    BY <1>2, NoElements
  <2> QED
    BY <1>2, <2>1
<1>4. Len(s) > 1 => t[Len(t)] = s[Len(s)]
  BY <1>2
<1>6. \A i \in 1..Len(t) : t[i].kind # "check" /\ Placed(a, t[i])
  BY <1>2 DEF Pending
<1>7. x.kind # "check" /\ Placed(a, x)
  BY <1>2 DEF Pending
<1>8. ASSUME NEW i \in 1..Len(t), NEW j \in 1..Len(t), NEW k \in 0..(a.len - 1), Hits(a, t[i], k), Hits(a, t[j], k)
      PROVE  i = j
  <2>1. Hits(a, s[i + 1], k) /\ Hits(a, s[j + 1], k) /\ i + 1 \in 1..Len(s) /\ j + 1 \in 1..Len(s)
    BY <1>2, <1>8
  <2>2. i + 1 = j + 1
    BY <2>1 DEF Pending
  <2> QED
    BY <1>2, <2>2
<1>9. ASSUME NEW k \in 0..(a.len - 1)
      PROVE  /\ Covered(a, s, k) <=> Hits(a, x, k) \/ Covered(a, t, k)
             /\ ~(Hits(a, x, k) /\ Covered(a, t, k))
  <2>1. ASSUME Covered(a, s, k), ~Hits(a, x, k)
        PROVE  Covered(a, t, k)
    <3>1. PICK i \in 1..Len(s) : Hits(a, s[i], k)
      BY <2>1 DEF Covered
    <3>2. i # 1
      BY <1>2, <2>1, <3>1
    <3>3. i - 1 \in 1..Len(t) /\ Hits(a, t[i - 1], k)
      BY <1>2, <3>1, <3>2
    <3> QED
      BY <3>3, Zenon DEF Covered
  <2>2. Hits(a, x, k) => Covered(a, s, k)
    BY <1>2, Zenon DEF Covered
  <2>3. ASSUME Covered(a, t, k)
        PROVE  Covered(a, s, k) /\ ~Hits(a, x, k)
    <3>1. PICK i \in 1..Len(t) : Hits(a, t[i], k)
      BY <2>3 DEF Covered
    <3>2. i + 1 \in 1..Len(s) /\ Hits(a, s[i + 1], k)
      BY <1>2, <3>1
    <3>3. Covered(a, s, k)
      BY <3>2, Zenon DEF Covered
    <3>4. ASSUME Hits(a, x, k)
          PROVE  FALSE
      <4>1. Hits(a, s[1], k)
        BY <1>2, <3>4
      <4>2. i + 1 = 1
        BY <1>2, <3>2, <4>1 DEF Pending
      <4> QED
        BY <1>2, <4>2
    <3> QED
      BY <3>3, <3>4
  <2> QED
    BY <2>1, <2>2, <2>3
<1>10. Converts(a, s)
  BY DEF Pending
<1>11. Plain(a, s) => Plain(a, t) /\ x.kind # "from_le" /\ (a.op = "load" /\ x.kind = "part" => x.le)
  BY <1>2 DEF Plain
<1>12. ASSUME Native(s)
       PROVE  /\ x.kind = "part" => Native(t) /\ x.le = FALSE
              /\ x.kind # "part" => t = <<>> /\ x.kind = "from_le"
  <2>1. ASSUME Len(s) > 1
        PROVE  x.kind = "part" /\ Native(t) /\ x.le = FALSE
    <3>1. 1 \in 1..(Len(s) - 1)
      BY <1>2, <2>1
    <3>2. x.kind = "part" /\ x.le = FALSE
      BY <1>2, <1>12, <3>1 DEF Native
    <3>3. t # <<>> /\ t[Len(t)].kind = "from_le"
      BY <1>3, <1>4, <1>12, <2>1 DEF Native
    <3>4. ASSUME NEW i \in 1..(Len(t) - 1)
          PROVE  t[i].kind = "part" /\ t[i].le = FALSE
      <4>1. i \in 1..Len(t) /\ i + 1 \in 1..(Len(s) - 1)
        BY <1>2
      <4>2. t[i] = s[i + 1]
        BY <1>2, <4>1
      <4> QED
        BY <1>12, <4>1, <4>2 DEF Native
    <3> QED
      BY <3>2, <3>3, <3>4, Zenon DEF Native
  <2>2. ASSUME ~(Len(s) > 1)
        PROVE  t = <<>> /\ x.kind = "from_le"
    <3>1. Len(s) = 1
      BY <1>2, <2>2
    <3> QED
      BY <1>2, <1>3, <1>12, <3>1 DEF Native
  <2>3. "from_le" # "part"
    OBVIOUS
  <2> QED
    BY <2>1, <2>2, <2>3, Zenon
<1>13. Plain(a, s) => ~Native(s)
  <2>1. Len(s) \in 1..Len(s)
    BY <1>2
  <2> QED
    BY <2>1 DEF Plain, Native
<1>14. Plain(a, s) => ~Native(t)
  <2>1. t # <<>> => Len(t) \in 1..Len(t)
    BY <1>2, <1>3
  <2> QED
    BY <1>11, <2>1 DEF Plain, Native
<1>15. x.kind # "from_le" => Pending(a, t)
  <2>1. x.kind # "from_le" => Converts(a, t)
    BY <1>10, <1>11, <1>12, Zenon DEF Converts
  <2> QED
    BY <1>2, <1>6, <1>8, <2>1, Zenon DEF Pending
<1>16. /\ x.kind = "part" => (Native(t) <=> Native(s))
       /\ x.kind = "part" /\ a.op = "load" => (x.le \/ (Native(s) /\ x.le = FALSE))
       /\ x.kind = "part" /\ a.op = "load" /\ Native(s) => x.le = FALSE
       /\ x.kind \notin {"part", "from_le"} => ~Native(t) /\ ~Native(s)
       /\ x.kind = "from_le" => a.op = "load" /\ Native(s) /\ t = <<>>
  <2>1. "from_le" # "part"
    OBVIOUS
  <2> QED
    BY <1>10, <1>11, <1>12, <1>13, <1>14, <2>1, Zenon DEF Converts
<1> QED
  BY <1>2, <1>7, <1>9, <1>15, <1>16, Zenon DEF t, x

LEMMA SwappedAt ==
    ASSUME NEW w \in Int, NEW v, DOMAIN v = 0..(w - 1)
    PROVE  DOMAIN Swapped(v) = 0..(w - 1) /\ \A j \in 0..(w - 1) : Swapped(v)[j] = v[w - 1 - j]
<1>1. \A j \in 0..(w - 1) : Cardinality(0..(w - 1)) = w
  <2>1. Cardinality(0..(w - 1)) = IF 0 > w - 1 THEN 0 ELSE (w - 1) - 0 + 1
    <3>1. 0 \in Int /\ w - 1 \in Int
      OBVIOUS
    <3> QED
      BY <3>1, FS_Interval, Zenon
  <2> QED
    BY <2>1
<1>2. Swapped(v) = [j \in 0..(w - 1) |-> v[Cardinality(0..(w - 1)) - 1 - j]]
  BY DEF Swapped
<1> QED
  BY <1>1, <1>2

\* What a part loads is byte k of the access where it covers it, and nothing elsewhere.
LEMMA LimbByte ==
    ASSUME GoodEnv, NEW c, acc[c] \in Accesses, NEW p \in Parts, Placed(acc[c], p),
           NEW k \in 0..(acc[c].len - 1),
           NEW i, i = IF p.le \/ ~env.big THEN k ELSE acc[c].len - 1 - k
    PROVE  Limb(c, p)[i] = IF Hits(acc[c], p, k) THEN mem[HostOf(acc[c].vaddr + k)] ELSE ZeroByte
<1> DEFINE a == acc[c]
           n == acc[c].len
           w == p.width
           at == p.at
           shift == p.shift
           bytes == [j \in 0..(w - 1) |-> mem[at + j]]
           src == IF p.le THEN bytes ELSE from_le(env.big, bytes)
           base == Base(a, p)
<1>1. n \in Int /\ k \in Int /\ 0 <= k /\ k < n
  BY EndOfRange
<1>2. w \in Int /\ at \in Int /\ shift \in Int /\ p.le \in BOOLEAN /\ env.big \in BOOLEAN /\ p.kind = "part"
  BY DEF Parts, GoodEnv
<1>3. Limb(c, p) = [j \in 0..(n - 1) |-> IF j - shift \in DOMAIN src THEN src[j - shift] ELSE ZeroByte]
  BY DEF Limb, Shl
<1>4. i \in 0..(n - 1) /\ i \in Int
  BY <1>1, <1>2
<1>5. Limb(c, p)[i] = IF i - shift \in DOMAIN src THEN src[i - shift] ELSE ZeroByte
  BY <1>3, <1>4
<1>6. Hits(a, p, k) <=> k - base \in 0..(w - 1)
  BY <1>2 DEF Hits
<1>7. Hits(a, p, k) => at + (k - base) = HostOf(a.vaddr + k)
  BY <1>2 DEF Placed
<1>8. DOMAIN bytes = 0..(w - 1) /\ \A j \in 0..(w - 1) : bytes[j] = mem[at + j]
  OBVIOUS
<1>9. base = IF p.le \/ ~env.big THEN shift ELSE n - shift - w
  BY DEF Base
<1> HIDE DEF bytes, base, n, w, at, shift
<1>10. CASE p.le \/ ~env.big
  <2>1. src = bytes
    BY <1>10 DEF from_le
  <2>2. i = k /\ base = shift
    BY <1>9, <1>10 DEF n
  <2> HIDE DEF src
  <2>3. Limb(c, p)[i] = IF Hits(a, p, k) THEN mem[at + (k - base)] ELSE ZeroByte
    BY <1>5, <1>6, <1>8, <2>1, <2>2
  <2> QED
    BY <1>7, <2>3
<1>11. CASE ~p.le /\ env.big
  <2>1. src = Swapped(bytes)
    BY <1>11 DEF from_le
  <2>2. i = n - 1 - k /\ base = n - shift - w
    BY <1>9, <1>11 DEF n
  <2> HIDE DEF src
  <2>3. DOMAIN src = 0..(w - 1) /\ \A j \in 0..(w - 1) : src[j] = bytes[w - 1 - j]
    BY <1>2, <1>8, <2>1, SwappedAt
  <2>4. i - shift \in 0..(w - 1) <=> k - base \in 0..(w - 1)
    BY <1>1, <1>2, <2>2
  <2>5. ASSUME k - base \in 0..(w - 1)
        PROVE  src[i - shift] = mem[at + (k - base)]
    <3>1. i - shift \in 0..(w - 1)
      BY <2>4, <2>5
    <3>2. w - 1 - (i - shift) = k - base
      BY <1>1, <1>2, <2>2
    <3> QED
      BY <1>8, <2>3, <2>5, <3>1, <3>2, Zenon
  <2> QED
    BY <1>5, <1>6, <1>7, <2>3, <2>4, <2>5
<1> QED
  BY <1>2, <1>10, <1>11

\* What a part stores at each of its addresses is the byte that belongs there.
LEMMA StoreByte ==
    ASSUME GoodEnv, NEW c, acc[c] \in Accesses, acc[c].op = "store", NEW p \in Parts, Placed(acc[c], p),
           val[c] = FirstValue(acc[c], c), NEW h \in p.at..(p.at + p.width - 1),
           NEW k, k = Base(acc[c], p) + (h - p.at)
    PROVE  /\ k \in 0..(acc[c].len - 1) /\ Hits(acc[c], p, k) /\ HostOf(acc[c].vaddr + k) = h
           /\ PartByte(c, p, h) = StoredByte(c, k)
<1> DEFINE a == acc[c]
           n == acc[c].len
           w == p.width
           at == p.at
           shift == p.shift
           v == val[c]
           value == IF p.le THEN v ELSE from_le(env.big, v)
           limb == [i \in 0..(w - 1) |-> value[i + shift]]
           base == Base(a, p)
           j == h - at
<1>1. n \in Int
  BY EndOfRange
<1>2. w \in Int /\ at \in Int /\ shift \in Int /\ p.le \in BOOLEAN /\ env.big \in BOOLEAN /\ p.kind = "part"
  BY DEF Parts, GoodEnv
<1>3. base = IF p.le \/ ~env.big THEN shift ELSE n - shift - w
  BY DEF Base
<1>4. base \in Int
  BY <1>1, <1>2, <1>3
<1>5. 0 <= base /\ base + w <= n
  BY <1>2 DEF Placed
<1>6. h \in Int /\ j \in 0..(w - 1) /\ j \in Int /\ k = base + j /\ at + j = h
  BY <1>2
<1>7. DOMAIN v = 0..(n - 1) /\ \A x \in 0..(n - 1) : v[x] = StoredByte(c, x)
  BY DEF FirstValue
<1>8. PartByte(c, p, h) = (IF p.le THEN limb ELSE from_le(env.big, limb))[j]
  BY DEF PartByte
<1>9. DOMAIN limb = 0..(w - 1) /\ \A x \in 0..(w - 1) : limb[x] = value[x + shift]
  OBVIOUS
<1> HIDE DEF n, w, at, shift, v, base, j
<1>10. k \in 0..(n - 1) /\ k - base \in 0..(w - 1) /\ k - base = j
  BY <1>1, <1>2, <1>4, <1>5, <1>6
<1>11. Hits(a, p, k)
  BY <1>2, <1>10 DEF Hits, base, w
<1>12. HostOf(a.vaddr + k) = h
  <2>1. at + (k - base) = HostOf(a.vaddr + k)
    BY <1>2, <1>10, <1>11 DEF Placed, at, base, n
  <2> QED
    BY <1>6, <1>10, <2>1
<1>13. PartByte(c, p, h) = StoredByte(c, k)
  <2>1. CASE p.le \/ ~env.big
    <3>1. value = v
      BY <2>1 DEF from_le
    <3>2. PartByte(c, p, h) = limb[j]
      BY <1>8, <2>1 DEF from_le
    <3>3. limb[j] = value[j + shift]
      BY <1>6, <1>9
    <3>4. j + shift = k
      BY <1>2, <1>3, <1>6, <2>1
    <3> QED
      BY <1>7, <1>10, <3>1, <3>2, <3>3, <3>4, Zenon
  <2>2. CASE ~p.le /\ env.big
    <3>1. value = Swapped(v) /\ base = n - shift - w
      BY <1>3, <2>2 DEF from_le
    <3>2. PartByte(c, p, h) = Swapped(limb)[j]
      BY <1>8, <2>2 DEF from_le
    <3> HIDE DEF limb, value
    <3>3. Swapped(limb)[j] = limb[w - 1 - j]
      BY <1>2, <1>6, <1>9, SwappedAt
    <3> DEFINE x == w - 1 - j + shift
    <3>4. w - 1 - j \in 0..(w - 1) /\ x \in 0..(n - 1) /\ n - 1 - x = k
      BY <1>1, <1>2, <1>4, <1>5, <1>6, <3>1
    <3>5. limb[w - 1 - j] = value[x]
      BY <1>9, <3>4
    <3> HIDE DEF x
    <3>6. value[x] = v[n - 1 - x]
      BY <1>1, <1>7, <3>1, <3>4, SwappedAt
    <3> QED
      BY <1>7, <1>10, <3>2, <3>3, <3>4, <3>5, <3>6, Zenon
  <2> QED
    BY <1>2, <2>1, <2>2
<1> QED
  BY <1>10, <1>11, <1>12, <1>13 DEF n

LEMMA HostOfMapped ==
    ASSUME GoodEnv, NEW v \in Int, Mapped(PageOf(v))
    PROVE  HostOf(v) \in HostBytes /\ env.frame[PageOf(v)] \in Frames
<1>1. Offset(v) \in Int /\ 0 <= Offset(v) /\ Offset(v) < PAGE_SIZE
  BY PageParts
<1> QED
  BY <1>1, HostInside DEF HostOf

LEMMA AllowedMapped ==
    ASSUME GoodEnv, NEW a \in Accesses, Allowed(a), a.kind # "pages", NEW k \in 0..(a.len - 1)
    PROVE  /\ Mapped(PageOf(a.vaddr + k)) /\ HostOf(a.vaddr + k) \in HostBytes
           /\ env.frame[PageOf(a.vaddr + k)] \in Frames
<1>1. a.vaddr \in Int /\ a.len \in Int /\ k \in Int /\ a.vaddr + k \in Int /\ Space \in Int /\ TopAddr = Space - 1
  BY EndOfRange, Sizes
<1>2. a.vaddr + a.len <= Space
  BY <1>1 DEF Allowed, Beyond
<1>3. a.vaddr + k \in Touched(a)
  BY <1>1, <1>2 DEF Touched
<1>4. ~Refused(a, a.vaddr + k)
  BY <1>3 DEF Allowed
<1>5. Mapped(PageOf(a.vaddr + k))
  BY <1>4 DEF Refused
<1> QED
  BY <1>1, <1>5, HostOfMapped

LEMMA PartOfOps ==
    ASSUME NEW x \in Ops, x.kind = "part"
    PROVE  x \in Parts
BY DEF Ops, MicroOps, FromLe

\* A part is loaded into the places of its bytes.
LEMMA LoadStep ==
    ASSUME GoodEnv, NEW c, acc[c] \in Accesses, acc[c].op = "load", Memory(mem),
           NEW s, Pending(acc[c], s), s # <<>>, Head(s).kind = "part",
           NEW v, DOMAIN v = 0..(acc[c].len - 1), Loaded(acc[c], s, v)
    PROVE  Loaded(acc[c], Tail(s), Or(v, Limb(c, Head(s))))
<1> DEFINE a == acc[c]
           p == Head(s)
           t == Tail(s)
           n == acc[c].len
           limb == Limb(c, p)
           u == Or(v, limb)
<1>1. n \in Int /\ a.vaddr \in Int
  BY EndOfRange
<1>2. /\ \A k \in 0..(n - 1) : Covered(a, s, k) <=> Hits(a, p, k) \/ Covered(a, t, k)
      /\ \A k \in 0..(n - 1) : ~(Hits(a, p, k) /\ Covered(a, t, k))
      /\ p \in Ops /\ Placed(a, p) /\ (Native(t) <=> Native(s))
      /\ Native(s) => p.le = FALSE
      /\ ~Native(s) => p.le
  BY PendingTail
<1>3. p \in Parts /\ env.big \in BOOLEAN
  BY <1>2, PartOfOps DEF GoodEnv
<1>4. \A i \in 0..(n - 1) : u[i] = IF v[i] = ZeroByte THEN limb[i]
                                   ELSE IF limb[i] = ZeroByte THEN v[i] ELSE Clash
  BY DEF Or
<1> HIDE DEF p, t, limb, u
<1> SUFFICES ASSUME NEW k \in 0..(n - 1)
             PROVE  IF Covered(a, t, k) THEN u[Slot(a, t, k)] = ZeroByte
                    ELSE Legit(u[Slot(a, t, k)], HostOf(a.vaddr + k))
  BY DEF Loaded, p, t, limb, u
<1> DEFINE i == Slot(a, s, k)
<1>5. Slot(a, t, k) = i
  BY <1>2 DEF Slot
<1>6. i \in 0..(n - 1) /\ i = IF p.le \/ ~env.big THEN k ELSE n - 1 - k
  BY <1>1, <1>2, <1>3 DEF Slot
<1> HIDE DEF i
<1>7. limb[i] = IF Hits(a, p, k) THEN mem[HostOf(a.vaddr + k)] ELSE ZeroByte
  BY <1>2, <1>3, <1>6, LimbByte DEF limb
<1>8. IF Covered(a, s, k) THEN v[i] = ZeroByte ELSE Legit(v[i], HostOf(a.vaddr + k))
  BY DEF Loaded, i
<1>9. CASE Hits(a, p, k)
  <2>1. Covered(a, s, k) /\ ~Covered(a, t, k)
    BY <1>2, <1>9
  <2>2. u[i] = mem[HostOf(a.vaddr + k)]
    BY <1>4, <1>6, <1>7, <1>8, <1>9, <2>1
  <2>3. HostOf(a.vaddr + k) \in HostBytes
    <3>1. Mapped(PageOf(a.vaddr + k))
      BY <1>2, <1>9 DEF Placed, Hits
    <3>2. a.vaddr + k \in Int
      BY <1>1
    <3> QED
      BY <3>1, <3>2, HostOfMapped
  <2>4. Legit(u[i], HostOf(a.vaddr + k))
    BY <2>2, <2>3 DEF Memory
  <2> QED
    BY <1>5, <2>1, <2>4
<1>10. CASE ~Hits(a, p, k)
  <2>1. u[i] = v[i]
    BY <1>4, <1>6, <1>7, <1>10
  <2>2. Covered(a, s, k) <=> Covered(a, t, k)
    BY <1>2, <1>10
  <2> QED
    BY <1>5, <1>8, <2>1, <2>2
<1> QED
  BY <1>9, <1>10

Overwritten(c, p) ==
    [h \in HostBytes |-> IF h \in p.at..(p.at + p.width - 1) THEN PartByte(c, p, h) ELSE mem[h]]

\* A part is stored where its bytes belong, and nowhere else.
LEMMA StoreStep ==
    ASSUME GoodEnv, NEW c \in Cpus, acc[c] \in Accesses, acc[c].op = "store", Memory(mem),
           Allowed(acc[c]), acc[c].kind # "pages",
           NEW s, Pending(acc[c], s), s # <<>>, Head(s).kind = "part",
           val[c] = FirstValue(acc[c], c), Stored(acc[c], s, mem),
           NEW m, m = Overwritten(c, Head(s))
    PROVE  /\ Memory(m) /\ Stored(acc[c], Tail(s), m)
           /\ \A h \in HostBytes : mem[h] # InitialByte(h) => m[h] # InitialByte(h)
           /\ \A h \in HostBytes : m[h] = mem[h] \/ m[h][1] = c
<1> DEFINE a == acc[c]
           p == Head(s)
           t == Tail(s)
           n == acc[c].len
           area == p.at..(p.at + p.width - 1)
<1>1. n \in Int /\ a.vaddr \in Int
  BY EndOfRange
<1>2. /\ \A k \in 0..(n - 1) : Covered(a, s, k) <=> Hits(a, p, k) \/ Covered(a, t, k)
      /\ p \in Ops /\ Placed(a, p)
  BY PendingTail
<1>3. p \in Parts
  BY <1>2, PartOfOps
<1>4. p.at \in Int /\ p.width \in Int /\ p.shift \in Int /\ p.kind = "part"
  BY <1>3 DEF Parts
<1>5. \A h \in HostBytes : m[h] = IF h \in area THEN PartByte(c, p, h) ELSE mem[h]
  BY DEF Overwritten
<1>6. DOMAIN m = HostBytes
  BY DEF Overwritten
<1> HIDE DEF p, t
<1>7. ASSUME NEW h \in HostBytes, h \in area
      PROVE  Legit(m[h], h) /\ m[h] # InitialByte(h) /\ m[h][1] = c
  <2> DEFINE k == Base(a, p) + (h - p.at)
  <2>1. /\ k \in 0..(n - 1) /\ HostOf(a.vaddr + k) = h /\ PartByte(c, p, h) = StoredByte(c, k)
    BY <1>2, <1>3, <1>7, StoreByte
  <2> HIDE DEF k
  <2>2. m[h] = StoredByte(c, k)
    BY <1>5, <1>7, <2>1
  <2>3. m[h] = <<c, k>> /\ m[h][1] = c /\ m[h][2] = k
    BY <2>2 DEF StoredByte
  <2>4. c # Nobody
    BY AccessAssumption DEF Nobody
  <2>5. InitialByte(h)[1] = Nobody
    BY DEF InitialByte
  <2>6. m[h] # InitialByte(h)
    BY <2>3, <2>4, <2>5
  <2>7. Legit(m[h], h)
    BY <2>1, <2>3 DEF Legit, IsStore
  <2> QED
    BY <2>3, <2>6, <2>7
<1>8. Memory(m)
  BY <1>5, <1>6, <1>7 DEF Memory
<1>9. ASSUME NEW k \in 0..(n - 1)
      PROVE  Covered(a, t, k) \/ m[HostOf(a.vaddr + k)] # InitialByte(HostOf(a.vaddr + k))
  <2> DEFINE h == HostOf(a.vaddr + k)
  <2>1. CASE Hits(a, p, k)
    <3>1. Mapped(PageOf(a.vaddr + k)) /\ p.at + (k - Base(a, p)) = h
      BY <1>2, <1>4, <2>1 DEF Placed
    <3>2. k - Base(a, p) \in 0..(p.width - 1)
      BY <2>1 DEF Hits
    <3>3. h \in HostBytes
      <4>1. a.vaddr + k \in Int
        BY <1>1
      <4> QED
        BY <3>1, <4>1, HostOfMapped
    <3>4. h \in area
      <4> DEFINE j == k - Base(a, p)
      <4>1. j \in 0..(p.width - 1) /\ p.at + j = h
        BY <3>1, <3>2
      <4> HIDE DEF j, h
      <4> QED
        BY <1>4, <4>1
    <3> QED
      BY <1>7, <3>3, <3>4
  <2>2. CASE ~Hits(a, p, k)
    <3>1. Covered(a, t, k) \/ mem[h] # InitialByte(h)
      BY <1>2, <2>2 DEF Stored
    <3>2. h \in HostBytes
      BY AllowedMapped
    <3> QED
      BY <1>5, <1>7, <3>1, <3>2
  <2> QED
    BY <2>1, <2>2
<1>10. \A h \in HostBytes : mem[h] # InitialByte(h) => m[h] # InitialByte(h)
  BY <1>5, <1>7
<1>11. \A h \in HostBytes : m[h] = mem[h] \/ m[h][1] = c
  BY <1>5, <1>7
<1> QED
  BY <1>8, <1>9, <1>10, <1>11 DEF Stored, p, t

\* The micro-operations are the same, up to the locks that are still to be taken.
Same(s, t) ==
    /\ Len(t) = Len(s) /\ (t = <<>> <=> s = <<>>)
    /\ \A i \in 1..Len(s) :
          /\ t[i].kind = s[i].kind
          /\ s[i].kind = "part" => /\ t[i].at = s[i].at /\ t[i].width = s[i].width
                                   /\ t[i].shift = s[i].shift /\ t[i].le = s[i].le
          /\ s[i].kind # "part" => t[i] = s[i]

LEMMA SameRest ==
    ASSUME NEW a, NEW c, NEW s \in Seq(Ops), NEW t \in Seq(Ops), Same(s, t), NEW v, NEW m, NEW d,
           Rest(a, c, s, v, m, d)
    PROVE  Rest(a, c, t, v, m, d)
<1>1. Len(s) \in Nat /\ Len(t) = Len(s)
  BY DEF Same
<1>2. \A i \in 1..Len(s) : \A k : Hits(a, t[i], k) <=> Hits(a, s[i], k)
  BY DEF Same, Hits, Base
<1>3. \A i \in 1..Len(s) : Placed(a, t[i]) <=> Placed(a, s[i])
  <2> SUFFICES ASSUME NEW i \in 1..Len(s)
               PROVE  Placed(a, t[i]) <=> Placed(a, s[i])
    OBVIOUS
  <2>1. t[i].kind = s[i].kind
    BY DEF Same
  <2>2. s[i].kind = "part" => t[i].at = s[i].at /\ t[i].width = s[i].width /\ Base(a, t[i]) = Base(a, s[i])
    BY DEF Same, Base
  <2> QED
    BY <1>2, <2>1, <2>2 DEF Placed
<1>4. \A k : Covered(a, t, k) <=> Covered(a, s, k)
  BY <1>1, <1>2, Zenon DEF Covered
<1>5. Plain(a, t) <=> Plain(a, s)
  BY <1>1 DEF Plain, Same
<1>6. Native(t) <=> Native(s)
  <2>1. s # <<>> => Len(s) \in 1..Len(s)
    BY <1>1, NoElements
  <2>2. \A i \in 1..(Len(s) - 1) : i \in 1..Len(s)
    BY <1>1
  <2> QED
    BY <1>1, <2>1, <2>2 DEF Native, Same
<1>7. Pending(a, s) => Pending(a, t)
  <2>1. Converts(a, s) => Converts(a, t)
    BY <1>5, <1>6 DEF Converts
  <2>2. \A i \in 1..Len(s) : t[i].kind = s[i].kind
    BY DEF Same
  <2> QED
    BY <1>1, <1>2, <1>3, <2>1, <2>2 DEF Pending
<1>8. Loaded(a, s, v) => Loaded(a, t, v)
  <2>1. \A k : Slot(a, t, k) = Slot(a, s, k)
    BY <1>6 DEF Slot
  <2> QED
    BY <1>4, <2>1 DEF Loaded
<1>9. Stored(a, s, m) => Stored(a, t, m)
  BY <1>4 DEF Stored
<1>10. Marked(a, c, s, d) => Marked(a, c, t, d)
  <2>1. ASSUME NEW page, NEW i \in 1..Len(s), s[i] = Mark(page)
        PROVE  i \in 1..Len(t) /\ t[i] = Mark(page)
    BY <1>1, <2>1 DEF Mark, Same
  <2> QED
    BY <2>1, Zenon DEF Marked
<1>11. s = <<>> => t = <<>>
  BY DEF Same
<1> QED
  BY <1>7, <1>8, <1>9, <1>10, <1>11, Zenon DEF Rest

\* The value is converted.
LEMMA ConvertStep ==
    ASSUME GoodEnv, NEW c, NEW a \in Accesses, NEW s, NEW m, NEW d, a.kind # "pages",
           s # <<>>, Head(s).kind = "from_le", NEW v, DOMAIN v = 0..(a.len - 1), Rest(a, c, s, v, m, d)
    PROVE  /\ Rest(a, c, Tail(s), from_le(env.big, v), m, d) /\ Tail(s) = <<>>
           /\ DOMAIN from_le(env.big, v) = 0..(a.len - 1)
<1> DEFINE u == from_le(env.big, v)
           n == a.len
<1>1. Pending(a, s)
  BY DEF Rest
<1>2. a.op = "load" /\ Native(s) /\ Tail(s) = <<>>
  BY <1>1, PendingTail
<1>3. Loaded(a, s, v) /\ Allowed(a)
  BY <1>2 DEF Rest
<1>4. n \in Int /\ env.big \in BOOLEAN
  BY EndOfRange DEF GoodEnv
<1>5. DOMAIN u = 0..(n - 1) /\ \A k \in 0..(n - 1) : u[k] = v[Slot(a, s, k)]
  <2>1. CASE env.big
    <3>1. u = Swapped(v)
      BY <2>1 DEF from_le
    <3>2. DOMAIN Swapped(v) = 0..(n - 1) /\ \A k \in 0..(n - 1) : Swapped(v)[k] = v[n - 1 - k]
      BY <1>4, SwappedAt
    <3>3. \A k \in 0..(n - 1) : Slot(a, s, k) = n - 1 - k
      BY <1>2, <2>1 DEF Slot
    <3> QED
      BY <3>1, <3>2, <3>3
  <2>2. CASE ~env.big
    <3>1. u = v /\ \A k \in 0..(n - 1) : Slot(a, s, k) = k
      BY <2>2 DEF from_le, Slot
    <3> QED
      BY <3>1
  <2> QED
    BY <1>4, <2>1, <2>2
<1> HIDE DEF u
<1> DEFINE t == Tail(s)
<1>6. t \in Seq(Ops) /\ Len(t) = 0 /\ t = <<>>
  <2>1. <<>> \in Seq(Ops) /\ Len(<<>>) = 0
    OBVIOUS
  <2>2. t = <<>>
    BY <1>2
  <2> QED
    BY <2>1, <2>2, Zenon
<1> HIDE DEF t
<1>7. \A i \in 1..Len(t) : FALSE
  BY <1>6
<1>8. ~Native(t) /\ Plain(a, t) /\ \A k : ~Covered(a, t, k)
  BY <1>6, <1>7, Zenon DEF Native, Plain, Covered
<1>9. Pending(a, t)
  BY <1>6, <1>7, <1>8, Zenon DEF Pending, Converts
<1>10. \A k \in 0..(n - 1) : ~Covered(a, s, k)
  <2>1. /\ Placed(a, Head(s))
        /\ \A k \in 0..(a.len - 1) : Covered(a, s, k) <=> Hits(a, Head(s), k) \/ Covered(a, Tail(s), k)
    BY <1>1, PendingTail
  <2>2. \A k : ~Hits(a, Head(s), k)
    BY DEF Hits
  <2> QED
    BY <1>8, <2>1, <2>2 DEF t
<1>11. Loaded(a, t, u)
  <2>1. \A k : Slot(a, t, k) = k
    BY <1>8 DEF Slot
  <2> QED
    BY <1>3, <1>5, <1>8, <1>10, <2>1 DEF Loaded
<1>12. Rest(a, c, t, u, m, d)
  BY <1>2, <1>3, <1>9, <1>11 DEF Rest
<1> QED
  BY <1>5, <1>6, <1>12 DEF u, t

\* The mark that a tracked page needs is still to come after any other micro-operation.
LEMMA MarkedTail ==
    ASSUME NEW a, NEW c, NEW s \in Seq(Ops), s # <<>>, NEW d, Marked(a, c, s, d),
           NEW e, \A f \in Frames : c \in d[f] => c \in e[f],
           \A k \in 0..(a.len - 1) : env.frame[PageOf(a.vaddr + k)] \in Frames,
           Head(s).kind = "dirty" => c \in e[Head(s).at]
    PROVE  Marked(a, c, Tail(s), e)
<1> DEFINE t == Tail(s)
           x == Head(s)
<1>1. /\ x = s[1] /\ Len(s) \in Nat
      /\ \A i \in 1..Len(s) : i # 1 => i - 1 \in 1..Len(t) /\ s[i] = t[i - 1]
  BY TailElements
<1> HIDE DEF t, x
<1> SUFFICES ASSUME NEW k \in 0..(a.len - 1), MustMark(a, a.vaddr + k)
             PROVE  \/ c \in e[env.frame[PageOf(a.vaddr + k)]]
                    \/ \E i \in 1..Len(t) : t[i] = Mark(PageOf(a.vaddr + k))
  BY DEF Marked, t
<1> DEFINE page == PageOf(a.vaddr + k)
<1>2. CASE c \in d[env.frame[page]]
  BY <1>2
<1>3. CASE \E i \in 1..Len(s) : s[i] = Mark(page)
  <2>1. PICK i \in 1..Len(s) : s[i] = Mark(page)
    BY <1>3
  <2>2. CASE i = 1
    <3>1. x.kind = "dirty" /\ x.at = env.frame[page]
      BY <1>1, <2>1, <2>2 DEF Mark
    <3>2. c \in e[x.at]
      BY <3>1 DEF x
    <3> QED
      BY <3>1, <3>2
  <2>3. CASE i # 1
    <3>1. i - 1 \in 1..Len(t) /\ t[i - 1] = Mark(page)
      BY <1>1, <2>1, <2>3
    <3> QED
      BY <3>1, Zenon
  <2> QED
    BY <2>2, <2>3
<1> QED
  BY <1>2, <1>3 DEF Marked

\* A part is done.
LEMMA LoadRest ==
    ASSUME GoodEnv, NEW c, acc[c] \in Accesses, acc[c].op = "load", acc[c].kind # "pages", Memory(mem),
           NEW s, s # <<>>, Head(s).kind = "part", NEW v, DOMAIN v = 0..(acc[c].len - 1),
           NEW m, NEW d, Rest(acc[c], c, s, v, m, d)
    PROVE  Rest(acc[c], c, Tail(s), Or(v, Limb(c, Head(s))), m, d)
<1>1. Pending(acc[c], s) /\ Loaded(acc[c], s, v) /\ Allowed(acc[c])
  BY DEF Rest
<1>2. Pending(acc[c], Tail(s))
  <2>1. Head(s).kind # "from_le"
    OBVIOUS
  <2> QED
    BY <1>1, <2>1, PendingTail
<1>3. Loaded(acc[c], Tail(s), Or(v, Limb(c, Head(s))))
  BY <1>1, LoadStep
<1>4. acc[c].op # "store"
  OBVIOUS
<1> QED
  BY <1>1, <1>2, <1>3, <1>4, Zenon DEF Rest

\* CPU c is about to store a part, and has stored it in the memory m.
Storing(c, s, d) ==
    /\ acc[c] \in Accesses /\ acc[c].op = "store" /\ acc[c].kind # "pages" /\ Memory(mem)
    /\ s # <<>> /\ Head(s).kind = "part" /\ Rest(acc[c], c, s, val[c], mem, d)

HasStored(c, s, d, m) ==
    /\ Rest(acc[c], c, Tail(s), val[c], m, d) /\ Memory(m)
    /\ \A h \in HostBytes : mem[h] # InitialByte(h) => m[h] # InitialByte(h)
    /\ \A h \in HostBytes : m[h] = mem[h] \/ m[h][1] = c

LEMMA StoreRest ==
    ASSUME GoodEnv, NEW c \in Cpus, NEW s, NEW d, Storing(c, s, d)
    PROVE  HasStored(c, s, d, Overwritten(c, Head(s)))
<1> DEFINE m == Overwritten(c, Head(s))
<1>0. /\ acc[c] \in Accesses /\ acc[c].op = "store" /\ acc[c].kind # "pages" /\ Memory(mem)
      /\ s # <<>> /\ Head(s).kind = "part" /\ Rest(acc[c], c, s, val[c], mem, d)
      /\ m = Overwritten(c, Head(s))
  BY DEF Storing
<1> HIDE DEF m
<1>1. /\ Pending(acc[c], s) /\ val[c] = FirstValue(acc[c], c) /\ Stored(acc[c], s, mem)
      /\ Marked(acc[c], c, s, d) /\ Allowed(acc[c])
  BY <1>0 DEF Rest
<1>2. Pending(acc[c], Tail(s))
  <2>1. Head(s).kind # "from_le"
    BY <1>0
  <2> QED
    BY <1>0, <1>1, <2>1, PendingTail
<1>3. /\ Memory(m) /\ Stored(acc[c], Tail(s), m)
      /\ \A h \in HostBytes : mem[h] # InitialByte(h) => m[h] # InitialByte(h)
      /\ \A h \in HostBytes : m[h] = mem[h] \/ m[h][1] = c
  BY <1>0, <1>1, StoreStep
<1>4. Marked(acc[c], c, Tail(s), d)
  <2>1. s \in Seq(Ops)
    BY <1>1 DEF Pending
  <2>2. \A k \in 0..(acc[c].len - 1) : env.frame[PageOf(acc[c].vaddr + k)] \in Frames
    BY <1>0, <1>1, AllowedMapped
  <2>3. Head(s).kind # "dirty" /\ \A f \in Frames : c \in d[f] => c \in d[f]
    BY <1>0
  <2> QED
    BY <1>0, <1>1, <2>1, <2>2, <2>3, MarkedTail
<1>5. acc[c].op # "load"
  BY <1>0
<1>6. Rest(acc[c], c, Tail(s), val[c], m, d)
  BY <1>0, <1>1, <1>2, <1>3, <1>4, <1>5, Zenon DEF Rest
<1> QED
  BY <1>0, <1>3, <1>6 DEF HasStored

\* A page is marked.
LEMMA MarkRest ==
    ASSUME GoodEnv, NEW c, NEW a \in Accesses, a.kind # "pages",
           NEW s, s # <<>>, Head(s).kind = "dirty", NEW v, NEW m, NEW d, Rest(a, c, s, v, m, d),
           NEW e, \A f \in Frames : c \in d[f] => c \in e[f], c \in e[Head(s).at]
    PROVE  Rest(a, c, Tail(s), v, m, e)
<1> DEFINE t == Tail(s)
<1>1. Pending(a, s) /\ Allowed(a)
  BY DEF Rest
<1>2. s \in Seq(Ops)
  BY <1>1 DEF Pending
<1>3. Head(s).kind # "from_le" /\ Head(s).kind # "part" /\ Head(s).kind \notin {"part", "from_le"}
  OBVIOUS
<1>4. /\ Pending(a, t) /\ ~Native(t) /\ ~Native(s)
      /\ \A k \in 0..(a.len - 1) : Covered(a, s, k) <=> Hits(a, Head(s), k) \/ Covered(a, t, k)
  BY <1>1, <1>3, PendingTail
<1>5. \A k \in 0..(a.len - 1) : Covered(a, s, k) <=> Covered(a, t, k)
  BY <1>3, <1>4 DEF Hits
<1> HIDE DEF t
<1>6. Loaded(a, s, v) => Loaded(a, t, v)
  <2>1. \A k : Slot(a, s, k) = k /\ Slot(a, t, k) = k
    BY <1>4 DEF Slot
  <2> QED
    BY <1>5, <2>1 DEF Loaded
<1>7. Stored(a, s, m) => Stored(a, t, m)
  BY <1>5 DEF Stored
<1>8. Marked(a, c, s, d) => Marked(a, c, t, e)
  <2>1. \A k \in 0..(a.len - 1) : env.frame[PageOf(a.vaddr + k)] \in Frames
    BY <1>1, AllowedMapped
  <2> QED
    BY <1>2, <2>1, MarkedTail DEF t
<1> QED
  BY <1>1, <1>4, <1>6, <1>7, <1>8, Zenon DEF Rest, t

\* What other CPUs store and mark meanwhile.
LEMMA RestGrows ==
    ASSUME GoodEnv, NEW c, NEW a \in Accesses, NEW s, NEW v, NEW m, NEW d, Rest(a, c, s, v, m, d),
           NEW n, \A h \in HostBytes : m[h] # InitialByte(h) => n[h] # InitialByte(h),
           NEW e, \A f \in Frames : c \in d[f] => c \in e[f]
    PROVE  Rest(a, c, s, v, n, e)
<1>1. CASE a.kind = "pages"
  BY <1>1 DEF Rest
<1>2. CASE a.kind # "pages"
  <2>1. Allowed(a) /\ Pending(a, s)
    BY <1>2 DEF Rest
  <2>2. \A k \in 0..(a.len - 1) : HostOf(a.vaddr + k) \in HostBytes /\ env.frame[PageOf(a.vaddr + k)] \in Frames
    BY <1>2, <2>1, AllowedMapped
  <2>3. Stored(a, s, m) => Stored(a, s, n)
    BY <2>2 DEF Stored
  <2>4. Marked(a, c, s, d) => Marked(a, c, s, e)
    BY <2>2 DEF Marked
  <2> QED
    BY <1>2, <2>1, <2>3, <2>4 DEF Rest
<1> QED
  BY <1>1, <1>2

-----------------------------------------------------------------------------
(* The checks of a plan                                                     *)

LEMMA LeastIndex ==
    ASSUME NEW n \in Nat, NEW I \in SUBSET (1..n), NEW x, x = IF I # {} THEN Min(I) ELSE 0
    PROVE  /\ I = {} <=> x = 0
           /\ I # {} => x \in I /\ \A i \in I : x <= i
<1>1. ASSUME I # {}
      PROVE  Min(I) \in I /\ \A i \in I : Min(I) <= i
  <2>1. I \in SUBSET Nat
    OBVIOUS
  <2>2. \E y \in I : \A z \in I : y <= z
    BY <1>1, <2>1, Least
  <2> QED
    BY <2>2 DEF Min
<1>2. I # {} => Min(I) # 0
  BY <1>1
<1> QED
  BY <1>1, <1>2

Failing(x) == x.kind = "check" /\ ~Ok(x)
Acting(x) == x.kind # "check"

\* The first check that fails, and the first micro-operation of another kind.
FirstFailing(s) == SelectInSeq(s, LAMBDA x : x.kind = "check" /\ ~x.ok)
FirstActing(s) == SelectInSeq(s, LAMBDA x : x.kind # "check")

LEMMA FirstIndices ==
    ASSUME NEW s \in Seq(Ops), NEW bad, bad = FirstFailing(s), NEW next, next = FirstActing(s)
    PROVE  /\ bad = 0 => \A i \in 1..Len(s) : ~Failing(s[i])
           /\ bad # 0 => /\ bad \in 1..Len(s) /\ Failing(s[bad])
                         /\ \A i \in 1..Len(s) : Failing(s[i]) => bad <= i
           /\ next = 0 => \A i \in 1..Len(s) : ~Acting(s[i])
           /\ next # 0 => /\ next \in 1..Len(s) /\ Acting(s[next])
                          /\ \A i \in 1..Len(s) : Acting(s[i]) => next <= i
<1> DEFINE I == {i \in 1..Len(s) : Failing(s[i])}
           J == {i \in 1..Len(s) : Acting(s[i])}
<1>1. Len(s) \in Nat
  OBVIOUS
<1>2. bad = IF I # {} THEN Min(I) ELSE 0
  BY DEF FirstFailing, SelectInSeq, Failing, Ok
<1>3. next = IF J # {} THEN Min(J) ELSE 0
  BY DEF FirstActing, SelectInSeq, Acting
<1>4. I \in SUBSET (1..Len(s)) /\ J \in SUBSET (1..Len(s))
  OBVIOUS
<1>5. /\ \A i \in 1..Len(s) : i \in I <=> Failing(s[i])
      /\ \A i \in 1..Len(s) : i \in J <=> Acting(s[i])
  OBVIOUS
<1> HIDE DEF I, J
<1>6. /\ I = {} <=> bad = 0
      /\ I # {} => bad \in I /\ \A i \in I : bad <= i
  BY <1>1, <1>2, <1>4, LeastIndex
<1>7. /\ J = {} <=> next = 0
      /\ J # {} => next \in J /\ \A i \in J : next <= i
  BY <1>1, <1>3, <1>4, LeastIndex
<1> QED
  BY <1>4, <1>5, <1>6, <1>7

Fails(s) == FirstFailing(s) # 0 /\ (FirstActing(s) = 0 \/ FirstFailing(s) < FirstActing(s))
AfterChecks(s) == IF FirstActing(s) = 0 THEN <<>> ELSE SubSeq(s, FirstActing(s), Len(s))

LEMMA SuffixOf ==
    ASSUME NEW S, NEW t \in Seq(S), NEW u \in Seq(S)
    PROVE  SubSeq(t \o u, Len(t) + 1, Len(t \o u)) = u
<1> DEFINE s == t \o u
           n == Len(t)
           x == SubSeq(s, n + 1, Len(s))
<1>1. /\ s \in Seq(S) /\ Len(s) = n + Len(u) /\ n \in Nat /\ Len(u) \in Nat
      /\ \A j \in 1..Len(u) : n + j \in 1..Len(s) /\ s[n + j] = u[j]
  BY ConcatElement
<1> HIDE DEF s, n
<1>2. x \in Seq(S) /\ Len(x) = Len(u) /\ \A j \in 1..Len(u) : x[j] = s[n + j]
  BY <1>1
<1> HIDE DEF x
<1>3. \A j \in 1..Len(u) : x[j] = u[j]
  BY <1>1, <1>2
<1>4. x = u
  BY <1>2, <1>3, SeqEqual
<1> QED
  BY <1>4 DEF x, s, n

\* The checks let through what is allowed, and the first that fails says why.
LEMMA ChecksRun ==
    ASSUME NEW a, NEW s \in Seq(Ops), Planned(a, s)
    PROVE  /\ Fails(s) => Explains(a, s[FirstFailing(s)].at)
           /\ ~Fails(s) => Allowed(a) /\ Body(a, AfterChecks(s))
<1> DEFINE bad == FirstFailing(s)
           next == FirstActing(s)
<1>1. /\ bad = 0 => \A i \in 1..Len(s) : ~Failing(s[i])
      /\ bad # 0 => /\ bad \in 1..Len(s) /\ Failing(s[bad])
                    /\ \A i \in 1..Len(s) : Failing(s[i]) => bad <= i
      /\ next = 0 => \A i \in 1..Len(s) : ~Acting(s[i])
      /\ next # 0 => /\ next \in 1..Len(s) /\ Acting(s[next])
                     /\ \A i \in 1..Len(s) : Acting(s[i]) => next <= i
  BY FirstIndices, Zenon
<1>2. Fails(s) <=> bad # 0 /\ (next = 0 \/ bad < next)
  BY DEF Fails
<1>3. AfterChecks(s) = IF next = 0 THEN <<>> ELSE SubSeq(s, next, Len(s))
  BY DEF AfterChecks
<1> HIDE DEF bad, next
<1>4. PICK cs \in Seq(Ops), rest \in Seq(Ops) :
        /\ s = cs \o rest
        /\ \A i \in 1..Len(cs) : cs[i].kind = "check" /\ Ok(cs[i])
        /\ \/ Allowed(a) /\ Body(a, rest)
           \/ /\ Len(rest) > 0 /\ rest[1].kind = "check" /\ ~Ok(rest[1])
              /\ Explains(a, rest[1].at)
  BY DEF Planned
<1> DEFINE n == Len(cs)
<1>5. /\ Len(s) = n + Len(rest) /\ n \in Nat /\ Len(rest) \in Nat
      /\ \A i \in 1..n : i \in 1..Len(s) /\ s[i] = cs[i]
      /\ \A j \in 1..Len(rest) : n + j \in 1..Len(s) /\ s[n + j] = rest[j]
      /\ \A i \in 1..Len(s) : i \in 1..n \/ (i - n \in 1..Len(rest) /\ s[i] = rest[i - n])
  <2>1. cs \in Seq(Ops) /\ rest \in Seq(Ops) /\ s = cs \o rest
    BY <1>4
  <2> QED
    BY <2>1, ConcatElement
<1>6. \A i \in 1..n : ~Failing(s[i]) /\ ~Acting(s[i])
  BY <1>4, <1>5 DEF Failing, Acting
<1> HIDE DEF n
<1>7. CASE Allowed(a) /\ Body(a, rest)
  <2>1. \A j \in 1..Len(rest) : Acting(rest[j])
    <3>1. CASE a.kind = "pages"
      <4>1. rest = <<>>
        BY <1>7, <3>1 DEF Body
      <4>2. Len(rest) = 0
        BY <1>4, <4>1, NoElements
      <4> QED
        BY <4>2
    <3>2. CASE a.kind # "pages"
      BY <1>7, <3>2 DEF Body, Tiles, Acting
    <3> QED
      BY <3>1, <3>2
  <2>2. \A i \in 1..Len(s) : ~Failing(s[i])
    BY <1>5, <1>6, <2>1 DEF Failing, Acting
  <2>3. ~Fails(s)
    BY <1>1, <1>2, <2>2
  <2>4. CASE Len(rest) = 0
    <3>1. rest = <<>>
      BY <1>4, <2>4, NoElements
    <3>2. \A i \in 1..Len(s) : i \in 1..n
      BY <1>5, <2>4
    <3>3. next = 0
      BY <1>1, <1>6, <3>2
    <3>4. AfterChecks(s) = rest
      BY <1>3, <3>1, <3>3
    <3> QED
      BY <1>7, <2>3, <3>4
  <2>5. CASE Len(rest) > 0
    <3>1. 1 \in 1..Len(rest) /\ n + 1 \in 1..Len(s) /\ Acting(s[n + 1])
      BY <1>5, <2>1, <2>5
    <3>2. next # 0
      BY <1>1, <3>1
    <3>3. next \in 1..Len(s) /\ next <= n + 1 /\ next \notin 1..n
      BY <1>1, <1>6, <3>1, <3>2
    <3>4. next = n + 1
      BY <1>5, <3>3
    <3>5. SubSeq(s, n + 1, Len(s)) = rest
      <4>1. cs \in Seq(Ops) /\ rest \in Seq(Ops) /\ s = cs \o rest
        BY <1>4
      <4> QED
        BY <4>1, SuffixOf DEF n
    <3>6. AfterChecks(s) = rest
      BY <1>3, <3>2, <3>4, <3>5
    <3> QED
      BY <1>7, <2>3, <3>6
  <2> QED
    BY <1>5, <2>4, <2>5
<1>8. CASE /\ Len(rest) > 0 /\ rest[1].kind = "check" /\ ~Ok(rest[1])
           /\ Explains(a, rest[1].at)
  <2>1. 1 \in 1..Len(rest) /\ n + 1 \in 1..Len(s) /\ s[n + 1] = rest[1]
    BY <1>5, <1>8
  <2>2. Failing(s[n + 1]) /\ ~Acting(s[n + 1])
    BY <1>8, <2>1 DEF Failing, Acting
  <2>3. bad # 0 /\ bad \in 1..Len(s) /\ bad <= n + 1 /\ bad \notin 1..n
    BY <1>1, <1>6, <2>1, <2>2
  <2>4. bad = n + 1
    BY <1>5, <2>3
  <2>5. next = 0 \/ bad < next
    <3>1. ASSUME next # 0
          PROVE  n + 1 < next
      <4>1. next \in 1..Len(s) /\ next \notin 1..n /\ next # n + 1
        BY <1>1, <1>6, <2>2, <3>1
      <4> QED
        BY <1>5, <4>1
    <3> QED
      BY <2>4, <3>1
  <2>6. Fails(s)
    BY <1>2, <2>3, <2>5
  <2>7. s[bad] = rest[1]
    BY <2>1, <2>4
  <2> QED
    BY <1>8, <2>6, <2>7 DEF bad
<1> QED
  BY <1>4, <1>7, <1>8

-----------------------------------------------------------------------------
(* Every step preserves the state                                           *)

LEMMA ScenarioFacts ==
    ASSUME InScenario
    PROVE  /\ GoodEnv /\ acc \in [Cpus -> Accesses]
           /\ \A c \in Cpus : acc[c].kind \in {"scalar", "inline", "fetch"} => Scalar(acc[c])
<1>1. PICK s \in Scenarios : env = s.env /\ acc = s.acc
  BY DEF InScenario
<1>2. GoodEnv
  BY <1>1, ScenariosAssumption DEF GoodEnv
<1>3. acc \in [Cpus -> Accesses]
  BY <1>1, ScenariosAssumption
<1>4. \A c \in Cpus : acc[c].kind \in {"scalar", "inline", "fetch"} => Scalar(acc[c])
  BY <1>1, ScenariosAssumption DEF Scalar
<1> QED
  BY <1>2, <1>3, <1>4

\* An address that explains a fault is an address.
LEMMA ExplainsType ==
    ASSUME NEW a \in Accesses, NEW f, Explains(a, f)
    PROVE  f \in 0..TopAddr /\ f # None
<1>1. /\ PAGE_SIZE \in Nat \ {0} /\ Space \in Nat \ {0} /\ TopAddr = Space - 1
      /\ a.vaddr \in Int /\ a.len \in Int /\ 0 <= a.vaddr /\ a.vaddr < Space
  BY EndOfRange, Sizes
<1>2. f \in 0..TopAddr
  <2>1. CASE \E v \in Touched(a) : f = vaddr_base(PageOf(v))
    <3>1. PICK v \in Touched(a) : f = vaddr_base(PageOf(v))
      BY <2>1
    <3>2. v \in Int /\ 0 <= v /\ v <= TopAddr
      BY <1>1, <3>1 DEF Touched
    <3> DEFINE page == PageOf(v)
               base == PAGE_SIZE * page
    <3>3. page \in Int /\ Offset(v) \in Int /\ 0 <= Offset(v) /\ Offset(v) < PAGE_SIZE /\ v = base + Offset(v)
      BY <3>2, PageParts
    <3>4. vaddr_base(PageOf(v)) = base /\ base \in Int
      BY <1>1, <3>3 DEF vaddr_base
    <3>5. 0 <= base
      <4>1. ASSUME page < 0
            PROVE  FALSE
        <5>1. PAGE_SIZE * page <= PAGE_SIZE * (-1)
          BY <1>1, <3>3, <4>1, MulMono
        <5> QED
          BY <1>1, <3>2, <3>3, <5>1
      <4>2. PAGE_SIZE * 0 <= PAGE_SIZE * page
        BY <1>1, <3>3, <4>1, MulMono
      <4> QED
        BY <1>1, <4>2
    <3> HIDE DEF base, page
    <3> QED
      BY <1>1, <3>1, <3>2, <3>3, <3>4, <3>5
  <2> QED
    BY <1>1, <2>1 DEF Explains, ReportedAddress
<1> QED
  BY <1>1, <1>2 DEF None

\* What the other CPUs see of a step of c.
Frame(c) ==
    /\ env' = env /\ acc' = acc
    /\ \A d \in Cpus \ {c} : /\ pc'[d] = pc[d] /\ fault'[d] = fault[d]
                             /\ todo'[d] = todo[d] /\ val'[d] = val[d]
                             /\ \A f \in Frames : d \in dirty'[f] <=> d \in dirty[f]
    /\ \A h \in HostBytes : mem[h] # InitialByte(h) => mem'[h] # InitialByte(h)
    /\ \A h \in HostBytes : mem'[h] = mem[h] \/ mem'[h][1] = c

Types ==
    /\ dirty \in [Frames -> SUBSET Cpus] /\ held \in [Cpus -> SUBSET Shards]
    /\ fault \in [Cpus -> {None} \cup 0..TopAddr]
    /\ todo \in [Cpus -> Seq(Ops)]
    /\ DOMAIN val = Cpus /\ \A c \in Cpus : DOMAIN val[c] = 0..(acc[c].len - 1)

\* For d, the memory and the marks have only grown.
Grown(d, m, e, n, g) ==
    /\ \A h \in HostBytes : m[h] # InitialByte(h) => n[h] # InitialByte(h)
    /\ \A h \in HostBytes : m[h][1] # d => n[h][1] # d
    /\ \A x \in Frames : d \in g[x] <=> d \in e[x]

LEMMA OtherProgress ==
    ASSUME GoodEnv, NEW a \in Accesses, NEW d,
           NEW p, NEW f, NEW s, NEW v, NEW m, NEW e, Progress(a, d, p, f, s, v, m, e),
           NEW n, NEW g, Grown(d, m, e, n, g)
    PROVE  Progress(a, d, p, f, s, v, n, g)
<1>1. Clean(d, m, e) => Clean(d, n, g)
  BY DEF Clean, Grown
<1>2. Rest(a, d, s, v, m, e) => Rest(a, d, s, v, n, g)
  <2>1. /\ \A h \in HostBytes : m[h] # InitialByte(h) => n[h] # InitialByte(h)
        /\ \A x \in Frames : d \in e[x] => d \in g[x]
    BY DEF Grown
  <2> QED
    BY <2>1, RestGrows
<1> QED
  BY <1>1, <1>2, Zenon DEF Progress, Fresh, Failed

LEMMA StepState ==
    ASSUME State, GoodEnv, acc \in [Cpus -> Accesses], NEW c \in Cpus, Frame(c), Types', Memory(mem'),
           Progress(acc[c], c, pc'[c], fault'[c], todo'[c], val'[c], mem', dirty')
    PROVE  State'
<1>1. env' = env /\ acc' = acc
  BY DEF Frame
<1>2. Memory(mem)'
  BY <1>1, Stable
<1>3. ASSUME NEW d \in Cpus
      PROVE  Progress(acc[d], d, pc'[d], fault'[d], todo'[d], val'[d], mem', dirty')
  <2>1. CASE d = c
    BY <2>1
  <2>2. CASE d # c
    <3>1. Progress(acc[d], d, pc[d], fault[d], todo[d], val[d], mem, dirty)
      BY DEF State
    <3>2. /\ \A h \in HostBytes : mem[h] # InitialByte(h) => mem'[h] # InitialByte(h)
          /\ \A h \in HostBytes : mem'[h] = mem[h] \/ mem'[h][1] = c
          /\ \A f \in Frames : d \in dirty'[f] <=> d \in dirty[f]
          /\ pc'[d] = pc[d] /\ fault'[d] = fault[d] /\ todo'[d] = todo[d] /\ val'[d] = val[d]
      BY <2>2 DEF Frame
    <3>3. acc[d] \in Accesses
      OBVIOUS
    <3>4. Grown(d, mem, dirty, mem', dirty')
      BY <2>2, <3>2 DEF Grown
    <3>5. Progress(acc[d], d, pc[d], fault[d], todo[d], val[d], mem', dirty')
      BY <3>1, <3>3, <3>4, OtherProgress
    <3> QED
      BY <3>2, <3>5
  <2> QED
    BY <2>1, <2>2
<1>4. ASSUME NEW d \in Cpus
      PROVE  Progress(acc[d], d, pc[d], fault[d], todo[d], val[d], mem, dirty)'
  BY <1>1, <1>3, Stable
<1> QED
  BY <1>2, <1>4 DEF State, Types

\* The state of CPU c.
LEMMA StateOf ==
    ASSUME State, acc \in [Cpus -> Accesses], NEW c \in Cpus
    PROVE  /\ todo[c] \in Seq(Ops) /\ DOMAIN val[c] = 0..(acc[c].len - 1) /\ acc[c] \in Accesses
           /\ Progress(acc[c], c, pc[c], fault[c], todo[c], val[c], mem, dirty)
           /\ Memory(mem) /\ Types /\ fault[c] \in {None} \cup 0..TopAddr
BY DEF State, Types

\* Without checks, a plan is what is to be done.
LEMMA PlannedActs ==
    ASSUME NEW a, NEW s \in Seq(Ops), Planned(a, s), s = <<>> \/ Head(s).kind # "check"
    PROVE  Allowed(a) /\ Body(a, s)
<1> DEFINE bad == FirstFailing(s)
           next == FirstActing(s)
<1>1. /\ bad # 0 => bad \in 1..Len(s)
      /\ next = 0 => \A i \in 1..Len(s) : ~Acting(s[i])
      /\ next # 0 => /\ next \in 1..Len(s) /\ \A i \in 1..Len(s) : Acting(s[i]) => next <= i
  BY FirstIndices, Zenon
<1>2. ~Fails(s) => Allowed(a) /\ Body(a, AfterChecks(s))
  BY ChecksRun
<1>3. Fails(s) <=> bad # 0 /\ (next = 0 \/ bad < next)
  BY DEF Fails
<1>4. AfterChecks(s) = IF next = 0 THEN <<>> ELSE SubSeq(s, next, Len(s))
  BY DEF AfterChecks
<1> HIDE DEF bad, next
<1>5. Len(s) \in Nat /\ (s = <<>> <=> Len(s) = 0)
  BY NoElements
<1>6. CASE s = <<>>
  <2>1. bad = 0 /\ next = 0
    BY <1>1, <1>5, <1>6
  <2> QED
    BY <1>2, <1>3, <1>4, <1>6, <2>1
<1>7. CASE s # <<>>
  <2>1. 1 \in 1..Len(s) /\ Head(s) = s[1]
    BY <1>5, <1>7
  <2>2. Acting(s[1])
    BY <1>7, <2>1 DEF Acting
  <2>3. next = 1
    BY <1>1, <1>5, <2>1, <2>2
  <2>4. ~Fails(s)
    BY <1>1, <1>3, <1>5, <2>3
  <2>5. SubSeq(s, 1, Len(s)) = s
    OBVIOUS
  <2>6. AfterChecks(s) = s
    <3>1. AfterChecks(s) = SubSeq(s, next, Len(s))
      BY <1>4, <2>3
    <3> QED
      BY <2>3, <2>5, <3>1, Zenon
  <2> QED
    BY <1>2, <2>4, <2>6, Zenon
<1> QED
  BY <1>6, <1>7

\* An access under way whose next micro-operation is not a check.
LEMMA ActingRest ==
    ASSUME State, GoodEnv, acc \in [Cpus -> Accesses], NEW c \in Cpus, pc[c] \in {"run", "copy"},
           todo[c] # <<>>, Head(todo[c]).kind # "check"
    PROVE  /\ fault[c] = None /\ acc[c].kind # "idle" /\ acc[c].kind # "pages"
           /\ Rest(acc[c], c, todo[c], val[c], mem, dirty)
<1>1. /\ todo[c] \in Seq(Ops) /\ acc[c] \in Accesses
      /\ Progress(acc[c], c, pc[c], fault[c], todo[c], val[c], mem, dirty)
  BY StateOf
<1>2. Fresh(acc[c], c, todo[c], val[c], mem, dirty) => Rest(acc[c], c, todo[c], val[c], mem, dirty)
  <2> SUFFICES ASSUME Fresh(acc[c], c, todo[c], val[c], mem, dirty)
               PROVE  Rest(acc[c], c, todo[c], val[c], mem, dirty)
    OBVIOUS
  <2>1. Planned(acc[c], todo[c]) /\ val[c] = FirstValue(acc[c], c)
    BY DEF Fresh
  <2>2. Allowed(acc[c]) /\ Body(acc[c], todo[c])
    BY <1>1, <2>1, PlannedActs
  <2>3. Rest(acc[c], c, todo[c], FirstValue(acc[c], c), mem, dirty)
    BY <1>1, <2>2, FreshRest
  <2> QED
    BY <2>1, <2>3
<1>3. fault[c] = None /\ acc[c].kind # "idle" /\ Rest(acc[c], c, todo[c], val[c], mem, dirty)
  BY <1>1, <1>2 DEF Progress, Failed
<1> QED
  BY <1>3 DEF Rest

LEMMA BeginState ==
    ASSUME State, GoodEnv, acc \in [Cpus -> Accesses], NEW c \in Cpus,
           pc \in [Cpus -> {"start", "run", "copy", "done"}],
           acc[c].kind \in {"scalar", "inline", "fetch"} => Scalar(acc[c]), Begin(c)
    PROVE  State'
<1>1. /\ acc[c] \in Accesses /\ Types /\ Memory(mem)
      /\ Progress(acc[c], c, pc[c], fault[c], todo[c], val[c], mem, dirty)
  BY StateOf
<1>2. /\ pc[c] = "start" /\ pc' = [pc EXCEPT ![c] = "run"] /\ todo' = [todo EXCEPT ![c] = Plan(acc[c])]
      /\ env' = env /\ acc' = acc /\ mem' = mem /\ dirty' = dirty /\ val' = val /\ held' = held /\ fault' = fault
  BY DEF Begin
<1>3. acc[c].kind # "idle" /\ fault[c] = None /\ Clean(c, mem, dirty) /\ val[c] = FirstValue(acc[c], c)
  BY <1>1, <1>2 DEF Progress
<1>4. Planned(acc[c], Plan(acc[c]))
  BY <1>1, <1>3, PlanPlanned
<1>5. Plan(acc[c]) \in Seq(Ops)
  BY <1>4, ConcatElement DEF Planned
<1>6. Frame(c)
  BY <1>1, <1>2 DEF Frame, Types
<1>7. Types'
  BY <1>1, <1>2, <1>5 DEF Types
<1>8. pc'[c] = "run" /\ todo'[c] = Plan(acc[c])
  BY <1>1, <1>2 DEF Types
<1>9. Fresh(acc[c], c, todo'[c], val'[c], mem', dirty')
  BY <1>2, <1>3, <1>4, <1>8 DEF Fresh
<1>10. Progress(acc[c], c, pc'[c], fault'[c], todo'[c], val'[c], mem', dirty')
  BY <1>2, <1>3, <1>8, <1>9 DEF Progress
<1>11. Memory(mem')
  BY <1>1, <1>2
<1> QED
  BY <1>6, <1>7, <1>10, <1>11, StepState

LEMMA RunChecksState ==
    ASSUME State, GoodEnv, acc \in [Cpus -> Accesses], NEW c \in Cpus, RunChecks(c)
    PROVE  State'
<1> DEFINE s == todo[c]
           t == IF Fails(s) THEN <<>> ELSE AfterChecks(s)
<1>1. /\ acc[c] \in Accesses /\ Types /\ Memory(mem) /\ s \in Seq(Ops)
      /\ Progress(acc[c], c, pc[c], fault[c], s, val[c], mem, dirty)
  BY StateOf
<1>2. /\ pc[c] = "run" /\ s # <<>> /\ Head(s).kind = "check"
      /\ env' = env /\ acc' = acc /\ mem' = mem /\ dirty' = dirty /\ val' = val /\ held' = held /\ pc' = pc
  BY DEF RunChecks, At
<1>3. todo' = [todo EXCEPT ![c] = t]
  BY DEF RunChecks, Fails, AfterChecks, FirstFailing, FirstActing
<1>4. fault' = IF Fails(s) THEN [fault EXCEPT ![c] = s[FirstFailing(s)].at] ELSE fault
  BY DEF RunChecks, Fails, FirstFailing, FirstActing
<1>5. /\ fault[c] = None /\ acc[c].kind # "idle" /\ Planned(acc[c], s) /\ Clean(c, mem, dirty)
      /\ val[c] = FirstValue(acc[c], c)
  <2>1. ~Rest(acc[c], c, s, val[c], mem, dirty)
    <3>1. Head(s) = s[1] /\ 1 \in 1..Len(s)
      BY <1>1, <1>2, TailElements
    <3> QED
      BY <1>2, <3>1 DEF Rest, Pending
  <2> QED
    BY <1>1, <1>2, <2>1 DEF Progress, Failed, Fresh
<1>6. /\ Fails(s) => Explains(acc[c], s[FirstFailing(s)].at)
      /\ ~Fails(s) => Allowed(acc[c]) /\ Body(acc[c], AfterChecks(s))
  BY <1>1, <1>5, ChecksRun
<1>7. todo'[c] = t /\ t \in Seq(Ops)
  <2>1. FirstActing(s) # 0 => FirstActing(s) \in 1..Len(s)
    BY <1>1, FirstIndices, Zenon
  <2>2. AfterChecks(s) \in Seq(Ops)
    <3>1. CASE FirstActing(s) = 0
      BY <3>1 DEF AfterChecks
    <3>2. CASE FirstActing(s) # 0
      <4>1. SubSeq(s, FirstActing(s), Len(s)) \in Seq(Ops)
        BY <1>1, <2>1, <3>2, SuffixType
      <4> QED
        BY <3>2, <4>1 DEF AfterChecks
    <3> QED
      BY <3>1, <3>2
  <2>3. t \in Seq(Ops)
    BY <2>2
  <2> QED
    BY <1>1, <1>3, <2>3 DEF Types
<1> HIDE DEF s, t
<1>8. CASE Fails(s)
  <2> DEFINE at == s[FirstFailing(s)].at
  <2>1. at \in 0..TopAddr /\ at # None /\ Explains(acc[c], at)
    BY <1>1, <1>6, <1>8, ExplainsType
  <2>2. fault' = [fault EXCEPT ![c] = at]
    BY <1>4, <1>8
  <2>3. t = <<>>
    BY <1>8 DEF t
  <2> HIDE DEF at
  <2>4. fault'[c] = at
    BY <1>1, <2>2 DEF Types
  <2>5. Frame(c)
    BY <1>1, <1>2, <1>3, <2>2 DEF Frame, Types
  <2>6. Types'
    BY <1>1, <1>2, <1>3, <1>7, <2>1, <2>2 DEF Types
  <2>7. Failed(acc[c], c, todo'[c], mem', dirty', fault'[c])
    BY <1>2, <1>5, <1>7, <2>1, <2>3, <2>4 DEF Failed
  <2>8. Progress(acc[c], c, pc'[c], fault'[c], todo'[c], val'[c], mem', dirty')
    BY <1>2, <1>5, <2>7 DEF Progress
  <2>9. Memory(mem')
    BY <1>1, <1>2
  <2> QED
    BY <2>5, <2>6, <2>8, <2>9, StepState
<1>9. CASE ~Fails(s)
  <2>1. fault' = fault
    BY <1>4, <1>9
  <2>2. Rest(acc[c], c, t, FirstValue(acc[c], c), mem, dirty)
    BY <1>1, <1>6, <1>9, FreshRest DEF t
  <2>3. Rest(acc[c], c, todo'[c], val'[c], mem', dirty')
    BY <1>2, <1>5, <1>7, <2>2
  <2>4. Frame(c)
    BY <1>1, <1>2, <1>3, <2>1 DEF Frame, Types
  <2>5. Types'
    BY <1>1, <1>2, <1>3, <1>7, <2>1 DEF Types
  <2>6. Progress(acc[c], c, pc'[c], fault'[c], todo'[c], val'[c], mem', dirty')
    BY <1>2, <1>5, <2>1, <2>3 DEF Progress
  <2>7. Memory(mem')
    BY <1>1, <1>2
  <2> QED
    BY <2>4, <2>5, <2>6, <2>7, StepState
<1> QED
  BY <1>8, <1>9

\* A part, with or without locks, is done.
LEMMA DoPartState ==
    ASSUME State, GoodEnv, acc \in [Cpus -> Accesses], NEW c \in Cpus,
           pc \in [Cpus -> {"start", "run", "copy", "done"}], pc[c] \in {"run", "copy"},
           todo[c] # <<>>, Head(todo[c]).kind = "part", DoPart(c),
           pc' = pc \/ pc' = [pc EXCEPT ![c] = "run"]
    PROVE  State'
<1> DEFINE s == todo[c]
           a == acc[c]
           p == Head(s)
<1>1. /\ a \in Accesses /\ Types /\ Memory(mem) /\ s \in Seq(Ops) /\ DOMAIN val[c] = 0..(a.len - 1)
  BY StateOf
<1>2. fault[c] = None /\ a.kind # "idle" /\ a.kind # "pages" /\ Rest(a, c, s, val[c], mem, dirty)
  <2>1. Head(todo[c]).kind # "check"
    OBVIOUS
  <2> QED
    BY <2>1, ActingRest
<1>3. /\ todo' = [todo EXCEPT ![c] = Tail(@)] /\ held' = [held EXCEPT ![c] = {}]
      /\ env' = env /\ acc' = acc /\ dirty' = dirty /\ fault' = fault
  BY DEF DoPart
<1>4. Tail(s) \in Seq(Ops)
  BY <1>1, TailElements
<1>5. todo'[c] = Tail(s) /\ pc'[c] \in {"run", "copy"} /\ \A d \in Cpus \ {c} : todo'[d] = todo[d] /\ pc'[d] = pc[d]
  BY <1>1, <1>3 DEF Types
<1> HIDE DEF s
<1>6. todo' \in [Cpus -> Seq(Ops)]
  BY <1>1, <1>3, <1>4 DEF Types, s
<1>7. held' \in [Cpus -> SUBSET Shards]
  BY <1>1, <1>3 DEF Types
<1>8. CASE a.op = "load"
  <2> DEFINE u == Or(val[c], Limb(c, p))
  <2>1. val' = [val EXCEPT ![c] = u] /\ mem' = mem
    BY <1>8 DEF DoPart, s
  <2>2. DOMAIN u = 0..(a.len - 1)
    BY <1>1 DEF Or
  <2>3. Rest(a, c, Tail(s), u, mem, dirty)
    BY <1>1, <1>2, <1>8, LoadRest DEF s
  <2> HIDE DEF u
  <2>4. val'[c] = u
    BY <1>1, <2>1 DEF Types
  <2>5. Rest(acc[c], c, todo'[c], val'[c], mem', dirty')
    BY <1>3, <1>5, <2>1, <2>3, <2>4
  <2>6. Progress(acc[c], c, pc'[c], fault'[c], todo'[c], val'[c], mem', dirty')
    BY <1>2, <1>3, <1>5, <2>5 DEF Progress
  <2>7. Frame(c)
    BY <1>1, <1>3, <1>5, <2>1 DEF Frame, Types
  <2>8. Types'
    BY <1>1, <1>3, <1>6, <1>7, <2>1, <2>2 DEF Types
  <2>9. Memory(mem')
    BY <1>1, <2>1
  <2> QED
    BY <2>6, <2>7, <2>8, <2>9, StepState
<1>9. CASE a.op = "store"
  <2> DEFINE m == Overwritten(c, p)
  <2>1. val' = val /\ mem' = m
    BY <1>9 DEF DoPart, s, Overwritten
  <2>0. m = Overwritten(c, Head(s)) /\ Head(s).kind = "part" /\ s # <<>>
    BY DEF s
  <2> HIDE DEF m
  <2>2. /\ Rest(a, c, Tail(s), val[c], m, dirty) /\ Memory(m)
        /\ \A h \in HostBytes : mem[h] # InitialByte(h) => m[h] # InitialByte(h)
        /\ \A h \in HostBytes : m[h] = mem[h] \/ m[h][1] = c
    <3>1. Storing(c, s, dirty)
      BY <1>1, <1>2, <1>9, <2>0 DEF Storing
    <3>2. HasStored(c, s, dirty, Overwritten(c, Head(s)))
      BY <3>1, StoreRest
    <3>3. HasStored(c, s, dirty, m)
      BY <2>0, <3>2
    <3> QED
      BY <3>3 DEF HasStored
  <2>3. Rest(acc[c], c, todo'[c], val'[c], mem', dirty')
    BY <1>3, <1>5, <2>1, <2>2
  <2>4. Progress(acc[c], c, pc'[c], fault'[c], todo'[c], val'[c], mem', dirty')
    BY <1>2, <1>3, <1>5, <2>3 DEF Progress
  <2>5. Frame(c)
    BY <1>1, <1>3, <1>5, <2>1, <2>2 DEF Frame, Types
  <2>6. Types'
    BY <1>1, <1>3, <1>6, <1>7, <2>1 DEF Types
  <2>7. Memory(mem')
    BY <2>1, <2>2
  <2> QED
    BY <2>4, <2>5, <2>6, <2>7, StepState
<1>10. a.op \in {"load", "store"}
  BY <1>1 DEF Accesses
<1> QED
  BY <1>8, <1>9, <1>10

LEMMA LockState ==
    ASSUME State, GoodEnv, acc \in [Cpus -> Accesses], NEW c \in Cpus, Lock(c)
    PROVE  State'
<1> DEFINE s == todo[c]
           a == acc[c]
           p == Head(s)
           q == [p EXCEPT !.shards = Tail(@)]
           t == [s EXCEPT ![1] = q]
<1>1. /\ a \in Accesses /\ Types /\ Memory(mem) /\ s \in Seq(Ops)
  BY StateOf
<1>2. /\ pc[c] = "run" /\ s # <<>> /\ p.kind = "part" /\ p.shards # <<>>
      /\ env' = env /\ acc' = acc /\ mem' = mem /\ dirty' = dirty /\ val' = val /\ fault' = fault /\ pc' = pc
      /\ held' = [held EXCEPT ![c] = @ \cup {Head(p.shards)}]
  BY DEF Lock, At
<1>3. fault[c] = None /\ a.kind # "idle" /\ a.kind # "pages" /\ Rest(a, c, s, val[c], mem, dirty)
  <2>1. Head(todo[c]).kind # "check"
    BY <1>2
  <2> QED
    BY <1>2, <2>1, ActingRest
<1>4. p \in Ops /\ p = s[1] /\ Len(s) \in Nat /\ 1 \in 1..Len(s)
  BY <1>1, <1>2, TailElements
<1>5. p \in Parts
  BY <1>2, <1>4, PartOfOps
<1>6. q \in Parts /\ Head(p.shards) \in Shards
  <2>1. p.shards \in Seq(Shards)
    BY <1>5 DEF Parts
  <2>2. Tail(p.shards) \in Seq(Shards) /\ Head(p.shards) \in Shards
    BY <1>2, <2>1, TailElements
  <2> QED
    BY <1>5, <2>2 DEF Parts
<1>7. q.kind = p.kind /\ q.at = p.at /\ q.width = p.width /\ q.shift = p.shift /\ q.le = p.le
  BY <1>5 DEF Parts
<1>8. q \in Ops
  BY <1>6 DEF Ops
<1>9. todo' = [todo EXCEPT ![c] = t]
  <2>1. todo' = [todo EXCEPT ![c] = [s EXCEPT ![1] = [s[1] EXCEPT !.shards = Tail(@)]]]
    BY DEF Lock
  <2> QED
    BY <1>4, <2>1
<1> HIDE DEF q
<1>10. t \in Seq(Ops) /\ Len(t) = Len(s) /\ t[1] = q /\ t # <<>> /\ \A i \in 1..Len(s) : i # 1 => t[i] = s[i]
  BY <1>1, <1>2, <1>4, <1>8
<1> HIDE DEF t, s
<1>11. Same(s, t)
  BY <1>2, <1>4, <1>7, <1>10 DEF Same
<1>12. Rest(a, c, t, val[c], mem, dirty)
  BY <1>1, <1>3, <1>10, <1>11, SameRest
<1>13. todo'[c] = t /\ \A d \in Cpus \ {c} : todo'[d] = todo[d]
  BY <1>1, <1>9 DEF Types
<1>14. Rest(acc[c], c, todo'[c], val'[c], mem', dirty')
  BY <1>2, <1>12, <1>13
<1>15. Progress(acc[c], c, pc'[c], fault'[c], todo'[c], val'[c], mem', dirty')
  BY <1>2, <1>3, <1>14 DEF Progress
<1>16. Frame(c)
  BY <1>2, <1>13 DEF Frame
<1>17. Types'
  BY <1>1, <1>2, <1>6, <1>9, <1>10 DEF Types
<1>18. Memory(mem')
  BY <1>1, <1>2
<1> QED
  BY <1>15, <1>16, <1>17, <1>18, StepState

LEMMA MarkDirtyState ==
    ASSUME State, GoodEnv, acc \in [Cpus -> Accesses], NEW c \in Cpus, MarkDirty(c)
    PROVE  State'
<1> DEFINE s == todo[c]
           a == acc[c]
           x == Head(s).at
           e == [dirty EXCEPT ![x] = @ \cup {c}]
<1>1. a \in Accesses /\ Types /\ Memory(mem) /\ s \in Seq(Ops)
  BY StateOf
<1>2. /\ pc[c] = "run" /\ s # <<>> /\ Head(s).kind = "dirty" /\ dirty' = e
      /\ todo' = [todo EXCEPT ![c] = Tail(s)]
      /\ env' = env /\ acc' = acc /\ mem' = mem /\ val' = val /\ fault' = fault /\ pc' = pc /\ held' = held
  BY DEF MarkDirty, At
<1>3. fault[c] = None /\ a.kind # "idle" /\ a.kind # "pages" /\ Rest(a, c, s, val[c], mem, dirty)
  <2>1. Head(todo[c]).kind # "check"
    BY <1>2
  <2> QED
    BY <1>2, <2>1, ActingRest
<1>4. x \in Frames
  <2>1. Head(s) \in Ops
    BY <1>1, <1>2, TailElements
  <2> QED
    BY <1>2, <2>1 DEF Ops, MicroOps, Parts, FromLe
<1>5. Tail(s) \in Seq(Ops)
  BY <1>1, <1>2, TailElements
<1> HIDE DEF s
<1>6. /\ \A f \in Frames : c \in dirty[f] => c \in e[f]
      /\ c \in e[x] /\ e \in [Frames -> SUBSET Cpus]
      /\ \A d \in Cpus \ {c} : \A f \in Frames : d \in e[f] <=> d \in dirty[f]
  BY <1>1, <1>4 DEF Types
<1> HIDE DEF e
<1>7. Rest(a, c, Tail(s), val[c], mem, e)
  BY <1>1, <1>2, <1>3, <1>6, MarkRest
<1>8. todo'[c] = Tail(s) /\ \A d \in Cpus \ {c} : todo'[d] = todo[d]
  BY <1>1, <1>2 DEF Types
<1>9. Rest(acc[c], c, todo'[c], val'[c], mem', dirty')
  BY <1>2, <1>7, <1>8
<1>10. Progress(acc[c], c, pc'[c], fault'[c], todo'[c], val'[c], mem', dirty')
  BY <1>2, <1>3, <1>9 DEF Progress
<1>11. Frame(c)
  BY <1>2, <1>6, <1>8 DEF Frame
<1>12. Types'
  BY <1>1, <1>2, <1>5, <1>6 DEF Types
<1>13. Memory(mem')
  BY <1>1, <1>2
<1> QED
  BY <1>10, <1>11, <1>12, <1>13, StepState

LEMMA ConvertState ==
    ASSUME State, GoodEnv, acc \in [Cpus -> Accesses], NEW c \in Cpus, Convert(c)
    PROVE  State'
<1> DEFINE s == todo[c]
           a == acc[c]
           u == from_le(env.big, val[c])
<1>1. /\ a \in Accesses /\ Types /\ Memory(mem) /\ s \in Seq(Ops) /\ DOMAIN val[c] = 0..(a.len - 1)
  BY StateOf
<1>2. /\ pc[c] = "run" /\ s # <<>> /\ Head(s).kind = "from_le" /\ val' = [val EXCEPT ![c] = u]
      /\ todo' = [todo EXCEPT ![c] = Tail(s)]
      /\ env' = env /\ acc' = acc /\ mem' = mem /\ dirty' = dirty /\ fault' = fault /\ pc' = pc /\ held' = held
  BY DEF Convert, At
<1>3. fault[c] = None /\ a.kind # "idle" /\ a.kind # "pages" /\ Rest(a, c, s, val[c], mem, dirty)
  <2>1. Head(todo[c]).kind # "check"
    BY <1>2
  <2> QED
    BY <1>2, <2>1, ActingRest
<1>4. Tail(s) \in Seq(Ops)
  BY <1>1, <1>2, TailElements
<1> HIDE DEF s
<1>5. Rest(a, c, Tail(s), u, mem, dirty) /\ DOMAIN u = 0..(a.len - 1)
  BY <1>1, <1>2, <1>3, ConvertStep
<1> HIDE DEF u
<1>6. /\ todo'[c] = Tail(s) /\ val'[c] = u
      /\ \A d \in Cpus \ {c} : todo'[d] = todo[d] /\ val'[d] = val[d]
  BY <1>1, <1>2 DEF Types
<1>7. Rest(acc[c], c, todo'[c], val'[c], mem', dirty')
  BY <1>2, <1>5, <1>6
<1>8. Progress(acc[c], c, pc'[c], fault'[c], todo'[c], val'[c], mem', dirty')
  BY <1>2, <1>3, <1>7 DEF Progress
<1>9. Frame(c)
  BY <1>2, <1>6 DEF Frame
<1>10. Types'
  BY <1>1, <1>2, <1>4, <1>5 DEF Types
<1>11. Memory(mem')
  BY <1>1, <1>2
<1> QED
  BY <1>8, <1>9, <1>10, <1>11, StepState

\* A step that only moves CPU c on.
LEMMA PcState ==
    ASSUME State, GoodEnv, acc \in [Cpus -> Accesses], NEW c \in Cpus,
           pc \in [Cpus -> {"start", "run", "copy", "done"}], NEW p, pc' = [pc EXCEPT ![c] = p],
           UNCHANGED <<env, acc, mem, dirty, todo, val, held, fault>>,
           Progress(acc[c], c, p, fault[c], todo[c], val[c], mem, dirty)
    PROVE  State'
<1>1. Types /\ Memory(mem)
  BY StateOf
<1>2. pc'[c] = p /\ \A d \in Cpus \ {c} : pc'[d] = pc[d]
  OBVIOUS
<1>3. Progress(acc[c], c, pc'[c], fault'[c], todo'[c], val'[c], mem', dirty')
  BY <1>2
<1>4. Frame(c)
  BY <1>2 DEF Frame
<1>5. Types'
  BY <1>1 DEF Types
<1>6. Memory(mem')
  BY <1>1
<1> QED
  BY <1>3, <1>4, <1>5, <1>6, StepState

LEMMA StartCopyState ==
    ASSUME State, GoodEnv, acc \in [Cpus -> Accesses], NEW c \in Cpus,
           pc \in [Cpus -> {"start", "run", "copy", "done"}], StartCopy(c)
    PROVE  State'
<1>1. /\ pc[c] = "run" /\ todo[c] # <<>> /\ Head(todo[c]).kind # "check" /\ pc' = [pc EXCEPT ![c] = "copy"]
      /\ UNCHANGED <<env, acc, mem, dirty, todo, val, held, fault>>
  BY DEF StartCopy, At
<1>2. fault[c] = None /\ acc[c].kind # "idle" /\ Rest(acc[c], c, todo[c], val[c], mem, dirty)
  BY <1>1, ActingRest
<1>3. Progress(acc[c], c, "copy", fault[c], todo[c], val[c], mem, dirty)
  BY <1>2 DEF Progress
<1> QED
  BY <1>1, <1>3, PcState

LEMMA FinishState ==
    ASSUME State, GoodEnv, acc \in [Cpus -> Accesses], NEW c \in Cpus,
           pc \in [Cpus -> {"start", "run", "copy", "done"}], Finish(c)
    PROVE  State'
<1> DEFINE s == todo[c]
           a == acc[c]
<1>1. /\ pc[c] = "run" /\ s = <<>> /\ pc' = [pc EXCEPT ![c] = "done"]
      /\ UNCHANGED <<env, acc, mem, dirty, todo, val, held, fault>>
  BY DEF Finish
<1>2. a \in Accesses /\ s \in Seq(Ops) /\ Progress(a, c, pc[c], fault[c], s, val[c], mem, dirty)
  BY StateOf
<1>3. Fresh(a, c, s, val[c], mem, dirty) => Rest(a, c, s, val[c], mem, dirty)
  <2> HIDE DEF s
  <2> SUFFICES ASSUME Fresh(a, c, s, val[c], mem, dirty)
               PROVE  Rest(a, c, s, val[c], mem, dirty)
    OBVIOUS
  <2>1. Planned(a, s) /\ val[c] = FirstValue(a, c)
    BY DEF Fresh
  <2>2. Allowed(a) /\ Body(a, s)
    BY <1>1, <1>2, <2>1, PlannedActs
  <2>3. Rest(a, c, s, FirstValue(a, c), mem, dirty)
    BY <1>2, <2>2, FreshRest
  <2> QED
    BY <2>1, <2>3
<1> HIDE DEF s
<1>4. Progress(a, c, "done", fault[c], s, val[c], mem, dirty)
  BY <1>1, <1>2, <1>3, Zenon DEF Progress
<1> QED
  BY <1>1, <1>4, PcState DEF s

LEMMA StateInit == Init => State
<1> SUFFICES ASSUME Init
             PROVE  State
  OBVIOUS
<1>1. /\ mem = [h \in HostBytes |-> InitialByte(h)] /\ dirty = [f \in Frames |-> {}]
      /\ pc = [c \in Cpus |-> IF acc[c].kind = "idle" THEN "done" ELSE "start"]
      /\ todo = [c \in Cpus |-> <<>>] /\ held = [c \in Cpus |-> {}] /\ fault = [c \in Cpus |-> None]
      /\ val = [c \in Cpus |-> FirstValue(acc[c], c)]
  BY DEF Init, FirstValue
<1>2. Memory(mem)
  BY <1>1 DEF Memory, Legit
<1>3. \A c \in Cpus : Clean(c, mem, dirty)
  BY <1>1, AccessAssumption DEF Clean, InitialByte, Nobody
<1>4. \A c \in Cpus : DOMAIN val[c] = 0..(acc[c].len - 1)
  BY <1>1 DEF FirstValue
<1>5. \A c \in Cpus : Progress(acc[c], c, pc[c], fault[c], todo[c], val[c], mem, dirty)
  BY <1>1, <1>3 DEF Progress
<1>6. todo \in [Cpus -> Seq(Ops)]
  BY <1>1
<1> QED
  BY <1>1, <1>2, <1>4, <1>5, <1>6 DEF State

LEMMA StateNext == State /\ Inv /\ [Next]_vars => State'
<1> SUFFICES ASSUME State, Inv, [Next]_vars
             PROVE  State'
  OBVIOUS
<1>1. CASE UNCHANGED vars
  <2>1. /\ env' = env /\ acc' = acc /\ mem' = mem /\ dirty' = dirty /\ pc' = pc /\ todo' = todo
        /\ val' = val /\ held' = held /\ fault' = fault
    BY <1>1 DEF vars
  <2>2. Memory(mem)'
    BY <2>1, Stable DEF State
  <2>3. ASSUME NEW d \in Cpus
        PROVE  Progress(acc[d], d, pc[d], fault[d], todo[d], val[d], mem, dirty)'
    <3>1. Progress(acc[d], d, pc[d], fault[d], todo[d], val[d], mem, dirty)
      BY DEF State
    <3> QED
      BY <2>1, <3>1, Stable
  <2> QED
    BY <2>1, <2>2, <2>3 DEF State
<1>2. CASE Next
  <2>1. /\ GoodEnv /\ acc \in [Cpus -> Accesses]
        /\ \A c \in Cpus : acc[c].kind \in {"scalar", "inline", "fetch"} => Scalar(acc[c])
        /\ pc \in [Cpus -> {"start", "run", "copy", "done"}]
    BY ScenarioFacts DEF Inv
  <2>2. PICK c \in Cpus : Step(c)
    BY <1>2 DEF Next
  <2>3. CASE Begin(c)
    BY <2>1, <2>3, BeginState
  <2>4. CASE RunChecks(c)
    BY <2>1, <2>4, RunChecksState
  <2>5. CASE AtomicPart(c)
    <3>1. pc[c] \in {"run", "copy"} /\ todo[c] # <<>> /\ Head(todo[c]).kind = "part" /\ DoPart(c) /\ pc' = pc
      BY <2>5 DEF AtomicPart, At
    <3> QED
      BY <2>1, <3>1, DoPartState
  <2>6. CASE Lock(c)
    BY <2>1, <2>6, LockState
  <2>7. CASE StartCopy(c)
    BY <2>1, <2>7, StartCopyState
  <2>8. CASE EndCopy(c)
    <3>1. pc[c] \in {"run", "copy"} /\ DoPart(c) /\ pc' = [pc EXCEPT ![c] = "run"] /\ pc[c] = "copy"
      BY <2>8 DEF EndCopy
    <3>2. todo[c] # <<>> /\ Head(todo[c]).kind = "part"
      BY <3>1 DEF Inv, Locked, Copying
    <3> QED
      BY <2>1, <3>1, <3>2, DoPartState
  <2>9. CASE MarkDirty(c)
    BY <2>1, <2>9, MarkDirtyState
  <2>10. CASE Convert(c)
    BY <2>1, <2>10, ConvertState
  <2>11. CASE Finish(c)
    BY <2>1, <2>11, FinishState
  <2> QED
    BY <2>2, <2>3, <2>4, <2>5, <2>6, <2>7, <2>8, <2>9, <2>10, <2>11 DEF Step
<1> QED
  BY <1>1, <1>2

\* State is an invariant of the specification: what is left of an access covers
\* exactly the bytes it has not loaded or stored yet.
THEOREM StateInvariance == Spec => [](Inv /\ State)
<1>1. Spec => []Inv
  BY Invariance
<1>2. Init => State
  BY StateInit
<1>3. State /\ Inv /\ [Next]_vars => State'
  BY StateNext
<1> QED
  BY <1>1, <1>2, <1>3, PTL DEF Spec

\* An access that has returned without a fault has nothing left to do.
LEMMA ReturnedRest ==
    ASSUME State, acc \in [Cpus -> Accesses], NEW c \in Cpus, Succeeded(c), acc[c].kind # "idle"
    PROVE  todo[c] = <<>> /\ Rest(acc[c], c, todo[c], val[c], mem, dirty)
<1>1. acc[c] \in Accesses /\ Progress(acc[c], c, pc[c], fault[c], todo[c], val[c], mem, dirty)
  BY StateOf
<1>2. pc[c] = "done" /\ fault[c] = None
  BY DEF Succeeded, Done
<1>3. ~Failed(acc[c], c, todo[c], mem, dirty, fault[c])
  BY <1>1, <1>2, ExplainsType DEF Failed
<1> QED
  BY <1>1, <1>2, <1>3 DEF Progress

\* Byte k of an access that has returned.
LEMMA NothingCovered ==
    ASSUME NEW a, NEW s, s = <<>>, NEW k
    PROVE  ~Covered(a, s, k) /\ Slot(a, s, k) = k
<1>1. Len(s) = 0
  OBVIOUS
<1>2. ~Native(s)
  BY DEF Native
<1> QED
  BY <1>1, <1>2 DEF Covered, Slot

\* The bytes of a guest access land where the table says, whatever its length, its
\* alignment, the pages it crosses, the build and the byte order of the host, and
\* while any other CPUs access the same bytes.
THEOREM BytesAlwaysInPlace == Spec => []BytesInPlace
<1>1. Inv /\ State => BytesInPlace
  <2> SUFFICES ASSUME Inv, State
               PROVE  BytesInPlace
    OBVIOUS
  <2>1. acc \in [Cpus -> Accesses] /\ pc \in [Cpus -> {"start", "run", "copy", "done"}]
    BY ScenarioFacts DEF Inv
  <2>2. TypeOK
    BY <2>1 DEF TypeOK, State, Memory
  <2>3. \A h \in HostBytes : Legit(mem[h], h)
    BY DEF State, Memory
  <2>4. ASSUME NEW c \in Cpus, Succeeded(c), acc[c].kind \notin {"pages", "idle"},
               NEW v \in Touched(acc[c])
        PROVE  IF IsStore(c) THEN mem[HostOf(v)] # InitialByte(HostOf(v))
                             ELSE Legit(val[c][v - acc[c].vaddr], HostOf(v))
    <3> DEFINE a == acc[c]
               s == todo[c]
               k == v - a.vaddr
    <3>1. s = <<>> /\ Rest(a, c, s, val[c], mem, dirty)
      BY <2>1, <2>4, ReturnedRest
    <3>2. a.vaddr \in Int /\ a.len \in Int /\ v \in Int
      BY <2>1, EndOfRange DEF Touched
    <3>3. k \in 0..(a.len - 1) /\ a.vaddr + k = v
      BY <3>2 DEF Touched
    <3>4. a.op \in {"load", "store"}
      BY <2>1 DEF Accesses
    <3> HIDE DEF s, k
    <3>5. ~Covered(a, s, k) /\ Slot(a, s, k) = k
      BY <3>1, NothingCovered
    <3>6. CASE a.op = "store"
      <4>1. Stored(a, s, mem)
        BY <2>4, <3>1, <3>6 DEF Rest
      <4>2. mem[HostOf(a.vaddr + k)] # InitialByte(HostOf(a.vaddr + k))
        BY <3>3, <3>5, <4>1 DEF Stored
      <4> QED
        BY <3>3, <3>6, <4>2 DEF IsStore
    <3>7. CASE a.op = "load"
      <4>1. Loaded(a, s, val[c])
        BY <2>4, <3>1, <3>7 DEF Rest
      <4>2. Legit(val[c][k], HostOf(a.vaddr + k))
        BY <3>3, <3>5, <4>1 DEF Loaded
      <4> QED
        BY <3>3, <3>7, <4>2 DEF IsStore, k
    <3> QED
      BY <3>4, <3>6, <3>7
  <2> QED
    BY <2>2, <2>3, <2>4 DEF BytesInPlace
<1> QED
  BY <1>1, StateInvariance, PTL

\* The pages of a range of the table operations are the pages of its bytes.
LEMMA WholePages ==
    ASSUME NEW a \in Accesses, a.kind = "pages", Allowed(a)
    PROVE  iter(a) = {PageOf(v) : v \in Touched(a)}
<1> DEFINE first == PageOf(a.vaddr)
           n == a.len \div PAGE_SIZE
<1>1. /\ PAGE_SIZE \in Nat \ {0} /\ Space \in Nat \ {0} /\ TopAddr = Space - 1
      /\ a.vaddr \in Int /\ a.len \in Int /\ 0 <= a.len
  BY EndOfRange, Sizes DEF Accesses
<1>2. a.vaddr + a.len <= Space /\ a.vaddr % PAGE_SIZE = 0 /\ a.len % PAGE_SIZE = 0
  BY <1>1 DEF Allowed, Beyond, Misaligned
<1>3. first \in Int /\ a.vaddr = PAGE_SIZE * first
  <2>1. first \in Int /\ a.vaddr = PAGE_SIZE * first + Offset(a.vaddr)
    BY <1>1, PageParts
  <2>2. Offset(a.vaddr) = 0
    BY <1>2 DEF Offset
  <2> HIDE DEF first
  <2> QED
    BY <1>1, <2>1, <2>2
<1>4. n \in Int /\ a.len = PAGE_SIZE * n
  <2>1. n \in Int /\ a.len = PAGE_SIZE * n + (a.len % PAGE_SIZE)
    BY <1>1, DivMod
  <2> HIDE DEF n
  <2> QED
    BY <1>1, <1>2, <2>1
<1>5. iter(a) = first..(first + n - 1)
  BY DEF iter
<1>6. Touched(a) = a.vaddr..(a.vaddr + a.len - 1)
  BY <1>1, <1>2 DEF Touched
<1> DEFINE end == PAGE_SIZE * (first + n)
<1>7. end \in Int /\ a.vaddr + a.len = end
  BY <1>1, <1>3, <1>4
<1> HIDE DEF first, n
<1>8. ASSUME NEW v \in Touched(a)
      PROVE  PageOf(v) \in iter(a)
  <2>1. v \in Int /\ PAGE_SIZE * first <= v /\ v < end
    BY <1>1, <1>3, <1>6, <1>7
  <2> DEFINE page == PageOf(v)
  <2>2. /\ page \in Int /\ Offset(v) \in Int /\ 0 <= Offset(v) /\ Offset(v) < PAGE_SIZE
        /\ v = PAGE_SIZE * page + Offset(v)
    BY <2>1, PageParts
  <2> HIDE DEF page
  <2>3. ASSUME page < first
        PROVE  FALSE
    <3>1. PAGE_SIZE * (page + 1) <= PAGE_SIZE * first
      BY <1>1, <1>3, <2>2, <2>3, MulMono
    <3>2. PAGE_SIZE * (page + 1) = PAGE_SIZE * page + PAGE_SIZE
      BY <1>1, <2>2
    <3>3. PAGE_SIZE * page \in Int /\ PAGE_SIZE * first \in Int
      BY <1>1, <1>3, <2>2
    <3> DEFINE base == PAGE_SIZE * page
               start == PAGE_SIZE * first
    <3>4. base + PAGE_SIZE <= start /\ v = base + Offset(v) /\ start <= v /\ base \in Int /\ start \in Int
      BY <2>1, <2>2, <3>1, <3>2, <3>3
    <3> HIDE DEF base, start
    <3> QED
      BY <1>1, <2>1, <2>2, <3>4
  <2>4. ASSUME page >= first + n
        PROVE  FALSE
    <3>1. PAGE_SIZE * (first + n) <= PAGE_SIZE * page
      BY <1>1, <1>3, <1>4, <2>2, <2>4, MulMono
    <3> QED
      BY <1>1, <1>7, <2>1, <2>2, <3>1
  <2>5. page \in first..(first + n - 1)
    BY <1>3, <1>4, <2>2, <2>3, <2>4
  <2> QED
    BY <1>5, <2>5 DEF page
<1>9. ASSUME NEW page \in iter(a)
      PROVE  \E v \in Touched(a) : page = PageOf(v)
  <2>1. page \in Int /\ first <= page /\ page + 1 <= first + n
    BY <1>3, <1>4, <1>5
  <2> DEFINE v == PAGE_SIZE * page
  <2>2. PAGE_SIZE * first <= PAGE_SIZE * page
    BY <1>1, <1>3, <2>1, MulMono
  <2>3. PAGE_SIZE * (page + 1) <= PAGE_SIZE * (first + n)
    BY <1>1, <1>3, <1>4, <2>1, MulMono
  <2>4. PAGE_SIZE * (page + 1) = v + PAGE_SIZE /\ v \in Int
    BY <1>1, <2>1
  <2>5. v \in Touched(a)
    BY <1>1, <1>3, <1>6, <1>7, <2>2, <2>3, <2>4
  <2>6. page = PageOf(v)
    BY <1>1, <2>1, <2>4, PageAt
  <2> QED
    BY <2>5, <2>6
<1> QED
  BY <1>8, <1>9

\* An access faults exactly when it should and at an address that explains it, having
\* changed nothing, and a table operation takes the pages of its range: for every
\* table, length and alignment, up to the last byte of the address space.
THEOREM RefusalsAlwaysExact == Spec => []RefusalsExact
<1>1. Inv /\ State => RefusalsExact
  <2> SUFFICES ASSUME Inv, State
               PROVE  RefusalsExact
    OBVIOUS
  <2>1. acc \in [Cpus -> Accesses]
    BY ScenarioFacts DEF Inv
  <2>2. FaultsExactly
    <3> SUFFICES ASSUME NEW c \in Cpus, Done(c), acc[c].kind # "idle"
                 PROVE  IF {v \in Touched(acc[c]) : Refused(acc[c], v)} = {} /\ ~Beyond(acc[c]) /\ ~Misaligned(acc[c])
                        THEN fault[c] = None
                        ELSE \/ Beyond(acc[c]) /\ fault[c] = TopAddr
                             \/ Misaligned(acc[c]) /\ fault[c] = acc[c].vaddr
                             \/ \E v \in {v \in Touched(acc[c]) : Refused(acc[c], v)} :
                                    fault[c] = ReportedAddress(acc[c], v)
      BY DEF FaultsExactly
    <3>1. Progress(acc[c], c, pc[c], fault[c], todo[c], val[c], mem, dirty)
      BY <2>1, StateOf
    <3>2. (fault[c] = None /\ Allowed(acc[c])) \/ Explains(acc[c], fault[c])
      BY <3>1 DEF Progress, Done, Rest, Failed
    <3> QED
      BY <3>2 DEF Allowed, Explains
  <2>3. PagesExact
    <3> SUFFICES ASSUME NEW c \in Cpus, Succeeded(c), acc[c].kind = "pages"
                 PROVE  iter(acc[c]) = {PageOf(v) : v \in Touched(acc[c])}
      BY DEF PagesExact
    <3>1. Rest(acc[c], c, todo[c], val[c], mem, dirty)
      BY <2>1, ReturnedRest
    <3>2. Allowed(acc[c])
      BY <3>1 DEF Rest
    <3> QED
      BY <2>1, <3>2, WholePages
  <2>4. FaultsChangeNothing
    <3> SUFFICES ASSUME NEW c \in Cpus, fault[c] # None
                 PROVE  Clean(c, mem, dirty)
      BY DEF FaultsChangeNothing, Clean
    <3>1. Progress(acc[c], c, pc[c], fault[c], todo[c], val[c], mem, dirty)
      BY <2>1, StateOf
    <3> QED
      BY <3>1 DEF Progress, Failed
  <2> QED
    BY <2>2, <2>3, <2>4 DEF RefusalsExact
<1> QED
  BY <1>1, StateInvariance, PTL

\* A store that returned has marked every page it wrote that has to be tracked.
MarkedOnReturn ==
    \A c \in {c \in Cpus : Succeeded(c) /\ IsStore(c) /\ acc[c].kind \notin {"pages", "idle"}} :
        \A v \in Touched(acc[c]) : Flags(PageOf(v)) \cap MUST_DIRTY # {} =>
            c \in dirty[env.frame[PageOf(v)]]

\* No page that a store has changed misses its dirty mark when the store returns,
\* whether it went to one page or to many, and on the inlined path as well.
THEOREM StoresMarked == Spec => []MarkedOnReturn
<1>1. Inv /\ State => MarkedOnReturn
  <2> SUFFICES ASSUME Inv, State, NEW c \in Cpus, Succeeded(c), IsStore(c),
                      acc[c].kind \notin {"pages", "idle"}, NEW v \in Touched(acc[c]),
                      Flags(PageOf(v)) \cap MUST_DIRTY # {}
               PROVE  c \in dirty[env.frame[PageOf(v)]]
    BY DEF MarkedOnReturn
  <2> DEFINE a == acc[c]
             s == todo[c]
             k == v - a.vaddr
  <2>1. acc \in [Cpus -> Accesses]
    BY ScenarioFacts DEF Inv
  <2>2. s = <<>> /\ Rest(a, c, s, val[c], mem, dirty)
    BY <2>1, ReturnedRest
  <2>3. a.vaddr \in Int /\ a.len \in Int /\ v \in Int
    BY <2>1, EndOfRange DEF Touched
  <2>4. k \in 0..(a.len - 1) /\ a.vaddr + k = v
    BY <2>3 DEF Touched
  <2>5. a.op = "store" /\ MustMark(a, v)
    BY DEF IsStore, MustMark
  <2>6. Len(s) = 0
    BY <2>2
  <2> HIDE DEF s, k
  <2>7. Marked(a, c, s, dirty)
    BY <2>2, <2>5 DEF Rest
  <2> QED
    BY <2>4, <2>5, <2>6, <2>7 DEF Marked
<1> QED
  BY <1>1, StateInvariance, PTL
=============================================================================

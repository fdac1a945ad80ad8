-------------------------------- MODULE MemOps --------------------------------
(***************************************************************************)
(* The memory operations on shared host pages (io-mmu memops.rs) as the     *)
(* micro-operations a guest access is made of.  The production back end     *)
(* takes an access apart into naturally aligned atomic accesses; the back   *)
(* end used under Miri copies it under the locks of the cache lines it      *)
(* covers.                                                                  *)
(*                                                                          *)
(* A value of n bytes is a function from 0..n-1, the least significant byte *)
(* first.  Bytes are opaque: where a byte ends up is all that matters.      *)
(***************************************************************************)
EXTENDS Integers, Sequences, FiniteSets, SequencesExt

CONSTANTS
    CACHE_LINE_SIZE,      \* bytes per lock of the Miri back end
    SHARDED_LOCK_COUNT,
    CHUNK_SIZE            \* size_of::<BulkMemChunk>()

ASSUME MemOpsAssumption ==
    /\ CACHE_LINE_SIZE \in Nat \ {0} /\ CHUNK_SIZE \in Nat \ {0}
    /\ SHARDED_LOCK_COUNT \in Nat /\ SHARDED_LOCK_COUNT > 1

Smaller(m, n) == IF m <= n THEN m ELSE n

----------------------------------------------------------------------------
(* Values                                                                    *)

ZeroByte == <<-1, 0>>
Clash == <<-2, 0>>        \* two bytes or-ed into one place

Shl(v, total, n) ==
    [i \in 0..(total - 1) |-> IF i - n \in DOMAIN v THEN v[i - n] ELSE ZeroByte]

Or(v, w) ==
    [i \in DOMAIN v |-> IF v[i] = ZeroByte THEN w[i]
                        ELSE IF w[i] = ZeroByte THEN v[i] ELSE Clash]

\* swap_bytes
Swapped(v) == [i \in DOMAIN v |-> v[Cardinality(DOMAIN v) - 1 - i]]

\* from_le and to_le on a host that is big-endian or not
from_le(big, v) == IF big THEN Swapped(v) ELSE v

\* Mutant: the shift of a little-endian host on every host.
MutShiftLittle(big, offset, width, total) == offset

\* ne_part_shift, in bytes
ne_part_shift(big, offset, width, total) ==
    IF big THEN total - offset - width ELSE offset

----------------------------------------------------------------------------
(* One part of an access: `width` bytes at host address `at`, `shift` bytes  *)
(* up in the value.  With `le` the part itself is little-endian, otherwise   *)
(* it is native and the assembled value is converted.  `shards` are the      *)
(* locks to take, in order.                                                  *)

Part(at, width, shift, le, shards) ==
    [kind |-> "part", at |-> at, width |-> width, shift |-> shift, le |-> le, shards |-> shards]

\* Mutant: a double word is always taken as two words.
MutHalves(total, remainder) ==
    CASE total = 8 -> <<4, 4>>
      [] total = 4 /\ remainder # 0 -> <<1, 2, 1>>
      [] total = 2 /\ remainder # 0 -> <<1, 1>>
      [] OTHER -> <<total>>

\* the case tables of make_unaligned_ne_access
part_widths(total, remainder) ==
    CASE remainder = 0 -> <<total>>
      [] total = 8 /\ remainder = 4 -> <<4, 4>>
      [] total = 8 /\ remainder \in {2, 6} -> <<2, 4, 2>>
      [] total = 8 /\ remainder \in {1, 5} -> <<1, 2, 4, 1>>
      [] total = 8 /\ remainder \in {3, 7} -> <<1, 4, 2, 1>>
      [] total = 4 /\ remainder = 2 -> <<2, 2>>
      [] total = 4 /\ remainder \in {1, 3} -> <<1, 2, 1>>
      [] total = 2 /\ remainder = 1 -> <<1, 1>>

\* combine_ne_parts and split_ne_parts: parts in address order, at running offsets
ne_parts(big, at, total) ==
    LET ws == part_widths(total, at % total)
        offset[i \in 1..Len(ws)] == IF i = 1 THEN 0 ELSE offset[i - 1] + ws[i - 1]
    IN  [i \in 1..Len(ws) |->
            Part(at + offset[i], ws[i], ne_part_shift(big, offset[i], ws[i], total), FALSE, <<>>)]

\* bulk_byte_chunk_copy: bytes up to the alignment, whole chunks, bytes
bulk_parts(at, count, shift) ==
    LET prefix == Smaller((-at) % CHUNK_SIZE, count)
        chunks == (count - prefix) \div CHUNK_SIZE
        mid_end == prefix + chunks * CHUNK_SIZE
        byte(i) == Part(at + i, 1, shift + i, TRUE, <<>>)
        chunk(j) == Part(at + prefix + j * CHUNK_SIZE, CHUNK_SIZE,
                         shift + prefix + j * CHUNK_SIZE, TRUE, <<>>)
    IN  [i \in 1..prefix |-> byte(i - 1)]
          \o [j \in 1..chunks |-> chunk(j - 1)]
          \o [i \in 1..(count - mid_end) |-> byte(mid_end + i - 1)]

----------------------------------------------------------------------------
(* The locks of the Miri back end                                            *)

Shards == 0..(SHARDED_LOCK_COUNT - 1)
shard_of(line) == line % SHARDED_LOCK_COUNT
line_of(addr) == addr \div CACHE_LINE_SIZE

\* Mutant: the locks are taken in the order of the lines.
MutLineOrder(i, j) == <<i, j>>

ascending(i, j) == IF i < j THEN <<i, j>> ELSE <<j, i>>

\* Mutant: only the line of the first byte is locked.
MutFirstLineOnly(at, width) == <<shard_of(line_of(at))>>

\* get_cache_line_unaligned, which is get_cache_line_aligned for aligned accesses
get_cache_line_unaligned(at, width) ==
    LET i == line_of(at)
        j == line_of(at + width - 1)
    IN  IF i = j THEN <<shard_of(i)>> ELSE ascending(shard_of(i), shard_of(j))

RangeSeq(first, last) == [i \in 1..(last - first + 1) |-> first + i - 1]

\* the lock plan of bulk_mem_op
bulk_shards(at, count) ==
    LET first == line_of(at)
        last == line_of(at + count - 1)
        first_shard == shard_of(first)
        last_shard == shard_of(last)
    IN  CASE last - first + 1 >= SHARDED_LOCK_COUNT -> RangeSeq(0, SHARDED_LOCK_COUNT - 1)
          [] last - first + 1 < SHARDED_LOCK_COUNT /\ first_shard <= last_shard ->
                RangeSeq(first_shard, last_shard)
          [] OTHER -> RangeSeq(0, last_shard) \o RangeSeq(first_shard, SHARDED_LOCK_COUNT - 1)

----------------------------------------------------------------------------
(* What the functions of the module do in either build                       *)

\* load_le, store_le and their aligned forms, load_byte and store_byte
scalar_parts(build, big, at, total) ==
    IF build = "miri"
    THEN <<Part(at, total, 0, FALSE, get_cache_line_unaligned(at, total))>>
    ELSE ne_parts(big, at, total)

\* an aligned little-endian load that lands `shift` bytes up in the result, or
\* down if it is negative
le_part(build, at, total, shift) ==
    Part(at, total, shift, TRUE,
         IF build = "miri" THEN get_cache_line_unaligned(at, total) ELSE <<>>)

\* copy_nonoverlapping_vm_to_host and copy_nonoverlapping_host_to_vm
copy_parts(build, at, count, shift) ==
    IF build = "miri"
    THEN <<Part(at, count, shift, TRUE, bulk_shards(at, count))>>
    ELSE bulk_parts(at, count, shift)
=============================================================================

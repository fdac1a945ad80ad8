# Verification of rapid-arm-emu

TLA+ specifications, TLC configurations and TLAPS proofs for the emulator
workspace under `src/` (`emu-abi`, `io-mmu`, `jit-compiler-core`,
`rapid-arm-emu`, `code-generator`). Paths below are relative to `src/`.

## 1. The system and its parts

| part | source | state it keeps | operations |
|---|---|---|---|
| Object manager | `io-mmu/src/cpu_fabric/object_manager.rs` | bounded queue with one entry per slot, a pointer-keyed index with a moving base, two condition variables, `closed` | `enqueue_init`, `enqueue_flush`, worker loop, `close`, `drop` |
| Exclusive monitor | `io-mmu/src/cpu_fabric/exclusive_monitor.rs`, `jit-compiler-core/src/ir/ffi_support.rs` | 257 hashed buckets (pointer, version), one reservation per CPU context | `ldrex`, `strex`, `clrex`, plain stores |
| Cpu fabric | `io-mmu/src/cpu_fabric/mod.rs` | the monitor and the manager behind an `Arc` | create, clone, weak upgrade, drop |
| Page table | `io-mmu/src/page_table.rs` | hash map from page numbers to entries, reference-counted page sources, slots of memory objects | map, unmap, modify, get, fork, flush, fault-in |
| IoMMU | `io-mmu/src/lib.rs`, `io-mmu/src/memops.rs` | a page table, an identifier per table state, the fabric | map, unmap, protect, fork, load/store, fetch, flush, refresh, fault-in |
| Memory objects | `io-mmu/src/memory_object/` | the backing store of a page (a file, a device) | `fault_in`, `fault_in_exclusive`, `fault_out` |
| TLB and lookup caches | `emu-abi/src/memory.rs`, `io-mmu/src/lookup_cache.rs`, `io-mmu/src/icache.rs` | direct-mapped entries tagged with the IoMMU identifier | lookup, refill |
| Memory operations | `io-mmu/src/memops.rs` | host pages; under Miri a table of sharded locks | aligned atomic parts of a scalar, chunked copies |
| Halt reason and CPU core | `emu-abi/src/halt_reason.rs`, `rapid-arm-emu/src/armv9/` | one atomic 32-bit word per core, the `executing` lock | `halt`, `take`, `try_signal_sync`, `resume` |
| Execution context | `jit-compiler-core/src/exec_context.rs`, `io-mmu/src/fault.rs` | pending memory fault with its owned bus error, reservation | `set_fault`, `take_memory_fault` |
| IR builder | `jit-compiler-core/src/ir/mod.rs` | blocks, statements, typed SSA values, a terminator per block | the value operations, `vm_load`, `vm_store`, `next_insn`, `terminate`, `build` |
| Halt-check pass | `jit-compiler-core/src/ir/halt_check_pass.rs` | flow graph, strongly connected components, a countdown per edge | validation, insertion of halt checks, block splits; then the topological block order |
| Back ends | `jit-compiler-core/src/compiler/` | code of Cranelift and libgccjit (LLVM is a stub) | lowering of statements and terminators |
| Arena, chunks | `jit-compiler-core/src/arena.rs`, `chunk.rs` | typed index arenas, a compiled function | alloc, get, `call` |
| Address space | `rapid-arm-emu/src/address_space.rs` | mostly commented out | - |
| Code generator | `code-generator/src/` | parsed Arm XML | offline generation |

Interaction: the IR builder turns guest instructions into blocks, the halt-check
pass inserts the checks, a back end compiles them into a chunk. `resume` takes a
pending halt reason, serves it or calls a chunk. Compiled code loads and stores
in line where the TLB hits and the access is aligned, and otherwise calls the
helpers of `ffi_support.rs` with an `IoMMU`, a `Tlb` and an `ExecContext`. The
`IoMMU` resolves the address through the TLB or the page table; pages of memory
objects are faulted in and written back by the fabric's object manager, whose
worker thread publishes the page in the slot's once-cell and calls back.
Exclusive accesses go through the fabric's monitor, which all CPUs share. A fault
leaves compiled code through the slot in the `ExecContext` and the returned halt
reason. A halt request of another thread meets the running CPU in one atomic word.

Hard behaviours: callers, worker and `drop` interleave around one lock and two
condition variables; requests for a slot coalesce in the queue; allocations are
reused under a map keyed by address; reservations alias in buckets; plain
stores bypass the monitor; dirty and queued flags race with the write-back;
cached translations outlive changes of the table they came from; a request to
halt arrives between a check and what the chunk does about it; accesses of
several CPUs meet in parts; merges of lopsided paths have to keep the countdown
of the halt checks; the two back ends have to agree with the documented meaning
of an operation at the edges of its operands.

## 2. Modules

* `ObjectManager`: one action per critical section of the queue lock, per
  notification made after an unlock, and per step of the worker's task. A client
  is a thread inside `Inner::enqueue` and the `recv()` on its callback's channel
  (`pc`: `lock` = about to take the lock, `wait` = on the condvar `dequeued`,
  `notify` = lock released, `recv` = waiting for the answer). A slot is an
  allocation of `Arc<ObjectSlot>`; `alive` says whether a page table holds a
  strong reference, so `MapSlot` can reuse an allocation once neither queue nor
  worker refers to it. `panic_abort!` and failed `AbortGuard` assertions set
  `aborted`. `written` is a history variable for the properties.
* `ObjectService`: the promise to the page tables, without queue or threads: one
  answer per request with a callback, and a success only when it is true.
* `ObjectManagerProofs`: the theorems about them.
* `ExclusiveMonitor`: buckets, versions and reservations; memory byte by byte,
  so that accesses of different widths overlap. A reservation holds the loaded
  value by offset, as the code holds an integer: a `strex` to another address
  compares it with what is there. The hash is a constant function of the cache
  line. `from` and `changed` are history variables.
* `ExclusiveMonitorProofs`, `WriteBackProofs`, `CpuCoreProofs`,
  `AddressSpaceProofs`, `AccessProofs`: the theorems about the modules of those
  names; `HaltAnalysisProofs` and, on top of it, `HaltCheckProofs`: the theorems
  about `HaltCheckPass` (section 4).
* `AddressSpace`: the IoMMUs of one fabric with their tables and identifiers, the
  slots of memory objects, host pages and the TLBs. A `&mut self` method is one
  action, since it excludes every other use of its IoMMU; a TLB belongs to one
  CPU. Ownership is computed (`Owners` is `Arc::strong_count`), so a host page, a
  slot or an identifier is free exactly when nothing owns it and may then be
  handed out again. `as_page` gives the tagged pointer of an entry (`EntryFlags`
  follows the code, `flags | self.protections` included), `NoPage` the general
  protection fault. Contents are one value per page; an access touches one page.
  A store that is refused changes only the TLB and is the same step as a `Load`.
  A host page is a `MemoryBackedPage`, the header an `Arc` counts. `External` says
  which headers stand for pages of the caller's memory: `MapExtern` takes new ones
  for consecutive pages, several headers may show one page, and a store through one
  changes them all (`OtherViews`). With `readonly` the entry is write-protected and
  its header has no other owner. `priv` is a history variable: what each private
  mapping has to hold. `FaultIn` is the publication by the object manager, reduced to what
  `ObjectManager` shows of it.
* `WriteBack`: one shared, executable object page. Contents are sets of stores,
  so "does the object have this store" can be asked directly. One action per
  atomic operation: the bytes, `set_dirty`, and the steps of `flush_dyn` (gate
  and load, toggle, invalidate, clear, enqueue). `ICache::invalidate` may panic,
  `fault_out` may miss stores made while it reads, and may fail half way.
  Memory is taken as sequentially consistent; the orderings in the code
  (`Release` in `set_dirty`, `Acquire` at the load) are not examined further.
* `HaltCheckPass`: `ExecIrBuilder::build` on one program, a flow graph whose
  statements are safepoints or not. The recursion of Tarjan's algorithm is a
  stack of activations (`TarjanRun`, `TarjanVisit`, `TarjanReturn`), run once over
  the blocks without safepoint (a cycle among them panics) and once over all.
  Then `SccGraphNew` and `TopoStep` order the components, `DrainIncoming` and the
  `Merge*` actions compute the countdown a component starts with, a merge that is
  too lopsided inserts a compensating check, `ProcessStatement` counts and splits
  the block where a check is due (`insert_after` with the remapped edges and
  statement locations), `FinishBlock` hands the state to the successors.
  Edges come out of a hash set, so their order is a choice. `TopoSortStep` is the
  post-order walk that gives the back ends their block order.
* `IrOps`: one call of the builder, then the run of what it emitted. `Emitted` is
  the statements of the builder, with the type checks that panic (`Accepts`);
  `ClifRvalue` and `GccRvalue` are what each back end makes of a statement, with
  divisions that trap and shifts GCC leaves undefined, and what a back end cannot
  lower ends in the phase `unlowered`; `ExecTerminator` passes
  block parameters at once (Cranelift) or one after the other (GCC). `Meaning`,
  `FlagsMeaning` and `Documented` are written from the documentation of the
  builder and are what the properties compare with. Integers keep their width.
* `CpuCore`: the halt word, `resume` with its lock, a chunk and the fault slot.
  One action per atomic operation of the word: a check loads it, the block that
  leaves the chunk takes it, so requests fall between. The guest program is any
  sequence of instructions with a check at the latest after `HaltCheckEvery`
  safepoints, as `HaltCheckPass` shows. `truth`, `reported`, `owed` and `passed`
  are history variables.
* `MemOps`: operators for `memops.rs`: how a scalar is split into aligned parts,
  where a part goes in the value on hosts of either byte order, the chunks of a
  copy, and the shards a copy locks under Miri. No state of its own.
* `Access` (extends `MemOps`): CPUs that each do one access to one address space.
  `Plan` turns an access into micro-operations in the code's order: checks, parts,
  conversion, dirty marks. The range functions (`get_pages`, `iter`, the
  commit after the copy), scalars within and across pages, `fetch`, and the
  inlined access with its alignment and TLB tests each have an operator. Bytes
  are opaque, each named by who stored it and which of its bytes it is.
* `MC_*`: instances for TLC (symmetry, scenario and loop specifications).

## 3. Runs

PROJECT.json lists them with the properties of each. Several properties are
conjunctions of named parts (`AnswersTruthful`, `HaltChecksSound`,
`AnalysesRight`, `BuilderExact`, `BackEndsAgree`, `FaultSlotSound`,
`RefusalsExact`, `NoTearing`), and the type invariants of `HaltCheckPass`, `IrOps`
and `Access` are checked as parts of `SourcePreserved`, `BuilderExact` and
`BytesInPlace`.

* `om_safety` (2 clients, 3 slots, queue of 2, 3 calls each, 2 table changes):
  the smallest instance in which the base moves without a reset, entries move in
  the deque, callers find the queue full, and an allocation is reused. All safety
  invariants; deadlock is checked.
* `om_live` (3 clients with two calls each about a slot of their own choice in
  `MC_ObjectLive`, queue of 1): accepted requests are answered, close completes,
  refinement. Two callers can wait for room at once here, so wake-ups do get lost;
  what is checked holds all the same.
* `om_lost_wakeup` (the same instance): that every call returns does not hold, see
  findings. A caller whose request is not accepted yet may wait for ever.
* `em_atomic` (2 CPUs; bytes 2, 67 and 131 with widths 1 and 2, where the lines of
  the first two share a bucket and the third has another; versions up to 2): overlap
  of different widths, aliasing lines, stores through an address that was not
  reserved, in the bucket and outside, and values that come back.
* `em_progress`: three CPUs in ldrex/strex loops.
* `as_tlb` (2 address spaces, 2 pages, 3 host pages, 4 identifiers, a TLB of one
  entry so that the pages collide, two protections, private, lazy and object
  mappings, no fork): every reachable
  state of the instance, there is no bound on the number of steps. Three host
  pages make every unmapped page available for reuse at once.
* `as_fork` (`store_force`, the store function that looks at COW only, so every
  private kind can be written; 2 host pages, 2 headers for one external page, 2
  slots, every kind of mapping but shared objects, no TLB): forks, drops and copies
  in any order, again the complete state space. The two headers make two
  `map_extern` of one page. `as_tlb` has no fork and `as_fork`
  no scalar store because the code does not keep the properties there (section 5).
* `wb_protocol` (2 stores, a flusher and a refresher with 2 calls each, failures
  and panics on): flag protocol, dirty bits, stale code, answered flushes, and
  that every flush returns. The queue always has room here. `FlushAnswered` speaks
  of flushes that queue: one that finds a page left clean by a failed write-back
  has nothing to wait for (section 5).
* `jit_pass`: every graph of three blocks with up to two safepoints per block and
  `every` up to 3; all acyclic graphs of four blocks with `every` 4, where merges
  are lopsided enough for a compensating check; loops that can be left without
  passing their safepoints; graphs of seven blocks with `every` 5 and 6, where two
  merges remember the same safepoints, so that the second meets statements the
  first has moved into a continuation. `HaltChecksSound` follows every path of the
  rewritten graph. The pass ends under weak fairness of its steps.
* `jit_ops`: every operation on all pairs of values of widths 3 and 4, with
  operands of every combination of types (Bool, two integers, HostPtr), shift
  amounts up to 9, loops of up to 3 rounds that keep, swap or rotate their
  parameters. Widths 3 and 4 contain every edge: the most negative value, -1, 0,
  amounts at and beyond the width, carries and overflows. `BuilderExact` says that
  the builder panics on exactly what is documented and that a back end fails on
  exactly `Unlowerable`, which the builder lets through. `BackEndsAgree` says nothing
  about `ClifDeparts` and `GccDeparts`. All of these are in section 5.
* `cpu` (2 host threads, 3 kinds of request, 3 requests in all, 2 addresses,
  `HaltCheckEvery` 2, debug assertions on): a request can arrive before, between
  and after the load and the take of a check, and another can overwrite it. The
  bound of `passed` is one more than what the property allows. Clearing the code
  cache does not panic, and the core takes the fault slot after every chunk.
* `access` (pages of 16 bytes in an address space of four of them, page 2
  unmapped except for ranges over three pages, page 3 ending at the top; 3 frames, TLB of 2, cache lines of 8 bytes, 3
  shards, chunks of 8): one CPU alone does every scalar, fetch and inlined access
  and ranges from every address, with three tables and both byte orders; two race
  around the boundary of pages 0 and 1; three meet at the Miri locks, whose shards
  they share in a ring, so that a wrong lock order deadlocks, with an aligned load
  beside an aligned store among them. Readers pass a writer that waits, which
  parking_lot does not let them; the order of the shards is what excludes a ring
  either way. Every access uses
  each branch of the split (`remainder` 0 to 7), the chunk loop with a head and a
  tail, zero to three pages, and the wrap at the top.

Deadlock is checked in `om_safety`, `em_atomic`, `as_*`, `jit_*` (whose ends
stutter) and is never possible in `wb_protocol`, where a translation is always
enabled; the other runs end when the bounded calls, increments, requests or
accesses are used up. `AccessesReturn` says that the latter is the only end.

Bounds (`MaxCalls`, `MaxTableOps`, `MaxVersion`, `MaxRequests`, `MaxImm`,
`MaxTrips`, `MaxEvery`) only limit how often things happen or how large they are.
The invariants of the object manager, the monitor, the write-back and the core are
proved for every value of them.

Fairness: a thread that can run does run (weak fairness of each client's call, of
the worker, of a flush that has begun, of a close that has begun, of a host thread
inside `resume`, of the steps of a CPU's access, of the sequential pass). Nobody
has to call, unmap, close, request or resume. parking_lot's condition variables
wake in FIFO order and not spuriously, which the model takes over.

## 4. Proofs

Every theorem holds for all values of the constants that satisfy the named
`ASSUME`s of the modules, which TLC evaluates too. Each safety theorem comes from
an inductive invariant; each proof has one lemma per action. Where TLC can
enumerate it, the invariant was checked on the instance of the run first; `State` of
the accesses and `SoundInv` of the pass quantify over more than that.

**Object manager** (`ObjectManagerProofs`): `Spec => []IndInv`
for any sets of clients and slots and any queue limit. `IndInv` strengthens the
properties with what they rest on: a client's place determines its request
(`ClientInv`), a queued flush is about a resident page (`QueueInv`, without which
`NeverAborts` is not inductive), a flush callback sits in a flush entry, every
accepted callback is held by an entry or by the task (`HolderInv`), and the
outcome being delivered is true for every callback left (`OutcomeInv`). From it
follow the type invariant, the index, the absence of aborts, and the truth of
answers. `Implements` shows that every step is a step or a stutter of
`ObjectService`.

**Exclusive monitor** (`ExclusiveMonitorProofs`): a reservation expires once
another `strex` wrote a byte of its bucket, through whatever address. Aligned
accesses of at most 8 bytes lie in one cache line, so every byte a `strex` writes is
in the bucket of its pointer, and every store moves that bucket's version.
`StrexAtomic` follows for every `strex` into the bucket of the `ldrex`, at the
reserved address or another; it does not say that a `strex` stores only where its
CPU reserved (finding 7). The type invariant of the
monitor is the other half of the inductive invariant and is not run.

**Write-back** (`WriteBackProofs`): all five invariants of `wb_protocol`, for any
number of stores, flushers, calls, panics and failed write-backs. The flags alone
say too little to be inductive. `GateHeld` and `FlagsLoaded` say who is inside
`flush_dyn` and what its local copies of the flags still promise; `DataOrdered`
orders what has been stored, written and completed; `AnswersAwaited` ties a waiting
`flush` to the queue entry that will answer it; `CodeFlagged` and `PlainKept` tie
each stale translation and each unwritten store to the flag, the holder of the
gate or the queued write-back that will deal with it. `NoStoreLost` and
`CodeNeverStale` assume `Exclusive = {}`: finding 5 shows that a `strex` is not
tracked. `PlainStoresKept` is what is left without that assumption. Proving the
type invariant showed that the type of `code` had been written with the wrong
precedence; it has parentheses now.

**CPU core** (`CpuCoreProofs`): all five invariants of `cpu`, for any
`HaltCheckEvery`, threads, addresses and requests. `Counted` bounds the safepoints
since the last check together with those a pending request has seen, `FlushInHand`
follows a taken flush from the take to `resume`, `SlotFilled` and `SlotTrue` say
what the fault slot holds at each place of a chunk that faulted. `FaultsReported`
assumes `Debug`: without debug assertions an untaken fault can be reported for a
later access (section 5). `BusErrorsOwned` needs no such assumption.

**Address spaces** (`AddressSpaceProofs`): type correctness
for every instance; `TlbAlwaysFaithful` under `~Forking`, because of finding 3. The
argument is about ownership: a TLB entry owns its identifier, so the identifier is
not handed out again while the entry lives, and every change of a table takes a
fresh one. `WritablePagesUnshared` has no hypothesis. Its invariant is `Sharing`:
two mappings show one host page only as copy-on-write views, as shared anonymous
or external memory or through the slot of a shared object, and only copy-on-write
views show the zero page. It is about headers: two `map_extern` of one page have two
(finding 8). `PrivateMemoryIsolated` adds `AllHeld`: a private mapping that shows
a page shows what `priv` says, where a store through another header of the same
external page counts as a store to it. It assumes store functions that respect COW
(`StoreOps` is bulk or forced: finding 2) and either no forks or no TLB
(finding 3); the run `as_fork` is such an instance. The lemmas `*Views` say what
each operation does to the view of a page, the lemmas `*Removes` that unmapping
only takes owners away.

**Accesses** (`AccessProofs`): `BytesAlwaysInPlace`, `RefusalsAlwaysExact` and
`StoresMarked`, for any page size, address space, table, TLB, set of CPUs and
accesses, in both builds and both byte orders. The argument has two halves.

* What a plan is. `PlanPlanned` shows that every plan is a run of checks that pass,
  followed by the body of an access that nothing refuses (`Allowed`, `Body`) or by a
  failing check whose address `Explains` the refusal: it is the `ReportedAddress` of a
  byte that is refused, the top, or the address of a misaligned access. A body `Tiles` the bytes of the
  access: each byte k lies under exactly one part, at the offset where that part's
  host address is the one the table gives to `vaddr + k`, and a store covers nothing
  else; it `Marks` the pages that must be tracked; and it either has only
  little-endian parts or only native ones with one conversion at the end
  (`Converts`). The cases are the code's: `RangePlanned` and the page arithmetic for
  ranges, `bulk_parts` with its head and tail, the tables of unaligned widths with
  `ne_part_shift` in both byte orders, the two shifted words of a load and the bytes
  of a store across pages, the inlined access, whose TLB hit implies that the page
  number did not wrap. The top of the address space is part of it: `EndOfRange`
  relates the overflow test to a range that ends exactly there.
* What is left of it. `State` says for each access under way that what it has not
  done yet covers exactly the bytes it has not loaded or stored (`Loaded`, `Stored`),
  that pages not marked yet have a mark left (`Marked`), and that an access that is
  still checking, or has faulted, has left no trace (`Clean`). Each part moves its
  bytes from one side to the other (`LoadStep`, `StoreStep`), also when another CPU
  has stored there since (`RestGrows`: bytes only change from first to stored ones
  that belong there).

`Slot` is the position of a byte in a native value that is not converted yet. The
first conjunct of `DirtyAfterBytes` is not proved: it speaks about frames, and where
two pages of one range show the same frame the first page's mark comes before the
second page's bytes. The run has a frame of its own for each page. `NoTearing` is not
proved either (section 7).

**Miri locks** (`AccessProofs`): `NoRaces` and `LocksOrdered`, for any line size,
number of shards, page size, table and accesses. The first half is about the lock
plans: `ModOfRun` (the remainders of a run of lines are a range or the complement
of one), hence `BulkPlan` and `ScalarPlan` (every line of an access is covered, in
ascending order of shards), hence `PlanSound` (so is every part of every plan). The
second half is the protocol: `Locked` says that a CPU holds the smaller ones of the
shards of its next part and that a shard is shared only between loads. An overlap
of two copies has a line, whose shard both hold. A ring of waiting CPUs has one that
wants the largest shard; who holds that waits for a larger one. This is the argument
of the comment above `get_cache_line_unaligned` (`memops.rs:119`), with its two
special cases of `bulk_mem_op`.

**Halt-check pass** (`HaltAnalysisProofs`, `HaltCheckProofs`), for every program
that satisfies `ProgramsAssumption`:

* `AnalysesCorrect` is the correctness of Tarjan's and of Kahn's algorithm. The
  invariant of the first says of the blocks on its stack that each is reached from
  the ones below it and reaches the activation its low link names, that finished
  components are closed under edges except to earlier ones, and that no edge leads
  from a finished block to one without an index. The second keeps for each
  component the number of its predecessors that are not in the order yet. `Reach`
  is a recursive function over sets of blocks; the lemmas `ClosureExists` and
  `ClosureLeast` show, by the least counterexample on the size of what is missing,
  that it is defined and is the least closed set.
* `SourceAlwaysPreserved` rests on `Shape`, the types of the representation, of the
  inserter's maps and of its work in progress (a countdown in 1..N, no suffix longer
  than what it stands for), and on a rank of the blocks that falls along every
  continuation, so that `Text` and `Target`, which recur along them, are defined and
  a split changes neither.
* `CompileOrderRight` is about the frames of the depth-first search (`DfsInv`): a
  block that was seen is in the post-order or has one exit frame, a successor of it
  was seen or is entered above that frame, and a block on the stack or in the
  post-order that another one dominates lies above the exit frame of that one, or
  before it in the post-order; else there is a path around it.
* `HaltChecksAlwaysSound` is the guarantee of `halt_check_every`: for every flow
  graph and every N, no execution of the rewritten program passes N safepoints
  without a check, and during the pass no pending countdown promises too much.
  `Arrivals` is about blocks, which splits cut up, so the invariant `SoundInv` is
  about positions in the source. A map `seg` says from which source position each
  block continues; `MapsRight` ties the pending edges to source edges from a
  finished block to one that is not opened yet. At every position a function C bounds
  the safepoints since the last check: it rises by one at a safepoint without a
  check (`Rises`), does not fall along the edges into opened blocks (`Flows`), stays
  below N and, at the end of a block, below what the pending countdowns out of it
  admit (`Counted`). One C is not enough for induction: a later merge may put a
  compensating check behind any safepoint that a suffix remembers, which lowers the
  bound on some paths and, through the canonicalized states, raises the countdowns
  of others. So `SoundInv` has such a C for every set X of safepoints that contains
  the checks made so far (`Bounded`), with the countdowns canonicalized against X;
  a compensating check only shrinks the choice of X. In a cyclic component all
  blocks start from the merged state and no countdown is taken over an edge inside,
  since every safepoint in it is checked. At the end, `ArrivalsBounded` shows by the
  least closed set that C bounds `Arrivals`, and `PieceRises` that a block adds its
  own safepoints.
* `AssertionsHold` is the safety half of `Terminates`: no assertion of the pass
  fires. Most follow from `SoundInv` (`Located`: safepoints are where `loc` says;
  `MapsRight`: the two edge maps agree, and the edges of the block in hand are not in
  them). For the normalizing loop `Normalizing` is added: a state that is not treated
  yet has reached the target or has a complete suffix long enough to hold the
  safepoint to check, also after it is canonicalized against the checks that the
  loop made for other states.

Induction over data is done by the least counterexample (`Least`, from the
well-foundedness of the naturals), which is how `FlattenType` handles `FlattenSeq`.

Assumptions added for the proofs: the sentinels of `WriteBack` and `AddressSpace`
are not members of the sets they extend, `Mmus`, `Slots` and `Pages` are finite,
and `ScenariosAssumption` of `Access` (mapped pages have frames, a TLB entry names a
mapped page; a scalar has 1, 2, 4 or 8 bytes and its size divides the page size;
under Miri there is no compiled code and scalars are smaller than a line, which
`assert_can_load_and_store` at `memops.rs:90` asserts).

Left to TLC: everything under fairness (`AcceptedAnswered`, `CloseCompletes`,
`Progress`, `FlushReturns`, `Terminates`, `HaltHeard`, `AccessesReturn`);
`IrOps`, which uses `Bitwise`, a module the prover cannot load; and `NoTearing` and
`DirtyAfterBytes` of `Access`.

## 5. Findings

One has a run of its own:

1. Lost wake-up in `Inner::enqueue` (`om_lost_wakeup`, `object_manager.rs`): a
   woken caller that finds its page resident returns without passing the wake-up
   on, and another caller waits beside an empty queue. The instance has three
   callers; two threads do, since `IoMMU::flush` and `fault_in_all_memory_objects`
   enqueue all their pages before they wait for an answer (`lib.rs:1267-1308`).

Nine more are reproduced by a configuration that is kept with the modules; each
checks one property, which TLC finds violated:

2. Scalar stores and `strex` write through copy-on-write pages
   (`AddressSpace_cowstore.cfg`, `PrivateIsolated`): they test `WRITE` and not
   `COW` (`io-mmu/src/lib.rs:870`, `ffi_support.rs:95`), while the range stores say
   "you can't store to a cow page" (`io-mmu/src/lib.rs:657`).
3. A fork does not change the identifier of a table it made copy-on-write
   (`AddressSpace_forktlb.cfg`, `TlbFaithful`): the boolean returned at
   `io-mmu/src/lib.rs:407` is inverted, while `lib.rs:122` says that the identifier
   "changes whenever the page table is mutated".
4. `flush` beside a refresh returns before the write-back
   (`WriteBack_flush.cfg`, `FlushDurable`): the refresh holds the dirty flag
   (`page_table.rs:511`), while `lib.rs:1258` says "waiting for all write-back to
   complete".
5. `strex` does not mark the page dirty (`WriteBack_strex.cfg`, `NoLostStore`):
   `ffi_support.rs:213` only compares and exchanges, while
   `emu-abi/src/memory.rs:189` says "writes must always be tracked as dirty".
6. GCC's `emit_jump` assigns the parameters of a block one after the other
   (`IrOps_jump.cfg`, `JumpPassesValues`; `gcc_backend.rs:1107`): a back edge that
   swaps two parameters passes one of them twice. Cranelift passes them at once.
7. A `strex` can store where its CPU holds no reservation
   (`ExclusiveMonitor_alias.cfg`, `StrexReserved`): the bucket keeps a pointer and a
   version, the context a value and a version, and nothing says who reserved
   (`exclusive_monitor.rs:257`, `ffi_support.rs:213`). CPU 1 reserves byte 3, CPU 2
   byte 67 of the same bucket before any store, and the `strex` of CPU 1 to 67
   stores if the value is the one it read at 3. The module says that aliasing causes
   "never a wrongly successful store" (`exclusive_monitor.rs:9`). In another bucket it
   takes the same version by coincidence, and may store over another CPU's `strex`.
8. Memory mapped with `map_extern` and `readonly` becomes writable in place
   (`AddressSpace_extern.cfg`, `ReadonlyUntouched`): `new_extern_cow`
   (`page_table.rs:408`) makes a write-protected page whose `Arc` has one owner, so
   `un_cow` (`page_table.rs:656`) does not copy it, and the next store goes to the
   caller's memory, of which `lib.rs:228` says that "it must not be written to".
9. The GCC back end does not reduce the amount of a `Shift` (`IrOps_shift.cfg`,
   `ShiftReduces`; `gcc_backend.rs:587`), while the IR says "with the amount reduced
   modulo the value's width" (`ir/mod.rs:704`).
10. A fault of compiled code in a page that is not mapped reports the base of the
   page (`Access_vaddr.cfg`, `FaultsReportVaddr`; `page_table.rs:810` through
   `ffi_support.rs:35`), while `vm_load` documents the fault as "reporting `vaddr`"
   (`ir/mod.rs:2546`) and `fault.rs:56` as the address "at which the fault occurred".
   A comment at `ffi_support.rs:33` allows for it only where the access "crosses a
   page". The host's scalar functions and the fetch do the same.

Departures from the documentation the models exclude by name, beside findings 6 and
9 (`GccDeparts`):

* `bitnot` of a boolean complements all bits of Cranelift's `I8`
  (`ClifDeparts`; `cranelift_backend.rs:459`, `ir/mod.rs:1650`).
* The builder lets through what a back end then fails on (`Unlowerable`):
  `terminate_block` takes a `ReturnCode` of any integer width (`ir/mod.rs:1128`), which
  the IR documents as a `NonZero<u32>` (`ir/mod.rs:875`), Cranelift's lowering checks to
  have 32 bits (`cranelift_backend.rs:720`) and libgccjit compares with the return
  type (`gcc_backend.rs:1130`); and GCC does not compile a logical shift whose amount
  has another width than the value, which `emit_shift_op` accepts.
* `exec_state.rs:31` says that `Carry` is set on borrow; `isubs` sets it on no
  borrow, as Arm does. The models follow the code.

Further disagreements met while modelling:

* `CompiledExecChunk::call` on an untaken fault "panics/aborts"
  (`chunk.rs:61`) only with debug assertions; without them (`CpuCore` with
  `Debug = FALSE`) the old fault can be reported for a new access.
* `set_fault` says that "any previously stored bus error is dropped"
  (`exec_context.rs:76`); the branch for a protection fault leaves it. No run of
  the core reaches this: `BusErrorOwned` holds because the slot is always taken.
* The header of `halt_check_pass.rs` puts the check after the safepoint that
  follows N others; the code puts it after the N-th, which is stricter.
* The fallback also reports the base of the second page when that one refuses,
  mapped or not, and a range always the base of the page it meets first, going from
  the last to the first. A scalar
  across pages whose second page is unmapped faults there although the first page
  refuses the access too.
* The inlined access compares page numbers after a signed shift, so addresses in
  the upper half never hit in line and always take the fallback. Slow, not wrong.
* Dropping a page upgrades its weak fabric (`page_table.rs:171`). If that drop
  runs on the object manager's worker and is the last owner, the manager's drop
  joins its own thread (`object_manager.rs:459`).
* A fault-in that waits can be answered with the error of a write-back, when a
  flush turned its queue entry (`object_manager.rs:188`);
  `fault_in_all_memory_objects` documents read failures only.
* A displaced reservation is intact again once anyone reserves its pointer
  (`exclusive_monitor.rs:257`); the module documentation says it is lost. No
  bytes change in between, so `StrexAtomic` is not affected.
* A forked address space clones its parent's identifier (`io-mmu/src/lib.rs:413`)
  although private object pages that were not resident have slots of their own
  in it, so the two views part when one is faulted in.
* `halt` overwrites a reason that is pending (`halt_reason.rs:203`), so a request
  to flush the instruction cache can be lost under another one. The method says
  so; `CpuCore` has the overwrite, and no property forbids it.
* A plain store of the value that is there already, between `ldrex` and `strex`,
  goes unnoticed (the FIXME at `ffi_support.rs:228`).
* Two CPUs whose addresses share a bucket can displace each other's reservations
  in lockstep; no line promises progress across addresses.
* A failed write-back leaves a clean page (`WriteBack_flush.cfg` with
  `WriteErrors` and one flusher shows it), and the next flush succeeds without
  writing.

## 6. Properties, part by part

| part | what makes it correct | where |
|---|---|---|
| object manager | index and deque agree, no abort, each callback answered once and truthfully, accepted requests are answered, close completes (that every call returns is finding 1) | checked; safety and refinement proved |
| exclusive monitor | no exclusive store over another one of the bucket since the load, contention makes progress | checked; safety proved |
| address spaces | a TLB hit agrees with the table, private memory stays private to its fork tree, writable in place means one owner | checked and proved |
| write-back | no dirty bit lost, no stale translation unnoticed, answered flushes durable, flushes terminate | checked; safety proved |
| accesses | an access faults exactly when it has to, at the address the rule for its kind gives, and changes nothing, bytes end up where they belong, aligned scalars do not tear, dirty follows the bytes | checked; faults, bytes and marks proved |
| memory operations | parts are aligned and tile the access, the locks exclude races and do not deadlock | checked; tiling and locks proved |
| fault slot | a taken fault is the one that happened, bus errors have an owner | checked and proved |
| CPU core | a request is noticed in time and found, a requested cache flush happens before guest code runs on | checked and proved |
| halt-check pass | no path passes N safepoints without a check, nothing else of the program changes, the order of blocks serves the back ends | checked and proved |
| IR operations | what is refused is what is documented, the rest lowers on both back ends and means what is documented, but for the cases of section 5 | checked |
| fabric lifetime | no thread joins itself | section 5 |

## 7. Plan

What is left to prove, in this order:

1. `Access`: `NoTearing`. `PartsSound` needs the alignment of every part beside its
   place, and single-copy atomicity that the body of an aligned scalar is one part.
2. `DirtyAfterBytes`, stated for a frame that is mapped twice: a mark follows the
   last part of its page.
3. `ExclusiveMonitor`: type correctness as a theorem of its own.

## 8. Not modelled

* `cpu_fabric/mod.rs`: reference counts and type erasure; its lifetime is
  described in section 5.
* The file object: a loop of positioned reads and writes. `WriteBack` has its
  effect, a copy that may miss concurrent stores and may fail.
* What Cranelift and libgccjit do with the instructions they are given, object
  emission and linking; the LLVM back end is a stub.
* The index types of the arena, raw function pointers, stack slots and printing
  of the IR.
* The code generator: a sequential parser of archives and XML.
* The optimization pass, the A64 decoder and `CodeCache::run` are empty or
  `todo!()` at this commit, and `rapid-arm-emu/src/address_space.rs` is mostly
  commented out.
* Weak memory orderings: every atomic operation is sequentially consistent.

-------------------------------- MODULE Access --------------------------------
(***************************************************************************)
(* Guest accesses byte by byte: the range, scalar and fetch functions of    *)
(* IoMMU (io-mmu lib.rs), the inlined access of compiled code (vm_access in *)
(* jit-compiler-core ir/mod.rs) and the host memory operations below them   *)
(* (module MemOps).  Several CPUs access one address space at once; each    *)
(* does one access, taken apart into checks, atomic parts and dirty marks   *)
(* in the order of the code.  A table is not changed while it is accessed   *)
(* (&mut), and module AddressSpace shows that what a TLB holds is what the  *)
(* table says.                                                              *)
(***************************************************************************)
EXTENDS MemOps

CONSTANTS
    Cpus,
    PAGE_SIZE,
    PageCount,        \* size of the address space in pages, 2^52 in the code
    TLB_SIZE,
    Frames,           \* host frames
    Scenarios         \* [env |-> [build, big, table, frame, tlb], acc |-> [Cpus -> access]]

None == -1
Space == PAGE_SIZE * PageCount
TopAddr == Space - 1                     \* u64::MAX
MaxPage == PageCount - 1             \* PageNumber::MAX
HostBytes == 0..(Cardinality(Frames) * PAGE_SIZE - 1)

\* Flags of a page: READ, WRITE, EXECUTE, OBJ_BACKED and COW
MUST_DIRTY == {"X", "OBJ"}

ASSUME AccessAssumption ==
    /\ PAGE_SIZE \in Nat \ {0, 1} /\ PageCount \in Nat \ {0} /\ TLB_SIZE \in 1..PageCount
    /\ PageCount % TLB_SIZE = 0 /\ PAGE_SIZE % CHUNK_SIZE = 0
    /\ Cpus \subseteq Nat \ {0}
    /\ Cardinality(Frames) \in Nat /\ Frames = 0..(Cardinality(Frames) - 1)

Accesses ==
    [kind : {"idle", "range", "pages", "scalar", "inline", "fetch"}, op : {"load", "store"},
     force : BOOLEAN, vaddr : 0..TopAddr, len : 0..TopAddr]

\* Mapped pages have frames, a TLB names mapped pages only, and scalars are the
\* integers of up to 64 bits.  Compiled code does not run under Miri, and its back
\* end takes scalars that are smaller than a line (assert_can_load_and_store).
ASSUME ScenariosAssumption ==
    \A s \in Scenarios :
        /\ s.env.build \in {"atomic", "miri"} /\ s.env.big \in BOOLEAN
        /\ DOMAIN s.env.table \subseteq 0..MaxPage
        /\ s.env.frame \in [DOMAIN s.env.table -> Frames]
        /\ \A i \in 0..(TLB_SIZE - 1) : s.env.tlb[i] \in {None} \cup DOMAIN s.env.table
        /\ s.acc \in [Cpus -> Accesses]
        /\ \A c \in Cpus : s.acc[c].kind \in {"scalar", "inline", "fetch"} =>
              s.acc[c].len \in {1, 2, 4, 8} /\ PAGE_SIZE % s.acc[c].len = 0
        /\ s.env.build = "miri" => \A c \in Cpus :
              /\ s.acc[c].kind # "inline"
              /\ s.acc[c].kind \in {"scalar", "fetch"} => s.acc[c].len < CACHE_LINE_SIZE

VARIABLES
    env,       \* the build, the table and the TLB; never changes
    acc,       \* cpu -> the access it does; never changes
    mem,       \* host address -> byte
    dirty,     \* frame -> the CPUs that marked it dirty
    pc,        \* cpu -> "start", "run", "copy" or "done"
    todo,      \* cpu -> the micro-operations that are left
    val,       \* cpu -> what it has loaded, or what it stores
    held,      \* cpu -> shards it holds
    fault      \* cpu -> the address of its fault, or None

vars == <<env, acc, mem, dirty, pc, todo, val, held, fault>>

----------------------------------------------------------------------------
(* Addresses and the page table                                              *)

PageOf(vaddr) == vaddr \div PAGE_SIZE
Offset(vaddr) == vaddr % PAGE_SIZE
vaddr_base(page) == page * PAGE_SIZE

Mapped(page) == page \in DOMAIN env.table
Flags(page) == IF Mapped(page) THEN env.table[page] ELSE {}
Host(page, offset) == env.frame[page] * PAGE_SIZE + offset

----------------------------------------------------------------------------
(* Micro-operations: a check that fails is a fault at `at`                   *)

Check(ok, at) == [kind |-> "check", ok |-> ok, at |-> at]
FromLe == [kind |-> "from_le"]
Mark(page) == [kind |-> "dirty", at |-> env.frame[page]]

\* Page::set_dirty, after a store
set_dirty(a, page) ==
    IF a.op = "store" /\ Flags(page) \cap MUST_DIRTY # {} THEN <<Mark(page)>> ELSE <<>>

Permission(a) ==
    CASE a.kind = "fetch" -> "X" [] a.op = "load" -> "R" [] OTHER -> "W"

Permitted(a, page) == a.force \/ Permission(a) \in Flags(page)

----------------------------------------------------------------------------
(* Ranges: mem_access with the load and store functions above it             *)

NoOverflow(end) == end < Space \/ end % Space = 0

\* Mutant: a page is verified when its turn to be copied has come.
MutVerifyAsYouGo(checks, copies) == FlattenSeq([i \in 1..Len(checks) |-> checks[i] \o copies[i]])

\* LookupCacheExt::access verifies all pages, the last one first, then goes
\* over them from the first
access(checks, copies) == FlattenSeq(Reverse(checks)) \o FlattenSeq(copies)

\* Mutant: a page is marked before it is written.
MutMarkFirst(copies, marks) == marks \o copies

\* copy, then per_page_commit
CopyThenCommit(copies, marks) == copies \o marks

RangePages(a) ==
    LET last_addr == (a.vaddr + a.len - 1) % Space
    IN  RangeSeq(PageOf(a.vaddr), PageOf(last_addr))

verify(a, page) == Permitted(a, page) /\ ~(a.op = "store" /\ "COW" \in Flags(page))

page_checks(a, page) ==
    <<Check(Mapped(page), vaddr_base(page)), Check(verify(a, page), vaddr_base(page))>>

page_copies(a, page) ==
    LET pages == RangePages(a)
        end == Offset((a.vaddr + a.len - 1) % Space) + 1
        page_start == IF page = pages[1] THEN Offset(a.vaddr) ELSE 0
        page_end == IF page = Last(pages) THEN end ELSE PAGE_SIZE
        dst == (page - pages[1]) * PAGE_SIZE + page_start - Offset(a.vaddr)
    IN  IF Mapped(page)
        THEN CopyThenCommit(copy_parts(env.build, Host(page, page_start),
                                       page_end - page_start, dst),
                            set_dirty(a, page))
        ELSE <<>>

mem_access(a) ==
    LET pages == RangePages(a)
    IN  IF a.len = 0 THEN <<>>
        ELSE <<Check(NoOverflow(a.vaddr + a.len), TopAddr)>>
               \o (IF NoOverflow(a.vaddr + a.len)
                   THEN access([i \in 1..Len(pages) |-> page_checks(a, pages[i])],
                               [i \in 1..Len(pages) |-> page_copies(a, pages[i])])
                   ELSE <<>>)

\* PageTableAccess::get_pages, of the table operations
get_pages(a) ==
    << Check(Offset(a.vaddr) = 0, a.vaddr), Check(a.len % PAGE_SIZE = 0, a.vaddr),
       Check(NoOverflow(a.vaddr + a.len), TopAddr) >>

\* PageTableAccess::iter
iter(a) == PageOf(a.vaddr)..(PageOf(a.vaddr) + a.len \div PAGE_SIZE - 1)

----------------------------------------------------------------------------
(* Scalars                                                                   *)

\* PageNumber::inc returns a page
HasNext(page) == page < MaxPage

\* static_small_multibyte_access finds a second page
HasSecondPage(vaddr, bytes) == bytes > PAGE_SIZE - Offset(vaddr)

\* load_byte, load_le, store_byte, store_le within one page
OnePage(a, page) ==
    <<Check(Permitted(a, page), a.vaddr)>>
      \o (IF Mapped(page)
          THEN scalar_parts(env.build, env.big, Host(page, Offset(a.vaddr)), a.len)
                 \o (IF a.op = "load" THEN <<FromLe>> ELSE set_dirty(a, page))
          ELSE <<>>)

\* Across two pages.  Two aligned words are loaded, the second page's first, and
\* shifted together.
LoadAcross(a, lo, hi) ==
    LET overflow == a.len - (PAGE_SIZE - Offset(a.vaddr))
    IN  << le_part(env.build, Host(hi, 0), a.len, a.len - overflow),
           le_part(env.build, Host(lo, PAGE_SIZE - a.len), a.len, -overflow) >>

\* A store goes byte by byte from the last to the first, then marks both pages.
StoreAcross(a, lo, hi) ==
    LET in_lo == PAGE_SIZE - Offset(a.vaddr)
        stored(k) == IF k >= in_lo
                     THEN le_part(env.build, Host(hi, k - in_lo), 1, k)
                     ELSE le_part(env.build, Host(lo, Offset(a.vaddr) + k), 1, k)
    IN  [i \in 1..a.len |-> stored(a.len - i)] \o set_dirty(a, lo) \o set_dirty(a, hi)

TwoPages(a, lo, hi) ==
    <<Check(Permitted(a, lo), a.vaddr), Check(Permitted(a, hi), vaddr_base(hi))>>
      \o (IF ~Mapped(lo) \/ ~Mapped(hi) THEN <<>>
          ELSE IF a.op = "load" THEN LoadAcross(a, lo, hi) ELSE StoreAcross(a, lo, hi))

scalar_access(a) ==
    LET lo == PageOf(a.vaddr)
    IN  <<Check(Mapped(lo), vaddr_base(lo))>>
          \o (IF HasSecondPage(a.vaddr, a.len)
              THEN <<Check(HasNext(lo), TopAddr), Check(Mapped(lo + 1), vaddr_base(lo + 1))>>
                     \o TwoPages(a, lo, lo + 1)
              ELSE OnePage(a, lo))

resolve_aligned_scalar_access(a) ==
    <<Check(a.vaddr % a.len = 0, a.vaddr), Check(Mapped(PageOf(a.vaddr)), vaddr_base(PageOf(a.vaddr)))>>

fetch_aarch64(a) == resolve_aligned_scalar_access(a) \o OnePage(a, PageOf(a.vaddr))

----------------------------------------------------------------------------
(* vm_access: the inlined path of compiled code                              *)

\* sshr_exact_imm keeps the sign
SignedPage(vaddr) ==
    (IF vaddr >= Space \div 2 THEN (vaddr - Space) \div PAGE_SIZE ELSE PageOf(vaddr)) % Space

InlineAligned(vaddr, bytes) == bytes = 1 \/ vaddr % bytes = 0

TlbHit(vaddr) ==
    LET page == SignedPage(vaddr)
    IN  env.tlb[page % TLB_SIZE] = page

\* the callbacks into the IoMMU
emit_host_mem_fallback(a) == scalar_access(a)

vm_access(a) ==
    IF ~TlbHit(a.vaddr) \/ ~InlineAligned(a.vaddr, a.len) THEN emit_host_mem_fallback(a)
    ELSE LET page == PageOf(a.vaddr)
         IN  <<Check(Permitted(a, page), a.vaddr),
               le_part(env.build, Host(page, Offset(a.vaddr)), a.len, 0)>> \o set_dirty(a, page)

----------------------------------------------------------------------------
(* Executing an access                                                       *)

Plan(a) ==
    CASE a.kind = "range" -> mem_access(a)
      [] a.kind = "pages" -> get_pages(a)
      [] a.kind = "scalar" -> scalar_access(a)
      [] a.kind = "inline" -> vm_access(a)
      [] a.kind = "fetch" -> fetch_aarch64(a)

Nobody == 0
StoredByte(c, k) == <<c, k>>
InitialByte(h) == <<Nobody, h>>

Begin(c) ==
    /\ pc[c] = "start"
    /\ pc' = [pc EXCEPT ![c] = "run"]
    /\ todo' = [todo EXCEPT ![c] = Plan(acc[c])]
    /\ UNCHANGED <<env, acc, mem, dirty, val, held, fault>>

At(c, kind) == pc[c] = "run" /\ todo[c] # <<>> /\ Head(todo[c]).kind = kind

\* the checks up to the next micro-operation of another kind, which only read
\* the table; the first that fails ends the access
RunChecks(c) ==
    LET bad == SelectInSeq(todo[c], LAMBDA s : s.kind = "check" /\ ~s.ok)
        next == SelectInSeq(todo[c], LAMBDA s : s.kind # "check")
        fails == bad # 0 /\ (next = 0 \/ bad < next)
    IN  /\ At(c, "check")
        /\ todo' = [todo EXCEPT ![c] = IF fails \/ next = 0 THEN <<>> ELSE SubSeq(@, next, Len(@))]
        /\ fault' = IF fails THEN [fault EXCEPT ![c] = todo[c][bad].at] ELSE fault
        /\ UNCHANGED <<env, acc, mem, dirty, pc, val, held>>

\* What a part loads: its bytes as an integer of the host, shifted into place
Limb(c, p) ==
    LET bytes == [i \in 0..(p.width - 1) |-> mem[p.at + i]]
    IN  Shl(IF p.le THEN bytes ELSE from_le(env.big, bytes), acc[c].len, p.shift)

\* What a part stores at the host address h: the value shifted down to it
PartByte(c, p, h) ==
    LET value == IF p.le THEN val[c] ELSE from_le(env.big, val[c])
        limb == [i \in 0..(p.width - 1) |-> value[i + p.shift]]
    IN  (IF p.le THEN limb ELSE from_le(env.big, limb))[h - p.at]

\* One atomic access, or a copy under its locks, which are then released
DoPart(c) ==
    LET p == Head(todo[c])
    IN  /\ IF acc[c].op = "load"
           THEN /\ val' = [val EXCEPT ![c] = Or(@, Limb(c, p))]
                /\ UNCHANGED mem
           ELSE /\ mem' = [h \in HostBytes |->
                             IF h \in p.at..(p.at + p.width - 1) THEN PartByte(c, p, h) ELSE mem[h]]
                /\ UNCHANGED val
        /\ todo' = [todo EXCEPT ![c] = Tail(@)]
        /\ held' = [held EXCEPT ![c] = {}]
        /\ UNCHANGED <<env, acc, dirty, fault>>

\* production: no locks
AtomicPart(c) ==
    /\ At(c, "part") /\ env.build # "miri"
    /\ DoPart(c)
    /\ UNCHANGED pc

\* RwLock: loads share a shard, a store has it alone
Available(c, s) ==
    \A d \in Cpus \ {c} : s \in held[d] => acc[c].op = "load" /\ acc[d].op = "load"

Lock(c) ==
    /\ At(c, "part") /\ Head(todo[c]).shards # <<>>
    /\ LET s == Head(Head(todo[c]).shards)
       IN  /\ Available(c, s) /\ s \notin held[c]
           /\ held' = [held EXCEPT ![c] = @ \cup {s}]
    /\ todo' = [todo EXCEPT ![c][1].shards = Tail(@)]
    /\ UNCHANGED <<env, acc, mem, dirty, pc, val, fault>>

StartCopy(c) ==
    /\ At(c, "part") /\ env.build = "miri" /\ Head(todo[c]).shards = <<>>
    /\ pc' = [pc EXCEPT ![c] = "copy"]
    /\ UNCHANGED <<env, acc, mem, dirty, todo, val, held, fault>>

EndCopy(c) ==
    /\ pc[c] = "copy"
    /\ DoPart(c)
    /\ pc' = [pc EXCEPT ![c] = "run"]

MarkDirty(c) ==
    /\ At(c, "dirty")
    /\ dirty' = [dirty EXCEPT ![Head(todo[c]).at] = @ \cup {c}]
    /\ todo' = [todo EXCEPT ![c] = Tail(@)]
    /\ UNCHANGED <<env, acc, mem, pc, val, held, fault>>

\* the parts of a native value have been put together
Convert(c) ==
    /\ At(c, "from_le")
    /\ val' = [val EXCEPT ![c] = from_le(env.big, @)]
    /\ todo' = [todo EXCEPT ![c] = Tail(@)]
    /\ UNCHANGED <<env, acc, mem, dirty, pc, held, fault>>

Finish(c) ==
    /\ pc[c] = "run" /\ todo[c] = <<>>
    /\ pc' = [pc EXCEPT ![c] = "done"]
    /\ UNCHANGED <<env, acc, mem, dirty, todo, val, held, fault>>

----------------------------------------------------------------------------
Init ==
    /\ \E s \in Scenarios : env = s.env /\ acc = s.acc
    /\ mem = [h \in HostBytes |-> InitialByte(h)]
    /\ dirty = [f \in Frames |-> {}]
    /\ pc = [c \in Cpus |-> IF acc[c].kind = "idle" THEN "done" ELSE "start"]
    /\ todo = [c \in Cpus |-> <<>>]
    /\ val = [c \in Cpus |-> [k \in 0..(acc[c].len - 1) |->
                                IF acc[c].op = "load" THEN ZeroByte ELSE StoredByte(c, k)]]
    /\ held = [c \in Cpus |-> {}]
    /\ fault = [c \in Cpus |-> None]

Step(c) ==
    \/ Begin(c) \/ RunChecks(c) \/ AtomicPart(c) \/ Lock(c) \/ StartCopy(c) \/ EndCopy(c)
    \/ MarkDirty(c) \/ Convert(c) \/ Finish(c)

Next == \E c \in Cpus : Step(c)

\* An access under way goes on; a lock that is released is handed on.
Fairness == \A c \in Cpus : WF_vars(Step(c))

Spec == Init /\ [][Next]_vars /\ Fairness

----------------------------------------------------------------------------
(* What an access should do, said without pages, parts or shifts             *)

Done(c) == pc[c] = "done"
Succeeded(c) == Done(c) /\ fault[c] = None
IsStore(c) == acc[c].op = "store"

\* the guest addresses of an access, those beyond the top left out
Touched(a) == {v \in a.vaddr..(a.vaddr + a.len - 1) : v <= TopAddr}
Beyond(a) == a.vaddr + a.len > Space

HostOf(v) == Host(PageOf(v), Offset(v))

Misaligned(a) ==
    \/ a.kind = "fetch" /\ a.vaddr % a.len # 0
    \/ a.kind = "pages" /\ (a.vaddr % PAGE_SIZE # 0 \/ a.len % PAGE_SIZE # 0)

Refused(a, v) ==
    /\ a.kind # "pages"
    /\ \/ ~Mapped(PageOf(v))
       \/ ~a.force /\ Permission(a) \notin Flags(PageOf(v))
       \/ a.kind = "range" /\ a.op = "store" /\ "COW" \in Flags(PageOf(v))

\* The address reported when the byte v is refused: the page's base by ranges, for
\* a page that is not mapped and for the second page of a scalar; otherwise the
\* address of the access.
ReportedAddress(a, v) ==
    IF a.kind = "range" \/ ~Mapped(PageOf(v)) \/ PageOf(v) # PageOf(a.vaddr)
    THEN vaddr_base(PageOf(v)) ELSE a.vaddr

\* A byte that a host address may hold: its first one, or what a store puts there
Legit(b, h) ==
    \/ b = InitialByte(h)
    \/ /\ b[1] \in {c \in Cpus : IsStore(c)}
       /\ b[2] \in 0..(acc[b[1]].len - 1)
       /\ HostOf(acc[b[1]].vaddr + b[2]) = h

\* The access functions are little-endian and naturally aligned.
SingleCopy(a) == a.kind \in {"scalar", "inline", "fetch"} /\ a.vaddr % a.len = 0

HostSet(a) == {HostOf(v) : v \in Touched(a)}

----------------------------------------------------------------------------
\* Types of the state; memory does not grow and a value keeps its length.
TypeOK ==
    /\ DOMAIN mem = HostBytes
    /\ dirty \in [Frames -> SUBSET Cpus]
    /\ pc \in [Cpus -> {"start", "run", "copy", "done"}]
    /\ \A c \in Cpus : DOMAIN val[c] = 0..(acc[c].len - 1)
    /\ held \in [Cpus -> SUBSET Shards]
    /\ fault \in [Cpus -> {None} \cup 0..TopAddr]

\* An access faults exactly when a byte of it lies beyond the top of the address
\* space or in a page that is not mapped or forbids it, on the inlined path as
\* in the host functions, or when a fetch or a table operation is misaligned.
\* It reports the last address for the first, its own for a misaligned access,
\* and for a page that refuses it the address above: not always the one of the
\* access (FaultsReportVaddr).
FaultsExactly ==
    \A c \in {c \in Cpus : Done(c) /\ acc[c].kind # "idle"} :
        LET a == acc[c]
            refused == {v \in Touched(a) : Refused(a, v)}
        IN  IF refused = {} /\ ~Beyond(a) /\ ~Misaligned(a)
            THEN fault[c] = None
            ELSE \/ Beyond(a) /\ fault[c] = TopAddr
                 \/ Misaligned(a) /\ fault[c] = a.vaddr
                 \/ \E v \in refused : fault[c] = ReportedAddress(a, v)

\* A load or store of compiled code that faults reports its vaddr, as vm_load and
\* vm_store say, even within one page.  A page that is not mapped is reported by
\* its base (PageTable::get_page), so this does not hold (Access_vaddr.cfg).
FaultsReportVaddr ==
    \A c \in Cpus : (/\ acc[c].kind = "inline" /\ fault[c] # None
                     /\ ~HasSecondPage(acc[c].vaddr, acc[c].len)) => fault[c] = acc[c].vaddr

\* The table operations cover exactly the pages of their range, up to the last
\* page of the address space.
PagesExact ==
    \A c \in {c \in Cpus : Succeeded(c) /\ acc[c].kind = "pages"} :
        iter(acc[c]) = {PageOf(v) : v \in Touched(acc[c])}

\* Every byte that is loaded is one the address of that byte has held, every
\* byte in memory belongs there, and a store that returned has stored all of
\* its bytes: no table, shift or byte order misplaces, loses or repeats one,
\* whatever other CPUs store meanwhile.
BytesInPlace ==
    /\ TypeOK
    /\ \A h \in HostBytes : Legit(mem[h], h)
    /\ \A c \in {c \in Cpus : Succeeded(c) /\ acc[c].kind \notin {"pages", "idle"}} :
          \A v \in Touched(acc[c]) :
             IF IsStore(c) THEN mem[HostOf(v)] # InitialByte(HostOf(v))
                           ELSE Legit(val[c][v - acc[c].vaddr], HostOf(v))

\* Each part stays within one frame, and an atomic one is naturally aligned.
PartsSound ==
    \A c \in Cpus : At(c, "part") =>
        LET p == Head(todo[c])
        IN  /\ p.at \div PAGE_SIZE = (p.at + p.width - 1) \div PAGE_SIZE
            /\ env.build # "miri" => p.width \in {1, 2, 4, 8} /\ p.at % p.width = 0
            /\ p.shift \in (1 - acc[c].len)..(acc[c].len - 1)

\* Naturally aligned scalars are single-copy atomic in both back ends, on the
\* inlined path and off it: a load sees all of a store or nothing of it, and
\* the parts of unaligned ones are accesses the host does atomically.
NoTearing ==
    /\ PartsSound
    /\ \A c, d \in Cpus :
          Succeeded(c) /\ ~IsStore(c) /\ IsStore(d) /\ SingleCopy(acc[c]) /\ SingleCopy(acc[d]) =>
            LET loaded == {val[c][v - acc[c].vaddr] :
                             v \in {v \in Touched(acc[c]) : HostOf(v) \in HostSet(acc[d])}}
            IN  ~ \E x, y \in loaded : x[1] = d /\ y[1] = Nobody

\* An access that faults has changed nothing, not even in the pages before the
\* one that refused it.
FaultsChangeNothing ==
    \A c \in Cpus : fault[c] # None =>
        /\ \A h \in HostBytes : mem[h][1] # c
        /\ \A f \in Frames : c \notin dirty[f]

\* An access is refused exactly where it should be, without a trace, and the
\* ranges of the table operations end where they should.
RefusalsExact == FaultsExactly /\ PagesExact /\ FaultsChangeNothing

\* A page that has to be tracked is marked by a store after the last of its
\* bytes, and before the store returns.
DirtyAfterBytes ==
    \A c \in {c \in Cpus : IsStore(c) /\ acc[c].kind # "pages"} :
        /\ \A f \in Frames : c \in dirty[f] =>
              \A i \in DOMAIN todo[c] : todo[c][i].kind = "part" => todo[c][i].at \div PAGE_SIZE # f
        /\ Succeeded(c) =>
              \A v \in Touched(acc[c]) : Flags(PageOf(v)) \cap MUST_DIRTY # {} =>
                  c \in dirty[env.frame[PageOf(v)]]

\* Under Miri two copies never overlap while one of them stores.
NoDataRace ==
    \A c, d \in Cpus : c # d /\ pc[c] = "copy" /\ pc[d] = "copy" /\ IsStore(c) =>
        LET p == Head(todo[c])
            q == Head(todo[d])
        IN  (p.at..(p.at + p.width - 1)) \cap (q.at..(q.at + q.width - 1)) = {}

\* Every access ends, whatever locks it meets on its way.
AccessesReturn == <>(\A c \in Cpus : Done(c))
=============================================================================

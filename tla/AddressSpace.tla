---------------------------- MODULE AddressSpace ----------------------------
(***************************************************************************)
(* Guest address spaces: IoMMU (io-mmu/src/lib.rs), its page table         *)
(* (io-mmu/src/page_table.rs) and the TLBs that cache it                   *)
(* (emu-abi/src/memory.rs, io-mmu/src/lookup_cache.rs).                    *)
(*                                                                         *)
(* A method that takes &mut self excludes every other use of its IoMMU, so *)
(* each is one action; a TLB belongs to one CPU.  The contents of a page   *)
(* are one value.  Host pages, object slots and identifiers are heap       *)
(* allocations: one is free, and can be handed out again, when nothing     *)
(* that owns a reference names it.  A TLB entry owns its identifier but    *)
(* not its page.                                                           *)
(*                                                                         *)
(* A host page is a MemoryBackedPage: a page of memory and the header that *)
(* an Arc counts.  map_extern makes headers for memory the caller owns, as *)
(* many for one page as there are calls, and all of them show that memory. *)
(***************************************************************************)
EXTENDS Integers, FiniteSets

CONSTANTS Mmus,       \* IoMMUs that may exist at the same time
          Cpus,       \* CPUs, each with a TLB
          Pages,      \* virtual page numbers
          Hosts,      \* host pages
          External,   \* host page -> the external page it is about, or NoExtern
          Readonly,   \* external pages the caller may not let anyone write
          Slots,      \* ObjectSlots
          Idents,     \* identifier allocations
          Prots,      \* protections that are asked for
          Vals,       \* contents of a page
          Zero,       \* the contents of a fresh page
          TLB_SIZE,   \* entries of a TLB
          Kinds,      \* mapping kinds that are asked for
          Caches,     \* LookupCaches in use: "none" (NoCache), "tlb"
          StoreOps,   \* store functions in use: "scalar", "bulk", "force"
          Forking     \* whether IoMMU::fork is in use

NoHost  == "NoHost"
NoSlot  == "NoSlot"
NoIdent == "NoIdent"
NoExtern == -1

ASSUME AddressSpaceAssumption ==
    /\ IsFiniteSet(Mmus) /\ IsFiniteSet(Slots)
    /\ Pages \subseteq Nat /\ IsFiniteSet(Pages)
    /\ NoHost \notin Hosts /\ NoSlot \notin Slots /\ NoIdent \notin Idents
    /\ External \in [Hosts -> Nat \cup {NoExtern}] /\ Readonly \subseteq Nat
    /\ Prots \subseteq SUBSET {"R", "W", "X"}
    /\ Zero \in Vals
    /\ TLB_SIZE \in Nat \ {0}
    /\ Kinds \subseteq {"AnonPrivate", "AnonCow", "AnonShared", "ObjShared", "ObjPrivate",
                       "ExtPrivate", "ExtCow", "ExtShared"}
    /\ Caches \subseteq {"none", "tlb"}
    /\ StoreOps \subseteq {"scalar", "bulk", "force"}
    /\ Forking \in BOOLEAN

VARIABLES
    live,      \* the IoMMUs that exist
    table,     \* mmu -> PageTable::table: page -> PageEntry or Unmapped
    ident,     \* mmu -> IoMMU::identifier
    slotPage,  \* slot -> ObjectSlot::page, or NoHost
    zeroPage,  \* CpuFabric::zero_page, or NoHost
    content,   \* host page -> contents
    tlb,       \* cpu -> index -> TlbEntry or NoEntry
    priv       \* history: mmu -> page -> what its private mapping holds

vars == <<live, table, ident, slotPage, zeroPage, content, tlb, priv>>

NoPage  == [host |-> NoHost, flags |-> {}]
NoEntry == [ident |-> NoIdent, vpn |-> 0, host |-> NoHost, flags |-> {}]

\* A PageEntry: PageSource::Shared, ::Private with write_protected, or ::Object.
Shared(h, prot)      == [kind |-> "Shared", host |-> h, slot |-> NoSlot, flag |-> FALSE, prot |-> prot]
Private(h, wp, prot) == [kind |-> "Private", host |-> h, slot |-> NoSlot, flag |-> wp, prot |-> prot]
Object(s, sh, prot)  == [kind |-> "Object", host |-> NoHost, slot |-> s, flag |-> sh, prot |-> prot]
Unmapped == [kind |-> "None", host |-> NoHost, slot |-> NoSlot, flag |-> FALSE, prot |-> {}]

-----------------------------------------------------------------------------
(* What owns what *)

Mapped(m) == {p \in Pages : table[m][p] # Unmapped}

\* The table entries that exist, by place.
Places == {x \in Mmus \X Pages : x[1] \in live /\ table[x[1]][x[2]] # Unmapped}
EntryAt(x) == table[x[1]][x[2]]

UsedSlots == {EntryAt(x).slot : x \in Places}

\* Arc::strong_count of a page: entries, slots and the fabric own it.
Owners(h) ==
    Cardinality({x \in Places : EntryAt(x).host = h})
      + Cardinality({s \in UsedSlots : s # NoSlot /\ slotPage[s] = h})
      + (IF zeroPage = h THEN 1 ELSE 0)

\* Pages that the allocator may give, and headers for a page of external memory.
FreeHosts   == {h \in Hosts : External[h] = NoExtern /\ Owners(h) = 0}
FreeExterns == {h \in Hosts : External[h] # NoExtern /\ Owners(h) = 0}
FreeSlots  == Slots \ UsedSlots

\* Mutant: an identifier that only TLBs still name counts as free.
FreeIdentsUnowned == Idents \ {ident[m] : m \in live}

\* IoMMUIdentifier::unique_token gives an allocation nobody holds a count of.
FreeIdents == Idents \ ({ident[m] : m \in live}
                          \cup {tlb[c][i].ident : c \in Cpus, i \in 0 .. TLB_SIZE - 1})

-----------------------------------------------------------------------------
(* PageEntry::as_page *)

EntryHost(e) == IF e.kind = "Object" THEN slotPage[e.slot] ELSE e.host

\* The tag: MemFlags of the source, and the protections on top of them.
EntryFlags(e) ==
    (CASE e.kind = "Private" /\ e.flag -> {"COW"} \cup (e.prot \ {"W"})
       [] e.kind = "Object" /\ e.flag  -> {"OBJ_BACKED"} \cup e.prot
       [] OTHER                        -> e.prot) \cup e.prot

\* Mutant: a slot without page is not noticed.
as_page_unchecked(e) ==
    IF e = Unmapped THEN NoPage ELSE [host |-> EntryHost(e), flags |-> EntryFlags(e)]

\* PageTable::get_page: NoPage stands for the general-protection fault, of a
\* page that is not mapped and of an object page that is not resident.
as_page(e) ==
    IF e = Unmapped \/ (e.kind = "Object" /\ slotPage[e.slot] = NoHost) THEN NoPage
    ELSE [host |-> EntryHost(e), flags |-> EntryFlags(e)]

-----------------------------------------------------------------------------
(* Changes of the table, all through IoMMU::modify_table_full *)

Ranges == {ps \in {a .. b : a, b \in Pages} : ps # {} /\ ps \subseteq Pages}

\* One fresh allocation for each x of S.
Fresh(S, free) == {f \in [S -> free] : \A x, y \in S : f[x] = f[y] => x = y}

\* ChangeIdentifier: a table that was modified gets a new identifier.
ChangeIdent(m, modified) ==
    \/ ~modified /\ UNCHANGED ident
    \/ modified /\ \E i \in FreeIdents : ident' = [ident EXCEPT ![m] = i]

\* IoMMU::new
New(m) ==
    /\ m \notin live
    /\ live' = live \cup {m}
    /\ \E i \in FreeIdents : ident' = [ident EXCEPT ![m] = i]
    /\ UNCHANGED <<table, slotPage, zeroPage, content, tlb, priv>>

\* The IoMMU is dropped with its table.
Drop(m) ==
    /\ m \in live
    /\ live' = live \ {m}
    /\ table' = [table EXCEPT ![m] = [p \in Pages |-> Unmapped]]
    /\ ident' = [ident EXCEPT ![m] = NoIdent]
    /\ priv' = [priv EXCEPT ![m] = [p \in Pages |-> Zero]]
    /\ UNCHANGED <<slotPage, zeroPage, content, tlb>>

\* map with lazy = false: every page gets a host page of its own.
MapAnon(m, ps, shared, prot) ==
    \E f \in Fresh(ps, FreeHosts) :
        /\ table' = [table EXCEPT ![m] = [p \in Pages |->
                       IF p \notin ps THEN table[m][p]
                       ELSE IF shared THEN Shared(f[p], prot)
                       ELSE Private(f[p], FALSE, prot)]]
        /\ content' = [h \in Hosts |-> IF h \in {f[p] : p \in ps} THEN Zero ELSE content[h]]
        /\ UNCHANGED <<slotPage, zeroPage>>

\* map with lazy = true: views of the fabric's zero page, made on first use.
MapCow(m, ps, prot) ==
    \E z \in (IF zeroPage = NoHost THEN FreeHosts ELSE {zeroPage}) :
        /\ zeroPage' = z
        /\ content' = IF zeroPage = NoHost THEN [content EXCEPT ![z] = Zero] ELSE content
        /\ table' = [table EXCEPT ![m] = [p \in Pages |->
                       IF p \in ps THEN Private(z, TRUE, prot) ELSE table[m][p]]]
        /\ UNCHANGED slotPage

\* map_device: every page gets a slot without page.
MapObject(m, ps, shared, prot) ==
    \E f \in Fresh(ps, FreeSlots) :
        /\ table' = [table EXCEPT ![m] = [p \in Pages |->
                       IF p \in ps THEN Object(f[p], shared, prot) ELSE table[m][p]]]
        /\ slotPage' = [s \in Slots |-> IF s \in {f[p] : p \in ps} THEN NoHost ELSE slotPage[s]]
        /\ UNCHANGED <<zeroPage, content>>

\* base_ptr.add_pages: new headers for consecutive pages of external memory.
FreshViews(ps) ==
    {f \in Fresh(ps, FreeExterns) :
        \A p, q \in ps : External[f[p]] - External[f[q]] = p - q}

\* map_extern.  Without `readonly` the memory has to be writable; with it, the new
\* page is write-protected although nothing else owns it.
MapExtern(m, ps, kind, prot) ==
    \E f \in FreshViews(ps) :
        /\ kind # "ExtCow" => \A p \in ps : External[f[p]] \notin Readonly
        /\ table' = [table EXCEPT ![m] = [p \in Pages |->
                       IF p \notin ps THEN table[m][p]
                       ELSE IF kind = "ExtShared" THEN Shared(f[p], prot)
                       ELSE Private(f[p], kind = "ExtCow", prot)]]
        /\ UNCHANGED <<slotPage, zeroPage, content>>

\* What a new mapping shows.
MappedContent(e) == IF e.host = NoHost THEN Zero ELSE content'[e.host]

\* map_region: all or nothing, and only where nothing is mapped.
Map(m, ps, kind, prot) ==
    /\ m \in live
    /\ ps \cap Mapped(m) = {}
    /\ \/ kind = "AnonPrivate" /\ MapAnon(m, ps, FALSE, prot)
       \/ kind = "AnonShared"  /\ MapAnon(m, ps, TRUE, prot)
       \/ kind = "AnonCow"     /\ MapCow(m, ps, prot)
       \/ kind = "ObjShared"   /\ MapObject(m, ps, TRUE, prot)
       \/ kind = "ObjPrivate"  /\ MapObject(m, ps, FALSE, prot)
       \/ kind \in {"ExtPrivate", "ExtCow", "ExtShared"} /\ MapExtern(m, ps, kind, prot)
    /\ ChangeIdent(m, TRUE)
    /\ priv' = [priv EXCEPT ![m] = [p \in Pages |->
                   IF p \in ps THEN MappedContent(table'[m][p]) ELSE priv[m][p]]]
    /\ UNCHANGED <<live, tlb>>

\* unmap: pages that are not mapped are skipped.
Unmap(m, ps) ==
    /\ m \in live
    /\ table' = [table EXCEPT ![m] = [p \in Pages |->
                   IF p \in ps THEN Unmapped ELSE table[m][p]]]
    /\ ChangeIdent(m, ps \cap Mapped(m) # {})
    /\ priv' = [priv EXCEPT ![m] = [p \in Pages |-> IF p \in ps THEN Zero ELSE priv[m][p]]]
    /\ UNCHANGED <<live, slotPage, zeroPage, content, tlb>>

\* protect: every page of the range must be mapped.
Protect(m, ps, prot) ==
    /\ m \in live
    /\ ps \subseteq Mapped(m)
    /\ table' = [table EXCEPT ![m] = [p \in Pages |->
                   IF p \in ps THEN [table[m][p] EXCEPT !.prot = prot] ELSE table[m][p]]]
    /\ ChangeIdent(m, \E p \in ps : table[m][p].prot # prot)
    /\ UNCHANGED <<live, slotPage, zeroPage, content, tlb, priv>>

-----------------------------------------------------------------------------
(* IoMMU::fork *)

\* Private objects that are not resident get a slot of their own in the child.
Unshared(e) == e.kind = "Object" /\ ~e.flag
NeedsSlot(e) == Unshared(e) /\ slotPage[e.slot] = NoHost

\* PageSource::fork: what is left in the parent ...
ForkedParent(e) ==
    CASE e.kind = "Private" -> Private(e.host, TRUE, e.prot)
      [] Unshared(e) /\ ~NeedsSlot(e) -> Private(slotPage[e.slot], TRUE, e.prot)
      [] OTHER -> e

\* ... and what the child gets, s being a fresh slot if one is needed.
ForkedChild(e, s) ==
    IF NeedsSlot(e) THEN Object(s, FALSE, e.prot) ELSE ForkedParent(e)

\* The closure returns new_table.is_empty() as its `modified`.
Fork(m, n) ==
    /\ m \in live
    /\ n \notin live
    /\ Forking
    /\ live' = live \cup {n}
    /\ \E f \in Fresh({p \in Pages : NeedsSlot(table[m][p])}, FreeSlots) :
         /\ table' = [table EXCEPT
               ![m] = [p \in Pages |-> ForkedParent(table[m][p])],
               ![n] = [p \in Pages |->
                         ForkedChild(table[m][p],
                                     IF p \in DOMAIN f THEN f[p] ELSE NoSlot)]]
         /\ slotPage' = [s \in Slots |-> IF \E p \in DOMAIN f : f[p] = s THEN NoHost
                                         ELSE slotPage[s]]
    /\ \E i \in (IF Mapped(m) = {} THEN FreeIdents ELSE {ident[m]}) :
         ident' = [ident EXCEPT ![m] = i, ![n] = i]
    /\ priv' = [priv EXCEPT ![n] = priv[m]]
    /\ UNCHANGED <<zeroPage, content, tlb>>

\* Mutant: Arc::make_mut that never copies.
NeedsCopyNever(h) == FALSE

\* Arc::make_mut copies a page that has another owner.
NeedsCopy(h) == Owners(h) > 1

\* MemoryBackedPage::clone: the zero page is not read.
ClonedContent(h) == IF h = zeroPage THEN Zero ELSE content[h]

\* copy_all_cow_pages: PageEntry::un_cow on every page.  A page without other owner
\* becomes writable as it is, external or not.
CopyAllCow(m) ==
    LET cow  == {p \in Pages : table[m][p].kind = "Private" /\ table[m][p].flag}
        need == {p \in cow : NeedsCopy(table[m][p].host)}
    IN  /\ m \in live
        /\ \E f \in Fresh(need, FreeHosts) :
             /\ table' = [table EXCEPT ![m] = [p \in Pages |->
                   CASE p \in need -> Private(f[p], FALSE, table[m][p].prot)
                     [] p \in cow \ need -> Private(table[m][p].host, FALSE, table[m][p].prot)
                     [] OTHER -> table[m][p]]]
             /\ content' = [h \in Hosts |->
                   IF \E p \in need : f[p] = h
                   THEN ClonedContent(table[m][CHOOSE p \in need : f[p] = h].host)
                   ELSE content[h]]
        /\ ChangeIdent(m, cow # {})
        /\ UNCHANGED <<live, slotPage, zeroPage, tlb, priv>>

\* The object manager publishes a page of a slot (see ObjectManager): v is what
\* the memory object holds.
FaultIn(s, v) ==
    /\ s \in UsedSlots
    /\ slotPage[s] = NoHost
    /\ \E h \in FreeHosts :
         /\ slotPage' = [slotPage EXCEPT ![s] = h]
         /\ content' = [content EXCEPT ![h] = v]
    /\ priv' = [m \in Mmus |-> [p \in Pages |->
                  IF m \in live /\ table[m][p].slot = s /\ ~table[m][p].flag
                  THEN v ELSE priv[m][p]]]
    /\ UNCHANGED <<live, table, ident, zeroPage, tlb>>

-----------------------------------------------------------------------------
(* Accesses *)

Index(p) == p % TLB_SIZE

\* Tlb::lookup
Hit(c, m, p) ==
    LET e == tlb[c][Index(p)] IN e.ident = ident[m] /\ e.vpn = p

\* LookupCache::get_page of NoCache and of Tlb.
Lookup(c, m, p, cache) ==
    IF cache = "tlb" /\ Hit(c, m, p)
    THEN [host |-> tlb[c][Index(p)].host, flags |-> tlb[c][Index(p)].flags]
    ELSE as_page(table[m][p])

\* Tlb::lookup fills the entry on a miss, unless the page faults.
Refill(c, m, p, cache) ==
    IF cache = "tlb" /\ ~Hit(c, m, p) /\ as_page(table[m][p]) # NoPage
    THEN tlb' = [tlb EXCEPT ![c][Index(p)] =
                   [ident |-> ident[m], vpn |-> p,
                    host |-> as_page(table[m][p]).host,
                    flags |-> as_page(table[m][p]).flags]]
    ELSE UNCHANGED tlb

\* load, load_byte, loadN_le, fetch_aarch64: nothing changes but the TLB.
Load(c, m, p, cache) ==
    /\ m \in live
    /\ Refill(c, m, p, cache)
    /\ UNCHANGED <<live, table, ident, slotPage, zeroPage, content, priv>>

\* Mutant: no store looks for COW.
StoreAllowedCow(op, flags) == op = "force" \/ "W" \in flags

\* store_byte, storeN_le and strex look at WRITE, store at WRITE and COW, store_force
\* at COW only.
StoreAllowed(op, flags) ==
    /\ op \in {"scalar", "bulk"} => "W" \in flags
    /\ op \in {"bulk", "force"} => "COW" \notin flags

IsPrivate(e) == e.kind = "Private" \/ Unshared(e)

\* The other host pages that show the memory of h.
OtherViews(h) ==
    {g \in Hosts \ {h} : External[g] = External[h] /\ External[h] # NoExtern}

Store(c, m, p, v, op, cache) ==
    LET page == Lookup(c, m, p, cache)
    IN  /\ m \in live
        /\ page # NoPage
        /\ StoreAllowed(op, page.flags)
        /\ content' = [h \in Hosts |->
                         IF h = page.host \/ h \in OtherViews(page.host) THEN v ELSE content[h]]
        /\ priv' = [n \in Mmus |-> [q \in Pages |->
                      IF \/ n = m /\ q = p /\ IsPrivate(table[m][p])
                         \/ n \in live /\ EntryHost(table[n][q]) \in OtherViews(page.host)
                      THEN v ELSE priv[n][q]]]
        /\ Refill(c, m, p, cache)
        /\ UNCHANGED <<live, table, ident, slotPage, zeroPage>>

-----------------------------------------------------------------------------

Init ==
    /\ live = {}
    /\ table = [m \in Mmus |-> [p \in Pages |-> Unmapped]]
    /\ ident = [m \in Mmus |-> NoIdent]
    /\ slotPage = [s \in Slots |-> NoHost]
    /\ zeroPage = NoHost
    /\ content = [h \in Hosts |-> Zero]
    /\ tlb = [c \in Cpus |-> [i \in 0 .. TLB_SIZE - 1 |-> NoEntry]]
    /\ priv = [m \in Mmus |-> [p \in Pages |-> Zero]]

Next ==
    \/ \E m \in Mmus : New(m) \/ Drop(m) \/ CopyAllCow(m)
    \/ \E m \in Mmus, ps \in Ranges :
          \/ Unmap(m, ps)
          \/ \E prot \in Prots : Protect(m, ps, prot) \/ \E k \in Kinds : Map(m, ps, k, prot)
    \/ \E m, n \in Mmus : Fork(m, n)
    \/ \E s \in Slots, v \in Vals : FaultIn(s, v)
    \/ \E c \in Cpus, m \in Mmus, p \in Pages, cache \in Caches :
          \/ Load(c, m, p, cache)
          \/ \E v \in Vals, op \in StoreOps : Store(c, m, p, v, op, cache)

Spec == Init /\ [][Next]_vars

-----------------------------------------------------------------------------
(* Properties *)

EntryType ==
    {Unmapped} \cup {Shared(h, q) : h \in Hosts, q \in Prots}
      \cup {Private(h, w, q) : h \in Hosts, w \in BOOLEAN, q \in Prots}
      \cup {Object(s, b, q) : s \in Slots, b \in BOOLEAN, q \in Prots}

TlbEntryType ==
    [ident : Idents, vpn : Pages, host : Hosts,
     flags : SUBSET {"R", "W", "X", "COW", "OBJ_BACKED"}]

\* Types of the state; a dead IoMMU maps nothing.
TypeOK ==
    /\ live \subseteq Mmus
    /\ table \in [Mmus -> [Pages -> EntryType]]
    /\ \A m \in Mmus \ live : Mapped(m) = {}
    /\ ident \in [Mmus -> Idents \cup {NoIdent}]
    /\ slotPage \in [Slots -> Hosts \cup {NoHost}]
    /\ zeroPage \in Hosts \cup {NoHost}
    /\ content \in [Hosts -> Vals]
    /\ tlb \in [Cpus -> [0 .. TLB_SIZE - 1 -> TlbEntryType \cup {NoEntry}]]
    /\ priv \in [Mmus -> [Pages -> Vals]]

\* Tlb::lookup returns what the page table would: a hit names the page that is
\* mapped there now (never a freed or reused one) with the protections it has
\* now, whatever was mapped, unmapped, protected or copied since the refill and
\* whichever identifier allocations were reused.
TlbFaithful ==
    \A c \in Cpus, m \in live, p \in Pages :
        Hit(c, m, p) => Lookup(c, m, p, "tlb") = as_page(table[m][p])

\* Private memory is private: what an address space reads in a private mapping is
\* what it stored there last, or what was there when it was mapped, faulted in or
\* forked; no store of another address space, or through another mapping of the
\* zero page, shows through.  External memory is private to the fork tree of one
\* map_extern: what is stored through another map_extern of the same page shows.
PrivateIsolated ==
    \A m \in live, p \in Pages :
        (IsPrivate(table[m][p]) /\ as_page(table[m][p]) # NoPage)
            => content[EntryHost(table[m][p])] = priv[m][p]

\* A private page that can be stored to without a copy first (not tagged COW) is
\* the page of one mapping only, never the zero page; this says nothing of other
\* headers for the same external memory.
WritableUnshared ==
    \A m \in live, p \in Pages :
        (table[m][p].kind = "Private" /\ ~table[m][p].flag)
            => Owners(table[m][p].host) = 1

\* Memory handed to map_extern with `readonly` "must not be written to".  un_cow
\* finds its header without other owner and makes the memory itself writable, so
\* this does not hold (AddressSpace_extern.cfg).
ReadonlyUntouched ==
    \A h \in Hosts : External[h] \in Readonly => content[h] = Zero
=============================================================================

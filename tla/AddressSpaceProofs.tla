------------------------- MODULE AddressSpaceProofs -------------------------
(***************************************************************************)
(* Machine-checked proofs about AddressSpace, for every set of address     *)
(* spaces, CPUs, pages, host pages, slots and identifiers, every TLB size  *)
(* and every choice of mapping kinds and protections.                      *)
(***************************************************************************)
EXTENDS AddressSpace, FiniteSetTheorems, TLAPS

-----------------------------------------------------------------------------
(* Page entries *)

\* An entry by its fields.
Shape(e) ==
    /\ e = [kind |-> e.kind, host |-> e.host, slot |-> e.slot, flag |-> e.flag,
            prot |-> e.prot]
    /\ \/ e = Unmapped
       \/ /\ e.kind = "Shared" /\ e.host \in Hosts /\ e.slot = NoSlot
          /\ e.flag = FALSE /\ e.prot \in Prots
       \/ /\ e.kind = "Private" /\ e.host \in Hosts /\ e.slot = NoSlot
          /\ e.flag \in BOOLEAN /\ e.prot \in Prots
       \/ /\ e.kind = "Object" /\ e.host = NoHost /\ e.slot \in Slots
          /\ e.flag \in BOOLEAN /\ e.prot \in Prots

LEMMA EntryShape ==
    ASSUME NEW e \in EntryType
    PROVE  Shape(e)
BY DEF EntryType, Shape, Unmapped, Shared, Private, Object

LEMMA EntryOfKind ==
    ASSUME NEW e \in EntryType
    PROVE  /\ e.kind \in {"None", "Shared", "Private", "Object"}
           /\ e.flag \in BOOLEAN
           /\ e.kind = "None" <=> e = Unmapped
           /\ e.kind # "None" => e.prot \in Prots
           /\ e.kind = "Shared" => e.host \in Hosts /\ e.slot = NoSlot /\ e.flag = FALSE
           /\ e.kind = "Private" => e.host \in Hosts /\ e.slot = NoSlot
           /\ e.kind = "Object" => e.host = NoHost /\ e.slot \in Slots
<1>1. Shape(e)
  BY EntryShape
<1>2. /\ Unmapped.kind = "None" /\ Unmapped.flag = FALSE
  BY DEF Unmapped
<1> QED
  BY <1>1, <1>2 DEF Shape

\* The constructors make entries, with the fields they are given.
LEMMA UnmappedEntry ==
    /\ Unmapped \in EntryType
    /\ Unmapped.kind = "None" /\ Unmapped.host = NoHost /\ Unmapped.slot = NoSlot
    /\ Unmapped.flag = FALSE
BY DEF EntryType, Unmapped

LEMMA SharedEntry ==
    ASSUME NEW h \in Hosts, NEW q \in Prots
    PROVE  /\ Shared(h, q) \in EntryType /\ Shared(h, q) # Unmapped
           /\ Shared(h, q).kind = "Shared" /\ Shared(h, q).host = h
           /\ Shared(h, q).slot = NoSlot /\ Shared(h, q).flag = FALSE
<1>2. Shared(h, q) \in EntryType
  BY DEF EntryType
<1> QED
  BY <1>2 DEF Shared, Unmapped

LEMMA PrivateEntry ==
    ASSUME NEW h \in Hosts, NEW w \in BOOLEAN, NEW q \in Prots
    PROVE  /\ Private(h, w, q) \in EntryType /\ Private(h, w, q) # Unmapped
           /\ Private(h, w, q).kind = "Private" /\ Private(h, w, q).host = h
           /\ Private(h, w, q).slot = NoSlot /\ Private(h, w, q).flag = w
BY DEF EntryType, Private, Unmapped

LEMMA ObjectEntry ==
    ASSUME NEW s \in Slots, NEW b \in BOOLEAN, NEW q \in Prots
    PROVE  /\ Object(s, b, q) \in EntryType /\ Object(s, b, q) # Unmapped
           /\ Object(s, b, q).kind = "Object" /\ Object(s, b, q).host = NoHost
           /\ Object(s, b, q).slot = s /\ Object(s, b, q).flag = b
BY DEF EntryType, Object, Unmapped

\* protect leaves an entry of the same kind.
LEMMA ProtectedEntry ==
    ASSUME NEW e \in EntryType, e # Unmapped, NEW q \in Prots
    PROVE  [e EXCEPT !.prot = q] \in EntryType
<1>1. Shape(e)
  BY EntryShape
<1>3. CASE e.kind = "Shared"
  BY <1>1, <1>3, SharedEntry DEF Shape, Shared
<1>4. CASE e.kind = "Private"
  BY <1>1, <1>4, PrivateEntry DEF Shape, Private
<1>5. CASE e.kind = "Object"
  BY <1>1, <1>5, ObjectEntry DEF Shape, Object
<1> QED
  BY <1>1, <1>3, <1>4, <1>5 DEF Shape

\* PageTable::get_page finds a page or faults.
LEMMA PageFound ==
    ASSUME TypeOK, NEW e \in EntryType, as_page(e) # NoPage
    PROVE  /\ as_page(e) = [host |-> EntryHost(e), flags |-> EntryFlags(e)]
           /\ EntryHost(e) \in Hosts
           /\ EntryFlags(e) \in SUBSET {"R", "W", "X", "COW", "OBJ_BACKED"}
           /\ e # Unmapped
<1>1. Shape(e)
  BY EntryShape
<1>2. e # Unmapped /\ ~(e.kind = "Object" /\ slotPage[e.slot] = NoHost)
  BY DEF as_page
<1>3. EntryHost(e) \in Hosts
  BY <1>1, <1>2 DEF EntryHost, Shape, TypeOK
<1>4. e.prot \subseteq {"R", "W", "X"}
  BY <1>1, <1>2, AddressSpaceAssumption DEF Shape
<1>5. EntryFlags(e) \in SUBSET {"R", "W", "X", "COW", "OBJ_BACKED"}
  BY <1>4 DEF EntryFlags
<1> QED
  BY <1>3, <1>5 DEF as_page

-----------------------------------------------------------------------------
(* Types *)

\* A row of the table is replaced.
LEMMA RowReplaced ==
    ASSUME TypeOK, NEW m \in Mmus, NEW row \in [Pages -> EntryType],
           table' = [table EXCEPT ![m] = row]
    PROVE  /\ table' \in [Mmus -> [Pages -> EntryType]]
           /\ table'[m] = row
           /\ \A n \in Mmus \ {m} : table'[n] = table[n]
BY DEF TypeOK

LEMMA IdentChanged ==
    ASSUME TypeOK, NEW m \in Mmus, NEW b, ChangeIdent(m, b)
    PROVE  ident' \in [Mmus -> Idents \cup {NoIdent}]
BY DEF TypeOK, ChangeIdent, FreeIdents

\* The pages whose entries are those of dead address spaces stay unmapped.
LEMMA DeadUnmapped ==
    ASSUME TypeOK, NEW m \in live, live' = live,
           \A n \in Mmus \ {m} : table'[n] = table[n]
    PROVE  \A n \in Mmus \ live' : Mapped(n)' = {}
BY DEF TypeOK, Mapped

LEMMA MapType ==
    ASSUME TypeOK, NEW m \in Mmus, NEW ps \in SUBSET Pages, NEW k, NEW q \in Prots,
           Map(m, ps, k, q)
    PROVE  TypeOK'
<1>a. m \in live /\ live' = live /\ tlb' = tlb
  BY DEF Map
<1>b. ident' \in [Mmus -> Idents \cup {NoIdent}]
  BY IdentChanged DEF Map
<1>c. ASSUME table' \in [Mmus -> [Pages -> EntryType]], content' \in [Hosts -> Vals]
      PROVE  priv' \in [Mmus -> [Pages -> Vals]]
  <2>1. ASSUME NEW p \in Pages
        PROVE  MappedContent(table'[m][p]) \in Vals
    <3>1. table'[m][p] \in EntryType
      BY <1>c
    <3>2. table'[m][p].host \in Hosts \cup {NoHost}
      BY <3>1, EntryShape, UnmappedEntry DEF Shape
    <3> QED
      BY <1>c, <3>2, AddressSpaceAssumption DEF MappedContent
  <2> DEFINE row == [p \in Pages |->
                       IF p \in ps THEN MappedContent(table'[m][p]) ELSE priv[m][p]]
  <2>2. row \in [Pages -> Vals]
    BY <2>1 DEF TypeOK
  <2>3. priv' = [priv EXCEPT ![m] = row]
    BY DEF Map
  <2> QED
    BY <2>2, <2>3 DEF TypeOK
<1>1. ASSUME NEW shared \in BOOLEAN, MapAnon(m, ps, shared, q)
      PROVE  TypeOK'
  <2>1. PICK f \in Fresh(ps, FreeHosts) :
            /\ table' = [table EXCEPT ![m] = [p \in Pages |->
                           IF p \notin ps THEN table[m][p]
                           ELSE IF shared THEN Shared(f[p], q)
                           ELSE Private(f[p], FALSE, q)]]
            /\ content' = [h \in Hosts |-> IF h \in {f[p] : p \in ps} THEN Zero ELSE content[h]]
    BY <1>1 DEF MapAnon
  <2>2. \A p \in ps : f[p] \in Hosts
    BY DEF Fresh, FreeHosts
  <2> DEFINE row == [p \in Pages |-> IF p \notin ps THEN table[m][p]
                                     ELSE IF shared THEN Shared(f[p], q)
                                     ELSE Private(f[p], FALSE, q)]
  <2>3. row \in [Pages -> EntryType]
    <3> SUFFICES ASSUME NEW p \in Pages
                 PROVE  row[p] \in EntryType
      OBVIOUS
    <3>1. CASE p \notin ps
      BY <3>1 DEF TypeOK
    <3>2. CASE p \in ps
      BY <2>2, <3>2, SharedEntry, PrivateEntry
    <3> QED
      BY <3>1, <3>2
  <2>4. /\ table' \in [Mmus -> [Pages -> EntryType]]
        /\ \A n \in Mmus \ {m} : table'[n] = table[n]
    BY <2>1, <2>3, RowReplaced
  <2>5. content' \in [Hosts -> Vals]
    BY <2>1, AddressSpaceAssumption DEF TypeOK
  <2>6. \A n \in Mmus \ live' : Mapped(n)' = {}
    BY <1>a, <2>4, DeadUnmapped
  <2>7. priv' \in [Mmus -> [Pages -> Vals]]
    BY <1>c, <2>4, <2>5
  <2> QED
    BY <1>1, <1>a, <1>b, <2>4, <2>5, <2>6, <2>7 DEF TypeOK, MapAnon
<1>2. ASSUME MapCow(m, ps, q)
      PROVE  TypeOK'
  <2>1. PICK z \in (IF zeroPage = NoHost THEN FreeHosts ELSE {zeroPage}) :
            /\ zeroPage' = z
            /\ content' = IF zeroPage = NoHost THEN [content EXCEPT ![z] = Zero] ELSE content
            /\ table' = [table EXCEPT ![m] = [p \in Pages |->
                           IF p \in ps THEN Private(z, TRUE, q) ELSE table[m][p]]]
    BY <1>2 DEF MapCow
  <2>2. z \in Hosts
    BY DEF FreeHosts, TypeOK
  <2> DEFINE row == [p \in Pages |-> IF p \in ps THEN Private(z, TRUE, q) ELSE table[m][p]]
  <2>3. row \in [Pages -> EntryType]
    BY <2>2, PrivateEntry, ZenonT(40) DEF TypeOK
  <2>4. /\ table' \in [Mmus -> [Pages -> EntryType]]
        /\ \A n \in Mmus \ {m} : table'[n] = table[n]
    BY <2>1, <2>3, RowReplaced
  <2>5. content' \in [Hosts -> Vals]
    BY <2>1, AddressSpaceAssumption DEF TypeOK
  <2>6. \A n \in Mmus \ live' : Mapped(n)' = {}
    BY <1>a, <2>4, DeadUnmapped
  <2>7. priv' \in [Mmus -> [Pages -> Vals]]
    BY <1>c, <2>4, <2>5
  <2> QED
    BY <1>2, <1>a, <1>b, <2>1, <2>2, <2>4, <2>5, <2>6, <2>7 DEF TypeOK, MapCow
<1>3. ASSUME NEW shared \in BOOLEAN, MapObject(m, ps, shared, q)
      PROVE  TypeOK'
  <2>1. PICK f \in Fresh(ps, FreeSlots) :
            /\ table' = [table EXCEPT ![m] = [p \in Pages |->
                           IF p \in ps THEN Object(f[p], shared, q) ELSE table[m][p]]]
            /\ slotPage' = [s \in Slots |->
                              IF s \in {f[p] : p \in ps} THEN NoHost ELSE slotPage[s]]
    BY <1>3 DEF MapObject
  <2>2. \A p \in ps : f[p] \in Slots
    BY DEF Fresh, FreeSlots
  <2> DEFINE row == [p \in Pages |-> IF p \in ps THEN Object(f[p], shared, q) ELSE table[m][p]]
  <2>3. row \in [Pages -> EntryType]
    BY <2>2, ObjectEntry DEF TypeOK
  <2>4. /\ table' \in [Mmus -> [Pages -> EntryType]]
        /\ \A n \in Mmus \ {m} : table'[n] = table[n]
    BY <2>1, <2>3, RowReplaced
  <2>6. \A n \in Mmus \ live' : Mapped(n)' = {}
    BY <1>a, <2>4, DeadUnmapped
  <2>7. priv' \in [Mmus -> [Pages -> Vals]]
    BY <1>3, <1>c, <2>4 DEF TypeOK, MapObject
  <2> QED
    BY <1>3, <1>a, <1>b, <2>4, <2>6, <2>7 DEF TypeOK, MapObject
<1>4. ASSUME MapExtern(m, ps, k, q)
      PROVE  TypeOK'
  <2>1. PICK f \in FreshViews(ps) :
            table' = [table EXCEPT ![m] = [p \in Pages |->
                        IF p \notin ps THEN table[m][p]
                        ELSE IF k = "ExtShared" THEN Shared(f[p], q)
                        ELSE Private(f[p], k = "ExtCow", q)]]
    BY <1>4 DEF MapExtern
  <2>2. \A p \in ps : f[p] \in Hosts
    BY DEF FreshViews, Fresh, FreeExterns
  <2> DEFINE row == [p \in Pages |-> IF p \notin ps THEN table[m][p]
                                     ELSE IF k = "ExtShared" THEN Shared(f[p], q)
                                     ELSE Private(f[p], k = "ExtCow", q)]
  <2>3. row \in [Pages -> EntryType]
    <3> DEFINE cow == k = "ExtCow"
    <3>a. cow \in BOOLEAN
      OBVIOUS
    <3> HIDE DEF cow
    <3> SUFFICES ASSUME NEW p \in Pages
                 PROVE  (IF p \notin ps THEN table[m][p]
                         ELSE IF k = "ExtShared" THEN Shared(f[p], q)
                         ELSE Private(f[p], cow, q)) \in EntryType
      BY DEF cow
    <3>1. CASE p \notin ps
      BY <3>1 DEF TypeOK
    <3>2. CASE p \in ps
      BY <2>2, <3>a, <3>2, SharedEntry, PrivateEntry
    <3> QED
      BY <3>1, <3>2
  <2>4. /\ table' \in [Mmus -> [Pages -> EntryType]]
        /\ \A n \in Mmus \ {m} : table'[n] = table[n]
    BY <2>1, <2>3, RowReplaced
  <2>6. \A n \in Mmus \ live' : Mapped(n)' = {}
    BY <1>a, <2>4, DeadUnmapped
  <2>7. priv' \in [Mmus -> [Pages -> Vals]]
    BY <1>4, <1>c, <2>4 DEF TypeOK, MapExtern
  <2> QED
    BY <1>4, <1>a, <1>b, <2>4, <2>6, <2>7 DEF TypeOK, MapExtern
<1> QED
  BY <1>1, <1>2, <1>3, <1>4 DEF Map

LEMMA NewType ==
    ASSUME TypeOK, NEW m \in Mmus, New(m)
    PROVE  TypeOK'
BY DEF TypeOK, New, FreeIdents, Mapped

LEMMA DropType ==
    ASSUME TypeOK, NEW m \in Mmus, Drop(m)
    PROVE  TypeOK'
<1>1. [p \in Pages |-> Unmapped] \in [Pages -> EntryType]
  BY UnmappedEntry
<1>2. /\ table' \in [Mmus -> [Pages -> EntryType]]
      /\ table'[m] = [p \in Pages |-> Unmapped]
      /\ \A n \in Mmus \ {m} : table'[n] = table[n]
  BY <1>1, RowReplaced DEF Drop
<1>3. \A n \in Mmus \ live' : Mapped(n)' = {}
  BY DEF Drop, TypeOK, Mapped
<1>4. ident' \in [Mmus -> Idents \cup {NoIdent}] /\ priv' \in [Mmus -> [Pages -> Vals]]
  BY AddressSpaceAssumption DEF TypeOK, Drop
<1> QED
  BY <1>2, <1>3, <1>4 DEF TypeOK, Drop

LEMMA UnmapType ==
    ASSUME TypeOK, NEW m \in Mmus, NEW ps \in SUBSET Pages, Unmap(m, ps)
    PROVE  TypeOK'
<1>1. [p \in Pages |-> IF p \in ps THEN Unmapped ELSE table[m][p]]
         \in [Pages -> EntryType]
  BY UnmappedEntry DEF TypeOK
<1>2. /\ table' \in [Mmus -> [Pages -> EntryType]]
      /\ \A n \in Mmus \ {m} : table'[n] = table[n]
  BY <1>1, RowReplaced DEF Unmap
<1>3. \A n \in Mmus \ live' : Mapped(n)' = {}
  BY DeadUnmapped DEF Unmap
<1>4. ident' \in [Mmus -> Idents \cup {NoIdent}]
  BY IdentChanged DEF Unmap
<1>5. priv' \in [Mmus -> [Pages -> Vals]]
  BY AddressSpaceAssumption DEF TypeOK, Unmap
<1> QED
  BY <1>2, <1>3, <1>4, <1>5 DEF TypeOK, Unmap

LEMMA ProtectType ==
    ASSUME TypeOK, NEW m \in Mmus, NEW ps \in SUBSET Pages, NEW q \in Prots,
           Protect(m, ps, q)
    PROVE  TypeOK'
<1> DEFINE row == [p \in Pages |-> IF p \in ps THEN [table[m][p] EXCEPT !.prot = q]
                                   ELSE table[m][p]]
<1>1. row \in [Pages -> EntryType]
  <2>1. \A p \in ps : table[m][p] \in EntryType /\ table[m][p] # Unmapped
    BY DEF Protect, Mapped, TypeOK
  <2>2. \A p \in ps : [table[m][p] EXCEPT !.prot = q] \in EntryType
    BY <2>1, ProtectedEntry
  <2> QED
    BY <2>2 DEF TypeOK
<1>2. /\ table' \in [Mmus -> [Pages -> EntryType]]
      /\ \A n \in Mmus \ {m} : table'[n] = table[n]
  BY <1>1, RowReplaced DEF Protect
<1>3. \A n \in Mmus \ live' : Mapped(n)' = {}
  BY DeadUnmapped DEF Protect
<1>4. ident' \in [Mmus -> Idents \cup {NoIdent}]
  BY IdentChanged DEF Protect
<1> QED
  BY <1>2, <1>3, <1>4 DEF TypeOK, Protect

\* What fork leaves in the parent, and gives to the child, are entries.
LEMMA ForkedEntry ==
    ASSUME TypeOK, NEW e \in EntryType, NEW s, NeedsSlot(e) => s \in Slots
    PROVE  ForkedParent(e) \in EntryType /\ ForkedChild(e, s) \in EntryType
<1>1. Shape(e)
  BY EntryShape
<1>2. ForkedParent(e) \in EntryType
  <2>1. CASE e.kind = "Private"
    <3>1. e.host \in Hosts /\ e.prot \in Prots
      BY <2>1, EntryOfKind
    <3>2. ForkedParent(e) = Private(e.host, TRUE, e.prot)
      BY <2>1 DEF ForkedParent, Unshared
    <3> QED
      BY <3>1, <3>2, PrivateEntry
  <2>2. CASE e.kind # "Private" /\ Unshared(e) /\ ~NeedsSlot(e)
    <3>1. slotPage[e.slot] \in Hosts /\ e.prot \in Prots
      BY <1>1, <2>2 DEF Shape, Unshared, NeedsSlot, TypeOK, Unmapped
    <3> QED
      BY <2>2, <3>1, PrivateEntry DEF ForkedParent
  <2>3. CASE e.kind # "Private" /\ ~(Unshared(e) /\ ~NeedsSlot(e))
    BY <2>3 DEF ForkedParent
  <2> QED
    BY <2>1, <2>2, <2>3
<1>3. ForkedChild(e, s) \in EntryType
  <2>1. CASE NeedsSlot(e)
    <3>1. e.prot \in Prots /\ s \in Slots
      BY <1>1, <2>1 DEF Shape, Unshared, NeedsSlot, Unmapped
    <3>2. ForkedChild(e, s) = Object(s, FALSE, e.prot)
      BY <2>1 DEF ForkedChild
    <3> QED
      BY <3>1, <3>2, ObjectEntry
  <2>2. CASE ~NeedsSlot(e)
    BY <1>2, <2>2 DEF ForkedChild
  <2> QED
    BY <2>1, <2>2
<1> QED
  BY <1>2, <1>3

LEMMA ForkType ==
    ASSUME TypeOK, NEW m \in Mmus, NEW n \in Mmus, Fork(m, n)
    PROVE  TypeOK'
<1>1. PICK f \in Fresh({p \in Pages : NeedsSlot(table[m][p])}, FreeSlots) :
         /\ table' = [table EXCEPT
               ![m] = [p \in Pages |-> ForkedParent(table[m][p])],
               ![n] = [p \in Pages |->
                         ForkedChild(table[m][p],
                                     IF p \in DOMAIN f THEN f[p] ELSE NoSlot)]]
         /\ slotPage' = [s \in Slots |-> IF \E p \in DOMAIN f : f[p] = s THEN NoHost
                                         ELSE slotPage[s]]
  BY DEF Fork
<1>2. \A p \in Pages : /\ table[m][p] \in EntryType
                       /\ NeedsSlot(table[m][p]) => p \in DOMAIN f /\ f[p] \in Slots
  BY DEF Fresh, FreeSlots, TypeOK
<1>3. \A p \in Pages :
         /\ ForkedParent(table[m][p]) \in EntryType
         /\ ForkedChild(table[m][p], IF p \in DOMAIN f THEN f[p] ELSE NoSlot) \in EntryType
  BY <1>2, ForkedEntry
<1>4. table' \in [Mmus -> [Pages -> EntryType]]
  BY <1>1, <1>3 DEF TypeOK
<1>6. \A l \in Mmus \ live' : Mapped(l)' = {}
  <2>1. \A l \in Mmus \ live' : l # m /\ l # n
    BY DEF Fork
  <2> QED
    BY <2>1 DEF Fork, TypeOK, Mapped
<1>7. ident' \in [Mmus -> Idents \cup {NoIdent}]
  BY SMTT(40) DEF Fork, FreeIdents, TypeOK
<1> QED
  BY <1>4, <1>6, <1>7 DEF Fork, TypeOK

\* The pages that copy_all_cow_pages makes writable, and those it copies.
Cow(m) == {p \in Pages : table[m][p].kind = "Private" /\ table[m][p].flag}
Copied(m) == {p \in Cow(m) : NeedsCopy(table[m][p].host)}

\* The row copy_all_cow_pages leaves, f being the fresh pages.
UnCowed(m, f) ==
    [p \in Pages |->
       CASE p \in Copied(m) -> Private(f[p], FALSE, table[m][p].prot)
         [] p \in Cow(m) \ Copied(m) -> Private(table[m][p].host, FALSE, table[m][p].prot)
         [] OTHER -> table[m][p]]

LEMMA CowEntry ==
    ASSUME TypeOK, NEW m \in Mmus, NEW p \in Cow(m)
    PROVE  /\ table[m][p] \in EntryType /\ table[m][p].slot = NoSlot
           /\ table[m][p].host \in Hosts /\ table[m][p].prot \in Prots
<1>1. table[m][p] \in EntryType /\ table[m][p].kind = "Private"
  BY DEF TypeOK, Cow
<1> QED
  BY <1>1, EntryOfKind

LEMMA CopyAllCowRow ==
    ASSUME TypeOK, NEW m \in Mmus, CopyAllCow(m)
    PROVE  \E f \in Fresh(Copied(m), FreeHosts) :
              /\ UnCowed(m, f) \in [Pages -> EntryType]
              /\ table' = [table EXCEPT ![m] = UnCowed(m, f)]
              /\ content' = [h \in Hosts |->
                    IF \E p \in Copied(m) : f[p] = h
                    THEN ClonedContent(table[m][CHOOSE p \in Copied(m) : f[p] = h].host)
                    ELSE content[h]]
<1>1. PICK f \in Fresh(Copied(m), FreeHosts) :
              /\ table' = [table EXCEPT ![m] = UnCowed(m, f)]
              /\ content' = [h \in Hosts |->
                    IF \E p \in Copied(m) : f[p] = h
                    THEN ClonedContent(table[m][CHOOSE p \in Copied(m) : f[p] = h].host)
                    ELSE content[h]]
  BY DEF CopyAllCow, Cow, Copied, UnCowed
<1>2. \A p \in Cow(m) : table[m][p].host \in Hosts /\ table[m][p].prot \in Prots
  BY CowEntry
<1>3. \A p \in Copied(m) : f[p] \in Hosts
  BY DEF Fresh, FreeHosts
<1>4. ASSUME NEW p \in Pages
      PROVE  UnCowed(m, f)[p] \in EntryType
  <2>1. CASE p \in Copied(m)
    <3>1. UnCowed(m, f)[p] = Private(f[p], FALSE, table[m][p].prot)
      BY <2>1 DEF UnCowed
    <3>2. f[p] \in Hosts /\ table[m][p].prot \in Prots
      BY <1>2, <1>3, <2>1 DEF Copied
    <3> QED
      BY <3>1, <3>2, PrivateEntry
  <2>2. CASE p \in Cow(m) \ Copied(m)
    <3>1. UnCowed(m, f)[p] = Private(table[m][p].host, FALSE, table[m][p].prot)
      BY <2>2 DEF UnCowed
    <3> QED
      BY <1>2, <2>2, <3>1, PrivateEntry, ZenonT(40)
  <2>3. CASE p \notin Cow(m)
    BY <2>3 DEF UnCowed, Copied, TypeOK
  <2> QED
    BY <2>1, <2>2, <2>3
<1>5. UnCowed(m, f) \in [Pages -> EntryType]
  BY <1>4 DEF UnCowed
<1> QED
  BY <1>1, <1>5

LEMMA CopyAllCowType ==
    ASSUME TypeOK, NEW m \in Mmus, CopyAllCow(m)
    PROVE  TypeOK'
<1>1. PICK f \in Fresh(Copied(m), FreeHosts) :
              /\ UnCowed(m, f) \in [Pages -> EntryType]
              /\ table' = [table EXCEPT ![m] = UnCowed(m, f)]
              /\ content' = [h \in Hosts |->
                    IF \E p \in Copied(m) : f[p] = h
                    THEN ClonedContent(table[m][CHOOSE p \in Copied(m) : f[p] = h].host)
                    ELSE content[h]]
  BY CopyAllCowRow
<1>2. /\ table' \in [Mmus -> [Pages -> EntryType]]
      /\ \A n \in Mmus \ {m} : table'[n] = table[n]
  BY <1>1, RowReplaced
<1>3. content' \in [Hosts -> Vals]
  <2>1. ASSUME NEW h \in Hosts
        PROVE  ClonedContent(h) \in Vals
    BY AddressSpaceAssumption DEF ClonedContent, TypeOK
  <2>2. \A p \in Copied(m) : table[m][p].host \in Hosts
    BY CowEntry DEF Copied
  <2>3. ASSUME NEW h \in Hosts, \E p \in Copied(m) : f[p] = h
        PROVE  ClonedContent(table[m][CHOOSE p \in Copied(m) : f[p] = h].host) \in Vals
    BY <2>1, <2>2, <2>3
  <2> QED
    BY <1>1, <2>3 DEF TypeOK
<1>4. \A n \in Mmus \ live' : Mapped(n)' = {}
  BY <1>2, DeadUnmapped DEF CopyAllCow
<1>5. ident' \in [Mmus -> Idents \cup {NoIdent}]
  <2>1. ChangeIdent(m, Cow(m) # {})
    BY DEF CopyAllCow, Cow
  <2> QED
    BY <2>1, IdentChanged
<1>6. UNCHANGED <<live, slotPage, zeroPage, tlb, priv>>
  BY DEF CopyAllCow
<1> QED
  BY <1>2, <1>3, <1>4, <1>5, <1>6 DEF TypeOK

LEMMA FaultInType ==
    ASSUME TypeOK, NEW s \in Slots, NEW v \in Vals, FaultIn(s, v)
    PROVE  TypeOK'
<1>1. slotPage' \in [Slots -> Hosts \cup {NoHost}] /\ content' \in [Hosts -> Vals]
  BY DEF FaultIn, FreeHosts, TypeOK
<1>3. \A m \in Mmus \ live' : Mapped(m)' = {}
  BY DEF FaultIn, TypeOK, Mapped
<1> QED
  BY <1>1, <1>3 DEF FaultIn, TypeOK

\* A refill puts a page that was found into the TLB.
LEMMA RefillType ==
    ASSUME TypeOK, NEW c \in Cpus, NEW m \in live, NEW p \in Pages, NEW cache,
           ident[m] \in Idents, Refill(c, m, p, cache)
    PROVE  tlb' \in [Cpus -> [0 .. TLB_SIZE - 1 -> TlbEntryType \cup {NoEntry}]]
<1>1. table[m][p] \in EntryType
  BY DEF TypeOK
<1>2. CASE cache = "tlb" /\ ~Hit(c, m, p) /\ as_page(table[m][p]) # NoPage
  <2> DEFINE g == as_page(table[m][p])
             n == [ident |-> ident[m], vpn |-> p, host |-> g.host, flags |-> g.flags]
  <2>1. g.host \in Hosts /\ g.flags \in SUBSET {"R", "W", "X", "COW", "OBJ_BACKED"}
    BY <1>1, <1>2, PageFound
  <2>2. n \in TlbEntryType
    BY <2>1 DEF TlbEntryType
  <2>3. tlb' = [tlb EXCEPT ![c][Index(p)] = n]
    BY <1>2 DEF Refill
  <2> QED
    BY <2>2, <2>3 DEF TypeOK
<1>3. CASE ~(cache = "tlb" /\ ~Hit(c, m, p) /\ as_page(table[m][p]) # NoPage)
  BY <1>3 DEF Refill, TypeOK
<1> QED
  BY <1>2, <1>3

\* TypeOK, and an address space that exists has an identifier.
Typed == TypeOK /\ \A m \in live : ident[m] \in Idents

LEMMA LoadType ==
    ASSUME Typed, NEW c \in Cpus, NEW m \in Mmus, NEW p \in Pages, NEW cache,
           Load(c, m, p, cache)
    PROVE  TypeOK'
<1>1. TypeOK /\ m \in live /\ ident[m] \in Idents /\ Refill(c, m, p, cache)
  BY DEF Typed, Load
<1>2. tlb' \in [Cpus -> [0 .. TLB_SIZE - 1 -> TlbEntryType \cup {NoEntry}]]
  BY <1>1, RefillType
<1> QED
  BY <1>1, <1>2 DEF TypeOK, Load, Mapped

LEMMA StoreType ==
    ASSUME Typed, NEW c \in Cpus, NEW m \in Mmus, NEW p \in Pages, NEW cache,
           NEW v \in Vals, NEW op, Store(c, m, p, v, op, cache)
    PROVE  TypeOK'
<1>1. TypeOK /\ m \in live /\ ident[m] \in Idents /\ Refill(c, m, p, cache)
  BY DEF Typed, Store
<1>2. tlb' \in [Cpus -> [0 .. TLB_SIZE - 1 -> TlbEntryType \cup {NoEntry}]]
  BY <1>1, RefillType
<1> QED
  BY <1>1, <1>2 DEF TypeOK, Store, Mapped

\* Every step but the loads and stores keeps the identifiers of the address
\* spaces that exist, or takes a free one.
LEMMA IdentHeld ==
    ASSUME Typed, NEW m \in Mmus, NEW b, m \in live, live' = live, ChangeIdent(m, b)
    PROVE  \A n \in live' : ident'[n] \in Idents
BY SMTT(40) DEF Typed, TypeOK, ChangeIdent, FreeIdents

LEMMA TypedNext ==
    ASSUME Typed, [Next]_vars
    PROVE  Typed'
<1>a. TypeOK /\ \A m \in live : ident[m] \in Idents
  BY DEF Typed
<1>b. \A ps \in Ranges : ps \in SUBSET Pages
  BY DEF Ranges
<1>1. CASE \E m \in Mmus : New(m)
  <2>1. PICK m \in Mmus : New(m)
    BY <1>1
  <2>2. TypeOK'
    BY <1>a, <2>1, NewType
  <2> QED
    BY <2>1, <2>2 DEF Typed, TypeOK, New, FreeIdents
<1>2. CASE \E m \in Mmus : Drop(m)
  <2>1. PICK m \in Mmus : Drop(m)
    BY <1>2
  <2>2. TypeOK' /\ \A n \in live' : n \in live /\ ident'[n] = ident[n]
    BY <1>a, <2>1, DropType DEF TypeOK, Drop
  <2> QED
    BY <1>a, <2>2 DEF Typed
<1>3. CASE \E m \in Mmus : CopyAllCow(m)
  <2>1. PICK m \in Mmus : CopyAllCow(m)
    BY <1>3
  <2>2. TypeOK'
    BY <1>a, <2>1, CopyAllCowType
  <2>3. m \in live /\ live' = live /\ ChangeIdent(m, Cow(m) # {})
    BY <2>1 DEF CopyAllCow, Cow
  <2> QED
    BY <2>2, <2>3, IdentHeld DEF Typed
<1>4. CASE \E m \in Mmus, ps \in Ranges : Unmap(m, ps)
  <2>1. PICK m \in Mmus, ps \in Ranges : Unmap(m, ps)
    BY <1>4
  <2>2. TypeOK'
    BY <1>a, <1>b, <2>1, UnmapType
  <2> QED
    BY <2>1, <2>2, IdentHeld DEF Typed, Unmap
<1>5. CASE \E m \in Mmus, ps \in Ranges, q \in Prots : Protect(m, ps, q)
  <2>1. PICK m \in Mmus, ps \in Ranges, q \in Prots : Protect(m, ps, q)
    BY <1>5
  <2>2. TypeOK'
    BY <1>a, <1>b, <2>1, ProtectType
  <2> QED
    BY <2>1, <2>2, IdentHeld DEF Typed, Protect
<1>6. CASE \E m \in Mmus, ps \in Ranges, q \in Prots, k \in Kinds : Map(m, ps, k, q)
  <2>1. PICK m \in Mmus, ps \in Ranges, q \in Prots, k \in Kinds : Map(m, ps, k, q)
    BY <1>6
  <2>2. TypeOK'
    BY <1>a, <1>b, <2>1, MapType
  <2> QED
    BY <2>1, <2>2, IdentHeld DEF Typed, Map
<1>7. CASE \E m, n \in Mmus : Fork(m, n)
  <2>1. PICK m \in Mmus, n \in Mmus : Fork(m, n)
    BY <1>7
  <2>2. TypeOK'
    BY <1>a, <2>1, ForkType
  <2> QED
    <3>1. PICK i \in (IF Mapped(m) = {} THEN FreeIdents ELSE {ident[m]}) :
              ident' = [ident EXCEPT ![m] = i, ![n] = i]
      BY <2>1 DEF Fork
    <3>2. i \in Idents
      BY <1>a, <2>1 DEF Fork, FreeIdents
    <3>3. live' = live \cup {n}
      BY <2>1 DEF Fork
    <3> QED
      BY <2>2, <3>1, <3>2, <3>3 DEF Typed, TypeOK
<1>8. CASE \E s \in Slots, v \in Vals : FaultIn(s, v)
  BY <1>8, FaultInType DEF Typed, FaultIn
<1>9. CASE \E c \in Cpus, m \in Mmus, p \in Pages, cache \in Caches :
             \/ Load(c, m, p, cache)
             \/ \E v \in Vals, op \in StoreOps : Store(c, m, p, v, op, cache)
  <2>1. TypeOK'
    BY <1>9, LoadType, StoreType
  <2>2. live' = live /\ ident' = ident
    BY <1>9 DEF Load, Store
  <2> QED
    BY <2>1, <2>2 DEF Typed
<1>10. CASE UNCHANGED vars
  BY <1>10 DEF Typed, TypeOK, Mapped, vars
<1> QED
  BY <1>1, <1>2, <1>3, <1>4, <1>5, <1>6, <1>7, <1>8, <1>9, <1>10 DEF Next

LEMMA TypedInit == Init => Typed
<1> SUFFICES ASSUME Init
             PROVE  Typed
  OBVIOUS
<1>1. live = {} /\ \A m \in Mmus : Mapped(m) = {}
  BY DEF Init, Mapped
<1> QED
  BY <1>1, UnmappedEntry, AddressSpaceAssumption DEF Init, Typed, TypeOK

\* The state is well typed: page tables hold entries, TLBs hold pages that were
\* found, and an address space that was dropped maps nothing.
THEOREM TypeCorrect == Spec => []TypeOK
<1>1. Typed => TypeOK
  BY DEF Typed
<1> QED
  BY <1>1, TypedInit, TypedNext, PTL DEF Spec

-----------------------------------------------------------------------------
(* The TLB, where no address space is forked.                               *)
(* The identifiers of address spaces are distinct, and an entry that bears  *)
(* one of them holds what the table says of its page.                       *)

Cached(e, m) == as_page(table[m][e.vpn]) = [host |-> e.host, flags |-> e.flags]

TlbCurrent ==
    /\ \A m, n \in live : ident[m] = ident[n] => m = n
    /\ \A c \in Cpus, i \in 0 .. TLB_SIZE - 1, m \in live :
          tlb[c][i].ident = ident[m] => Cached(tlb[c][i], m)

TlbInv == Typed /\ TlbCurrent

\* An entry that bears an identifier was filled.
LEMMA Filled ==
    ASSUME Typed, NEW c \in Cpus, NEW i \in 0 .. TLB_SIZE - 1, NEW m \in live,
           tlb[c][i].ident = ident[m]
    PROVE  tlb[c][i].vpn \in Pages /\ tlb[c][i].host \in Hosts
<1>1. tlb[c][i] \in TlbEntryType \cup {NoEntry} /\ ident[m] \in Idents
  BY DEF Typed, TypeOK
<1>2. NoEntry.ident = NoIdent
  BY DEF NoEntry
<1> QED
  BY <1>1, <1>2, AddressSpaceAssumption DEF TlbEntryType

\* The slot of an object that is mapped is in use.
LEMMA SlotUsed ==
    ASSUME TypeOK, NEW m \in live, NEW p \in Pages, table[m][p].kind = "Object"
    PROVE  table[m][p].slot \in UsedSlots /\ table[m][p].slot \in Slots
<1>1. table[m][p] \in EntryType /\ table[m][p] # Unmapped
  BY UnmappedEntry DEF TypeOK
<1>2. <<m, p>> \in Places /\ EntryAt(<<m, p>>) = table[m][p]
  BY <1>1 DEF Places, EntryAt, TypeOK
<1> QED
  BY <1>1, <1>2, EntryOfKind DEF UsedSlots

\* Identifiers in use and TLBs stay, and so does every page that is found.
LEMMA SameIdent ==
    ASSUME TlbInv, tlb' = tlb, \A n \in live' : n \in live /\ ident'[n] = ident[n],
           \A n \in live', p \in Pages :
               as_page(table[n][p]) # NoPage
                   => as_page(table[n][p])' = as_page(table[n][p])
    PROVE  TlbCurrent'
<1>1. \A m, n \in live' : ident'[m] = ident'[n] => m = n
  BY DEF TlbInv, TlbCurrent
<1>2. ASSUME NEW c \in Cpus, NEW i \in 0 .. TLB_SIZE - 1, NEW m \in live',
             tlb'[c][i].ident = ident'[m]
      PROVE  Cached(tlb[c][i], m)'
  <2>1. m \in live /\ tlb[c][i].ident = ident[m]
    BY <1>2
  <2>2. tlb[c][i].vpn \in Pages /\ tlb[c][i].host \in Hosts
    BY <2>1, Filled DEF TlbInv
  <2>3. as_page(table[m][tlb[c][i].vpn])
           = [host |-> tlb[c][i].host, flags |-> tlb[c][i].flags]
    BY <2>1 DEF TlbInv, TlbCurrent, Cached
  <2>4. as_page(table[m][tlb[c][i].vpn]) # NoPage
    BY <2>2, <2>3, AddressSpaceAssumption DEF NoPage
  <2>5. as_page(table[m][tlb[c][i].vpn])' = as_page(table[m][tlb[c][i].vpn])
    BY <2>2, <2>4
  <2> QED
    BY <2>3, <2>5 DEF Cached
<1> QED
  BY <1>1, <1>2 DEF TlbCurrent

\* One address space gets an identifier that no TLB bears; the pages of the
\* others stay.
LEMMA FreshIdent ==
    ASSUME TlbInv, NEW m \in Mmus, NEW j \in FreeIdents,
           ident' = [ident EXCEPT ![m] = j], tlb' = tlb, live' \subseteq live \cup {m},
           \A n \in live \ {m}, p \in Pages : as_page(table[n][p])' = as_page(table[n][p])
    PROVE  TlbCurrent'
<1>a. TypeOK
  BY DEF TlbInv, Typed
<1>b. ident'[m] = j /\ \A n \in live \ {m} : ident'[n] = ident[n] /\ ident[n] # j
  BY <1>a DEF FreeIdents, TypeOK
<1>1. \A l, n \in live' : ident'[l] = ident'[n] => l = n
  BY <1>b DEF TlbInv, TlbCurrent
<1>2. ASSUME NEW c \in Cpus, NEW i \in 0 .. TLB_SIZE - 1, NEW n \in live',
             tlb'[c][i].ident = ident'[n]
      PROVE  Cached(tlb[c][i], n)'
  <2>1. n # m
    BY <1>2, <1>b DEF FreeIdents
  <2>2. n \in live \ {m} /\ tlb[c][i].ident = ident[n]
    BY <1>2, <2>1
  <2>3. tlb[c][i].vpn \in Pages
    BY <2>2, Filled DEF TlbInv
  <2>4. as_page(table[n][tlb[c][i].vpn])
           = [host |-> tlb[c][i].host, flags |-> tlb[c][i].flags]
    BY <2>2 DEF TlbInv, TlbCurrent, Cached
  <2>5. as_page(table[n][tlb[c][i].vpn])' = as_page(table[n][tlb[c][i].vpn])
    BY <2>2, <2>3
  <2> QED
    BY <2>4, <2>5 DEF Cached
<1> QED
  BY <1>1, <1>2 DEF TlbCurrent

\* What PageTable::get_page finds depends on the entry and on the page of its slot.
LEMMA PageKept ==
    ASSUME TypeOK, NEW m \in live, NEW p \in Pages, table'[m][p] = table[m][p],
           \A s \in UsedSlots \cap Slots : slotPage'[s] = slotPage[s]
    PROVE  as_page(table[m][p])' = as_page(table[m][p])
<1>1. CASE table[m][p].kind = "Object"
  <2>1. slotPage'[table[m][p].slot] = slotPage[table[m][p].slot]
    BY <1>1, SlotUsed
  <2> QED
    BY <2>1 DEF as_page, EntryHost
<1>2. CASE table[m][p].kind # "Object"
  BY <1>2 DEF as_page, EntryHost
<1> QED
  BY <1>1, <1>2

\* A change of one row goes with a fresh identifier or leaves the row as it was.
LEMMA RowChanged ==
    ASSUME TlbInv, NEW m \in live, live' = live, tlb' = tlb,
           \A n \in Mmus \ {m} : table'[n] = table[n],
           \A s \in UsedSlots \cap Slots : slotPage'[s] = slotPage[s],
           NEW b, ChangeIdent(m, b), ~b => table'[m] = table[m]
    PROVE  TlbCurrent'
<1>a. TypeOK /\ live \subseteq Mmus
  BY DEF TlbInv, Typed, TypeOK
<1>1. CASE \E j \in FreeIdents : ident' = [ident EXCEPT ![m] = j]
  <2>1. \A n \in live \ {m}, p \in Pages : as_page(table[n][p])' = as_page(table[n][p])
    BY <1>a, PageKept
  <2> QED
    BY <1>a, <1>1, <2>1, FreshIdent
<1>2. CASE ~b /\ ident' = ident
  <2>1. \A n \in live', p \in Pages : as_page(table[n][p])' = as_page(table[n][p])
    BY <1>a, <1>2, PageKept
  <2> QED
    BY <1>2, <2>1, SameIdent
<1> QED
  BY <1>1, <1>2 DEF ChangeIdent

LEMMA MapTlb ==
    ASSUME TlbInv, NEW m \in Mmus, NEW ps \in SUBSET Pages, NEW k, NEW q \in Prots,
           Map(m, ps, k, q)
    PROVE  TlbCurrent'
<1>a. TypeOK
  BY DEF TlbInv, Typed
<1>b. /\ m \in live /\ live' = live /\ tlb' = tlb /\ ChangeIdent(m, TRUE)
  BY DEF Map
<1>1. \A n \in Mmus \ {m} : table'[n] = table[n]
  BY <1>a DEF Map, MapAnon, MapCow, MapObject, MapExtern, TypeOK
<1>2. \A s \in UsedSlots \cap Slots : slotPage'[s] = slotPage[s]
  <2>1. CASE slotPage' = slotPage
    BY <2>1
  <2>2. CASE \E shared \in BOOLEAN : MapObject(m, ps, shared, q)
    <3>1. PICK f \in Fresh(ps, FreeSlots) :
             slotPage' = [s \in Slots |-> IF s \in {f[p] : p \in ps} THEN NoHost
                                          ELSE slotPage[s]]
      BY <2>2 DEF MapObject
    <3>2. \A p \in ps : f[p] \notin UsedSlots
      BY DEF Fresh, FreeSlots
    <3> QED
      BY <3>1, <3>2
  <2> QED
    BY <2>1, <2>2 DEF Map, MapAnon, MapCow, MapExtern
<1> QED
  BY <1>b, <1>1, <1>2, RowChanged

LEMMA UnmapTlb ==
    ASSUME TlbInv, NEW m \in Mmus, NEW ps \in SUBSET Pages, Unmap(m, ps)
    PROVE  TlbCurrent'
<1>a. TypeOK
  BY DEF TlbInv, Typed
<1>b. /\ m \in live /\ live' = live /\ tlb' = tlb /\ slotPage' = slotPage
      /\ ChangeIdent(m, ps \cap Mapped(m) # {})
  BY DEF Unmap
<1>1. \A n \in Mmus \ {m} : table'[n] = table[n]
  BY DEF Unmap
<1>2. ASSUME ~(ps \cap Mapped(m) # {})
      PROVE  table'[m] = table[m]
  BY <1>a, <1>2 DEF Unmap, Mapped, TypeOK
<1> QED
  BY <1>b, <1>1, <1>2, RowChanged

LEMMA ProtectTlb ==
    ASSUME TlbInv, NEW m \in Mmus, NEW ps \in SUBSET Pages, NEW q \in Prots,
           Protect(m, ps, q)
    PROVE  TlbCurrent'
<1>a. TypeOK
  BY DEF TlbInv, Typed
<1>b. /\ m \in live /\ live' = live /\ tlb' = tlb /\ slotPage' = slotPage
      /\ ChangeIdent(m, \E p \in ps : table[m][p].prot # q)
  BY DEF Protect
<1>c. table'[m] = [p \in Pages |-> IF p \in ps THEN [table[m][p] EXCEPT !.prot = q]
                                   ELSE table[m][p]]
  BY <1>a DEF Protect, TypeOK
<1>1. \A n \in Mmus \ {m} : table'[n] = table[n]
  BY DEF Protect
<1>2. ASSUME ~(\E p \in ps : table[m][p].prot # q)
      PROVE  table'[m] = table[m]
  <2>1. ASSUME NEW p \in ps
        PROVE  [table[m][p] EXCEPT !.prot = q] = table[m][p]
    <3>1. Shape(table[m][p]) /\ table[m][p].prot = q
      BY <1>a, <1>2, EntryShape DEF TypeOK
    <3> QED
      BY <3>1 DEF Shape
  <2> QED
    BY <1>a, <1>c, <2>1 DEF TypeOK
<1> QED
  BY <1>b, <1>1, <1>2, RowChanged

LEMMA CopyAllCowTlb ==
    ASSUME TlbInv, NEW m \in Mmus, CopyAllCow(m)
    PROVE  TlbCurrent'
<1>a. TypeOK
  BY DEF TlbInv, Typed
<1>b. /\ m \in live /\ live' = live /\ tlb' = tlb /\ slotPage' = slotPage
      /\ ChangeIdent(m, Cow(m) # {})
  BY DEF CopyAllCow, Cow
<1>c. PICK f : table' = [table EXCEPT ![m] = UnCowed(m, f)]
  BY <1>a, CopyAllCowRow
<1>1. \A n \in Mmus \ {m} : table'[n] = table[n]
  BY <1>c
<1>2. ASSUME ~(Cow(m) # {})
      PROVE  table'[m] = table[m]
  BY <1>a, <1>c, <1>2 DEF UnCowed, Copied, TypeOK
<1> QED
  BY <1>b, <1>1, <1>2, RowChanged

LEMMA FaultInTlb ==
    ASSUME TlbInv, NEW s \in Slots, NEW v \in Vals, FaultIn(s, v)
    PROVE  TlbCurrent'
<1>1. ASSUME NEW m \in live, NEW p \in Pages, as_page(table[m][p]) # NoPage
      PROVE  as_page(table[m][p])' = as_page(table[m][p])
  <2>1. table' = table
    BY DEF FaultIn
  <2>2. CASE table[m][p].kind = "Object"
    <3>1. slotPage[table[m][p].slot] # NoHost
      BY <1>1, <2>2 DEF as_page
    <3>2. slotPage'[table[m][p].slot] = slotPage[table[m][p].slot]
      BY <3>1 DEF FaultIn
    <3> QED
      BY <2>1, <3>2 DEF as_page, EntryHost
  <2>3. CASE table[m][p].kind # "Object"
    BY <2>1, <2>3 DEF as_page, EntryHost
  <2> QED
    BY <2>2, <2>3
<1> QED
  BY <1>1, SameIdent DEF FaultIn

\* A refill caches what the table says.
LEMMA RefillTlb ==
    ASSUME TlbInv, NEW c \in Cpus, NEW m \in live, NEW p \in Pages, NEW cache,
           Refill(c, m, p, cache), UNCHANGED <<live, table, ident, slotPage>>
    PROVE  TlbCurrent'
<1>a. TypeOK
  BY DEF TlbInv, Typed
<1>b. \A n \in live, r \in Pages : as_page(table[n][r])' = as_page(table[n][r])
  BY DEF as_page, EntryHost
<1>1. CASE tlb' = tlb
  BY <1>1, <1>b, SameIdent
<1>2. CASE /\ as_page(table[m][p]) # NoPage
           /\ tlb' = [tlb EXCEPT ![c][Index(p)] =
                        [ident |-> ident[m], vpn |-> p,
                         host |-> as_page(table[m][p]).host,
                         flags |-> as_page(table[m][p]).flags]]
  <2> DEFINE n == [ident |-> ident[m], vpn |-> p, host |-> as_page(table[m][p]).host,
                   flags |-> as_page(table[m][p]).flags]
  <2>1. as_page(table[m][p]) = [host |-> n.host, flags |-> n.flags]
    BY <1>a, <1>2, PageFound DEF TypeOK
  <2>2. ASSUME NEW d \in Cpus, NEW i \in 0 .. TLB_SIZE - 1, NEW l \in live',
               tlb'[d][i].ident = ident'[l]
        PROVE  Cached(tlb[d][i], l)'
    <3>1. CASE d = c /\ i = Index(p)
      <4>1. tlb'[d][i] = n
        BY <1>a, <1>2, <3>1 DEF TypeOK
      <4>2. l = m
        BY <2>2, <4>1 DEF TlbInv, TlbCurrent
      <4> QED
        BY <1>b, <2>1, <4>1, <4>2 DEF Cached
    <3>2. CASE ~(d = c /\ i = Index(p))
      <4>1. tlb'[d][i] = tlb[d][i]
        BY <1>2, <3>2
      <4>2. Cached(tlb[d][i], l) /\ tlb[d][i].vpn \in Pages
        BY <2>2, <4>1, Filled DEF TlbInv, TlbCurrent
      <4> QED
        BY <1>b, <4>1, <4>2 DEF Cached
    <3> QED
      BY <3>1, <3>2
  <2> QED
    BY <2>2 DEF TlbInv, TlbCurrent
<1> QED
  BY <1>1, <1>2 DEF Refill

LEMMA TlbNext ==
    ASSUME ~Forking, TlbInv, [Next]_vars
    PROVE  TlbInv'
<1>a. Typed' /\ TypeOK
  BY TypedNext DEF TlbInv, Typed
<1>b. \A ps \in Ranges : ps \in SUBSET Pages
  BY DEF Ranges
<1>1. CASE \E m \in Mmus : New(m)
  <2>1. PICK m \in Mmus : New(m)
    BY <1>1
  <2>2. \A n \in live, p \in Pages : as_page(table[n][p])' = as_page(table[n][p])
    BY <2>1 DEF New, as_page, EntryHost
  <2> QED
    BY <1>a, <2>1, <2>2, FreshIdent DEF New, TlbInv
<1>2. CASE \E m \in Mmus : Drop(m)
  <2>1. PICK m \in Mmus : Drop(m)
    BY <1>2
  <2>3. \A n \in live', p \in Pages : as_page(table[n][p])' = as_page(table[n][p])
    BY <2>1 DEF Drop, as_page, EntryHost
  <2>4. tlb' = tlb /\ \A n \in live' : n \in live /\ ident'[n] = ident[n]
    BY <1>a, <2>1 DEF Drop, TypeOK
  <2> QED
    BY <1>a, <2>3, <2>4, SameIdent DEF TlbInv
<1>3. CASE \E m \in Mmus : CopyAllCow(m)
  BY <1>a, <1>3, CopyAllCowTlb DEF TlbInv
<1>4. CASE \E m \in Mmus, ps \in Ranges : Unmap(m, ps)
  BY <1>a, <1>b, <1>4, UnmapTlb DEF TlbInv
<1>5. CASE \E m \in Mmus, ps \in Ranges, q \in Prots : Protect(m, ps, q)
  BY <1>a, <1>b, <1>5, ProtectTlb DEF TlbInv
<1>6. CASE \E m \in Mmus, ps \in Ranges, q \in Prots, k \in Kinds : Map(m, ps, k, q)
  BY <1>a, <1>b, <1>6, MapTlb DEF TlbInv
<1>7. CASE \E m, n \in Mmus : Fork(m, n)
  BY <1>7 DEF Fork
<1>8. CASE \E s \in Slots, v \in Vals : FaultIn(s, v)
  BY <1>a, <1>8, FaultInTlb DEF TlbInv
<1>9. CASE \E c \in Cpus, m \in Mmus, p \in Pages, cache \in Caches :
             \/ Load(c, m, p, cache)
             \/ \E v \in Vals, op \in StoreOps : Store(c, m, p, v, op, cache)
  BY <1>a, <1>9, RefillTlb DEF Load, Store, TlbInv
<1>10. CASE UNCHANGED vars
  <2>1. \A n \in live, p \in Pages : as_page(table[n][p])' = as_page(table[n][p])
    BY <1>10 DEF vars, as_page, EntryHost
  <2> QED
    BY <1>a, <1>10, <2>1, SameIdent DEF TlbInv, vars
<1> QED
  BY <1>1, <1>2, <1>3, <1>4, <1>5, <1>6, <1>7, <1>8, <1>9, <1>10 DEF Next

\* Where no address space is forked a TLB hit is what the page table says now:
\* the mapped page, with its protections, whatever was mapped, unmapped,
\* protected, copied, faulted in or dropped since, and whichever identifiers
\* were reused.
THEOREM TlbAlwaysFaithful ==
    ASSUME ~Forking
    PROVE  Spec => []TlbFaithful
<1>1. Init => TlbInv
  BY TypedInit DEF Init, TlbInv, TlbCurrent
<1>2. TlbInv => TlbFaithful
  <2> SUFFICES ASSUME TlbInv, NEW c \in Cpus, NEW m \in live, NEW p \in Pages,
                      Hit(c, m, p)
               PROVE  Lookup(c, m, p, "tlb") = as_page(table[m][p])
    BY DEF TlbFaithful
  <2>1. Index(p) \in 0 .. TLB_SIZE - 1
    BY AddressSpaceAssumption DEF Index
  <2>2. tlb[c][Index(p)].ident = ident[m] /\ tlb[c][Index(p)].vpn = p
    BY DEF Hit
  <2>3. Cached(tlb[c][Index(p)], m)
    BY <2>1, <2>2 DEF TlbInv, TlbCurrent
  <2> QED
    BY <2>2, <2>3 DEF Lookup, Cached
<1> QED
  BY <1>1, <1>2, TlbNext, PTL DEF Spec

(***************************************************************************)
(* Machine-checked proofs about who shares host pages and object slots in  *)
(* AddressSpace: copy-on-write, fork and the zero page.                    *)
(***************************************************************************)

-----------------------------------------------------------------------------
(* The invariant *)

\* Two mappings may show the same host page only as copy-on-write views, as
\* views of shared anonymous memory, or through the one slot of a shared object;
\* and only shared objects are mapped twice through one slot.
Compatible(d, e) ==
    /\ (EntryHost(d) = EntryHost(e) /\ EntryHost(d) # NoHost) =>
          /\ d.kind = e.kind
          /\ d.kind = "Private" => d.flag /\ e.flag
          /\ d.kind = "Object" => d.flag /\ e.flag
    /\ (d.slot = e.slot /\ d.slot # NoSlot) => d.flag /\ e.flag

MappingsCompatible ==
    \A m, n \in live, p, q \in Pages :
        (m # n \/ p # q) => Compatible(table[m][p], table[n][q])

\* Only copy-on-write views show the zero page.
ZeroShown(e) == (EntryHost(e) = zeroPage /\ zeroPage # NoHost) => e.kind = "Private" /\ e.flag

ZeroPageCow == \A m \in live, p \in Pages : ZeroShown(table[m][p])

Sharing == Typed /\ MappingsCompatible /\ ZeroPageCow

-----------------------------------------------------------------------------
(* Counting owners *)

ByEntry(h) == {x \in Places : EntryAt(x).host = h}
BySlot(h)  == {s \in UsedSlots : s # NoSlot /\ slotPage[s] = h}

\* There are finitely many owners.
LEMMA OwnersFinite ==
    ASSUME TypeOK, NEW h
    PROVE  /\ IsFiniteSet(ByEntry(h)) /\ IsFiniteSet(BySlot(h))
           /\ Cardinality(ByEntry(h)) \in Nat /\ Cardinality(BySlot(h)) \in Nat
           /\ Owners(h) = Cardinality(ByEntry(h)) + Cardinality(BySlot(h))
                            + (IF zeroPage = h THEN 1 ELSE 0)
<1>1. IsFiniteSet(Mmus \X Pages)
  BY FS_Product, AddressSpaceAssumption
<1>2. IsFiniteSet(ByEntry(h))
  BY <1>1, FS_Subset DEF ByEntry, Places
<1>3. BySlot(h) \subseteq Slots
  <2>1. \A x \in Places : EntryAt(x) \in EntryType
    BY DEF Places, EntryAt, TypeOK
  <2>2. \A x \in Places : EntryAt(x).slot \in Slots \cup {NoSlot}
    BY <2>1, EntryOfKind, UnmappedEntry
  <2> QED
    BY <2>2 DEF BySlot, UsedSlots
<1>4. IsFiniteSet(BySlot(h))
  BY <1>3, FS_Subset, AddressSpaceAssumption
<1> QED
  BY <1>2, <1>4, FS_CardinalityType DEF Owners, ByEntry, BySlot

\* A mapping that shows a host page makes it owned, by the entry or its slot.
LEMMA ShownOwned ==
    ASSUME TypeOK, NEW m \in live, NEW p \in Pages, NEW h \in Hosts,
           EntryHost(table[m][p]) = h
    PROVE  \/ table[m][p].kind # "Object" /\ <<m, p>> \in ByEntry(h)
           \/ table[m][p].kind = "Object" /\ table[m][p].slot \in BySlot(h)
<1>1. table[m][p] \in EntryType /\ table[m][p] # Unmapped
  BY UnmappedEntry, AddressSpaceAssumption DEF TypeOK, EntryHost
<1>2. CASE table[m][p].kind = "Object"
  BY <1>2, SlotUsed, AddressSpaceAssumption DEF BySlot, EntryHost
<1>3. CASE table[m][p].kind # "Object"
  BY <1>1, <1>3 DEF ByEntry, Places, EntryAt, EntryHost, TypeOK
<1> QED
  BY <1>2, <1>3

\* A host page that nothing owns is shown nowhere.
LEMMA FreeHidden ==
    ASSUME TypeOK, NEW h \in FreeHosts \cup FreeExterns
    PROVE  /\ h \in Hosts /\ zeroPage # h
           /\ \A m \in live, p \in Pages : EntryHost(table[m][p]) # h
<1>1. h \in Hosts /\ Owners(h) = 0
  BY DEF FreeHosts, FreeExterns
<1>2. Cardinality(ByEntry(h)) = 0 /\ Cardinality(BySlot(h)) = 0 /\ zeroPage # h
  BY <1>1, OwnersFinite
<1>3. ByEntry(h) = {} /\ BySlot(h) = {}
  BY <1>2, OwnersFinite, FS_EmptySet
<1> QED
  BY <1>1, <1>2, <1>3, ShownOwned

\* A private page with no second owner is shown nowhere else.
LEMMA OnlyShown ==
    ASSUME TypeOK, NEW m \in live, NEW p \in Pages, NEW h,
           table[m][p].kind = "Private", h = table[m][p].host, ~NeedsCopy(h)
    PROVE  /\ zeroPage # h
           /\ \A n \in live, q \in Pages : (m # n \/ p # q) => EntryHost(table[n][q]) # h
<1>1. table[m][p] \in EntryType /\ h \in Hosts
  BY EntryOfKind, ZenonT(40) DEF TypeOK
<1>2. <<m, p>> \in ByEntry(h)
  BY <1>1, ShownOwned DEF EntryHost
<1>3. Cardinality(ByEntry(h)) # 0
  BY <1>2, OwnersFinite, FS_EmptySet
<1>4. Owners(h) <= 1
  BY OwnersFinite DEF NeedsCopy
<1>5. Cardinality(ByEntry(h)) = 1 /\ Cardinality(BySlot(h)) = 0 /\ zeroPage # h
  BY <1>3, <1>4, OwnersFinite
<1>6. BySlot(h) = {} /\ \E x : ByEntry(h) = {x}
  BY <1>5, OwnersFinite, FS_EmptySet, FS_Singleton
<1>7. ByEntry(h) = {<<m, p>>}
  BY <1>2, <1>6
<1> QED
  BY <1>1, <1>5, <1>6, <1>7, ShownOwned

\* A private page that is shown nowhere else has one owner.
LEMMA OneOwner ==
    ASSUME TypeOK, NEW m \in live, NEW p \in Pages, NEW h,
           table[m][p].kind = "Private", h = table[m][p].host, zeroPage # h,
           \A n \in live, q \in Pages : (m # n \/ p # q) => EntryHost(table[n][q]) # h
    PROVE  Owners(h) = 1
<1>1. table[m][p] \in EntryType /\ h \in Hosts
  BY EntryOfKind, ZenonT(40) DEF TypeOK
<1>2. ByEntry(h) = {<<m, p>>}
  <2>1. <<m, p>> \in ByEntry(h)
    BY <1>1, ShownOwned DEF EntryHost
  <2>2. ASSUME NEW x \in ByEntry(h)
        PROVE  x = <<m, p>>
    <3>1. PICK n \in live, q \in Pages : x = <<n, q>> /\ table[n][q].host = h
      BY DEF ByEntry, Places, EntryAt
    <3>2. EntryHost(table[n][q]) = h
      <4>1. table[n][q] \in EntryType /\ table[n][q].host # NoHost
        BY <1>1, <3>1, AddressSpaceAssumption DEF TypeOK
      <4> QED
        BY <3>1, <4>1, EntryOfKind DEF EntryHost
    <3> QED
      BY <3>1, <3>2
  <2> QED
    BY <2>1, <2>2
<1>3. BySlot(h) = {}
  <2> SUFFICES ASSUME NEW s \in BySlot(h)
               PROVE  FALSE
    OBVIOUS
  <2>1. PICK n \in live, q \in Pages : table[n][q].slot = s /\ s # NoSlot /\ slotPage[s] = h
    BY DEF BySlot, UsedSlots, Places, EntryAt
  <2>2. table[n][q].kind = "Object"
    BY <2>1, EntryOfKind, UnmappedEntry DEF TypeOK
  <2> QED
    BY <2>1, <2>2 DEF EntryHost
<1>4. Cardinality(ByEntry(h)) = 1
  BY <1>2, FS_Singleton
<1>5. Cardinality(BySlot(h)) = 0
  BY <1>3, FS_EmptySet
<1> QED
  BY <1>4, <1>5, OwnersFinite

-----------------------------------------------------------------------------
(* Steps that replace entries *)

\* The mapping of page p shows what it did before.
SameView(m, p) ==
    /\ table'[m][p].kind = table[m][p].kind /\ table'[m][p].flag = table[m][p].flag
    /\ table'[m][p].slot = table[m][p].slot
    /\ EntryHost(table[m][p])' = EntryHost(table[m][p])

\* Mappings that show nothing agree with all others.
LEMMA NothingShown ==
    /\ EntryHost(Unmapped) = NoHost /\ EntryHost(Unmapped)' = NoHost
    /\ \A e : Compatible(Unmapped, e) /\ Compatible(e, Unmapped)
    /\ ZeroShown(Unmapped)
<1>1. EntryHost(Unmapped) = NoHost /\ EntryHost(Unmapped)' = NoHost
  BY UnmappedEntry DEF EntryHost
<1> QED
  BY <1>1, UnmappedEntry DEF Compatible, ZeroShown

\* The mapping of page p shows what no other does, before or after, and has a slot
\* of its own; N are the places with such a mapping.
NewView(m, p, N) ==
    /\ EntryHost(table[m][p])' # NoHost =>
         /\ EntryHost(table[m][p])' # zeroPage
         /\ \A n \in live, q \in Pages :
               (m # n \/ p # q) => EntryHost(table[n][q]) # EntryHost(table[m][p])'
         /\ \A n \in live', q \in Pages :
               (<<n, q>> \in N /\ (m # n \/ p # q))
                  => EntryHost(table[n][q])' # EntryHost(table[m][p])'
    /\ table'[m][p].slot # NoSlot =>
         /\ \A n \in live, q \in Pages : table[n][q].slot # table'[m][p].slot
         /\ \A n \in live', q \in Pages :
               (<<n, q>> \in N /\ (m # n \/ p # q))
                  => table'[n][q].slot # table'[m][p].slot

\* Some mappings are new and the others show what they did, or nothing.
LEMMA Replaced ==
    ASSUME Sharing, zeroPage' = zeroPage, NEW N,
           \A m \in live', p \in Pages :
              <<m, p>> \notin N => table'[m][p] = Unmapped \/ (m \in live /\ SameView(m, p)),
           \A m \in live', p \in Pages : <<m, p>> \in N =>
              NewView(m, p, N)
    PROVE  MappingsCompatible' /\ ZeroPageCow'
<1>1. ASSUME NEW m \in live', NEW n \in live', NEW p \in Pages, NEW q \in Pages,
             m # n \/ p # q
      PROVE  Compatible(table[m][p], table[n][q])'
  <2>1. CASE table'[m][p] = Unmapped \/ table'[n][q] = Unmapped
    <3>1. EntryHost(Unmapped)' = NoHost /\ Unmapped.slot = NoSlot
      BY NothingShown, UnmappedEntry
    <3> QED
      BY <2>1, <3>1 DEF Compatible
  <2>2. CASE /\ <<m, p>> \notin N /\ table'[m][p] # Unmapped
             /\ <<n, q>> \notin N /\ table'[n][q] # Unmapped
    <3>1. /\ m \in live /\ SameView(m, p) /\ n \in live /\ SameView(n, q)
      BY <2>2
    <3>2. Compatible(table[m][p], table[n][q])
      BY <1>1, <3>1 DEF Sharing, MappingsCompatible
    <3> QED
      BY <3>1, <3>2 DEF Compatible, SameView
  <2>3. CASE <<m, p>> \in N /\ <<n, q>> \in N
    BY <1>1, <2>3 DEF Compatible, NewView
  <2>4. CASE <<m, p>> \in N /\ <<n, q>> \notin N /\ table'[n][q] # Unmapped
    <3>1. n \in live /\ SameView(n, q)
      BY <2>4
    <3>2. EntryHost(table[m][p])' # NoHost
             => EntryHost(table[n][q]) # EntryHost(table[m][p])'
      BY <2>4 DEF NewView
    <3>3. table'[m][p].slot # NoSlot => table[n][q].slot # table'[m][p].slot
      BY <2>4 DEF NewView
    <3>4. /\ EntryHost(table[n][q])' = EntryHost(table[n][q])
          /\ table'[n][q].slot = table[n][q].slot
      BY <3>1 DEF SameView
    <3> QED
      BY <3>2, <3>3, <3>4 DEF Compatible
  <2>5. CASE <<n, q>> \in N /\ <<m, p>> \notin N /\ table'[m][p] # Unmapped
    <3>1. m \in live /\ SameView(m, p)
      BY <2>5
    <3>2. EntryHost(table[n][q])' # NoHost
             => EntryHost(table[m][p]) # EntryHost(table[n][q])'
      BY <2>5 DEF NewView
    <3>3. table'[n][q].slot # NoSlot => table[m][p].slot # table'[n][q].slot
      BY <2>5 DEF NewView
    <3>4. /\ EntryHost(table[m][p])' = EntryHost(table[m][p])
          /\ table'[m][p].slot = table[m][p].slot
      BY <3>1 DEF SameView
    <3> QED
      BY <3>2, <3>3, <3>4 DEF Compatible
  <2> QED
    BY <2>1, <2>2, <2>3, <2>4, <2>5
<1>2. ASSUME NEW m \in live', NEW p \in Pages
      PROVE  ZeroShown(table[m][p])'
  <2>1. CASE table'[m][p] = Unmapped
    BY <2>1, NothingShown DEF ZeroShown
  <2>2. CASE <<m, p>> \in N
    BY <2>2 DEF ZeroShown, NewView
  <2>3. CASE <<m, p>> \notin N /\ table'[m][p] # Unmapped
    <3>1. m \in live /\ SameView(m, p)
      BY <2>3
    <3> QED
      BY <3>1 DEF ZeroShown, SameView, Sharing, ZeroPageCow
  <2> QED
    BY <2>1, <2>2, <2>3
<1> QED
  BY <1>1, <1>2 DEF MappingsCompatible, ZeroPageCow

\* An entry that stays, with the page of its slot, shows what it did.
LEMMA ViewKept ==
    ASSUME TypeOK, NEW m \in live, NEW p \in Pages, table'[m][p] = table[m][p],
           \A s \in UsedSlots \cap Slots : slotPage'[s] = slotPage[s]
    PROVE  SameView(m, p)
<1>1. CASE table[m][p].kind = "Object"
  BY SlotUsed DEF SameView, EntryHost
<1>2. CASE table[m][p].kind # "Object"
  BY <1>2 DEF SameView, EntryHost
<1> QED
  BY <1>1, <1>2

\* A slot that is free is no mapping's.
LEMMA SlotUnused ==
    ASSUME TypeOK, NEW s \in Slots, s \notin UsedSlots, NEW m \in live, NEW p \in Pages
    PROVE  table[m][p].slot # s
<1>1. table[m][p] \in EntryType
  BY DEF TypeOK
<1>2. CASE table[m][p].kind = "Object"
  BY <1>2, SlotUsed
<1>3. CASE table[m][p].kind # "Object"
  BY <1>1, <1>3, EntryOfKind, UnmappedEntry, AddressSpaceAssumption
<1> QED
  BY <1>2, <1>3

\* A step that only takes mappings away, or changes their protections.
Removes ==
    /\ zeroPage' = zeroPage
    /\ \A m \in live', p \in Pages :
          table'[m][p] = Unmapped \/ (m \in live /\ SameView(m, p))

LEMMA Removed ==
    ASSUME Sharing, Removes
    PROVE  MappingsCompatible' /\ ZeroPageCow'
<1> DEFINE N == {}
<1>2. \A m \in live', p \in Pages : <<m, p>> \notin N
  OBVIOUS
<1> HIDE DEF N
<1> QED
  BY <1>2, Replaced DEF Removes

LEMMA NewRemoves ==
    ASSUME TypeOK, NEW m \in Mmus, New(m)
    PROVE  Removes
<1>1. \A p \in Pages : table'[m][p] = Unmapped
  BY DEF New, TypeOK, Mapped
<1>2. \A n \in live, p \in Pages : SameView(n, p)
  BY ViewKept DEF New
<1> QED
  BY <1>1, <1>2 DEF New, Removes

LEMMA DropRemoves ==
    ASSUME TypeOK, NEW m \in Mmus, Drop(m)
    PROVE  Removes
<1>2. \A n \in live \ {m}, p \in Pages : SameView(n, p)
  BY ViewKept DEF Drop
<1> QED
  BY <1>2 DEF Drop, Removes

LEMMA UnmapRemoves ==
    ASSUME TypeOK, NEW m \in Mmus, NEW ps \in SUBSET Pages, Unmap(m, ps)
    PROVE  Removes
<1>2. \A n \in live, p \in Pages : table'[n][p] = Unmapped \/ SameView(n, p)
  BY ViewKept DEF Unmap
<1> QED
  BY <1>2 DEF Unmap, Removes

LEMMA ProtectRemoves ==
    ASSUME TypeOK, NEW m \in Mmus, NEW ps \in SUBSET Pages, NEW r \in Prots,
           Protect(m, ps, r)
    PROVE  Removes
<1>1. live' = live /\ slotPage' = slotPage /\ zeroPage' = zeroPage
  BY DEF Protect
<1>2. \A n \in live, p \in Pages :
         IF n = m /\ p \in ps THEN table'[n][p] = [table[n][p] EXCEPT !.prot = r]
                              ELSE table'[n][p] = table[n][p]
  BY DEF Protect, TypeOK
<1>3. ASSUME NEW n \in live, NEW p \in Pages
      PROVE  SameView(n, p)
  <2>1. CASE n = m /\ p \in ps
    <3>1. Shape(table[n][p]) /\ table'[n][p] = [table[n][p] EXCEPT !.prot = r]
      BY <1>2, <2>1, EntryShape DEF TypeOK
    <3>2. /\ table'[n][p].kind = table[n][p].kind /\ table'[n][p].host = table[n][p].host
          /\ table'[n][p].slot = table[n][p].slot /\ table'[n][p].flag = table[n][p].flag
      BY <3>1
    <3> QED
      BY <1>1, <3>2 DEF SameView, EntryHost
  <2>2. CASE ~(n = m /\ p \in ps)
    BY <1>1, <1>2, <2>2, ViewKept
  <2> QED
    BY <2>1, <2>2
<1> QED
  BY <1>1, <1>3 DEF Removes

\* Loads, stores and steps of other components.
LEMMA NothingRemoves ==
    ASSUME TypeOK, UNCHANGED <<live, table, slotPage, zeroPage>>
    PROVE  Removes
BY ViewKept DEF Removes

\* map without `lazy`: every page gets a host page of its own, which is zero.
LEMMA MapAnonViews ==
    ASSUME TypeOK, NEW m \in live, NEW ps \in SUBSET Pages, NEW r \in Prots,
           NEW shared \in BOOLEAN, MapAnon(m, ps, shared, r)
    PROVE  \E f \in Fresh(ps, FreeHosts) :
              /\ \A p \in ps : /\ EntryHost(table[m][p])' = f[p]
                               /\ table'[m][p].host = f[p] /\ table'[m][p].slot = NoSlot
              /\ \A n \in live, p \in Pages : (n # m \/ p \notin ps) => SameView(n, p)
              /\ content' = [h \in Hosts |->
                               IF h \in {f[p] : p \in ps} THEN Zero ELSE content[h]]
<1>1. PICK f \in Fresh(ps, FreeHosts) :
         /\ table' = [table EXCEPT ![m] = [p \in Pages |->
                        IF p \notin ps THEN table[m][p]
                        ELSE IF shared THEN Shared(f[p], r)
                        ELSE Private(f[p], FALSE, r)]]
         /\ content' = [h \in Hosts |-> IF h \in {f[p] : p \in ps} THEN Zero ELSE content[h]]
  BY DEF MapAnon
<1>2. ASSUME NEW n \in live, NEW p \in Pages, n # m \/ p \notin ps
      PROVE  SameView(n, p)
  <2>1. table'[n][p] = table[n][p]
    BY <1>1, <1>2 DEF TypeOK
  <2> QED
    BY <2>1, ViewKept DEF MapAnon
<1>3. ASSUME NEW p \in ps
      PROVE  /\ EntryHost(table[m][p])' = f[p]
             /\ table'[m][p].host = f[p] /\ table'[m][p].slot = NoSlot
  <2>1. table'[m][p] = IF shared THEN Shared(f[p], r) ELSE Private(f[p], FALSE, r)
    BY <1>1 DEF TypeOK
  <2>2. table'[m][p].kind # "Object" /\ table'[m][p].host = f[p] /\ table'[m][p].slot = NoSlot
    <3>1. CASE shared
      BY <2>1, <3>1 DEF Shared
    <3>2. CASE ~shared
      BY <2>1, <3>2 DEF Private
    <3> QED
      BY <3>1, <3>2
  <2> QED
    BY <2>2 DEF EntryHost
<1> QED
  BY <1>1, <1>2, <1>3

LEMMA MapAnonSharing ==
    ASSUME Sharing, NEW m \in live, NEW ps \in SUBSET Pages, NEW r \in Prots,
           NEW shared \in BOOLEAN, MapAnon(m, ps, shared, r), live' = live
    PROVE  MappingsCompatible' /\ ZeroPageCow'
<1>a. TypeOK
  BY DEF Sharing, Typed
<1>b. zeroPage' = zeroPage
  BY DEF MapAnon
<1>1. PICK f \in Fresh(ps, FreeHosts) :
         /\ \A p \in ps : EntryHost(table[m][p])' = f[p] /\ table'[m][p].slot = NoSlot
         /\ \A n \in live, p \in Pages : (n # m \/ p \notin ps) => SameView(n, p)
  BY <1>a, MapAnonViews
<1>2. /\ \A p \in ps : f[p] \in FreeHosts
      /\ \A p, q \in ps : p # q => f[p] # f[q]
  BY DEF Fresh
<1> DEFINE N == {m} \X ps
<1>3. \A n \in live, p \in Pages : <<n, p>> \in N <=> n = m /\ p \in ps
  OBVIOUS
<1>4. \A p \in ps : /\ f[p] # zeroPage
                    /\ \A n \in live, q \in Pages : EntryHost(table[n][q]) # f[p]
  BY <1>a, <1>2, FreeHidden
<1> HIDE DEF N
<1>5. \A n \in live', p \in Pages : <<n, p>> \in N => NewView(n, p, N)
  BY <1>1, <1>2, <1>3, <1>4 DEF NewView
<1>6. \A n \in live', p \in Pages : <<n, p>> \notin N => n \in live /\ SameView(n, p)
  BY <1>1, <1>3
<1> QED
  BY <1>b, <1>5, <1>6, Replaced

\* map_extern: every page gets a header of its own, and memory stays as it is.
LEMMA MapExternViews ==
    ASSUME TypeOK, NEW m \in live, NEW ps \in SUBSET Pages, NEW r \in Prots,
           NEW k, MapExtern(m, ps, k, r)
    PROVE  \E f \in Fresh(ps, FreeExterns) :
              /\ \A p \in ps : /\ EntryHost(table[m][p])' = f[p]
                               /\ table'[m][p].host = f[p] /\ table'[m][p].slot = NoSlot
              /\ \A n \in live, p \in Pages : (n # m \/ p \notin ps) => SameView(n, p)
<1>1. PICK f \in FreshViews(ps) :
         table' = [table EXCEPT ![m] = [p \in Pages |->
                     IF p \notin ps THEN table[m][p]
                     ELSE IF k = "ExtShared" THEN Shared(f[p], r)
                     ELSE Private(f[p], k = "ExtCow", r)]]
  BY DEF MapExtern
<1>2. ASSUME NEW n \in live, NEW p \in Pages, n # m \/ p \notin ps
      PROVE  SameView(n, p)
  <2>1. table'[n][p] = table[n][p]
    BY <1>1, <1>2 DEF TypeOK
  <2> QED
    BY <2>1, ViewKept DEF MapExtern
<1>3. ASSUME NEW p \in ps
      PROVE  /\ EntryHost(table[m][p])' = f[p]
             /\ table'[m][p].host = f[p] /\ table'[m][p].slot = NoSlot
  <2>1. table'[m][p] = IF k = "ExtShared" THEN Shared(f[p], r)
                       ELSE Private(f[p], k = "ExtCow", r)
    BY <1>1 DEF TypeOK
  <2>2. table'[m][p].kind # "Object" /\ table'[m][p].host = f[p] /\ table'[m][p].slot = NoSlot
    <3>1. CASE k = "ExtShared"
      BY <2>1, <3>1 DEF Shared
    <3>2. CASE k # "ExtShared"
      BY <2>1, <3>2 DEF Private
    <3> QED
      BY <3>1, <3>2
  <2> QED
    BY <2>2 DEF EntryHost
<1>4. f \in Fresh(ps, FreeExterns)
  BY DEF FreshViews
<1> QED
  BY <1>2, <1>3, <1>4

LEMMA MapExternSharing ==
    ASSUME Sharing, NEW m \in live, NEW ps \in SUBSET Pages, NEW r \in Prots,
           NEW k, MapExtern(m, ps, k, r), live' = live
    PROVE  MappingsCompatible' /\ ZeroPageCow'
<1>a. TypeOK
  BY DEF Sharing, Typed
<1>b. zeroPage' = zeroPage
  BY DEF MapExtern
<1>1. PICK f \in Fresh(ps, FreeExterns) :
         /\ \A p \in ps : EntryHost(table[m][p])' = f[p] /\ table'[m][p].slot = NoSlot
         /\ \A n \in live, p \in Pages : (n # m \/ p \notin ps) => SameView(n, p)
  BY <1>a, MapExternViews
<1>2. /\ \A p \in ps : f[p] \in FreeExterns
      /\ \A p, q \in ps : p # q => f[p] # f[q]
  BY DEF Fresh
<1> DEFINE N == {m} \X ps
<1>3. \A n \in live, p \in Pages : <<n, p>> \in N <=> n = m /\ p \in ps
  OBVIOUS
<1>4. \A p \in ps : /\ f[p] # zeroPage
                    /\ \A n \in live, q \in Pages : EntryHost(table[n][q]) # f[p]
  BY <1>a, <1>2, FreeHidden
<1> HIDE DEF N
<1>5. \A n \in live', p \in Pages : <<n, p>> \in N => NewView(n, p, N)
  BY <1>1, <1>2, <1>3, <1>4 DEF NewView
<1>6. \A n \in live', p \in Pages : <<n, p>> \notin N => n \in live /\ SameView(n, p)
  BY <1>1, <1>3
<1> QED
  BY <1>b, <1>5, <1>6, Replaced

\* map_device: every page gets a slot that nothing else uses, without page.
LEMMA MapObjectViews ==
    ASSUME TypeOK, NEW m \in live, NEW ps \in SUBSET Pages, NEW r \in Prots,
           NEW shared \in BOOLEAN, MapObject(m, ps, shared, r)
    PROVE  \E f \in Fresh(ps, FreeSlots) :
              /\ \A p \in ps : EntryHost(table[m][p])' = NoHost /\ table'[m][p].slot = f[p]
              /\ \A n \in live, p \in Pages : (n # m \/ p \notin ps) => SameView(n, p)
<1>1. PICK f \in Fresh(ps, FreeSlots) :
        /\ table' = [table EXCEPT ![m] = [p \in Pages |->
                       IF p \in ps THEN Object(f[p], shared, r) ELSE table[m][p]]]
        /\ slotPage' = [s \in Slots |-> IF s \in {f[p] : p \in ps} THEN NoHost ELSE slotPage[s]]
  BY DEF MapObject
<1>2. \A p \in ps : f[p] \in Slots /\ f[p] \notin UsedSlots
  BY DEF Fresh, FreeSlots
<1>3. ASSUME NEW n \in live, NEW p \in Pages, n # m \/ p \notin ps
      PROVE  SameView(n, p)
  <2>1. table'[n][p] = table[n][p]
    BY <1>1, <1>3
  <2>2. \A s \in UsedSlots \cap Slots : slotPage'[s] = slotPage[s]
    BY <1>1, <1>2
  <2> QED
    BY <2>1, <2>2, ViewKept
<1>4. ASSUME NEW p \in ps
      PROVE  EntryHost(table[m][p])' = NoHost /\ table'[m][p].slot = f[p]
  <2>1. table'[m][p] = Object(f[p], shared, r)
    BY <1>1 DEF TypeOK
  <2>2. table'[m][p].kind = "Object" /\ table'[m][p].slot = f[p]
    BY <1>2, <2>1, ObjectEntry
  <2>3. slotPage'[f[p]] = NoHost
    BY <1>1, <1>2
  <2> QED
    BY <2>2, <2>3 DEF EntryHost
<1> QED
  BY <1>3, <1>4

LEMMA MapObjectSharing ==
    ASSUME Sharing, NEW m \in live, NEW ps \in SUBSET Pages, NEW r \in Prots,
           NEW shared \in BOOLEAN, MapObject(m, ps, shared, r), live' = live
    PROVE  MappingsCompatible' /\ ZeroPageCow'
<1>a. TypeOK
  BY DEF Sharing, Typed
<1>b. zeroPage' = zeroPage
  BY DEF MapObject
<1>1. PICK f \in Fresh(ps, FreeSlots) :
         /\ \A p \in ps : EntryHost(table[m][p])' = NoHost /\ table'[m][p].slot = f[p]
         /\ \A n \in live, p \in Pages : (n # m \/ p \notin ps) => SameView(n, p)
  BY <1>a, MapObjectViews
<1>2. /\ \A p \in ps : f[p] \in Slots /\ f[p] \notin UsedSlots
      /\ \A p, q \in ps : p # q => f[p] # f[q]
  BY DEF Fresh, FreeSlots
<1> DEFINE N == {m} \X ps
<1>3. \A n \in live, p \in Pages : <<n, p>> \in N <=> n = m /\ p \in ps
  OBVIOUS
<1>4. \A p \in ps, n \in live, q \in Pages : table[n][q].slot # f[p]
  BY <1>a, <1>2, SlotUnused
<1> HIDE DEF N
<1>5. \A n \in live', p \in Pages : <<n, p>> \in N => NewView(n, p, N)
  BY <1>1, <1>2, <1>3, <1>4 DEF NewView
<1>6. \A n \in live', p \in Pages : <<n, p>> \notin N => n \in live /\ SameView(n, p)
  BY <1>1, <1>3
<1> QED
  BY <1>b, <1>5, <1>6, Replaced

\* map with `lazy`: the new mappings are views of the zero page.
LEMMA MapCowViews ==
    ASSUME TypeOK, NEW m \in live, NEW ps \in SUBSET Pages, NEW r \in Prots,
           MapCow(m, ps, r)
    PROVE  /\ \A p \in ps : /\ EntryHost(table[m][p])' = zeroPage'
                            /\ table'[m][p].host = zeroPage' /\ table'[m][p].slot = NoSlot
                            /\ table'[m][p].kind = "Private" /\ table'[m][p].flag = TRUE
           /\ \A n \in live, p \in Pages : (n # m \/ p \notin ps) => SameView(n, p)
<1>1. table' = [table EXCEPT ![m] = [p \in Pages |->
                  IF p \in ps THEN Private(zeroPage', TRUE, r) ELSE table[m][p]]]
  BY DEF MapCow
<1>2. ASSUME NEW n \in live, NEW p \in Pages, n # m \/ p \notin ps
      PROVE  SameView(n, p)
  <2>1. table'[n][p] = table[n][p]
    BY <1>1, <1>2 DEF TypeOK
  <2> QED
    BY <2>1, ViewKept DEF MapCow
<1>3. ASSUME NEW p \in ps
      PROVE  /\ EntryHost(table[m][p])' = zeroPage'
             /\ table'[m][p].host = zeroPage' /\ table'[m][p].slot = NoSlot
             /\ table'[m][p].kind = "Private" /\ table'[m][p].flag = TRUE
  <2>1. table'[m][p] = Private(zeroPage', TRUE, r)
    BY <1>1 DEF TypeOK
  <2> QED
    BY <2>1 DEF Private, EntryHost
<1> QED
  BY <1>2, <1>3

LEMMA MapCowSharing ==
    ASSUME Sharing, NEW m \in live, NEW ps \in SUBSET Pages, NEW r \in Prots,
           MapCow(m, ps, r), live' = live
    PROVE  MappingsCompatible' /\ ZeroPageCow'
<1>a. TypeOK
  BY DEF Sharing, Typed
<1> DEFINE z == zeroPage'
<1>1. z \in IF zeroPage = NoHost THEN FreeHosts ELSE {zeroPage}
  BY DEF MapCow
<1>2. \A n \in live, p \in Pages :
         EntryHost(table[n][p]) = z => table[n][p].kind = "Private" /\ table[n][p].flag
  <2>1. CASE zeroPage = NoHost
    BY <1>a, <1>1, <2>1, FreeHidden
  <2>2. CASE zeroPage # NoHost
    BY <1>1, <2>2 DEF Sharing, ZeroPageCow, ZeroShown
  <2> QED
    BY <2>1, <2>2
<1>3. ASSUME NEW n \in live, NEW p \in Pages, ~(n = m /\ p \in ps)
      PROVE  SameView(n, p)
  BY <1>a, <1>3, MapCowViews
<1>4. ASSUME NEW p \in ps
      PROVE  /\ EntryHost(table[m][p])' = z /\ table'[m][p].slot = NoSlot
             /\ table'[m][p].kind = "Private" /\ table'[m][p].flag = TRUE
  BY <1>a, MapCowViews
<1> HIDE DEF z
<1>5. ASSUME NEW n \in live, NEW l \in live, NEW p \in Pages, NEW q \in Pages,
             n # l \/ p # q
      PROVE  Compatible(table[n][p], table[l][q])'
  <2>1. CASE n = m /\ p \in ps /\ l = m /\ q \in ps
    BY <1>4, <2>1 DEF Compatible
  <2>2. CASE n = m /\ p \in ps /\ ~(l = m /\ q \in ps)
    <3>1. SameView(l, q)
      BY <1>3, <2>2
    <3>2. EntryHost(table[l][q]) = z => table[l][q].kind = "Private" /\ table[l][q].flag
      BY <1>2
    <3> QED
      BY <1>4, <2>2, <3>1, <3>2 DEF Compatible, SameView
  <2>3. CASE ~(n = m /\ p \in ps) /\ l = m /\ q \in ps
    <3>1. SameView(n, p)
      BY <1>3, <2>3
    <3>2. EntryHost(table[n][p]) = z => table[n][p].kind = "Private" /\ table[n][p].flag
      BY <1>2
    <3> QED
      BY <1>4, <2>3, <3>1, <3>2 DEF Compatible, SameView
  <2>4. CASE ~(n = m /\ p \in ps) /\ ~(l = m /\ q \in ps)
    <3>1. SameView(n, p) /\ SameView(l, q)
      BY <1>3, <2>4
    <3>2. Compatible(table[n][p], table[l][q])
      BY <1>5 DEF Sharing, MappingsCompatible
    <3> QED
      BY <3>1, <3>2 DEF Compatible, SameView
  <2> QED
    BY <2>1, <2>2, <2>3, <2>4
<1>6. ASSUME NEW n \in live, NEW p \in Pages
      PROVE  ZeroShown(table[n][p])'
  <2>1. CASE n = m /\ p \in ps
    BY <1>4, <2>1 DEF ZeroShown
  <2>2. CASE ~(n = m /\ p \in ps)
    <3>1. SameView(n, p)
      BY <1>3, <2>2
    <3>2. EntryHost(table[n][p]) = z => table[n][p].kind = "Private" /\ table[n][p].flag
      BY <1>2
    <3> QED
      BY <3>1, <3>2 DEF ZeroShown, SameView, z
  <2> QED
    BY <2>1, <2>2
<1> QED
  BY <1>5, <1>6 DEF MappingsCompatible, ZeroPageCow

LEMMA MapSharing ==
    ASSUME Sharing, NEW m \in Mmus, NEW ps \in SUBSET Pages, NEW k, NEW r \in Prots,
           Map(m, ps, k, r)
    PROVE  MappingsCompatible' /\ ZeroPageCow'
<1> QED
  BY MapAnonSharing, MapCowSharing, MapObjectSharing, MapExternSharing DEF Map

\* copy_all_cow_pages: a page stays, or a copy with the same contents takes its
\* place.
LEMMA CopyAllCowViews ==
    ASSUME TypeOK, NEW m \in Mmus, CopyAllCow(m)
    PROVE  \E f \in Fresh(Copied(m), FreeHosts) :
              /\ \A p \in Cow(m) :
                    /\ table'[m][p].slot = NoSlot
                    /\ EntryHost(table[m][p])' =
                          IF p \in Copied(m) THEN f[p] ELSE table[m][p].host
              /\ \A n \in live, p \in Pages : (n # m \/ p \notin Cow(m)) => SameView(n, p)
              /\ \A p \in Copied(m) : content'[f[p]] = ClonedContent(table[m][p].host)
              /\ \A h \in Hosts \ FreeHosts : content'[h] = content[h]
<1>1. PICK f \in Fresh(Copied(m), FreeHosts) :
              /\ table' = [table EXCEPT ![m] = UnCowed(m, f)]
              /\ content' = [h \in Hosts |->
                    IF \E p \in Copied(m) : f[p] = h
                    THEN ClonedContent(table[m][CHOOSE p \in Copied(m) : f[p] = h].host)
                    ELSE content[h]]
  BY CopyAllCowRow
<1>2. /\ \A p \in Copied(m) : f[p] \in FreeHosts /\ f[p] \in Hosts
      /\ \A p, q \in Copied(m) : p # q => f[p] # f[q]
  BY DEF Fresh, FreeHosts
<1>3. ASSUME NEW n \in live, NEW p \in Pages, n # m \/ p \notin Cow(m)
      PROVE  SameView(n, p)
  <2>1. table'[n][p] = table[n][p]
    BY <1>1, <1>3 DEF TypeOK, UnCowed, Copied
  <2> QED
    BY <2>1, ViewKept DEF CopyAllCow
<1>4. ASSUME NEW p \in Cow(m)
      PROVE  /\ table'[m][p].slot = NoSlot
             /\ EntryHost(table[m][p])' = IF p \in Copied(m) THEN f[p] ELSE table[m][p].host
  <2>1. p \in Pages /\ Copied(m) \subseteq Cow(m)
    BY DEF Cow, Copied
  <2>2. table'[m][p] = UnCowed(m, f)[p]
    BY <1>1 DEF TypeOK
  <2>3. CASE p \in Copied(m)
    <3>1. table'[m][p] = Private(f[p], FALSE, table[m][p].prot)
      BY <2>1, <2>2, <2>3 DEF UnCowed
    <3> QED
      BY <2>3, <3>1 DEF Private, EntryHost
  <2>4. CASE p \notin Copied(m)
    <3>1. table'[m][p] = Private(table[m][p].host, FALSE, table[m][p].prot)
      BY <2>1, <2>2, <2>4 DEF UnCowed
    <3> QED
      BY <2>4, <3>1 DEF Private, EntryHost
  <2> QED
    BY <2>3, <2>4
<1>5. ASSUME NEW p \in Copied(m)
      PROVE  content'[f[p]] = ClonedContent(table[m][p].host)
  <2> DEFINE q == CHOOSE q \in Copied(m) : f[q] = f[p]
  <2> QED
    BY <1>1, <1>2
<1>6. \A h \in Hosts \ FreeHosts : content'[h] = content[h]
  BY <1>1, <1>2
<1> QED
  BY <1>3, <1>4, <1>5, <1>6

\* A page becomes writable when nothing else shows it, or as a copy that nothing
\* else shows.
LEMMA CopyAllCowSharing ==
    ASSUME Sharing, NEW m \in Mmus, CopyAllCow(m)
    PROVE  MappingsCompatible' /\ ZeroPageCow'
<1>a. TypeOK
  BY DEF Sharing, Typed
<1>b. m \in live /\ live' = live /\ zeroPage' = zeroPage
  BY DEF CopyAllCow
<1>1. PICK f \in Fresh(Copied(m), FreeHosts) :
         /\ \A p \in Cow(m) :
               /\ table'[m][p].slot = NoSlot
               /\ EntryHost(table[m][p])' = IF p \in Copied(m) THEN f[p] ELSE table[m][p].host
         /\ \A n \in live, p \in Pages : (n # m \/ p \notin Cow(m)) => SameView(n, p)
  BY <1>a, CopyAllCowViews
<1>2. /\ \A p \in Copied(m) : f[p] \in FreeHosts
      /\ \A p, q \in Copied(m) : p # q => f[p] # f[q]
  BY DEF Fresh
<1> DEFINE N == {m} \X Cow(m)
<1>6. ASSUME NEW p \in Copied(m)
      PROVE  /\ f[p] # zeroPage
             /\ \A n \in live, q \in Pages : EntryHost(table[n][q]) # f[p]
  BY <1>a, <1>2, FreeHidden
<1>7. ASSUME NEW p \in Cow(m), p \notin Copied(m)
      PROVE  /\ table[m][p].host # zeroPage
             /\ \A n \in live, q \in Pages :
                   (m # n \/ p # q) => EntryHost(table[n][q]) # table[m][p].host
  BY <1>a, <1>b, <1>7, OnlyShown DEF Cow, Copied
<1>8. \A q \in Cow(m) : EntryHost(table[m][q]) = table[m][q].host
  BY DEF Cow, EntryHost
<1>9. ASSUME NEW p \in Cow(m), NEW q \in Cow(m), p # q
      PROVE  EntryHost(table[m][p])' # EntryHost(table[m][q])'
  <2>1. p \in Pages /\ q \in Pages
    BY DEF Cow
  <2>2. CASE p \in Copied(m) /\ q \in Copied(m)
    BY <1>1, <1>2, <1>9, <2>2
  <2>3. CASE p \in Copied(m) /\ q \notin Copied(m)
    BY <1>b, <1>1, <1>6, <1>8, <2>1, <2>3
  <2>4. CASE p \notin Copied(m) /\ q \in Copied(m)
    BY <1>b, <1>1, <1>6, <1>8, <2>1, <2>4
  <2>5. CASE p \notin Copied(m) /\ q \notin Copied(m)
    BY <1>b, <1>1, <1>7, <1>8, <1>9, <2>1, <2>5
  <2> QED
    BY <2>2, <2>3, <2>4, <2>5
<1>10. ASSUME NEW p \in Cow(m)
       PROVE  NewView(m, p, N)
  <2>1. CASE p \in Copied(m)
    BY <1>1, <1>6, <1>9, <2>1 DEF NewView
  <2>2. CASE p \notin Copied(m)
    BY <1>1, <1>7, <1>9, <2>2 DEF NewView
  <2> QED
    BY <2>1, <2>2
<1>11. \A n \in live', p \in Pages : <<n, p>> \in N => NewView(n, p, N)
  BY <1>10
<1>12. \A n \in live', p \in Pages : <<n, p>> \notin N => n \in live /\ SameView(n, p)
  BY <1>b, <1>1
<1> HIDE DEF N
<1> QED
  BY <1>b, <1>11, <1>12, Replaced

\* The object manager publishes a page that nothing else shows.
LEMMA FaultInViews ==
    ASSUME TypeOK, NEW s \in Slots, NEW v \in Vals, FaultIn(s, v)
    PROVE  \E h \in FreeHosts :
              /\ \A m \in live, p \in Pages :
                    EntryHost(table[m][p])' =
                       IF table[m][p].kind = "Object" /\ table[m][p].slot = s THEN h
                       ELSE EntryHost(table[m][p])
              /\ content' = [content EXCEPT ![h] = v]
<1>1. PICK h \in FreeHosts : /\ slotPage' = [slotPage EXCEPT ![s] = h]
                             /\ content' = [content EXCEPT ![h] = v]
  BY DEF FaultIn
<1>2. ASSUME NEW m \in live, NEW p \in Pages
      PROVE  EntryHost(table[m][p])' =
                IF table[m][p].kind = "Object" /\ table[m][p].slot = s THEN h
                ELSE EntryHost(table[m][p])
  <2>1. CASE table[m][p].kind = "Object"
    BY <1>1 DEF EntryHost, TypeOK, FaultIn
  <2>2. CASE table[m][p].kind # "Object"
    BY <2>2 DEF EntryHost, FaultIn
  <2> QED
    BY <2>1, <2>2
<1> QED
  BY <1>1, <1>2

LEMMA FaultInSharing ==
    ASSUME Sharing, NEW s \in Slots, NEW v \in Vals, FaultIn(s, v)
    PROVE  MappingsCompatible' /\ ZeroPageCow'
<1>a. TypeOK
  BY DEF Sharing, Typed
<1>b. live' = live /\ table' = table /\ zeroPage' = zeroPage
  BY DEF FaultIn
<1>1. PICK h \in FreeHosts : \A m \in live, p \in Pages :
         EntryHost(table[m][p])' =
            IF table[m][p].kind = "Object" /\ table[m][p].slot = s THEN h
            ELSE EntryHost(table[m][p])
  BY <1>a, FaultInViews
<1>2. /\ h \in Hosts /\ zeroPage # h
      /\ \A m \in live, p \in Pages : EntryHost(table[m][p]) # h
  BY <1>a, FreeHidden
<1>3. ASSUME NEW n \in live, NEW l \in live, NEW p \in Pages, NEW q \in Pages,
             n # l \/ p # q
      PROVE  Compatible(table[n][p], table[l][q])'
  <2>1. Compatible(table[n][p], table[l][q])
    BY <1>3 DEF Sharing, MappingsCompatible
  <2> QED
    BY <1>b, <1>1, <1>2, <2>1, AddressSpaceAssumption DEF Compatible
<1>4. ASSUME NEW n \in live, NEW p \in Pages
      PROVE  ZeroShown(table[n][p])'
  <2>1. ZeroShown(table[n][p])
    BY DEF Sharing, ZeroPageCow
  <2> QED
    BY <1>b, <1>1, <1>2, <2>1 DEF ZeroShown
<1> QED
  BY <1>b, <1>3, <1>4 DEF MappingsCompatible, ZeroPageCow

\* A mapping after fork, d, shows what one before it, e, did: it is the same, or
\* has become copy-on-write.
Forked(d, h, e) ==
    /\ h = EntryHost(e)
    /\ \/ /\ d.kind = e.kind /\ d.slot = e.slot
          /\ d.flag = e.flag \/ (e.kind = "Private" /\ d.flag)
       \/ d.kind = "Private" /\ d.flag /\ d.slot = NoSlot /\ Unshared(e)

\* A mapping that may show the page, or have the slot, of another.
Shareable(d) ==
    /\ d.kind \in {"Private", "Object"} => d.flag
    /\ d.slot # NoSlot => d.flag

\* Compatible mappings stay so when they are forked.
LEMMA ForkedCompatible ==
    ASSUME NEW d, NEW g, NEW e, NEW c, NEW h, NEW b, Compatible(e, b),
           Forked(d, g, e), Forked(c, h, b),
           e \in EntryType, b \in EntryType
    PROVE  /\ (g = h /\ g # NoHost) =>
                 /\ d.kind = c.kind
                 /\ d.kind = "Private" => d.flag /\ c.flag
                 /\ d.kind = "Object" => d.flag /\ c.flag
           /\ (d.slot = c.slot /\ d.slot # NoSlot) => d.flag /\ c.flag
<1>2. ASSUME g = h, g # NoHost
      PROVE  /\ d.kind = c.kind
             /\ d.kind = "Private" => d.flag /\ c.flag
             /\ d.kind = "Object" => d.flag /\ c.flag
  BY <1>2 DEF Forked, Compatible, Unshared
<1>3. ASSUME d.slot = c.slot, d.slot # NoSlot
      PROVE  d.flag /\ c.flag
  BY <1>3 DEF Forked, Compatible
<1> QED
  BY <1>2, <1>3

\* fork: every mapping shows what it did; the child has the parent's mappings, and
\* slots of its own, without page, for private objects that are not resident.
ForkViews(m, n, f) ==
    /\ DOMAIN f = {p \in Pages : NeedsSlot(table[m][p])}
    /\ \A p \in DOMAIN f : f[p] \in Slots /\ f[p] \notin UsedSlots
    /\ \A p, q \in DOMAIN f : p # q => f[p] # f[q]
    /\ \A l \in live, p \in Pages :
          Forked(table'[l][p], EntryHost(table[l][p])', table[l][p])
    /\ \A p \in Pages : ~NeedsSlot(table[m][p]) =>
          table'[n][p] = table'[m][p] /\ Shareable(table'[m][p])
    /\ \A p \in DOMAIN f : EntryHost(table[n][p])' = NoHost /\ table'[n][p].slot = f[p]

LEMMA ForkViewed ==
    ASSUME TypeOK, NEW m \in Mmus, NEW n \in Mmus, Fork(m, n)
    PROVE  \E f : ForkViews(m, n, f)
<1>b. m \in live /\ n \notin live /\ live' = live \cup {n}
  BY DEF Fork
<1>1. PICK f \in Fresh({p \in Pages : NeedsSlot(table[m][p])}, FreeSlots) :
         /\ table' = [table EXCEPT
               ![m] = [p \in Pages |-> ForkedParent(table[m][p])],
               ![n] = [p \in Pages |->
                         ForkedChild(table[m][p],
                                     IF p \in DOMAIN f THEN f[p] ELSE NoSlot)]]
         /\ slotPage' = [s \in Slots |-> IF \E p \in DOMAIN f : f[p] = s THEN NoHost
                                         ELSE slotPage[s]]
  BY DEF Fork
<1>2. /\ DOMAIN f = {p \in Pages : NeedsSlot(table[m][p])}
      /\ \A p \in DOMAIN f : f[p] \in Slots /\ f[p] \notin UsedSlots
      /\ \A p, q \in DOMAIN f : p # q => f[p] # f[q]
  BY DEF Fresh, FreeSlots
<1>3. \A s \in UsedSlots \cap Slots : slotPage'[s] = slotPage[s]
  BY <1>1, <1>2
<1>4. ASSUME NEW p \in Pages
      PROVE  /\ Forked(table'[m][p], EntryHost(table[m][p])', table[m][p])
             /\ ~NeedsSlot(table[m][p]) => Shareable(table'[m][p])
  <2>1. table'[m][p] = ForkedParent(table[m][p])
    BY <1>1 DEF TypeOK
  <2>2. table[m][p] \in EntryType
    BY DEF TypeOK
  <2>3. CASE table[m][p].kind = "Private"
    <3>1. table'[m][p] = Private(table[m][p].host, TRUE, table[m][p].prot)
      BY <2>1, <2>3 DEF ForkedParent, Unshared
    <3>2. table[m][p].slot = NoSlot
      BY <2>2, <2>3, EntryOfKind
    <3> QED
      BY <2>3, <3>1, <3>2 DEF Private, Forked, EntryHost, Shareable
  <2>4. CASE Unshared(table[m][p]) /\ ~NeedsSlot(table[m][p])
    <3>1. table'[m][p] = Private(slotPage[table[m][p].slot], TRUE, table[m][p].prot)
      BY <2>1, <2>4 DEF ForkedParent
    <3> QED
      BY <2>4, <3>1 DEF Private, Forked, EntryHost, Unshared, Shareable
  <2>5. CASE table[m][p].kind # "Private" /\ ~(Unshared(table[m][p]) /\ ~NeedsSlot(table[m][p]))
    <3>1. table'[m][p] = table[m][p]
      BY <2>1, <2>5 DEF ForkedParent
    <3>2. SameView(m, p)
      BY <1>b, <1>3, <3>1, ViewKept
    <3>3. ~NeedsSlot(table[m][p]) => Shareable(table[m][p])
      BY <2>2, <2>5, EntryOfKind, UnmappedEntry DEF Shareable, Unshared
    <3> QED
      BY <3>1, <3>2, <3>3 DEF Forked, SameView
  <2> QED
    BY <2>3, <2>4, <2>5
<1>5. ASSUME NEW p \in Pages
      PROVE  IF NeedsSlot(table[m][p])
             THEN EntryHost(table[n][p])' = NoHost /\ table'[n][p].slot = f[p]
             ELSE table'[n][p] = table'[m][p]
  <2>1. /\ table'[n][p] = ForkedChild(table[m][p], IF p \in DOMAIN f THEN f[p] ELSE NoSlot)
        /\ table'[m][p] = ForkedParent(table[m][p])
    BY <1>1 DEF TypeOK
  <2>2. CASE NeedsSlot(table[m][p])
    <3>1. table'[n][p] = Object(f[p], FALSE, table[m][p].prot) /\ slotPage'[f[p]] = NoHost
      BY <1>1, <1>2, <2>1, <2>2 DEF ForkedChild
    <3> QED
      BY <2>2, <3>1 DEF Object, EntryHost
  <2>3. CASE ~NeedsSlot(table[m][p])
    BY <2>1, <2>3 DEF ForkedChild
  <2> QED
    BY <2>2, <2>3
<1>6. ASSUME NEW l \in live \ {m}, NEW p \in Pages
      PROVE  Forked(table'[l][p], EntryHost(table[l][p])', table[l][p])
  <2>1. table'[l][p] = table[l][p]
    BY <1>b, <1>1 DEF TypeOK
  <2>2. SameView(l, p)
    BY <1>3, <2>1, ViewKept
  <2> QED
    BY <2>2 DEF Forked, SameView
<1> QED
  BY <1>2, <1>4, <1>5, <1>6 DEF ForkViews

\* Parent and child share copy-on-write, and objects that are shared.
LEMMA ForkSharing ==
    ASSUME Sharing, NEW m \in Mmus, NEW n \in Mmus, Fork(m, n)
    PROVE  MappingsCompatible' /\ ZeroPageCow'
<1>a. TypeOK
  BY DEF Sharing, Typed
<1>b. m \in live /\ n \notin live /\ live' = live \cup {n} /\ zeroPage' = zeroPage
  BY DEF Fork
<1>1. PICK f : ForkViews(m, n, f)
  BY <1>a, ForkViewed
<1>2. /\ DOMAIN f = {p \in Pages : NeedsSlot(table[m][p])}
      /\ \A p \in DOMAIN f : f[p] \in Slots /\ f[p] \notin UsedSlots
      /\ \A p, q \in DOMAIN f : p # q => f[p] # f[q]
  BY <1>1 DEF ForkViews
<1>4. ASSUME NEW l \in live, NEW p \in Pages
      PROVE  Forked(table'[l][p], EntryHost(table[l][p])', table[l][p])
  BY <1>1 DEF ForkViews
<1>5. ASSUME NEW p \in Pages
      PROVE  IF NeedsSlot(table[m][p])
             THEN EntryHost(table[n][p])' = NoHost /\ table'[n][p].slot = f[p]
             ELSE table'[n][p] = table'[m][p] /\ Shareable(table'[m][p])
  BY <1>1 DEF ForkViews
<1> DEFINE From(l) == IF l = n THEN m ELSE l
<1> DEFINE Special(l, p) == l = n /\ NeedsSlot(table[m][p])
<1>7. ASSUME NEW l \in live', NEW p \in Pages, ~Special(l, p)
      PROVE  /\ From(l) \in live
             /\ Forked(table'[l][p], EntryHost(table[l][p])', table[From(l)][p])
  <2>1. CASE l = n
    <3>1. table'[n][p] = table'[m][p]
      BY <1>5, <1>7, <2>1
    <3> QED
      BY <1>b, <1>4, <3>1
  <2>2. CASE l # n
    BY <1>b, <1>4, <2>2
  <2> QED
    BY <2>1, <2>2
<1>8. ASSUME NEW l \in live', NEW p \in Pages, NEW q \in DOMAIN f, ~Special(l, p)
      PROVE  table'[l][p].slot # f[q]
  <2>1. PICK k \in live : Forked(table'[l][p], EntryHost(table[l][p])', table[k][p])
    BY <1>7, <1>8
  <2>2. table[k][p].slot # f[q] /\ NoSlot # f[q]
    BY <1>a, <1>2, SlotUnused, AddressSpaceAssumption
  <2> QED
    BY <2>1, <2>2 DEF Forked
<1>9. ASSUME NEW l \in live', NEW k \in live', NEW p \in Pages, NEW q \in Pages,
             l # k \/ p # q
      PROVE  Compatible(table[l][p], table[k][q])'
  <2>1. CASE Special(l, p) /\ Special(k, q)
    BY <1>2, <1>5, <1>9, <2>1 DEF Compatible
  <2>2. CASE Special(l, p) /\ ~Special(k, q)
    BY <1>2, <1>5, <1>8, <2>2 DEF Compatible
  <2>3. CASE ~Special(l, p) /\ Special(k, q)
    BY <1>2, <1>5, <1>8, <2>3 DEF Compatible
  <2>4. CASE ~Special(l, p) /\ ~Special(k, q) /\ From(l) = From(k) /\ p = q
    <3>1. (l = m /\ k = n) \/ (l = n /\ k = m)
      BY <1>9, <2>4
    <3>2. table'[n][p] = table'[m][p] /\ Shareable(table'[m][p])
      BY <1>5, <2>4, <3>1
    <3> QED
      BY <2>4, <3>1, <3>2 DEF Compatible, Shareable
  <2>5. CASE ~Special(l, p) /\ ~Special(k, q) /\ (From(l) # From(k) \/ p # q)
    <3>1. /\ From(l) \in live /\ From(k) \in live
          /\ Forked(table'[l][p], EntryHost(table[l][p])', table[From(l)][p])
          /\ Forked(table'[k][q], EntryHost(table[k][q])', table[From(k)][q])
      BY <1>7, <2>5
    <3>2. Compatible(table[From(l)][p], table[From(k)][q])
      BY <2>5, <3>1 DEF Sharing, MappingsCompatible
    <3>3. table[From(l)][p] \in EntryType /\ table[From(k)][q] \in EntryType
      BY <1>a, <3>1 DEF TypeOK
    <3> QED
      BY <3>1, <3>2, <3>3, ForkedCompatible DEF Compatible
  <2> QED
    BY <2>1, <2>2, <2>3, <2>4, <2>5
<1>10. ASSUME NEW l \in live', NEW p \in Pages
       PROVE  ZeroShown(table[l][p])'
  <2>1. CASE Special(l, p)
    BY <1>5, <2>1 DEF ZeroShown
  <2>2. CASE ~Special(l, p)
    <3>1. /\ From(l) \in live
          /\ Forked(table'[l][p], EntryHost(table[l][p])', table[From(l)][p])
      BY <1>7, <2>2
    <3>2. ZeroShown(table[From(l)][p])
      BY <3>1 DEF Sharing, ZeroPageCow
    <3> QED
      BY <1>b, <3>1, <3>2 DEF ZeroShown, Forked
  <2> QED
    BY <2>1, <2>2
<1> QED
  BY <1>9, <1>10 DEF MappingsCompatible, ZeroPageCow

LEMMA SharingNext ==
    ASSUME Sharing, [Next]_vars
    PROVE  Sharing'
<1>a. Typed' /\ TypeOK
  BY TypedNext DEF Sharing, Typed
<1>b. \A ps \in Ranges : ps \in SUBSET Pages
  BY DEF Ranges
<1>1. CASE \E m \in Mmus : New(m) \/ Drop(m) \/ CopyAllCow(m)
  BY <1>a, <1>1, NewRemoves, DropRemoves, Removed, CopyAllCowSharing DEF
     Sharing
<1>2. CASE \E m \in Mmus, ps \in Ranges :
             \/ Unmap(m, ps)
             \/ \E q \in Prots : Protect(m, ps, q) \/ \E k \in Kinds : Map(m, ps, k, q)
  BY <1>a, <1>b, <1>2, UnmapRemoves, ProtectRemoves, Removed, MapSharing DEF
     Sharing
<1>3. CASE \E m, n \in Mmus : Fork(m, n)
  BY <1>a, <1>3, ForkSharing DEF Sharing
<1>4. CASE \E s \in Slots, v \in Vals : FaultIn(s, v)
  BY <1>a, <1>4, FaultInSharing DEF Sharing
<1>5. CASE \E c \in Cpus, m \in Mmus, p \in Pages, cache \in Caches :
             \/ Load(c, m, p, cache)
             \/ \E v \in Vals, op \in StoreOps : Store(c, m, p, v, op, cache)
  BY <1>a, <1>5, NothingRemoves, Removed DEF Sharing, Load, Store
<1>6. CASE UNCHANGED vars
  BY <1>a, <1>6, NothingRemoves, Removed DEF Sharing, vars
<1> QED
  BY <1>1, <1>2, <1>3, <1>4, <1>5, <1>6 DEF Next

LEMMA SharingInit == Init => Sharing
BY TypedInit DEF Init, Sharing, MappingsCompatible, ZeroPageCow

\* A page that is not tagged copy-on-write has one owner, whatever was forked,
\* copied, mapped lazily, faulted in or mapped from external memory, and whichever
\* host pages were reused: Arc::make_mut in un_cow copies every page that something
\* else owns.  It says nothing of memory that the caller of map_extern still owns.
THEOREM WritablePagesUnshared == Spec => []WritableUnshared
<1>1. Sharing => WritableUnshared
  <2> SUFFICES ASSUME Sharing, NEW m \in live, NEW p \in Pages,
                      table[m][p].kind = "Private", ~table[m][p].flag
               PROVE  Owners(table[m][p].host) = 1
    BY DEF WritableUnshared
  <2> DEFINE h == table[m][p].host
  <2>1. TypeOK /\ table[m][p] \in EntryType
    BY DEF Sharing, Typed, TypeOK
  <2>2. h \in Hosts /\ h # NoHost /\ EntryHost(table[m][p]) = h
    <3>1. h \in Hosts
      BY <2>1, EntryOfKind
    <3> QED
      BY <3>1, AddressSpaceAssumption DEF EntryHost
  <2>3. zeroPage # h
    BY <2>2 DEF Sharing, ZeroPageCow, ZeroShown
  <2>4. ASSUME NEW n \in live, NEW q \in Pages, m # n \/ p # q
        PROVE  EntryHost(table[n][q]) # h
    <3>1. Compatible(table[m][p], table[n][q])
      BY <2>4 DEF Sharing, MappingsCompatible
    <3> QED
      BY <2>2, <3>1 DEF Compatible
  <2> QED
    BY <2>1, <2>3, <2>4, OneOwner
<1> QED
  BY <1>1, SharingInit, SharingNext, PTL DEF Spec

-----------------------------------------------------------------------------
(* What private mappings hold *)

\* A private mapping that shows a page shows what was put there.
Held(m, p) ==
    (IsPrivate(table[m][p]) /\ EntryHost(table[m][p]) # NoHost)
        => content[EntryHost(table[m][p])] = priv[m][p]

\* The zero page is of the heap, and zero.
ZeroHeld ==
    zeroPage # NoHost => content[zeroPage] = Zero /\ External[zeroPage] = NoExtern

AllHeld == ZeroHeld /\ \A m \in live, p \in Pages : Held(m, p)

Isolation == Sharing /\ AllHeld

\* get_page finds a page exactly when the entry shows one.
LEMMA FoundShown ==
    ASSUME TypeOK, NEW e \in EntryType
    PROVE  as_page(e) # NoPage <=> EntryHost(e) # NoHost
<1>1. ASSUME as_page(e) # NoPage
      PROVE  EntryHost(e) # NoHost
  BY <1>1, PageFound, AddressSpaceAssumption
<1>2. ASSUME as_page(e) = NoPage
      PROVE  EntryHost(e) = NoHost
  <2>1. CASE e = Unmapped
    BY <2>1, NothingShown
  <2>2. CASE e.kind = "Object" /\ slotPage[e.slot] = NoHost
    BY <2>2 DEF EntryHost
  <2>3. CASE ~(e = Unmapped \/ (e.kind = "Object" /\ slotPage[e.slot] = NoHost))
    BY <1>2, <2>3 DEF as_page, NoPage
  <2> QED
    BY <2>1, <2>2, <2>3
<1> QED
  BY <1>1, <1>2

\* What an entry shows is a host page, and no free one.
LEMMA ShownHost ==
    ASSUME TypeOK, NEW m \in live, NEW p \in Pages, EntryHost(table[m][p]) # NoHost
    PROVE  EntryHost(table[m][p]) \in Hosts \ FreeHosts
<1>1. table[m][p] \in EntryType
  BY DEF TypeOK
<1>2. EntryHost(table[m][p]) \in Hosts
  BY <1>1, FoundShown, PageFound
<1> QED
  BY <1>2, FreeHidden

\* A mapping that shows the same page, with the same contents, holds what it did.
LEMMA StillHeld ==
    ASSUME AllHeld, NEW m \in live, NEW p \in Pages, SameView(m, p),
           priv'[m][p] = priv[m][p],
           EntryHost(table[m][p]) # NoHost =>
              content'[EntryHost(table[m][p])] = content[EntryHost(table[m][p])]
    PROVE  Held(m, p)'
BY DEF AllHeld, Held, SameView, IsPrivate, Unshared

LEMMA RemovedHeld ==
    ASSUME Isolation, Removes, content' = content,
           \A m \in live', p \in Pages : table'[m][p] = Unmapped \/ priv'[m][p] = priv[m][p]
    PROVE  AllHeld'
<1>1. ASSUME NEW m \in live', NEW p \in Pages
      PROVE  Held(m, p)'
  <2>1. CASE table'[m][p] = Unmapped
    BY <2>1, UnmappedEntry DEF Held, IsPrivate, Unshared
  <2>2. CASE table'[m][p] # Unmapped
    BY <2>2, StillHeld DEF Removes, Isolation
  <2> QED
    BY <2>1, <2>2
<1>2. ZeroHeld'
  BY DEF Isolation, AllHeld, ZeroHeld, Removes
<1> QED
  BY <1>1, <1>2 DEF AllHeld

\* A new mapping shows zero, or what external memory holds.
LEMMA MapHeld ==
    ASSUME Isolation, NEW m \in Mmus, NEW ps \in SUBSET Pages, NEW k, NEW r \in Prots,
           Map(m, ps, k, r)
    PROVE  AllHeld'
<1>a. TypeOK /\ Sharing /\ AllHeld
  BY DEF Isolation, Sharing, Typed
<1>b. m \in live /\ live' = live
  BY DEF Map
<1>c. /\ \A n \in live, p \in Pages : (n # m \/ p \notin ps) => priv'[n][p] = priv[n][p]
      /\ \A p \in ps : priv'[m][p] = MappedContent(table'[m][p])
  <2> DEFINE row == [p \in Pages |->
                       IF p \in ps THEN MappedContent(table'[m][p]) ELSE priv[m][p]]
  <2>1. priv' = [priv EXCEPT ![m] = row]
    BY DEF Map
  <2>2. /\ \A p \in Pages \ ps : row[p] = priv[m][p]
        /\ \A p \in ps : row[p] = MappedContent(table'[m][p])
    OBVIOUS
  <2> HIDE DEF row
  <2>3. priv'[m] = row /\ \A n \in Mmus \ {m} : priv'[n] = priv[n]
    BY <1>a, <2>1 DEF TypeOK
  <2> QED
    BY <1>a, <2>2, <2>3 DEF TypeOK
<1>d. ASSUME \A n \in live, p \in Pages : (n # m \/ p \notin ps) => SameView(n, p),
             \A h \in Hosts \ FreeHosts : content'[h] = content[h]
      PROVE  \A n \in live, p \in Pages : (n # m \/ p \notin ps) => Held(n, p)'
  BY <1>a, <1>c, <1>d, StillHeld, ShownHost
<1>f. \A h \in Hosts : h # NoHost
  BY AddressSpaceAssumption
<1>e. zeroPage # NoHost => zeroPage \in Hosts \ FreeHosts
  BY <1>a, FreeHidden DEF TypeOK
<1>1. ASSUME NEW shared \in BOOLEAN, MapAnon(m, ps, shared, r)
      PROVE  AllHeld'
  <2>1. PICK f \in Fresh(ps, FreeHosts) :
           /\ \A p \in ps : EntryHost(table[m][p])' = f[p] /\ table'[m][p].host = f[p]
           /\ \A n \in live, p \in Pages : (n # m \/ p \notin ps) => SameView(n, p)
           /\ content' = [h \in Hosts |->
                            IF h \in {f[p] : p \in ps} THEN Zero ELSE content[h]]
    BY <1>1, <1>a, <1>b, MapAnonViews
  <2>2. \A p \in ps : f[p] \in FreeHosts /\ f[p] \in Hosts
    BY DEF Fresh, FreeHosts
  <2>3. /\ \A h \in Hosts \ FreeHosts : content'[h] = content[h]
        /\ \A p \in ps : content'[f[p]] = Zero
    BY <2>1, <2>2
  <2>4. \A p \in ps : Held(m, p)'
    BY <1>c, <1>f, <2>1, <2>2 DEF Held, MappedContent
  <2>5. ZeroHeld'
    BY <1>1, <1>a, <1>e DEF MapAnon, AllHeld, ZeroHeld
  <2> QED
    BY <1>b, <1>d, <2>1, <2>3, <2>4, <2>5 DEF AllHeld
<1>2. ASSUME MapCow(m, ps, r)
      PROVE  AllHeld'
  <2>1. /\ \A p \in ps : EntryHost(table[m][p])' = zeroPage' /\ table'[m][p].host = zeroPage'
        /\ \A n \in live, p \in Pages : (n # m \/ p \notin ps) => SameView(n, p)
    BY <1>2, <1>a, <1>b, MapCowViews
  <2>2. /\ \A h \in Hosts \ FreeHosts : content'[h] = content[h]
        /\ content'[zeroPage'] = Zero /\ External[zeroPage'] = NoExtern
        /\ zeroPage' \in Hosts
    <3>1. CASE zeroPage = NoHost
      BY <1>2, <1>a, <3>1 DEF MapCow, TypeOK, FreeHosts
    <3>2. CASE zeroPage # NoHost
      BY <1>2, <1>a, <3>2 DEF MapCow, TypeOK, AllHeld, ZeroHeld
    <3> QED
      BY <3>1, <3>2
  <2>3. \A p \in ps : Held(m, p)'
    BY <1>c, <1>f, <2>1, <2>2 DEF Held, MappedContent
  <2> QED
    BY <1>b, <1>d, <2>1, <2>2, <2>3 DEF AllHeld, ZeroHeld
<1>3. ASSUME NEW shared \in BOOLEAN, MapObject(m, ps, shared, r)
      PROVE  AllHeld'
  <2>1. PICK f \in Fresh(ps, FreeSlots) :
           /\ \A p \in ps : EntryHost(table[m][p])' = NoHost /\ table'[m][p].slot = f[p]
           /\ \A n \in live, p \in Pages : (n # m \/ p \notin ps) => SameView(n, p)
    BY <1>3, <1>a, <1>b, MapObjectViews
  <2>2. content' = content /\ zeroPage' = zeroPage
    BY <1>3 DEF MapObject
  <2>3. \A p \in ps : Held(m, p)'
    BY <2>1 DEF Held
  <2> QED
    BY <1>a, <1>b, <1>d, <2>1, <2>2, <2>3 DEF AllHeld, ZeroHeld
<1>4. ASSUME MapExtern(m, ps, k, r)
      PROVE  AllHeld'
  <2>1. PICK f \in Fresh(ps, FreeExterns) :
           /\ \A p \in ps : EntryHost(table[m][p])' = f[p] /\ table'[m][p].host = f[p]
           /\ \A n \in live, p \in Pages : (n # m \/ p \notin ps) => SameView(n, p)
    BY <1>4, <1>a, <1>b, MapExternViews
  <2>2. content' = content /\ zeroPage' = zeroPage
    BY <1>4 DEF MapExtern
  <2>3. \A p \in ps : f[p] \in Hosts
    BY DEF Fresh, FreeExterns
  <2>4. \A p \in ps : Held(m, p)'
    BY <1>c, <1>f, <2>1, <2>3 DEF Held, MappedContent
  <2> QED
    BY <1>a, <1>b, <1>d, <2>1, <2>2, <2>4 DEF AllHeld, ZeroHeld
<1> QED
  BY <1>1, <1>2, <1>3, <1>4 DEF Map

\* A copy has the contents of its page; that of the zero page is zero.
LEMMA CopyAllCowHeld ==
    ASSUME Isolation, NEW m \in Mmus, CopyAllCow(m)
    PROVE  AllHeld'
<1>a. TypeOK /\ Sharing /\ AllHeld
  BY DEF Isolation, Sharing, Typed
<1>b. m \in live /\ live' = live /\ zeroPage' = zeroPage /\ priv' = priv
  BY DEF CopyAllCow
<1>1. PICK f \in Fresh(Copied(m), FreeHosts) :
         /\ \A p \in Cow(m) :
               EntryHost(table[m][p])' = IF p \in Copied(m) THEN f[p] ELSE table[m][p].host
         /\ \A n \in live, p \in Pages : (n # m \/ p \notin Cow(m)) => SameView(n, p)
         /\ \A p \in Copied(m) : content'[f[p]] = ClonedContent(table[m][p].host)
         /\ \A h \in Hosts \ FreeHosts : content'[h] = content[h]
  BY <1>a, CopyAllCowViews
<1>2. \A n \in live, p \in Pages : (n # m \/ p \notin Cow(m)) => Held(n, p)'
  BY <1>a, <1>b, <1>1, StillHeld, ShownHost
<1>3. ASSUME NEW p \in Cow(m)
      PROVE  Held(m, p)'
  <2>1. /\ p \in Pages /\ IsPrivate(table[m][p])
        /\ EntryHost(table[m][p]) = table[m][p].host
    BY DEF Cow, IsPrivate, EntryHost
  <2>2. table[m][p].host \in Hosts /\ table[m][p].host # NoHost
    BY <1>a, CowEntry, AddressSpaceAssumption
  <2>3. content[table[m][p].host] = priv[m][p]
    BY <1>a, <1>b, <2>1, <2>2 DEF AllHeld, Held
  <2>4. CASE p \in Copied(m)
    <3>1. ClonedContent(table[m][p].host) = content[table[m][p].host]
      BY <1>a, <2>2 DEF ClonedContent, AllHeld, ZeroHeld
    <3> QED
      BY <1>b, <1>1, <2>3, <2>4, <3>1 DEF Held
  <2>5. CASE p \notin Copied(m)
    <3>1. table[m][p].host \in Hosts \ FreeHosts
      BY <1>a, <1>b, <2>1, <2>2, ShownHost
    <3> QED
      BY <1>b, <1>1, <2>3, <2>5, <3>1 DEF Held
  <2> QED
    BY <2>4, <2>5
<1>4. ZeroHeld'
  BY <1>a, <1>b, <1>1, FreeHidden DEF AllHeld, ZeroHeld, TypeOK
<1> QED
  BY <1>b, <1>2, <1>3, <1>4 DEF AllHeld

\* A private object holds what was faulted in.
LEMMA FaultInHeld ==
    ASSUME Isolation, NEW s \in Slots, NEW v \in Vals, FaultIn(s, v)
    PROVE  AllHeld'
<1>a. TypeOK /\ AllHeld
  BY DEF Isolation, Sharing, Typed
<1>b. live' = live /\ table' = table /\ zeroPage' = zeroPage
  BY DEF FaultIn
<1>1. PICK h \in FreeHosts :
         /\ \A m \in live, p \in Pages :
               EntryHost(table[m][p])' =
                  IF table[m][p].kind = "Object" /\ table[m][p].slot = s THEN h
                  ELSE EntryHost(table[m][p])
         /\ content' = [content EXCEPT ![h] = v]
  BY <1>a, FaultInViews
<1>2. h \in Hosts /\ content'[h] = v /\ \A g \in Hosts \ FreeHosts : content'[g] = content[g]
  BY <1>a, <1>1 DEF TypeOK, FreeHosts
<1>3. ASSUME NEW m \in live, NEW p \in Pages
      PROVE  Held(m, p)'
  <2>1. table[m][p] \in EntryType
    BY <1>a DEF TypeOK
  <2>2. priv'[m][p] = IF table[m][p].slot = s /\ ~table[m][p].flag THEN v ELSE priv[m][p]
    BY <1>a DEF FaultIn, TypeOK
  <2>3. CASE table[m][p].kind = "Object" /\ table[m][p].slot = s
    BY <1>b, <1>1, <1>2, <2>2, <2>3 DEF Held, IsPrivate, Unshared
  <2>4. CASE ~(table[m][p].kind = "Object" /\ table[m][p].slot = s)
    <3>1. table[m][p].slot # s
      BY <2>1, <2>4, EntryOfKind, UnmappedEntry, AddressSpaceAssumption
    <3>2. SameView(m, p) /\ priv'[m][p] = priv[m][p]
      BY <1>b, <1>1, <2>2, <3>1 DEF SameView
    <3> QED
      BY <1>a, <1>2, <3>2, ShownHost, StillHeld
  <2> QED
    BY <2>3, <2>4
<1>4. ZeroHeld'
  BY <1>a, <1>b, <1>2, FreeHidden DEF AllHeld, ZeroHeld, TypeOK
<1> QED
  BY <1>b, <1>3, <1>4 DEF AllHeld

\* The child holds what the parent does.
LEMMA ForkHeld ==
    ASSUME Isolation, NEW m \in Mmus, NEW n \in Mmus, Fork(m, n)
    PROVE  AllHeld'
<1>a. TypeOK /\ AllHeld
  BY DEF Isolation, Sharing, Typed
<1>b. /\ m \in live /\ n \notin live /\ live' = live \cup {n}
      /\ zeroPage' = zeroPage /\ content' = content
  BY DEF Fork
<1>c. priv'[n] = priv[m] /\ \A l \in live : priv'[l] = priv[l]
  BY <1>a DEF Fork, TypeOK
<1>1. PICK f : ForkViews(m, n, f)
  BY <1>a, ForkViewed
<1>2. ASSUME NEW l \in live, NEW p \in Pages
      PROVE  Held(l, p)'
  <2>1. Forked(table'[l][p], EntryHost(table[l][p])', table[l][p])
    BY <1>1 DEF ForkViews
  <2>2. IsPrivate(table'[l][p]) => IsPrivate(table[l][p])
    BY <2>1 DEF Forked, IsPrivate, Unshared
  <2> QED
    BY <1>a, <1>b, <1>c, <2>1, <2>2 DEF AllHeld, Held, Forked
<1>3. ASSUME NEW p \in Pages
      PROVE  Held(n, p)'
  <2>1. CASE NeedsSlot(table[m][p])
    <3>1. EntryHost(table[n][p])' = NoHost
      BY <1>1, <2>1 DEF ForkViews
    <3> QED
      BY <3>1 DEF Held
  <2>2. CASE ~NeedsSlot(table[m][p])
    <3>1. table'[n][p] = table'[m][p]
      BY <1>1, <2>2 DEF ForkViews
    <3>2. priv'[n][p] = priv'[m][p]
      BY <1>b, <1>c
    <3>3. Held(m, p)'
      BY <1>b, <1>2
    <3> QED
      BY <3>1, <3>2, <3>3 DEF Held
  <2> QED
    BY <2>1, <2>2
<1>4. ZeroHeld'
  BY <1>a, <1>b DEF AllHeld, ZeroHeld
<1> QED
  BY <1>b, <1>2, <1>3, <1>4 DEF AllHeld

\* A store that looks for COW, at the page that is mapped, changes no other
\* private mapping.
LEMMA StoreHeld ==
    ASSUME Isolation, NEW c \in Cpus, NEW m \in Mmus, NEW p \in Pages, NEW v \in Vals,
           NEW op \in {"bulk", "force"}, NEW cache, Store(c, m, p, v, op, cache),
           Lookup(c, m, p, cache) = as_page(table[m][p])
    PROVE  AllHeld'
<1>a. TypeOK /\ Sharing /\ AllHeld
  BY DEF Isolation, Sharing, Typed
<1>b. /\ m \in live /\ as_page(table[m][p]) # NoPage
      /\ UNCHANGED <<live, table, slotPage, zeroPage>>
  BY DEF Store
<1> DEFINE e == table[m][p]
           h == EntryHost(e)
<1>1. e \in EntryType
  BY <1>a DEF TypeOK
<1>2. h \in Hosts /\ h # NoHost /\ as_page(e) = [host |-> h, flags |-> EntryFlags(e)]
  BY <1>a, <1>b, <1>1, PageFound, AddressSpaceAssumption
<1>3. ~(e.kind = "Private" /\ e.flag)
  <2>1. "COW" \notin EntryFlags(e)
    BY <1>2 DEF Store, StoreAllowed
  <2> QED
    BY <2>1 DEF EntryFlags
<1> DEFINE views == OtherViews(h)
<1>4. /\ content'[h] = v /\ \A g \in views : content'[g] = v
      /\ \A g \in Hosts : g # h /\ g \notin views => content'[g] = content[g]
  BY <1>a, <1>2 DEF Store, TypeOK, OtherViews
<1>5. /\ IsPrivate(e) => priv'[m][p] = v
      /\ \A n \in live, q \in Pages : EntryHost(table[n][q]) \in views => priv'[n][q] = v
      /\ \A n \in live, q \in Pages :
            (m # n \/ p # q) /\ EntryHost(table[n][q]) \notin views
               => priv'[n][q] = priv[n][q]
  <2>1. Lookup(c, m, p, cache).host = h
    BY <1>2
  <2>2. priv' = [n \in Mmus |-> [q \in Pages |->
                   IF \/ n = m /\ q = p /\ IsPrivate(table[m][p])
                      \/ n \in live /\ EntryHost(table[n][q]) \in views
                   THEN v ELSE priv[n][q]]]
    BY <2>1 DEF Store
  <2>3. live \subseteq Mmus
    BY <1>a DEF TypeOK
  <2> HIDE DEF views
  <2> QED
    BY <1>b, <2>2, <2>3
<1> HIDE DEF views
<1>6. ASSUME NEW n \in live, NEW q \in Pages
      PROVE  Held(n, q)'
  <2>1. SameView(n, q)
    BY <1>a, <1>b, ViewKept
  <2>2. CASE n = m /\ q = p
    BY <1>b, <1>4, <1>5, <2>1, <2>2 DEF Held, SameView
  <2>3. CASE (m # n \/ p # q) /\ EntryHost(table[n][q]) # h
    <3>1. CASE EntryHost(table[n][q]) \in views
      BY <1>4, <1>5, <2>1, <3>1 DEF Held, SameView
    <3>2. CASE EntryHost(table[n][q]) \notin views
      <4>1. EntryHost(table[n][q]) # NoHost => EntryHost(table[n][q]) \in Hosts
        BY <1>a, ShownHost
      <4>2. EntryHost(table[n][q]) # NoHost =>
               content'[EntryHost(table[n][q])] = content[EntryHost(table[n][q])]
        BY <1>4, <2>3, <3>2, <4>1
      <4> QED
        BY <1>a, <1>5, <2>1, <2>3, <3>2, <4>2, StillHeld
    <3> QED
      BY <3>1, <3>2
  <2>4. CASE (m # n \/ p # q) /\ EntryHost(table[n][q]) = h
    <3>1. Compatible(e, table[n][q])
      BY <1>a, <1>b, <2>4 DEF Sharing, MappingsCompatible
    <3>2. ~IsPrivate(table[n][q])
      BY <1>2, <1>3, <2>4, <3>1 DEF Compatible, IsPrivate, Unshared
    <3> QED
      BY <1>b, <3>2 DEF Held, IsPrivate, Unshared
  <2> QED
    BY <2>2, <2>3, <2>4
<1>7. ZeroHeld'
  <2>1. zeroPage # h
    BY <1>a, <1>b, <1>2, <1>3 DEF Sharing, ZeroPageCow, ZeroShown
  <2>2. zeroPage # NoHost => zeroPage \in Hosts /\ zeroPage \notin views
    BY <1>a DEF AllHeld, ZeroHeld, TypeOK, OtherViews, views
  <2> QED
    BY <1>a, <1>b, <1>4, <2>1, <2>2 DEF AllHeld, ZeroHeld
<1> QED
  BY <1>b, <1>6, <1>7 DEF AllHeld

LEMMA IsolationNext ==
    ASSUME Isolation, "tlb" \in Caches => TlbFaithful, StoreOps \subseteq {"bulk", "force"},
           [Next]_vars
    PROVE  Isolation'
<1>a. TypeOK /\ Sharing
  BY DEF Isolation, Sharing, Typed
<1>b. Sharing'
  BY <1>a, SharingNext
<1>c. \A ps \in Ranges : ps \in SUBSET Pages
  BY DEF Ranges
<1>1. CASE \E m \in Mmus : New(m) \/ Drop(m) \/ CopyAllCow(m)
  <2>1. CASE \E m \in Mmus : New(m) \/ CopyAllCow(m)
    BY <1>a, <1>b, <2>1, NewRemoves, RemovedHeld, CopyAllCowHeld DEF Isolation, New
  <2>2. CASE \E m \in Mmus : Drop(m)
    <3>1. PICK m \in Mmus : Drop(m)
      BY <2>2
    <3>2. \A n \in live', p \in Pages : priv'[n][p] = priv[n][p]
      BY <1>a, <3>1 DEF Drop, TypeOK
    <3>3. content' = content /\ Removes
      BY <1>a, <3>1, DropRemoves DEF Drop
    <3> QED
      BY <1>b, <3>2, <3>3, RemovedHeld DEF Isolation
  <2> QED
    BY <1>1, <2>1, <2>2
<1>2. CASE \E m \in Mmus, ps \in Ranges :
             \/ Unmap(m, ps)
             \/ \E q \in Prots : Protect(m, ps, q) \/ \E k \in Kinds : Map(m, ps, k, q)
  <2>1. CASE \E m \in Mmus, ps \in Ranges, q \in Prots :
               Protect(m, ps, q) \/ \E k \in Kinds : Map(m, ps, k, q)
    BY <1>a, <1>b, <1>c, <2>1, ProtectRemoves, RemovedHeld, MapHeld DEF Isolation, Protect
  <2>2. CASE \E m \in Mmus, ps \in Ranges : Unmap(m, ps)
    <3>1. PICK m \in Mmus, ps \in Ranges : Unmap(m, ps)
      BY <2>2
    <3>2. \A n \in live', p \in Pages :
             table'[n][p] = Unmapped \/ priv'[n][p] = priv[n][p]
      BY <1>a, <3>1 DEF Unmap, TypeOK
    <3>3. content' = content /\ Removes
      BY <1>a, <1>c, <3>1, UnmapRemoves DEF Unmap
    <3> QED
      BY <1>b, <3>2, <3>3, RemovedHeld DEF Isolation
  <2> QED
    BY <1>2, <2>1, <2>2
<1>3. CASE \E m, n \in Mmus : Fork(m, n)
  BY <1>b, <1>3, ForkHeld DEF Isolation
<1>4. CASE \E s \in Slots, v \in Vals : FaultIn(s, v)
  BY <1>b, <1>4, FaultInHeld DEF Isolation
<1>5. CASE \E c \in Cpus, m \in Mmus, p \in Pages, cache \in Caches : Load(c, m, p, cache)
  BY <1>a, <1>b, <1>5, NothingRemoves, RemovedHeld DEF Isolation, Load
<1>6. ASSUME NEW c \in Cpus, NEW m \in Mmus, NEW p \in Pages, NEW cache \in Caches,
             NEW v \in Vals, NEW op \in StoreOps, Store(c, m, p, v, op, cache)
      PROVE  Isolation'
  <2>1. Lookup(c, m, p, cache) = as_page(table[m][p])
    BY <1>6 DEF TlbFaithful, Lookup, Store
  <2> QED
    BY <1>b, <1>6, <2>1, StoreHeld DEF Isolation
<1>7. CASE UNCHANGED vars
  BY <1>a, <1>b, <1>7, NothingRemoves, RemovedHeld DEF Isolation, vars
<1> QED
  BY <1>1, <1>2, <1>3, <1>4, <1>5, <1>6, <1>7 DEF Next

\* Private memory is private, across fork, copy-on-write, the reuse of host pages
\* and external memory that several calls of map_extern name, as long as stores look for COW (as store and store_force do, and
\* store_byte, storeN_le and strex do not) and no address space is forked while a
\* TLB may hold its entries.
THEOREM PrivateMemoryIsolated ==
    ASSUME StoreOps \subseteq {"bulk", "force"}, ~Forking \/ "tlb" \notin Caches
    PROVE  Spec => []PrivateIsolated
<1>1. Init => Isolation
  BY SharingInit DEF Init, Isolation, AllHeld, ZeroHeld
<1>2. Isolation => PrivateIsolated
  BY FoundShown DEF Isolation, Sharing, Typed, TypeOK, AllHeld, Held,
     PrivateIsolated
<1>3. Isolation /\ ("tlb" \in Caches => TlbFaithful) /\ [Next]_vars => Isolation'
  BY IsolationNext
<1>4. Spec => []("tlb" \in Caches => TlbFaithful)
  <2>1. CASE "tlb" \in Caches
    <3>1. Spec => []TlbFaithful
      BY <2>1, TlbAlwaysFaithful
    <3> QED
      BY <3>1, PTL
  <2>2. CASE "tlb" \notin Caches
    <3>1. "tlb" \in Caches => TlbFaithful
      BY <2>2
    <3> QED
      BY <3>1, PTL
  <2> QED
    BY <2>1, <2>2
<1> QED
  BY <1>1, <1>2, <1>3, <1>4, PTL DEF Spec

=============================================================================
